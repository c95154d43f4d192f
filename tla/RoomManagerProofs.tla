-------------------------- MODULE RoomManagerProofs --------------------------
(***************************************************************************)
(* Theorems about RoomManager for every set of users, connections and room *)
(* names, every team size and every bound on the match ids: that a match   *)
(* is rewarded once; then who sits where and has which session, what a     *)
(* claim covers, and that the rooms implement MatchReward.                 *)
(***************************************************************************)
EXTENDS RoomManager, FiniteSetTheorems, TLAPS

USE RoomManagerAssumption

\* A name without a room is represented by a value of the type of rooms.
LEMMA NoRoomType == NoRoom \in Room
  BY DEF NoRoom, Room

\* A task whose op is known has the fields of its kind.
LEMMA TaskFields ==
  ASSUME NEW t \in Task
  PROVE  /\ t.op \in {"clear", "erase"} => t.user \in Users
         /\ t.op = "start" => t.name \in RoomNames /\ t.coop \in BOOLEAN
         /\ t.op \in Paying =>
              /\ t \in [op : Paying, name : RoomNames, room : Room,
                        dead : SUBSET Users, died : Users,
                        winner : Names \union Teams \union {"None"}]
  BY DEF Task, Idle, Paying

\* Each way a handler rewrites a room gives a room, and a room that only gains
\* or loses a member or changes a team keeps its mode and its match.
LEMMA RoomUpdates ==
  ASSUME NEW R \in Room, NEW u \in Users
  PROVE  /\ \A keep \in BOOLEAN : /\ Without(R, u, keep) \in Room
                                /\ Without(R, u, keep).inGame = R.inGame
                                /\ Without(R, u, keep).matchId = R.matchId
         /\ \A t \in Teams \union {"None"} :
              /\ With(R, u, t) \in Room
              /\ With(R, u, t).inGame = R.inGame
              /\ With(R, u, t).matchId = R.matchId
              /\ OnTeam(R, u, t) \in Room
              /\ OnTeam(R, u, t).inGame = R.inGame
              /\ OnTeam(R, u, t).matchId = R.matchId
  <1>1. ASSUME NEW keep \in BOOLEAN
        PROVE  /\ Without(R, u, keep) \in Room
               /\ Without(R, u, keep).inGame = R.inGame
               /\ Without(R, u, keep).matchId = R.matchId
    BY DEF Room, Without
  <1>2. ASSUME NEW t \in Teams \union {"None"}
        PROVE  /\ With(R, u, t) \in Room
               /\ With(R, u, t).inGame = R.inGame
               /\ With(R, u, t).matchId = R.matchId
    BY DEF Room, With
  <1>3. ASSUME NEW t \in Teams \union {"None"}
        PROVE  /\ OnTeam(R, u, t) \in Room
               /\ OnTeam(R, u, t).inGame = R.inGame
               /\ OnTeam(R, u, t).matchId = R.matchId
    BY DEF Room, OnTeam
  <1>4. QED BY <1>1, <1>2, <1>3

\* The two ends of a match keep a room a room and set the flag and the id.
LEMMA MatchUpdates ==
  ASSUME NEW R \in Room, NEW m \in 0 .. MaxMatches
  PROVE  /\ InMatch(R, m) \in Room
         /\ InMatch(R, m).inGame
         /\ InMatch(R, m).matchId = m
         /\ Waiting(R) \in Room
         /\ ~Waiting(R).inGame
  <1>1. InMatch(R, m) \in Room /\ InMatch(R, m).inGame /\ InMatch(R, m).matchId = m
    BY DEF Room, InMatch
  <1>2. Waiting(R) \in Room /\ ~Waiting(R).inGame
    BY DEF Room, Waiting
  <1>3. QED BY <1>1, <1>2

\* CREATE_ROOM makes a room that waits.
LEMMA NewRoom ==
  ASSUME NEW u \in Users, NEW coop \in BOOLEAN
  PROVE  LET R == With([NoRoom EXCEPT !.coop = coop], u, IF coop THEN "Blue" ELSE "None")
         IN  R \in Room /\ ~R.inGame
  <1> DEFINE B == [NoRoom EXCEPT !.coop = coop]
             t == IF coop THEN "Blue" ELSE "None"
  <1>1. B \in Room /\ ~B.inGame
    BY NoRoomType DEF NoRoom, Room
  <1>2. t \in Teams \union {"None"}
    BY DEF Teams
  <1>3. With(B, u, t) \in Room /\ With(B, u, t).inGame = B.inGame
    <2> HIDE DEF B, t
    <2> QED BY <1>1, <1>2, RoomUpdates
  <1>4. QED BY <1>1, <1>3

\* Taking a member out of a room keeps the types.
LEMMA RemoveMemberType ==
  ASSUME TypeOK, NEW r \in RoomNames, NEW u \in Users, NEW keep \in BOOLEAN,
         RemoveMember(r, u, keep)
  PROVE  /\ rooms' \in [RoomNames -> Room]
         /\ dead' \in [RoomNames -> SUBSET Users]
         /\ ready' \in [RoomNames -> SUBSET Users]
         /\ resolved' \subseteq RoomNames
  <1>1. CASE rooms[r].users = {u}
    BY <1>1, NoRoomType DEF RemoveMember, ForgetMatch, TypeOK
  <1>2. CASE rooms[r].users # {u}
    <2>1. rooms' = [rooms EXCEPT ![r] = Without(rooms[r], u, keep)]
      BY <1>2 DEF RemoveMember, ForgetMatch
    <2>2. rooms' \in [RoomNames -> Room]
      BY <2>1, RoomUpdates DEF TypeOK
    <2>3. QED BY <1>2, <2>2 DEF RemoveMember, ForgetMatch, TypeOK
  <1>3. QED BY <1>1, <1>2

\* Every step of a connection keeps the types.
LEMMA TypeStep ==
  ASSUME TypeOK, NEW c \in Conns, SessionStep(c) \/ RoomStep(c) \/ Continue(c)
  PROVE  TypeOK'
  <1>0. task[c] \in Task /\ Idle \in Task
    BY DEF TypeOK, Task
  <1>1. ASSUME NEW u \in Users, Login(c, u) PROVE TypeOK'
    BY <1>1 DEF Login, TypeOK, matchVars
  <1>2. CASE ForceExit(c)
    <2> DEFINE u == clientId[c]
    <2>1. u \in Users
      BY <1>2 DEF ForceExit, TypeOK
    <2>2. /\ rooms' \in [RoomNames -> Room]
          /\ dead' \in [RoomNames -> SUBSET Users]
          /\ ready' \in [RoomNames -> SUBSET Users]
          /\ resolved' \subseteq RoomNames
      <3>1. CASE ~InRoom(u) /\ UNCHANGED <<rooms, dead, ready, resolved>>
        BY <3>1 DEF TypeOK
      <3>2. ASSUME NEW r \in RoomNames, RemoveMember(r, u, FALSE)
            PROVE  /\ rooms' \in [RoomNames -> Room]
                   /\ dead' \in [RoomNames -> SUBSET Users]
                   /\ ready' \in [RoomNames -> SUBSET Users]
                   /\ resolved' \subseteq RoomNames
        BY <2>1, <3>2, RemoveMemberType
      <3>3. QED BY <1>2, <3>1, <3>2 DEF ForceExit
    <2>3. [op |-> "clear", user |-> u] \in Task
      BY <2>1 DEF Task
    <2>4. QED BY <1>2, <2>2, <2>3 DEF ForceExit, TypeOK, Goto, sessionVars
  <1>3. CASE ClearId(c)
    <2>1. [op |-> "erase", user |-> task[c].user] \in Task
      BY <1>0, <1>3, TaskFields DEF ClearId, Task
    <2>2. QED BY <1>3, <2>1 DEF ClearId, TypeOK, Goto, matchVars
  <1>4. CASE EraseSession(c)
    BY <1>0, <1>4 DEF EraseSession, TypeOK, Goto, matchVars
  <1>5. ASSUME NEW r \in RoomNames, NEW coop \in BOOLEAN, CreateRoom(c, r, coop)
        PROVE  TypeOK'
    <2>1. clientId[c] \in Users
      BY <1>5 DEF CreateRoom, TypeOK
    <2>2. rooms' \in [RoomNames -> Room]
      BY <1>5, <2>1, NewRoom DEF CreateRoom, TypeOK
    <2>3. QED BY <1>5, <2>2 DEF CreateRoom, TypeOK, sessionVars, matchVars
  <1>6. ASSUME NEW r \in RoomNames, EnterRoom(c, r) PROVE TypeOK'
    <2> DEFINE u == clientId[c]
               t == CASE ~rooms[r].coop                   -> rooms[r].team[u]
                      [] Cardinality(Members(r)) % 2 = 0  -> "Blue"
                      [] OTHER                            -> "Red"
    <2>1. u \in Users /\ rooms[r] \in Room
      BY <1>6 DEF EnterRoom, HasSeat, TypeOK
    <2>2. t \in Teams \union {"None"}
      BY <2>1 DEF Teams, Room
    <2>3. rooms' = [rooms EXCEPT ![r] = With(rooms[r], u, t)]
      BY <1>6 DEF EnterRoom, HasSeat
    <2>4. rooms' \in [RoomNames -> Room]
      <3> HIDE DEF t, u
      <3> QED BY <2>1, <2>2, <2>3, RoomUpdates DEF TypeOK
    <2>5. QED BY <1>6, <2>4 DEF EnterRoom, HasSeat, TypeOK, sessionVars, matchVars
  <1>7. ASSUME NEW r \in RoomNames, NEW u \in Users, ExitRoom(c, r, u) PROVE TypeOK'
    BY <1>7, RemoveMemberType DEF ExitRoom, TypeOK, sessionVars
  <1>8. ASSUME NEW r \in RoomNames, NEW u \in Users, ChangeTeam(c, r, u) PROVE TypeOK'
    <2> DEFINE t == IF rooms[r].team[u] = "Blue" THEN "Red" ELSE "Blue"
    <2>1. t \in Teams \union {"None"} /\ rooms[r] \in Room
      BY DEF Teams, TypeOK
    <2>2. rooms' = [rooms EXCEPT ![r] = OnTeam(rooms[r], u, t)]
      BY <1>8 DEF ChangeTeam
    <2>3. rooms' \in [RoomNames -> Room]
      <3> HIDE DEF t
      <3> QED BY <2>1, <2>2, RoomUpdates DEF TypeOK
    <2>4. QED BY <1>8, <2>3 DEF ChangeTeam, TypeOK, sessionVars, matchVars
  <1>9. ASSUME NEW r \in RoomNames, LookUpRoom(c, r) PROVE TypeOK'
    <2>1. [op |-> "start", name |-> r, coop |-> rooms[r].coop] \in Task
      BY DEF Task, TypeOK, Room
    <2>2. QED BY <1>9, <2>1 DEF LookUpRoom, TypeOK, Goto, sessionVars, matchVars
  <1>10. CASE TryStartGame(c)
    <2> DEFINE r == task[c].name
    <2>1. r \in RoomNames
      BY <1>0, <1>10, TaskFields DEF TryStartGame
    <2>2. CASE nextMatchId < MaxMatches /\ StartMatch(r)
      <3>1. nextMatchId' \in 0 .. MaxMatches /\ nextMatchId + 1 \in 0 .. MaxMatches
        BY <2>2 DEF StartMatch, ForgetMatch, TypeOK
      <3>2. rooms' = [rooms EXCEPT ![r] = InMatch(rooms[r], nextMatchId + 1)]
        BY <2>2 DEF StartMatch, ForgetMatch
      <3>3. rooms' \in [RoomNames -> Room]
        BY <2>1, <3>1, <3>2, MatchUpdates DEF TypeOK
      <3>4. QED BY <1>0, <1>10, <2>1, <2>2, <3>1, <3>3
              DEF TryStartGame, StartMatch, ForgetMatch, TypeOK, Goto, sessionVars
    <2>3. CASE UNCHANGED <<rooms, matchVars>>
      BY <1>0, <1>10, <2>3 DEF TryStartGame, TypeOK, Goto, sessionVars, matchVars
    <2>4. QED BY <1>10, <2>2, <2>3 DEF TryStartGame
  <1>11. ASSUME NEW r \in RoomNames, NEW u \in Users, RecordDeath(c, r, u) PROVE TypeOK'
    <2> DEFINE fallen == dead[r] \union {u}
               t == [op |-> "name", name |-> r, room |-> rooms[r],
                     dead |-> fallen, died |-> u, winner |-> "None"]
    <2>1. fallen \in SUBSET Users /\ rooms[r] \in Room
      BY DEF TypeOK
    <2>2. t \in Task
      BY <2>1 DEF Task
    <2>3. CASE /\ resolved' = resolved \union {r}
               /\ Goto(c, t)
      <3> HIDE DEF t, fallen
      <3>1. dead' \in [RoomNames -> SUBSET Users] /\ task' \in [Conns -> Task]
        BY <1>11, <2>1, <2>2, <2>3 DEF RecordDeath, MayDie, TypeOK, Goto, fallen
      <3>2. QED BY <1>11, <2>3, <3>1 DEF RecordDeath, MayDie, TypeOK, sessionVars
    <2>4. CASE UNCHANGED <<resolved, task>>
      BY <1>11, <2>1, <2>4 DEF RecordDeath, MayDie, TypeOK, sessionVars
    <2>5. QED BY <1>11, <2>3, <2>4 DEF RecordDeath, MayDie
  <1>12. CASE NameWinner(c)
    <2>1. /\ task[c] \in [op : Paying, name : RoomNames, room : Room,
                           dead : SUBSET Users, died : Users,
                           winner : Names \union Teams \union {"None"}]
      BY <1>0, <1>12, TaskFields DEF NameWinner, Paying
    <2>2. PICK u \in task[c].room.users \ task[c].dead :
             Goto(c, [task[c] EXCEPT !.op = "pay",
                  !.winner = IF task[c].room.coop THEN task[c].room.team[u]
                                                  ELSE Nickname(u)])
      BY <1>12 DEF NameWinner
    <2> DEFINE w == IF task[c].room.coop THEN task[c].room.team[u] ELSE Nickname(u)
    <2>3. w \in Names \union Teams \union {"None"}
      BY <2>1 DEF Room, Nickname, Names
    <2>4. [task[c] EXCEPT !.op = "pay", !.winner = w] \in Task
      <3> HIDE DEF w
      <3> QED BY <2>1, <2>3 DEF Task, Paying
    <2>5. QED BY <1>12, <2>2, <2>4 DEF NameWinner, TypeOK, Goto, sessionVars, matchVars
  <1>13. CASE PayRewards(c)
    <2> DEFINE m == task[c].room.matchId
               w == Winners(task[c])
    <2>1. /\ task[c] \in [op : Paying, name : RoomNames, room : Room,
                           dead : SUBSET Users, died : Users,
                           winner : Names \union Teams \union {"None"}]
      BY <1>0, <1>13, TaskFields DEF PayRewards, Paying
    <2>2. w \in SUBSET Users
      BY <2>1 DEF Winners, Room
    <2>3. [task[c] EXCEPT !.op = "retry"] \in Task
      BY <2>1 DEF Task, Paying
    <2>4. CASE ledger' = [ledger EXCEPT ![m] = [times |-> @.times + 1, winners |-> w]]
      <3>1. ledger' \in [Matches -> [times : Nat, winners : SUBSET Users]]
        <4> HIDE DEF w, m
        <4>1. CASE m \in Matches
          <5>1. ledger[m].times + 1 \in Nat
            BY <4>1 DEF TypeOK
          <5>2. QED BY <2>2, <2>4, <5>1 DEF TypeOK
        <4>2. CASE m \notin Matches
          BY <2>4, <4>2 DEF TypeOK
        <4>3. QED BY <4>1, <4>2
      <3>2. task' \in [Conns -> Task]
        BY <1>0, <1>13, <2>3 DEF PayRewards, TypeOK, Goto
      <3>3. QED BY <1>13, <3>1, <3>2 DEF PayRewards, TypeOK, sessionVars, matchVars
    <2>5. CASE UNCHANGED ledger
      <3>1. task' \in [Conns -> Task]
        BY <1>0, <1>13, <2>3 DEF PayRewards, TypeOK, Goto
      <3>2. QED BY <1>13, <2>5, <3>1 DEF PayRewards, TypeOK, sessionVars, matchVars
    <2>6. QED BY <1>13, <2>4, <2>5 DEF PayRewards
  <1>14. CASE RetryDeath(c)
    BY <1>0, <1>14 DEF RetryDeath, TypeOK, Goto, sessionVars
  <1>15. ASSUME NEW r \in RoomNames, NEW u \in Users, HandleReadyToExit(c, r, u)
         PROVE  TypeOK'
    <2>1. rooms' \in [RoomNames -> Room]
      <3>1. CASE rooms' = [rooms EXCEPT ![r] = Waiting(rooms[r])]
        BY <3>1, MatchUpdates DEF TypeOK
      <3>2. CASE rooms' = rooms
        BY <3>2 DEF TypeOK
      <3>3. QED BY <1>15, <3>1, <3>2 DEF HandleReadyToExit, ForgetMatch
    <2>2. QED BY <1>15, <2>1 DEF HandleReadyToExit, ForgetMatch, TypeOK, sessionVars
  <1>16. QED
    BY <1>1, <1>2, <1>3, <1>4, <1>5, <1>6, <1>7, <1>8, <1>9, <1>10, <1>11, <1>12,
       <1>13, <1>14, <1>15 DEF SessionStep, RoomStep, Continue

\* The types hold in every reachable state, whatever the constants are.
THEOREM TypeCorrect == Spec => []TypeOK
  <1>1. Init => TypeOK
    BY NoRoomType DEF Init, TypeOK, Task, Matches
  <1>2. TypeOK /\ [Next]_vars => TypeOK'
    <2> SUFFICES ASSUME TypeOK, [Next]_vars PROVE TypeOK'
      OBVIOUS
    <2>1. CASE Next
      BY <2>1, TypeStep DEF Next
    <2>2. CASE UNCHANGED vars
      BY <2>2 DEF vars, TypeOK
    <2>3. QED BY <2>1, <2>2
  <1>3. QED BY <1>1, <1>2, PTL DEF Spec

-----------------------------------------------------------------------------
(* One reward per match *)

RewardCore == OneRewardPerMatch /\ MatchIdsIssued /\ ClaimsAreResolved /\ PaidAreResolved

\* What most steps do to claims and matches: nothing is claimed or paid, no
\* match begins, and a room that goes on playing stays resolved.
Quiet ==
  /\ ledger' = ledger
  /\ nextMatchId' = nextMatchId
  /\ \A d \in Conns : task'[d].op \in Paying =>
        /\ task[d].op \in Paying
        /\ task'[d].room = task[d].room
        /\ task'[d].name = task[d].name
  /\ \A r \in RoomNames : rooms'[r].inGame =>
        /\ rooms[r].inGame
        /\ rooms'[r].matchId = rooms[r].matchId
        /\ r \in resolved => r \in resolved'

\* A quiet step keeps the reward invariant.
LEMMA QuietStep ==
  ASSUME RewardCore, Quiet
  PROVE  RewardCore'
  <1>1. OneRewardPerMatch'
    BY DEF RewardCore, Quiet, OneRewardPerMatch, Claims
  <1>2. MatchIdsIssued'
    BY DEF RewardCore, Quiet, MatchIdsIssued, Playing
  <1>3. ClaimsAreResolved'
    BY DEF RewardCore, Quiet, ClaimsAreResolved, Playing
  <1>4. PaidAreResolved'
    BY DEF RewardCore, Quiet, PaidAreResolved, Playing
  <1>5. QED BY <1>1, <1>2, <1>3, <1>4 DEF RewardCore

\* A match that starts has an id nobody has claimed or been paid for.
LEMMA StartStep ==
  ASSUME TypeOK, RewardCore, NEW c \in Conns, NEW r \in RoomNames,
         ~rooms[r].inGame, nextMatchId < MaxMatches, StartMatch(r),
         task' = [task EXCEPT ![c] = Idle], UNCHANGED ledger
  PROVE  RewardCore'
  <1> DEFINE m == nextMatchId + 1
  <1>1. /\ m \in 0 .. MaxMatches
        /\ nextMatchId' = m
        /\ nextMatchId \in Nat
    BY DEF StartMatch, ForgetMatch, TypeOK
  <1>2. /\ rooms'[r].inGame /\ rooms'[r].matchId = m
        /\ \A s \in RoomNames : s # r => rooms'[s] = rooms[s]
    BY <1>1, MatchUpdates DEF StartMatch, ForgetMatch, TypeOK
  <1>3. \A d \in Conns : task'[d].op \in Paying => task'[d] = task[d]
    BY DEF TypeOK, Idle, Paying
  <1>4. \A s \in RoomNames : s # r => (s \in resolved <=> s \in resolved')
    BY DEF StartMatch, ForgetMatch
  <1>5. OneRewardPerMatch'
    BY <1>3 DEF RewardCore, OneRewardPerMatch, Claims
  <1>6. MatchIdsIssued'
    BY <1>1, <1>2 DEF RewardCore, MatchIdsIssued, Playing
  <1>7. ClaimsAreResolved'
    BY <1>1, <1>2, <1>3, <1>4 DEF RewardCore, ClaimsAreResolved, Playing
  <1>8. PaidAreResolved'
    BY <1>1, <1>2, <1>4 DEF RewardCore, PaidAreResolved, Playing, Matches
  <1>9. QED BY <1>5, <1>6, <1>7, <1>8 DEF RewardCore

\* The deciding death claims a match that is neither claimed nor paid.
LEMMA ClaimStep ==
  ASSUME TypeOK, RewardCore, NEW c \in Conns, NEW r \in RoomNames, NEW t \in Task,
         rooms[r].inGame, r \notin resolved,
         t.op = "name", t.name = r, t.room = rooms[r],
         task' = [task EXCEPT ![c] = t], resolved' = resolved \union {r},
         UNCHANGED <<rooms, nextMatchId, ledger>>
  PROVE  RewardCore'
  <1> DEFINE m == rooms[r].matchId
  <1>1. m \in 1 .. nextMatchId /\ m \in Matches
    BY DEF RewardCore, MatchIdsIssued, TypeOK, Matches
  <1>2. ledger[m].times = 0
    BY <1>1 DEF RewardCore, PaidAreResolved, Playing, TypeOK
  <1>3. \A d \in Conns : ~Claims(d, m)
    BY DEF RewardCore, ClaimsAreResolved, Playing, Claims
  <1>4. \A d \in Conns : d # c => task'[d] = task[d]
    BY DEF TypeOK
  <1>5. task'[c] = t /\ t.op \in Paying
    BY DEF TypeOK, Paying
  <1>6. OneRewardPerMatch'
    BY <1>2, <1>3, <1>4, <1>5 DEF RewardCore, OneRewardPerMatch, Claims
  <1>7. MatchIdsIssued'
    BY DEF RewardCore, MatchIdsIssued, Playing
  <1>8. ClaimsAreResolved'
    BY <1>1, <1>4, <1>5 DEF RewardCore, ClaimsAreResolved, MatchIdsIssued, Playing
  <1>9. PaidAreResolved'
    BY DEF RewardCore, PaidAreResolved, Playing
  <1>10. QED BY <1>6, <1>7, <1>8, <1>9 DEF RewardCore

\* A payment ends the only claim on a match that was not paid before.
LEMMA PayStep ==
  ASSUME TypeOK, RewardCore, NEW c \in Conns, task[c].op = "pay",
         NEW w \in SUBSET Users,
         ledger' = [ledger EXCEPT ![task[c].room.matchId] =
                      [times |-> @.times + 1, winners |-> w]],
         task' = [task EXCEPT ![c] = Idle],
         UNCHANGED <<rooms, resolved, nextMatchId>>
  PROVE  RewardCore'
  <1> DEFINE m == task[c].room.matchId
  <1>1. Claims(c, m)
    BY DEF Claims, Paying
  <1>2. m \in 1 .. nextMatchId /\ m \in Matches
    BY <1>1 DEF RewardCore, ClaimsAreResolved, Claims, TypeOK, Matches
  <1>3. ledger[m].times = 0 /\ \A d \in Conns : Claims(d, m) => d = c
    BY <1>1, <1>2 DEF RewardCore, OneRewardPerMatch
  <1>4. /\ ledger'[m].times = 1
        /\ \A n \in Matches : n # m => ledger'[n] = ledger[n]
    BY <1>2, <1>3 DEF TypeOK
  <1>5. \A d \in Conns : task'[d].op \in Paying => d # c /\ task'[d] = task[d]
    BY DEF TypeOK, Idle, Paying
  <1>6. OneRewardPerMatch'
    BY <1>3, <1>4, <1>5 DEF RewardCore, OneRewardPerMatch, Claims
  <1>7. MatchIdsIssued'
    BY DEF RewardCore, MatchIdsIssued, Playing
  <1>8. ClaimsAreResolved'
    BY <1>5 DEF RewardCore, ClaimsAreResolved, Playing
  <1>9. PaidAreResolved'
    <2>1. \A s \in RoomNames : Playing(s, m) => s \in resolved
      BY <1>1 DEF RewardCore, ClaimsAreResolved, Claims, Playing
    <2>2. QED BY <1>2, <1>4, <2>1 DEF RewardCore, PaidAreResolved, Playing, TypeOK
  <1>10. QED BY <1>6, <1>7, <1>8, <1>9 DEF RewardCore

\* Giving a claim back frees only the room that still plays its match, and no
\* other claim or payment stands on that match.
LEMMA ReleaseStep ==
  ASSUME TypeOK, RewardCore, NEW c \in Conns, RetryDeath(c),
         SameMatch(task[c].name, task[c].room)
  PROVE  RewardCore'
  <1> DEFINE r == task[c].name
             m == task[c].room.matchId
  <1>1. Claims(c, m)
    BY DEF RetryDeath, Claims, Paying
  <1>2. r \in RoomNames /\ m \in Matches
    BY <1>1, TaskFields DEF Claims, TypeOK, Matches, RewardCore, ClaimsAreResolved
  <1>3. ledger[m].times = 0 /\ \A d \in Conns : Claims(d, m) => d = c
    BY <1>1, <1>2 DEF RewardCore, OneRewardPerMatch
  <1>4. /\ \A d \in Conns : task'[d].op \in Paying => d # c /\ task'[d] = task[d]
        /\ resolved' = resolved \ {r}
        /\ UNCHANGED <<rooms, ledger, nextMatchId>>
    BY DEF RetryDeath, Goto, TypeOK, Idle, Paying
  <1>5. rooms[r].inGame /\ rooms[r].matchId = m
    BY DEF SameMatch
  <1>6. OneRewardPerMatch'
    BY <1>4 DEF RewardCore, OneRewardPerMatch, Claims
  <1>7. MatchIdsIssued'
    BY <1>4 DEF RewardCore, MatchIdsIssued, Playing
  <1>8. ClaimsAreResolved'
    BY <1>3, <1>4, <1>5 DEF RewardCore, ClaimsAreResolved, Playing, Claims
  <1>9. PaidAreResolved'
    BY <1>3, <1>4, <1>5 DEF RewardCore, PaidAreResolved, Playing
  <1>10. QED BY <1>6, <1>7, <1>8, <1>9 DEF RewardCore

\* Removing a member never makes a room play, and a room that plays on keeps
\* its claim.
LEMMA RemoveMemberQuiet ==
  ASSUME TypeOK, NEW r \in RoomNames, NEW u \in Users, NEW keep \in BOOLEAN,
         RemoveMember(r, u, keep), NEW s \in RoomNames, rooms'[s].inGame
  PROVE  /\ rooms[s].inGame
         /\ rooms'[s].matchId = rooms[s].matchId
         /\ s \in resolved => s \in resolved'
  <1>1. CASE rooms[r].users = {u}
    BY <1>1 DEF RemoveMember, ForgetMatch, TypeOK, NoRoom
  <1>2. CASE rooms[r].users # {u}
    <2>1. rooms' = [rooms EXCEPT ![r] = Without(rooms[r], u, keep)]
      BY <1>2 DEF RemoveMember, ForgetMatch
    <2>2. /\ Without(rooms[r], u, keep).inGame = rooms[r].inGame
          /\ Without(rooms[r], u, keep).matchId = rooms[r].matchId
      BY RoomUpdates DEF TypeOK
    <2>3. QED BY <1>2, <2>1, <2>2 DEF RemoveMember, ForgetMatch, TypeOK
  <1>3. QED BY <1>1, <1>2

\* Every step of a connection keeps RewardCore.
LEMMA RewardStep ==
  ASSUME TypeOK, RewardCore, NEW c \in Conns,
         SessionStep(c) \/ RoomStep(c) \/ Continue(c)
  PROVE  RewardCore'
  <1>0. /\ task[c] \in Task
        /\ Idle.op \notin Paying
        /\ \A d \in Conns : \A t : task' = [task EXCEPT ![c] = t]
              => task'[d] = IF d = c THEN t ELSE task[d]
    BY DEF TypeOK, Idle, Paying
  <1>1. ASSUME NEW u \in Users, Login(c, u) PROVE RewardCore'
    BY <1>1, QuietStep DEF Login, Quiet, matchVars
  <1>2. CASE ForceExit(c)
    <2> DEFINE u == clientId[c]
    <2>1. u \in Users
      BY <1>2 DEF ForceExit, TypeOK
    <2>2. \A s \in RoomNames : rooms'[s].inGame =>
            /\ rooms[s].inGame
            /\ rooms'[s].matchId = rooms[s].matchId
            /\ s \in resolved => s \in resolved'
      <3>1. CASE UNCHANGED <<rooms, dead, ready, resolved>>
        BY <3>1
      <3>2. ASSUME NEW r \in RoomNames, RemoveMember(r, u, FALSE),
                   NEW s \in RoomNames, rooms'[s].inGame
            PROVE  /\ rooms[s].inGame
                   /\ rooms'[s].matchId = rooms[s].matchId
                   /\ s \in resolved => s \in resolved'
        BY <2>1, <3>2, RemoveMemberQuiet
      <3>3. QED BY <1>2, <3>1, <3>2 DEF ForceExit
    <2>3. Quiet
      BY <1>0, <1>2, <2>2 DEF ForceExit, Quiet, Goto, Paying
    <2>4. QED BY <2>3, QuietStep
  <1>3. CASE ClearId(c)
    BY <1>0, <1>3, QuietStep DEF ClearId, Quiet, Goto, matchVars, Paying
  <1>4. CASE EraseSession(c)
    BY <1>0, <1>4, QuietStep DEF EraseSession, Quiet, Goto, matchVars
  <1>5. ASSUME NEW r \in RoomNames, NEW coop \in BOOLEAN, CreateRoom(c, r, coop)
        PROVE  RewardCore'
    <2> DEFINE R == With([NoRoom EXCEPT !.coop = coop], clientId[c],
                         IF coop THEN "Blue" ELSE "None")
    <2>1. clientId[c] \in Users
      BY <1>5 DEF CreateRoom, TypeOK
    <2>2. ~R.inGame
      BY <2>1, NewRoom
    <2>3. rooms' = [rooms EXCEPT ![r] = R]
      BY <1>5 DEF CreateRoom
    <2>4. Quiet
      <3> HIDE DEF R
      <3> QED BY <1>5, <2>2, <2>3 DEF CreateRoom, Quiet, matchVars, TypeOK
    <2>5. QED BY <2>4, QuietStep
  <1>6. ASSUME NEW r \in RoomNames, EnterRoom(c, r) PROVE RewardCore'
    <2> DEFINE u == clientId[c]
               t == CASE ~rooms[r].coop                   -> rooms[r].team[u]
                      [] Cardinality(Members(r)) % 2 = 0  -> "Blue"
                      [] OTHER                            -> "Red"
    <2>1. u \in Users /\ rooms[r] \in Room /\ ~rooms[r].inGame
      BY <1>6 DEF EnterRoom, HasSeat, TypeOK
    <2>2. t \in Teams \union {"None"}
      BY <2>1 DEF Teams, Room
    <2>3. rooms' = [rooms EXCEPT ![r] = With(rooms[r], u, t)]
      BY <1>6 DEF EnterRoom, HasSeat
    <2>4. ~With(rooms[r], u, t).inGame
      <3> HIDE DEF t, u
      <3> QED BY <2>1, <2>2, RoomUpdates
    <2>5. Quiet
      <3> HIDE DEF t, u
      <3> QED BY <1>6, <2>3, <2>4 DEF EnterRoom, HasSeat, Quiet, matchVars, TypeOK
    <2>6. QED BY <2>5, QuietStep
  <1>7. ASSUME NEW r \in RoomNames, NEW u \in Users, ExitRoom(c, r, u) PROVE RewardCore'
    <2>1. \A s \in RoomNames : rooms'[s].inGame =>
            /\ rooms[s].inGame
            /\ rooms'[s].matchId = rooms[s].matchId
            /\ s \in resolved => s \in resolved'
      BY <1>7, RemoveMemberQuiet DEF ExitRoom
    <2>2. QED BY <1>7, <2>1, QuietStep DEF ExitRoom, Quiet
  <1>8. ASSUME NEW r \in RoomNames, NEW u \in Users, ChangeTeam(c, r, u) PROVE RewardCore'
    <2> DEFINE t == IF rooms[r].team[u] = "Blue" THEN "Red" ELSE "Blue"
    <2>1. t \in Teams \union {"None"} /\ rooms[r] \in Room
      BY DEF Teams, TypeOK
    <2>2. rooms' = [rooms EXCEPT ![r] = OnTeam(rooms[r], u, t)]
      BY <1>8 DEF ChangeTeam
    <2>3. OnTeam(rooms[r], u, t).inGame = FALSE
      <3> HIDE DEF t
      <3> QED BY <1>8, <2>1, RoomUpdates DEF ChangeTeam, Room
    <2>4. Quiet
      <3> HIDE DEF t
      <3> QED BY <1>8, <2>2, <2>3 DEF ChangeTeam, Quiet, matchVars, TypeOK
    <2>5. QED BY <2>4, QuietStep
  <1>9. ASSUME NEW r \in RoomNames, LookUpRoom(c, r) PROVE RewardCore'
    BY <1>0, <1>9, QuietStep DEF LookUpRoom, Quiet, Goto, matchVars, Paying
  <1>10. CASE TryStartGame(c)
    <2> DEFINE r == task[c].name
    <2>1. r \in RoomNames
      BY <1>0, <1>10, TaskFields DEF TryStartGame
    <2>2. CASE nextMatchId < MaxMatches /\ ~rooms[r].inGame /\ StartMatch(r)
      BY <1>10, <2>1, <2>2, StartStep DEF TryStartGame, Goto
    <2>3. CASE UNCHANGED <<rooms, matchVars>>
      BY <1>0, <1>10, <2>3, QuietStep DEF TryStartGame, Quiet, Goto, matchVars
    <2>4. QED BY <1>10, <2>2, <2>3 DEF TryStartGame, MayStart, MayStartCoop
  <1>11. ASSUME NEW r \in RoomNames, NEW u \in Users, RecordDeath(c, r, u)
         PROVE  RewardCore'
    <2> DEFINE fallen == dead[r] \union {u}
               t == [op |-> "name", name |-> r, room |-> rooms[r],
                     dead |-> fallen, died |-> u, winner |-> "None"]
    <2>1. t \in Task /\ t.op = "name" /\ t.name = r /\ t.room = rooms[r]
      BY DEF TypeOK, Task
    <2>2. CASE resolved' = resolved \union {r} /\ Goto(c, t)
      <3> HIDE DEF t
      <3> QED BY <1>11, <2>1, <2>2, ClaimStep DEF RecordDeath, MayDie, Goto
    <2>3. CASE UNCHANGED <<resolved, task>>
      BY <1>11, <2>3, QuietStep DEF RecordDeath, MayDie, Quiet
    <2>4. QED BY <1>11, <2>2, <2>3 DEF RecordDeath, MayDie
  <1>12. CASE NameWinner(c)
    <2>1. task[c] \in [op : Paying, name : RoomNames, room : Room,
                       dead : SUBSET Users, died : Users,
                       winner : Names \union Teams \union {"None"}]
      BY <1>0, <1>12, TaskFields DEF NameWinner, Paying
    <2>2. PICK w : task' = [task EXCEPT ![c] = [task[c] EXCEPT !.op = "pay", !.winner = w]]
      BY <1>12 DEF NameWinner, Goto
    <2>3. /\ task[c].op \in Paying
          /\ task'[c].room = task[c].room
          /\ task'[c].name = task[c].name
      BY <2>1, <2>2, <1>0
    <2>4. QED BY <1>0, <1>12, <2>2, <2>3, QuietStep DEF NameWinner, Quiet, matchVars
  <1>13. CASE PayRewards(c)
    <2> DEFINE w == Winners(task[c])
    <2>1. task[c] \in [op : Paying, name : RoomNames, room : Room,
                       dead : SUBSET Users, died : Users,
                       winner : Names \union Teams \union {"None"}]
      BY <1>0, <1>13, TaskFields DEF PayRewards, Paying
    <2>2. w \in SUBSET Users
      BY <2>1 DEF Winners, Room
    <2>3. CASE /\ ledger' = [ledger EXCEPT ![task[c].room.matchId] =
                                [times |-> @.times + 1, winners |-> w]]
               /\ Goto(c, Idle)
      <3> HIDE DEF w
      <3> QED BY <1>13, <2>2, <2>3, PayStep DEF PayRewards, Goto, matchVars
    <2>4. CASE Goto(c, [task[c] EXCEPT !.op = "retry"]) /\ UNCHANGED ledger
      <3>1. /\ task[c].op \in Paying
            /\ task'[c].room = task[c].room
            /\ task'[c].name = task[c].name
        BY <1>0, <2>1, <2>4 DEF Goto
      <3>2. QED BY <1>0, <1>13, <2>4, <3>1, QuietStep DEF PayRewards, Quiet, Goto, matchVars
    <2>5. QED BY <1>13, <2>3, <2>4 DEF PayRewards
  <1>14. CASE RetryDeath(c)
    <2>1. CASE SameMatch(task[c].name, task[c].room)
      BY <1>14, <2>1, ReleaseStep
    <2>2. CASE ~SameMatch(task[c].name, task[c].room)
      BY <1>0, <1>14, <2>2, QuietStep DEF RetryDeath, Quiet, Goto
    <2>3. QED BY <2>1, <2>2
  <1>15. ASSUME NEW r \in RoomNames, NEW u \in Users, HandleReadyToExit(c, r, u)
         PROVE  RewardCore'
    <2>1. CASE rooms' = [rooms EXCEPT ![r] = Waiting(rooms[r])] /\ resolved' = resolved \ {r}
      BY <1>15, <2>1, MatchUpdates, QuietStep DEF HandleReadyToExit, ForgetMatch, Quiet, TypeOK
    <2>2. CASE UNCHANGED <<rooms, dead, resolved>>
      BY <1>15, <2>2, QuietStep DEF HandleReadyToExit, ForgetMatch, Quiet
    <2>3. QED BY <1>15, <2>1, <2>2 DEF HandleReadyToExit, ForgetMatch
  <1>16. QED
    BY <1>1, <1>2, <1>3, <1>4, <1>5, <1>6, <1>7, <1>8, <1>9, <1>10, <1>11, <1>12,
       <1>13, <1>14, <1>15 DEF SessionStep, RoomStep, Continue

\* RewardInv, the strengthening, holds in every reachable state.
THEOREM RewardInvariant == Spec => []RewardInv
  <1>1. Init => RewardCore
    BY DEF Init, RewardCore, OneRewardPerMatch, MatchIdsIssued, ClaimsAreResolved,
           PaidAreResolved, Claims, Playing, Idle, Paying, NoRoom
  <1>2. TypeOK /\ RewardCore /\ [Next]_vars => RewardCore'
    <2> SUFFICES ASSUME TypeOK, RewardCore, [Next]_vars PROVE RewardCore'
      OBVIOUS
    <2>1. CASE Next
      BY <2>1, RewardStep DEF Next
    <2>2. CASE UNCHANGED vars
      BY <2>2, QuietStep DEF vars, Quiet
    <2>3. QED BY <2>1, <2>2
  <1>3. TypeOK /\ RewardCore => RewardInv
    BY DEF RewardInv, RewardCore
  <1>4. QED BY <1>1, <1>2, <1>3, TypeCorrect, PTL DEF Spec

\* However deaths, failed commits, retries, exits and new matches interleave,
\* the reward of a match is committed at most once and no two threads hold a
\* claim on the same match.
THEOREM RewardedOnce == Spec => []OneRewardPerMatch
  <1>1. RewardInv => OneRewardPerMatch
    BY DEF RewardInv
  <1>2. QED BY <1>1, RewardInvariant, PTL

-----------------------------------------------------------------------------
(* The invariants behind the invariants *)

\* The two session tables agree with each other and with the logouts under way.
SessionsAgree ==
  \A c \in Conns :
     /\ clientId[c] # NoUser => clientsMap[clientId[c]] = c
     /\ task[c].op = "clear" => clientId[c] = task[c].user
     /\ task[c].op = "erase" => /\ clientId[c] = NoUser
                                /\ clientsMap[task[c].user] = c

\* Membership and MembersHaveSessions are inductive together: a logout empties
\* one room only, and a newcomer is in none.
Roster ==
  /\ Membership
  /\ MembersHaveSessions
  /\ \A r \in RoomNames : IsFiniteSet(Members(r))

\* A name without a room is not in a match either, so a room created under it
\* begins clean.
Clean ==
  /\ NoLeftovers
  /\ \A r \in RoomNames : rooms[r].inGame => Members(r) # {}

\* What a claim is paid from: the copy was decided when it was taken, and once
\* a winner is named every survivor who is still in the match answers to it.
CopyIsDecided ==
  \A c \in Conns : task[c].op \in Paying =>
     /\ IsFiniteSet(task[c].room.users)
     /\ Decided(task[c].room, task[c].dead)

WinnerStands ==
  \A c \in Conns, r \in RoomNames :
     task[c].op \in {"pay", "retry"} /\ Playing(r, task[c].room.matchId) =>
        \A u \in Members(r) \ task[c].dead :
           task[c].winner = IF task[c].room.coop THEN task[c].room.team[u]
                                                 ELSE <<"nickname", u>>

ClaimCore == ClaimIsBacked /\ ClaimCoversMembers /\ CopyIsDecided /\ WinnerStands

-----------------------------------------------------------------------------
(* Lemmas about rooms and tasks *)

\* What each rewrite of a room does to its members, teams and mode.
LEMMA RosterUpdates ==
  ASSUME NEW R \in Room, NEW u \in Users
  PROVE  /\ \A keep \in BOOLEAN :
              /\ Without(R, u, keep).users = R.users \ {u}
              /\ Without(R, u, keep).coop = R.coop
              /\ \A v \in Users \ {u} : Without(R, u, keep).team[v] = R.team[v]
         /\ \A t \in Teams \union {"None"} :
              /\ With(R, u, t).users = R.users \union {u}
              /\ OnTeam(R, u, t).users = R.users
  BY DEF Without, With, OnTeam, Room

\* A match begins and ends with the members, teams and mode of its room.
LEMMA SameRosterUpdates ==
  ASSUME NEW R \in Room
  PROVE  /\ \A m \in 0 .. MaxMatches : /\ InMatch(R, m).users = R.users
                                      /\ InMatch(R, m).coop = R.coop
                                      /\ InMatch(R, m).team = R.team
         /\ Waiting(R).users = R.users
  BY DEF InMatch, Waiting, Room

\* Only the thread that acts gets a new task.
LEMMA GotoTask ==
  ASSUME TypeOK, NEW c \in Conns, NEW t, Goto(c, t)
  PROVE  \A d \in Conns : task'[d] = IF d = c THEN t ELSE task[d]
  BY DEF Goto, TypeOK

\* The ops of Task are told apart by their names.
LEMMA Ops ==
  /\ Idle.op = "idle"
  /\ Idle.op \notin Paying
  /\ Idle.op \notin {"clear", "erase"}
  BY DEF Idle, Paying

-----------------------------------------------------------------------------
(* Sessions *)

\* A step that leaves the session tables alone and neither begins nor ends a
\* logout keeps them in agreement.
LEMMA SessionQuiet ==
  ASSUME SessionsAgree, UNCHANGED sessionVars,
         \A c \in Conns : task'[c].op \in {"clear", "erase"} => task'[c] = task[c]
  PROVE  SessionsAgree'
  BY DEF SessionsAgree, sessionVars

\* The steps of a match leave logouts alone.
LEMMA OtherTasks ==
  ASSUME TypeOK, NEW c \in Conns, RoomStep(c) \/ TryStartGame(c) \/ NameWinner(c)
                                  \/ PayRewards(c) \/ RetryDeath(c)
  PROVE  /\ UNCHANGED sessionVars
         /\ task[c].op \notin {"clear", "erase"}
         /\ \A d \in Conns : task'[d].op \in {"clear", "erase"} => task'[d] = task[d]
         /\ \A d \in Conns : task[d].op \in {"clear", "erase"} => task'[d] = task[d]
  <1>0. task[c] \in Task
    BY DEF TypeOK
  <1>1. CASE RoomStep(c)
    <2>1. PICK r \in RoomNames :
             \/ \E coop \in BOOLEAN : CreateRoom(c, r, coop)
             \/ EnterRoom(c, r)
             \/ LookUpRoom(c, r)
             \/ \E u \in Users : \/ ExitRoom(c, r, u)
                                 \/ ChangeTeam(c, r, u)
                                 \/ RecordDeath(c, r, u)
                                 \/ HandleReadyToExit(c, r, u)
      BY <1>1 DEF RoomStep
    <2>2. UNCHANGED sessionVars /\ task[c] = Idle
      BY <2>1 DEF CreateRoom, EnterRoom, LookUpRoom, ExitRoom, ChangeTeam, RecordDeath,
                  MayDie, HandleReadyToExit
    <2>3. \/ task' = task
          \/ Goto(c, [op |-> "start", name |-> r, coop |-> rooms[r].coop])
          \/ \E u \in Users : \E f : Goto(c, [op |-> "name", name |-> r, room |-> rooms[r],
                                 dead |-> f, died |-> u, winner |-> "None"])
      BY <2>1 DEF CreateRoom, EnterRoom, LookUpRoom, ExitRoom, ChangeTeam, RecordDeath,
                  MayDie, HandleReadyToExit
    <2>4. task' = task \/ \E t : Goto(c, t) /\ t.op \notin {"clear", "erase"}
      <3>1. [op |-> "start", name |-> r, coop |-> rooms[r].coop].op \notin {"clear", "erase"}
        OBVIOUS
      <3>2. \A u, f : [op |-> "name", name |-> r, room |-> rooms[r], dead |-> f,
                       died |-> u, winner |-> "None"].op \notin {"clear", "erase"}
        OBVIOUS
      <3>3. QED BY <2>3, <3>1, <3>2, Zenon
    <2>5. CASE task' = task
      BY <2>2, <2>5, Ops
    <2>6. ASSUME NEW t, Goto(c, t), t.op \notin {"clear", "erase"}
          PROVE  task'[c] = t /\ \A d \in Conns : d # c => task'[d] = task[d]
      BY <2>6, GotoTask
    <2>7. CASE \E t : Goto(c, t) /\ t.op \notin {"clear", "erase"}
      BY <2>2, <2>6, <2>7, Ops
    <2>8. QED BY <2>4, <2>5, <2>7
  <1>2. CASE TryStartGame(c)
    BY <1>2, GotoTask, Ops DEF TryStartGame
  <1>3. CASE NameWinner(c)
    <2>1. PICK w : Goto(c, [task[c] EXCEPT !.op = "pay", !.winner = w])
      BY <1>3 DEF NameWinner
    <2>2. [task[c] EXCEPT !.op = "pay", !.winner = w].op = "pay"
      BY <1>0, <1>3, TaskFields DEF NameWinner, Paying
    <2>3. QED BY <1>3, <2>1, <2>2, GotoTask DEF NameWinner
  <1>4. CASE PayRewards(c)
    <2>1. [task[c] EXCEPT !.op = "retry"].op = "retry"
      BY <1>0, <1>4, TaskFields DEF PayRewards, Paying
    <2>2. QED BY <1>4, <2>1, GotoTask, Ops DEF PayRewards
  <1>5. CASE RetryDeath(c)
    BY <1>5, GotoTask, Ops DEF RetryDeath
  <1>6. QED BY <1>1, <1>2, <1>3, <1>4, <1>5

\* Every step of a connection keeps the session tables in agreement.
LEMMA SessionsStep ==
  ASSUME TypeOK, SessionsAgree, NEW c \in Conns,
         SessionStep(c) \/ RoomStep(c) \/ Continue(c)
  PROVE  SessionsAgree'
  <1>0. task[c] \in Task
    BY DEF TypeOK
  <1>1. ASSUME NEW u \in Users, Login(c, u) PROVE SessionsAgree'
    <2>1. /\ task' = task /\ task[c] = Idle
          /\ \A d \in Conns : clientId'[d] = IF d = c THEN u ELSE clientId[d]
          /\ \A v \in Users : clientsMap'[v] = IF v = u THEN c ELSE clientsMap[v]
          /\ clientsMap[u] = NoConn /\ u # NoUser
      BY <1>1 DEF Login, TypeOK
    <2>2. ASSUME NEW d \in Conns, clientId'[d] # NoUser
          PROVE  clientsMap'[clientId'[d]] = d
      BY <2>1, <2>2 DEF SessionsAgree, TypeOK
    <2>3. ASSUME NEW d \in Conns, task'[d].op = "clear"
          PROVE  clientId'[d] = task'[d].user
      BY <2>1, <2>3, Ops DEF SessionsAgree
    <2>4. ASSUME NEW d \in Conns, task'[d].op = "erase"
          PROVE  clientId'[d] = NoUser /\ clientsMap'[task'[d].user] = d
      <3>1. task[d].user \in Users
        BY <2>1, <2>4, TaskFields DEF TypeOK
      <3>2. QED BY <2>1, <2>4, <3>1, Ops DEF SessionsAgree
    <2>5. QED BY <2>2, <2>3, <2>4 DEF SessionsAgree
  <1>2. CASE ForceExit(c)
    <2>1. /\ UNCHANGED sessionVars
          /\ Goto(c, [op |-> "clear", user |-> clientId[c]])
      BY <1>2 DEF ForceExit
    <2>2. QED BY <2>1, GotoTask DEF SessionsAgree, sessionVars
  <1>3. CASE ClearId(c)
    <2>1. /\ clientsMap' = clientsMap
          /\ \A d \in Conns : clientId'[d] = IF d = c THEN NoUser ELSE clientId[d]
          /\ Goto(c, [op |-> "erase", user |-> task[c].user])
          /\ clientId[c] = task[c].user /\ clientId[c] \in Users
      BY <1>0, <1>3, TaskFields DEF ClearId, TypeOK, SessionsAgree
    <2>2. clientsMap[task[c].user] = c
      BY <2>1 DEF SessionsAgree
    <2>3. QED BY <2>1, <2>2, GotoTask DEF SessionsAgree
  <1>4. CASE EraseSession(c)
    <2> DEFINE u == task[c].user
    <2>1. /\ clientId' = clientId /\ clientId[c] = NoUser
          /\ \A v \in Users : clientsMap'[v] = IF v = u THEN NoConn ELSE clientsMap[v]
          /\ Goto(c, Idle)
          /\ clientsMap[u] = c
      BY <1>4 DEF EraseSession, TypeOK, SessionsAgree
    <2>2. \A d \in Conns : task[d].op = "erase" => task[d].user \in Users
      BY TaskFields DEF TypeOK
    <2>3. ASSUME NEW d \in Conns, clientId'[d] # NoUser
          PROVE  clientsMap'[clientId'[d]] = d
      BY <2>1, <2>3 DEF SessionsAgree, TypeOK
    <2>4. \A d \in Conns : d # c => task'[d] = task[d]
      BY <2>1, GotoTask
    <2>5. task'[c] = Idle
      BY <2>1, GotoTask
    <2>6. QED BY <2>1, <2>2, <2>3, <2>4, <2>5, Ops DEF SessionsAgree
  <1>5. CASE RoomStep(c) \/ TryStartGame(c) \/ NameWinner(c) \/ PayRewards(c) \/ RetryDeath(c)
    BY <1>5, OtherTasks, SessionQuiet
  <1>6. QED
    BY <1>1, <1>2, <1>3, <1>4, <1>5 DEF SessionStep, Continue

\* The session tables agree in every reachable state, also half way through
\* the logouts of several connections.
THEOREM SessionsAlwaysAgree == Spec => []SessionsAgree
  <1>1. Init => SessionsAgree
    BY DEF Init, SessionsAgree, Idle
  <1>2. TypeOK /\ SessionsAgree /\ [Next]_vars => SessionsAgree'
    <2> SUFFICES ASSUME TypeOK, SessionsAgree, [Next]_vars PROVE SessionsAgree'
      OBVIOUS
    <2>1. CASE Next
      BY <2>1, SessionsStep DEF Next
    <2>2. CASE UNCHANGED vars
      BY <2>2 DEF vars, SessionsAgree
    <2>3. QED BY <2>1, <2>2
  <1>3. QED BY <1>1, <1>2, TypeCorrect, PTL DEF Spec

-----------------------------------------------------------------------------
(* Who is in which room *)

\* A member who goes is gone from that room and from no other.
LEMMA RemoveMemberMembers ==
  ASSUME TypeOK, NEW r \in RoomNames, NEW u \in Users, NEW keep \in BOOLEAN,
         RemoveMember(r, u, keep)
  PROVE  \A s \in RoomNames :
            Members(s)' = IF s = r THEN Members(r) \ {u} ELSE Members(s)
  <1>1. CASE rooms[r].users = {u}
    <2>1. NoRoom.users = {} /\ rooms' = [rooms EXCEPT ![r] = NoRoom]
      BY <1>1 DEF RemoveMember, ForgetMatch, NoRoom
    <2>2. QED BY <1>1, <2>1 DEF Members, TypeOK
  <1>2. CASE rooms[r].users # {u}
    <2>1. rooms' = [rooms EXCEPT ![r] = Without(rooms[r], u, keep)]
      BY <1>2 DEF RemoveMember, ForgetMatch
    <2>2. Without(rooms[r], u, keep).users = rooms[r].users \ {u}
      BY RosterUpdates DEF TypeOK
    <2>3. QED BY <2>1, <2>2 DEF Members, TypeOK
  <1>3. QED BY <1>1, <1>2

\* A room that replaces another with no new member leaves nobody new anywhere.
LEMMA SameRoster ==
  ASSUME TypeOK, NEW r \in RoomNames, NEW R, R.users = rooms[r].users,
         rooms' = [rooms EXCEPT ![r] = R]
  PROVE  \A s \in RoomNames : Members(s)' = Members(s)
  BY DEF Members, TypeOK

\* Nobody comes in but by CREATE_ROOM and ENTER_ROOM.
LEMMA NobodyEnters ==
  ASSUME TypeOK, NEW c \in Conns,
         \/ Continue(c)
         \/ \E u \in Users : Login(c, u)
         \/ ForceExit(c)
         \/ \E r \in RoomNames : \/ LookUpRoom(c, r)
                                 \/ \E u \in Users : \/ ExitRoom(c, r, u)
                                                     \/ ChangeTeam(c, r, u)
                                                     \/ RecordDeath(c, r, u)
                                                     \/ HandleReadyToExit(c, r, u)
  PROVE  \A s \in RoomNames : Members(s)' \subseteq Members(s)
  <1>1. CASE rooms' = rooms
    BY <1>1 DEF Members
  <1>2. CASE ForceExit(c)
    <2>1. clientId[c] \in Users
      BY <1>2 DEF ForceExit, TypeOK
    <2>2. rooms' = rooms \/ \E r \in RoomNames : RemoveMember(r, clientId[c], FALSE)
      BY <1>2 DEF ForceExit
    <2>3. QED BY <1>1, <2>1, <2>2, RemoveMemberMembers
  <1>3. CASE TryStartGame(c)
    <2> DEFINE r == task[c].name
    <2>1. r \in RoomNames
      BY <1>3, TaskFields DEF TryStartGame, TypeOK
    <2>2. rooms' = rooms \/ (nextMatchId < MaxMatches /\ StartMatch(r))
      BY <1>3 DEF TryStartGame
    <2>3. CASE nextMatchId < MaxMatches /\ StartMatch(r)
      <3>1. rooms' = [rooms EXCEPT ![r] = InMatch(rooms[r], nextMatchId + 1)]
        BY <2>3 DEF StartMatch, ForgetMatch
      <3>2. InMatch(rooms[r], nextMatchId + 1).users = rooms[r].users
        BY <2>1, <2>3, SameRosterUpdates DEF TypeOK
      <3>3. QED BY <2>1, <3>1, <3>2, SameRoster
    <2>4. QED BY <1>1, <2>2, <2>3
  <1>4. ASSUME NEW r \in RoomNames, NEW u \in Users, ExitRoom(c, r, u)
        PROVE  \A s \in RoomNames : Members(s)' \subseteq Members(s)
    BY <1>4, RemoveMemberMembers DEF ExitRoom
  <1>5. ASSUME NEW r \in RoomNames, NEW u \in Users, ChangeTeam(c, r, u)
        PROVE  \A s \in RoomNames : Members(s)' \subseteq Members(s)
    <2> DEFINE t == IF rooms[r].team[u] = "Blue" THEN "Red" ELSE "Blue"
    <2>1. rooms' = [rooms EXCEPT ![r] = OnTeam(rooms[r], u, t)]
      BY <1>5 DEF ChangeTeam
    <2>2. OnTeam(rooms[r], u, t).users = rooms[r].users
      BY RosterUpdates DEF TypeOK, Teams
    <2>3. QED BY <2>1, <2>2, SameRoster
  <1>6. ASSUME NEW r \in RoomNames, NEW u \in Users, HandleReadyToExit(c, r, u)
        PROVE  \A s \in RoomNames : Members(s)' \subseteq Members(s)
    <2>1. rooms' = rooms \/ rooms' = [rooms EXCEPT ![r] = Waiting(rooms[r])]
      BY <1>6 DEF HandleReadyToExit
    <2>2. Waiting(rooms[r]).users = rooms[r].users
      BY SameRosterUpdates DEF TypeOK
    <2>3. QED BY <1>1, <2>1, <2>2, SameRoster
  <1>7. \/ rooms' = rooms
        \/ ForceExit(c)
        \/ TryStartGame(c)
        \/ \E r \in RoomNames, u \in Users : \/ ExitRoom(c, r, u)
                                             \/ ChangeTeam(c, r, u)
                                             \/ HandleReadyToExit(c, r, u)
    BY DEF Continue, ClearId, EraseSession, NameWinner, PayRewards, RetryDeath, Login,
           LookUpRoom, RecordDeath, MayDie
  <1>8. QED BY <1>1, <1>2, <1>3, <1>4, <1>5, <1>6, <1>7

\* When people only leave, and no session ends, the roster stays right.
LEMMA RosterQuiet ==
  ASSUME Roster, UNCHANGED sessionVars,
         \A r \in RoomNames : Members(r)' \subseteq Members(r),
         \A d \in Conns : task'[d].op \in {"clear", "erase"} => task'[d] = task[d]
  PROVE  Roster'
  <1>1. ASSUME NEW r \in RoomNames
        PROVE  IsFiniteSet(Members(r)') /\ Cardinality(Members(r)') <= Capacity
    <2>1. /\ IsFiniteSet(Members(r)') /\ Cardinality(Members(r)') <= Cardinality(Members(r))
          /\ Cardinality(Members(r)') \in Nat /\ Cardinality(Members(r)) \in Nat
      BY FS_Subset, FS_CardinalityType DEF Roster
    <2>2. Cardinality(Members(r)) <= Capacity /\ Capacity \in Nat
      BY DEF Roster, Membership, Capacity
    <2>3. QED BY <2>1, <2>2
  <1>2. Membership'
    BY <1>1 DEF Roster, Membership, Capacity
  <1>3. MembersHaveSessions'
    BY DEF Roster, MembersHaveSessions, sessionVars
  <1>4. QED BY <1>1, <1>2, <1>3 DEF Roster

\* A user of a session who is in no room takes a free seat.
LEMMA RosterJoin ==
  ASSUME Roster, SessionsAgree, NEW c \in Conns, NEW r \in RoomNames, NEW u \in Users,
         task[c] = Idle, clientId[c] = u, u # NoUser, ~InRoom(u),
         Cardinality(Members(r)) < Capacity,
         \A s \in RoomNames : Members(s)' = IF s = r THEN Members(r) \union {u} ELSE Members(s),
         UNCHANGED <<sessionVars, task>>
  PROVE  Roster'
  <1>1. u \notin Members(r)
    BY DEF InRoom, Members
  <1>2. /\ IsFiniteSet(Members(r) \union {u})
        /\ Cardinality(Members(r) \union {u}) <= Capacity
    <2>1. /\ IsFiniteSet(Members(r) \union {u})
          /\ Cardinality(Members(r) \union {u}) = Cardinality(Members(r)) + 1
      BY <1>1, FS_AddElement DEF Roster
    <2>2. Cardinality(Members(r)) \in Nat /\ Capacity \in Nat
      BY FS_CardinalityType DEF Roster, Capacity
    <2>3. QED BY <2>1, <2>2
  <1>3. \A s \in RoomNames : IsFiniteSet(Members(s)') /\ Cardinality(Members(s)') <= Capacity
    BY <1>2 DEF Roster, Membership
  <1>4. \A s, t \in RoomNames : s # t => Members(s)' \cap Members(t)' = {}
    BY DEF Roster, Membership, InRoom, Members
  <1>5. clientsMap[u] = c /\ task[c].op \notin {"clear", "erase"}
    BY Ops DEF SessionsAgree
  <1>6. MembersHaveSessions'
    BY <1>5 DEF Roster, MembersHaveSessions, sessionVars
  <1>7. QED BY <1>3, <1>4, <1>6 DEF Roster, Membership, Capacity

\* Every step of a connection keeps the roster right.
LEMMA RosterStep ==
  ASSUME TypeOK, SessionsAgree, Roster, NEW c \in Conns,
         SessionStep(c) \/ RoomStep(c) \/ Continue(c)
  PROVE  Roster'
  <1>0. \A s \in RoomNames : Members(s) \subseteq Users
    BY DEF Members, TypeOK, Room
  <1>1. ASSUME NEW u \in Users, Login(c, u) PROVE Roster'
    <2>1. /\ \A s \in RoomNames : Members(s)' = Members(s)
          /\ task' = task /\ clientsMap[u] = NoConn /\ clientId[c] = NoUser
          /\ \A d \in Conns : d # c => clientId'[d] = clientId[d]
          /\ \A v \in Users : v # u => clientsMap'[v] = clientsMap[v]
      BY <1>1 DEF Login, Members, TypeOK
    <2>2. MembersHaveSessions'
      BY <1>0, <2>1 DEF Roster, MembersHaveSessions
    <2>3. QED BY <2>1, <2>2 DEF Roster, Membership, Capacity
  <1>2. CASE ForceExit(c)
    <2> DEFINE u == clientId[c]
    <2>1. /\ u \in Users /\ UNCHANGED sessionVars
          /\ \A d \in Conns : d # c => task'[d] = task[d]
      BY <1>2, GotoTask DEF ForceExit, TypeOK
    <2>2. \A s \in RoomNames : Members(s)' \subseteq Members(s)
      BY <1>2, NobodyEnters
    <2>3. \A s \in RoomNames : u \notin Members(s)'
      <3>1. CASE ~InRoom(u) /\ rooms' = rooms
        BY <3>1 DEF InRoom, Members
      <3>2. ASSUME NEW r \in RoomNames, u \in Members(r), RemoveMember(r, u, FALSE)
            PROVE  \A s \in RoomNames : u \notin Members(s)'
        <4>1. \A s \in RoomNames :
                 Members(s)' = IF s = r THEN Members(r) \ {u} ELSE Members(s)
          BY <2>1, <3>2, RemoveMemberMembers
        <4>2. \A s \in RoomNames : s # r => u \notin Members(s)
          BY <3>2 DEF Roster, Membership
        <4>3. QED BY <4>1, <4>2
      <3>3. QED BY <1>2, <3>1, <3>2 DEF ForceExit
    <2>4. ASSUME NEW r \in RoomNames, NEW v \in Members(r)'
          PROVE  \E d \in Conns : /\ clientsMap'[v] = d
                                  /\ clientId'[d] = v
                                  /\ task'[d].op \notin {"clear", "erase"}
      <3>1. v \in Members(r) /\ v # u
        BY <2>2, <2>3
      <3>2. PICK d \in Conns : /\ clientsMap[v] = d
                               /\ clientId[d] = v
                               /\ task[d].op \notin {"clear", "erase"}
        BY <3>1 DEF Roster, MembersHaveSessions
      <3>3. QED BY <2>1, <3>1, <3>2 DEF sessionVars
    <2>5. MembersHaveSessions'
      BY <2>4 DEF MembersHaveSessions
    <2>6. \A s \in RoomNames :
             IsFiniteSet(Members(s)') /\ Cardinality(Members(s)') <= Capacity
      <3> SUFFICES ASSUME NEW s \in RoomNames
                   PROVE  IsFiniteSet(Members(s)') /\ Cardinality(Members(s)') <= Capacity
        OBVIOUS
      <3>1. /\ IsFiniteSet(Members(s)')
            /\ Cardinality(Members(s)') <= Cardinality(Members(s))
            /\ Cardinality(Members(s)') \in Nat /\ Cardinality(Members(s)) \in Nat
        BY <2>2, FS_Subset, FS_CardinalityType DEF Roster
      <3>2. Cardinality(Members(s)) <= Capacity /\ Capacity \in Nat
        BY DEF Roster, Membership, Capacity
      <3>3. QED BY <3>1, <3>2
    <2>7. QED BY <2>2, <2>5, <2>6 DEF Roster, Membership, Capacity
  <1>3. CASE ClearId(c)
    <2>1. /\ \A s \in RoomNames : Members(s)' = Members(s)
          /\ task[c].op = "clear" /\ clientsMap' = clientsMap
          /\ \A d \in Conns : d # c => task'[d] = task[d] /\ clientId'[d] = clientId[d]
      BY <1>3, GotoTask DEF ClearId, Members, TypeOK
    <2>2. MembersHaveSessions'
      BY <2>1 DEF Roster, MembersHaveSessions
    <2>3. QED BY <2>1, <2>2 DEF Roster, Membership, Capacity
  <1>4. CASE EraseSession(c)
    <2>1. /\ \A s \in RoomNames : Members(s)' = Members(s)
          /\ task[c].op = "erase" /\ clientId' = clientId
          /\ \A d \in Conns : d # c => task'[d] = task[d]
          /\ \A v \in Users : v # task[c].user => clientsMap'[v] = clientsMap[v]
          /\ clientsMap[task[c].user] = c
      BY <1>4, GotoTask DEF EraseSession, Members, TypeOK, SessionsAgree
    <2>2. MembersHaveSessions'
      BY <1>0, <2>1 DEF Roster, MembersHaveSessions
    <2>3. QED BY <2>1, <2>2 DEF Roster, Membership, Capacity
  <1>5. ASSUME NEW r \in RoomNames, NEW coop \in BOOLEAN, CreateRoom(c, r, coop)
        PROVE  Roster'
    <2> DEFINE u == clientId[c]
               t == IF coop THEN "Blue" ELSE "None"
               B == [NoRoom EXCEPT !.coop = coop]
    <2>1. u \in Users /\ Members(r) = {}
      BY <1>5 DEF CreateRoom, TypeOK, Exists, Members
    <2>2. B \in Room /\ B.users = {} /\ t \in Teams \union {"None"}
      BY NoRoomType DEF Teams, NoRoom, Room
    <2>3. With(B, u, t).users = {u}
      <3> HIDE DEF B, t, u
      <3> QED BY <2>1, <2>2, RosterUpdates
    <2>4. \A s \in RoomNames :
             Members(s)' = IF s = r THEN Members(r) \union {u} ELSE Members(s)
      BY <1>5, <2>1, <2>3 DEF CreateRoom, Members, TypeOK
    <2>5. Cardinality(Members(r)) < Capacity
      BY <2>1, FS_EmptySet DEF Capacity
    <2>6. QED BY <1>5, <2>1, <2>4, <2>5, RosterJoin DEF CreateRoom
  <1>6. ASSUME NEW r \in RoomNames, EnterRoom(c, r) PROVE Roster'
    <2> DEFINE u == clientId[c]
               t == CASE ~rooms[r].coop                   -> rooms[r].team[u]
                      [] Cardinality(Members(r)) % 2 = 0  -> "Blue"
                      [] OTHER                            -> "Red"
    <2>1. u \in Users /\ rooms[r] \in Room
      BY <1>6 DEF EnterRoom, HasSeat, TypeOK
    <2>2. t \in Teams \union {"None"}
      BY <2>1 DEF Teams, Room
    <2>3. rooms' = [rooms EXCEPT ![r] = With(rooms[r], u, t)]
      BY <1>6 DEF EnterRoom, HasSeat
    <2>4. With(rooms[r], u, t).users = rooms[r].users \union {u}
      <3> HIDE DEF t, u
      <3> QED BY <2>1, <2>2, RosterUpdates
    <2>5. \A s \in RoomNames :
             Members(s)' = IF s = r THEN Members(r) \union {u} ELSE Members(s)
      <3> HIDE DEF t, u
      <3> QED BY <2>3, <2>4 DEF Members, TypeOK
    <2>6. QED BY <1>6, <2>1, <2>5, RosterJoin DEF EnterRoom, HasSeat
  <1>7. CASE TryStartGame(c) \/ NameWinner(c) \/ PayRewards(c) \/ RetryDeath(c)
    BY <1>7, OtherTasks, NobodyEnters, RosterQuiet DEF Continue
  <1>8. ASSUME NEW r \in RoomNames,
               \/ LookUpRoom(c, r)
               \/ \E u \in Users : \/ ExitRoom(c, r, u)
                                   \/ ChangeTeam(c, r, u)
                                   \/ RecordDeath(c, r, u)
                                   \/ HandleReadyToExit(c, r, u)
        PROVE  Roster'
    <2>1. RoomStep(c)
      BY <1>8 DEF RoomStep
    <2>2. \A s \in RoomNames : Members(s)' \subseteq Members(s)
      BY <1>8, NobodyEnters
    <2>3. QED BY <2>1, <2>2, OtherTasks, RosterQuiet
  <1>9. QED
    BY <1>1, <1>2, <1>3, <1>4, <1>5, <1>6, <1>7, <1>8 DEF SessionStep, RoomStep, Continue

\* The strengthening of Membership and MembersHaveSessions.
THEOREM RosterInvariant == Spec => []Roster
  <1>1. Init => Roster
    <2> SUFFICES ASSUME Init PROVE Roster
      OBVIOUS
    <2>1. \A r \in RoomNames : Members(r) = {}
      BY DEF Init, Members, NoRoom
    <2>2. IsFiniteSet({}) /\ Cardinality({}) = 0 /\ Capacity \in Nat
      BY FS_EmptySet DEF Capacity
    <2>3. QED BY <2>1, <2>2 DEF Roster, Membership, MembersHaveSessions, Capacity
  <1>2. TypeOK /\ SessionsAgree /\ Roster /\ [Next]_vars => Roster'
    <2> SUFFICES ASSUME TypeOK, SessionsAgree, Roster, [Next]_vars PROVE Roster'
      OBVIOUS
    <2>1. CASE Next
      BY <2>1, RosterStep DEF Next
    <2>2. CASE UNCHANGED vars
      BY <2>2 DEF vars, Roster, Membership, MembersHaveSessions, Members, Capacity
    <2>3. QED BY <2>1, <2>2
  <1>3. QED BY <1>1, <1>2, TypeCorrect, SessionsAlwaysAgree, PTL DEF Spec

\* A user sits in at most one room and no room is overfull, for any number of
\* users, connections and rooms and any team size.
THEOREM SeatedOnce == Spec => []Membership
  <1>1. Roster => Membership
    BY DEF Roster
  <1>2. QED BY <1>1, RosterInvariant, PTL

\* Every member of a room has a session that is not being closed.
THEOREM MembersKeepSessions == Spec => []MembersHaveSessions
  <1>1. Roster => MembersHaveSessions
    BY DEF Roster
  <1>2. QED BY <1>1, RosterInvariant, PTL

-----------------------------------------------------------------------------
(* Nothing of a match outlives it *)

\* What a step may do to the records of a room: clear them together with the
\* match, or shrink them.
Keeps(r) ==
  \/ /\ dead'[r] = {} /\ ready'[r] = {} /\ r \notin resolved'
     /\ rooms'[r].inGame => Members(r)' # {}
  \/ /\ rooms[r].inGame /\ rooms'[r].inGame
     /\ Members(r)' # {}
  \/ /\ rooms'[r].inGame = rooms[r].inGame
     /\ Members(r) # {} => Members(r)' # {}
     /\ dead'[r] \subseteq dead[r] /\ ready'[r] = ready[r]
     /\ r \in resolved' => r \in resolved

\* If every room is treated so, nothing is left over.
LEMMA CleanQuiet ==
  ASSUME TypeOK, Clean, \A r \in RoomNames : Keeps(r)
  PROVE  Clean'
  BY DEF Clean, NoLeftovers, Keeps, Members

\* A member who goes leaves the records alone or takes them all along.
LEMMA RemoveMemberKeeps ==
  ASSUME TypeOK, NEW r \in RoomNames, NEW u \in Users, NEW keep \in BOOLEAN,
         u \in Members(r), RemoveMember(r, u, keep)
  PROVE  \A s \in RoomNames : Keeps(s)
  <1>0. \A s \in RoomNames :
           Members(s)' = IF s = r THEN Members(r) \ {u} ELSE Members(s)
    BY RemoveMemberMembers
  <1>1. CASE rooms[r].users = {u}
    <2>1. /\ ~NoRoom.inGame /\ NoRoom.users = {}
          /\ rooms' = [rooms EXCEPT ![r] = NoRoom]
          /\ dead' = [dead EXCEPT ![r] = {}]
          /\ ready' = [ready EXCEPT ![r] = {}] \/ ready' = ready
          /\ resolved' = resolved \ {r}
      BY <1>1 DEF RemoveMember, ForgetMatch, NoRoom
    <2>2. QED BY <1>0, <1>1, <2>1 DEF Keeps, Members, TypeOK, RemoveMember, ForgetMatch
  <1>2. CASE rooms[r].users # {u}
    <2>1. /\ rooms' = [rooms EXCEPT ![r] = Without(rooms[r], u, keep)]
          /\ UNCHANGED <<dead, ready, resolved>>
      BY <1>2 DEF RemoveMember, ForgetMatch
    <2>2. Without(rooms[r], u, keep).inGame = rooms[r].inGame
      BY RoomUpdates DEF TypeOK
    <2>3. \A s \in RoomNames : rooms'[s].inGame = rooms[s].inGame
      BY <2>1, <2>2 DEF TypeOK
    <2>4. \A s \in RoomNames : Members(s) # {} => Members(s)' # {}
      BY <1>0, <1>2 DEF Members
    <2>5. QED BY <2>1, <2>3, <2>4 DEF Keeps
  <1>3. QED BY <1>1, <1>2

\* Every step of a connection keeps the records of rooms clean.
LEMMA CleanStep ==
  ASSUME TypeOK, Clean, NEW c \in Conns, SessionStep(c) \/ RoomStep(c) \/ Continue(c)
  PROVE  Clean'
  <1>1. CASE UNCHANGED <<rooms, dead, ready, resolved>>
    BY <1>1 DEF Clean, NoLeftovers, Members
  <1>2. CASE ForceExit(c)
    <2>1. clientId[c] \in Users
      BY <1>2 DEF ForceExit, TypeOK
    <2>2. QED BY <1>1, <1>2, <2>1, RemoveMemberKeeps, CleanQuiet DEF ForceExit
  <1>3. ASSUME NEW r \in RoomNames, NEW coop \in BOOLEAN, CreateRoom(c, r, coop)
        PROVE  Clean'
    <2> DEFINE R == With([NoRoom EXCEPT !.coop = coop], clientId[c],
                         IF coop THEN "Blue" ELSE "None")
    <2>1. clientId[c] \in Users
      BY <1>3 DEF CreateRoom, TypeOK
    <2>2. ~R.inGame
      BY <2>1, NewRoom
    <2>3. rooms' = [rooms EXCEPT ![r] = R] /\ UNCHANGED <<dead, ready, resolved>>
      BY <1>3 DEF CreateRoom, matchVars
    <2>4. ~rooms[r].inGame
      BY <1>3 DEF CreateRoom, Exists, Clean, Members
    <2>5. QED
      <3> HIDE DEF R
      <3> QED BY <2>2, <2>3, <2>4 DEF Clean, NoLeftovers, Members, TypeOK
  <1>4. ASSUME NEW r \in RoomNames, EnterRoom(c, r) PROVE Clean'
    <2> DEFINE u == clientId[c]
               t == CASE ~rooms[r].coop                   -> rooms[r].team[u]
                      [] Cardinality(Members(r)) % 2 = 0  -> "Blue"
                      [] OTHER                            -> "Red"
    <2>1. u \in Users /\ rooms[r] \in Room /\ ~rooms[r].inGame
      BY <1>4 DEF EnterRoom, HasSeat, TypeOK
    <2>2. t \in Teams \union {"None"}
      BY <2>1 DEF Teams, Room
    <2>3. rooms' = [rooms EXCEPT ![r] = With(rooms[r], u, t)]
      BY <1>4 DEF EnterRoom, HasSeat
    <2>4. With(rooms[r], u, t).inGame = rooms[r].inGame
      <3> HIDE DEF t, u
      <3> QED BY <2>1, <2>2, RoomUpdates
    <2>5. UNCHANGED <<dead, ready, resolved>>
      BY <1>4 DEF EnterRoom, HasSeat, matchVars
    <2>6. QED
      <3> HIDE DEF t, u
      <3> QED BY <2>1, <2>3, <2>4, <2>5 DEF Clean, NoLeftovers, Members, TypeOK
  <1>5. ASSUME NEW r \in RoomNames, NEW u \in Users, ExitRoom(c, r, u) PROVE Clean'
    BY <1>5, RemoveMemberKeeps, CleanQuiet DEF ExitRoom
  <1>6. ASSUME NEW r \in RoomNames, NEW u \in Users, ChangeTeam(c, r, u) PROVE Clean'
    <2> DEFINE t == IF rooms[r].team[u] = "Blue" THEN "Red" ELSE "Blue"
    <2>1. t \in Teams \union {"None"} /\ rooms[r] \in Room
      BY DEF Teams, TypeOK
    <2>2. rooms' = [rooms EXCEPT ![r] = OnTeam(rooms[r], u, t)]
      BY <1>6 DEF ChangeTeam
    <2>3. /\ OnTeam(rooms[r], u, t).inGame = rooms[r].inGame
          /\ OnTeam(rooms[r], u, t).users = rooms[r].users
      <3> HIDE DEF t
      <3> QED BY <2>1, RoomUpdates, RosterUpdates
    <2>4. UNCHANGED <<dead, ready, resolved>>
      BY <1>6 DEF ChangeTeam, matchVars
    <2>5. QED
      <3> HIDE DEF t
      <3> QED BY <2>2, <2>3, <2>4 DEF Clean, NoLeftovers, Members, TypeOK
  <1>7. CASE TryStartGame(c)
    <2> DEFINE r == task[c].name
    <2>1. r \in RoomNames
      BY <1>7, TaskFields DEF TryStartGame, TypeOK
    <2>2. CASE UNCHANGED <<rooms, matchVars>>
      BY <1>1, <2>2 DEF matchVars
    <2>3. CASE Exists(r) /\ nextMatchId < MaxMatches /\ StartMatch(r)
      <3>1. /\ rooms' = [rooms EXCEPT ![r] = InMatch(rooms[r], nextMatchId + 1)]
            /\ dead' = [dead EXCEPT ![r] = {}]
            /\ ready' = [ready EXCEPT ![r] = {}]
            /\ resolved' = resolved \ {r}
        BY <2>3 DEF StartMatch, ForgetMatch
      <3>2. InMatch(rooms[r], nextMatchId + 1).users = rooms[r].users
        BY <2>1, <2>3, SameRosterUpdates DEF TypeOK
      <3>3. \A s \in RoomNames : Keeps(s)
        BY <2>1, <2>3, <3>1, <3>2 DEF Keeps, Members, Exists, TypeOK
      <3>4. QED BY <3>3, CleanQuiet
    <2>4. QED BY <1>7, <2>2, <2>3 DEF TryStartGame, MayStart, MayStartCoop
  <1>8. ASSUME NEW r \in RoomNames, NEW u \in Users, RecordDeath(c, r, u) PROVE Clean'
    <2>1. /\ rooms[r].inGame /\ rooms' = rooms /\ ready' = ready
          /\ \A s \in RoomNames : s # r => dead'[s] = dead[s]
          /\ resolved' \subseteq resolved \union {r}
      BY <1>8 DEF RecordDeath, MayDie, TypeOK
    <2>2. QED BY <2>1 DEF Clean, NoLeftovers, Members
  <1>9. CASE RetryDeath(c)
    <2>1. /\ rooms' = rooms /\ ready' = ready
          /\ \A s \in RoomNames : dead'[s] \subseteq dead[s]
          /\ resolved' \subseteq resolved
      BY <1>9 DEF RetryDeath, TypeOK
    <2>2. QED BY <2>1 DEF Clean, NoLeftovers, Members
  <1>10. ASSUME NEW r \in RoomNames, NEW u \in Users, HandleReadyToExit(c, r, u)
         PROVE  Clean'
    <2>1. CASE rooms' = [rooms EXCEPT ![r] = Waiting(rooms[r])] /\ ForgetMatch(r)
      <3>1. ~Waiting(rooms[r]).inGame
        BY MatchUpdates DEF TypeOK
      <3>2. QED BY <2>1, <3>1 DEF Clean, NoLeftovers, Members, ForgetMatch, TypeOK
    <2>2. CASE /\ ready' = [ready EXCEPT ![r] = @ \union {u}]
               /\ UNCHANGED <<rooms, dead, resolved>>
      BY <1>10, <2>2 DEF HandleReadyToExit, Clean, NoLeftovers, Members, TypeOK
    <2>3. QED BY <1>10, <2>1, <2>2 DEF HandleReadyToExit
  <1>11. \/ UNCHANGED <<rooms, dead, ready, resolved>>
         \/ ForceExit(c) \/ TryStartGame(c) \/ RetryDeath(c)
         \/ \E r \in RoomNames : \/ \E coop \in BOOLEAN : CreateRoom(c, r, coop)
                                 \/ EnterRoom(c, r)
                                 \/ \E u \in Users : \/ ExitRoom(c, r, u)
                                                     \/ ChangeTeam(c, r, u)
                                                     \/ RecordDeath(c, r, u)
                                                     \/ HandleReadyToExit(c, r, u)
    BY DEF SessionStep, RoomStep, Continue, Login, LookUpRoom, ClearId, EraseSession,
           NameWinner, PayRewards, matchVars
  <1>12. QED
    BY <1>1, <1>2, <1>3, <1>4, <1>5, <1>6, <1>7, <1>8, <1>9, <1>10, <1>11

\* No death, acknowledgement or claim is on record for a room that is not in a
\* match, so no match begins with the records of another.
THEOREM CleanInvariant == Spec => []Clean
  <1>1. Init => Clean
    BY DEF Init, Clean, NoLeftovers, NoRoom
  <1>2. TypeOK /\ Clean /\ [Next]_vars => Clean'
    <2> SUFFICES ASSUME TypeOK, Clean, [Next]_vars PROVE Clean'
      OBVIOUS
    <2>1. CASE Next
      BY <2>1, CleanStep DEF Next
    <2>2. CASE UNCHANGED vars
      BY <2>2 DEF vars, Clean, NoLeftovers, Members
    <2>3. QED BY <2>1, <2>2
  <1>3. QED BY <1>1, <1>2, TypeCorrect, PTL DEF Spec

\* The same without the strengthening.
THEOREM NothingLeftOver == Spec => []NoLeftovers
  <1>1. Clean => NoLeftovers
    BY DEF Clean
  <1>2. QED BY <1>1, CleanInvariant, PTL

-----------------------------------------------------------------------------
(* How a match goes on *)

\* A room goes on with the match it plays ...
GoesOn(r) ==
  /\ rooms[r].inGame
  /\ rooms'[r].matchId = rooms[r].matchId
  /\ rooms'[r].coop = rooms[r].coop
  /\ Members(r)' \subseteq Members(r)
  /\ \A u \in Members(r)' : rooms'[r].team[u] = rooms[r].team[u]

\* ... or begins the next one.
Begins(r) ==
  /\ ~rooms[r].inGame
  /\ rooms'[r].matchId = nextMatchId + 1
  /\ r \notin resolved'

\* A member who goes leaves the match of the others as it was.
LEMMA RemoveMemberGoesOn ==
  ASSUME TypeOK, NEW r \in RoomNames, NEW u \in Users, NEW keep \in BOOLEAN,
         RemoveMember(r, u, keep)
  PROVE  \A s \in RoomNames : rooms'[s].inGame => GoesOn(s)
  <1>0. \A s \in RoomNames :
           Members(s)' = IF s = r THEN Members(r) \ {u} ELSE Members(s)
    BY RemoveMemberMembers
  <1>1. CASE rooms[r].users = {u}
    <2>1. ~NoRoom.inGame /\ rooms' = [rooms EXCEPT ![r] = NoRoom]
      BY <1>1 DEF RemoveMember, ForgetMatch, NoRoom
    <2>2. QED BY <1>0, <2>1 DEF GoesOn, TypeOK
  <1>2. CASE rooms[r].users # {u}
    <2>1. rooms' = [rooms EXCEPT ![r] = Without(rooms[r], u, keep)]
      BY <1>2 DEF RemoveMember, ForgetMatch
    <2> DEFINE R == Without(rooms[r], u, keep)
    <2>2. /\ R.inGame = rooms[r].inGame /\ R.matchId = rooms[r].matchId
          /\ R.coop = rooms[r].coop
          /\ \A v \in Users \ {u} : R.team[v] = rooms[r].team[v]
      BY RoomUpdates, RosterUpdates DEF TypeOK
    <2>3. Members(r) \subseteq Users
      BY DEF Members, TypeOK, Room
    <2>4. rooms'[r] = R /\ \A s \in RoomNames : s # r => rooms'[s] = rooms[s]
      BY <2>1 DEF TypeOK
    <2>5. rooms'[r].inGame => GoesOn(r)
      <3> HIDE DEF R
      <3> QED BY <1>0, <2>2, <2>3, <2>4 DEF GoesOn
    <2>6. QED BY <1>0, <2>4, <2>5 DEF GoesOn
  <1>3. QED BY <1>1, <1>2

\* Whatever a connection does, a room in a match afterwards has gone on with it
\* or just begun it.
LEMMA MatchesGoOn ==
  ASSUME TypeOK, NEW c \in Conns, SessionStep(c) \/ RoomStep(c) \/ Continue(c)
  PROVE  \A s \in RoomNames : rooms'[s].inGame => GoesOn(s) \/ Begins(s)
  <1>1. CASE rooms' = rooms
    BY <1>1 DEF GoesOn, Members
  <1>2. CASE ForceExit(c)
    <2>1. clientId[c] \in Users
      BY <1>2 DEF ForceExit, TypeOK
    <2>2. rooms' = rooms \/ \E r \in RoomNames : RemoveMember(r, clientId[c], FALSE)
      BY <1>2 DEF ForceExit
    <2>3. QED BY <1>1, <2>1, <2>2, RemoveMemberGoesOn
  <1>3. ASSUME NEW r \in RoomNames, NEW coop \in BOOLEAN, CreateRoom(c, r, coop)
        PROVE  \A s \in RoomNames : rooms'[s].inGame => GoesOn(s)
    <2> DEFINE R == With([NoRoom EXCEPT !.coop = coop], clientId[c],
                         IF coop THEN "Blue" ELSE "None")
    <2>1. clientId[c] \in Users
      BY <1>3 DEF CreateRoom, TypeOK
    <2>2. ~R.inGame
      BY <2>1, NewRoom
    <2>3. rooms' = [rooms EXCEPT ![r] = R]
      BY <1>3 DEF CreateRoom
    <2>4. QED
      <3> HIDE DEF R
      <3> QED BY <2>2, <2>3 DEF GoesOn, Members, TypeOK
  <1>4. ASSUME NEW r \in RoomNames, EnterRoom(c, r)
        PROVE  \A s \in RoomNames : rooms'[s].inGame => GoesOn(s)
    <2> DEFINE u == clientId[c]
               t == CASE ~rooms[r].coop                   -> rooms[r].team[u]
                      [] Cardinality(Members(r)) % 2 = 0  -> "Blue"
                      [] OTHER                            -> "Red"
    <2>1. u \in Users /\ rooms[r] \in Room /\ ~rooms[r].inGame
      BY <1>4 DEF EnterRoom, HasSeat, TypeOK
    <2>2. t \in Teams \union {"None"}
      BY <2>1 DEF Teams, Room
    <2>3. rooms' = [rooms EXCEPT ![r] = With(rooms[r], u, t)]
      BY <1>4 DEF EnterRoom, HasSeat
    <2>4. ~With(rooms[r], u, t).inGame
      <3> HIDE DEF t, u
      <3> QED BY <2>1, <2>2, RoomUpdates
    <2>5. QED
      <3> HIDE DEF t, u
      <3> QED BY <2>3, <2>4 DEF GoesOn, Members, TypeOK
  <1>5. ASSUME NEW r \in RoomNames, NEW u \in Users, ExitRoom(c, r, u)
        PROVE  \A s \in RoomNames : rooms'[s].inGame => GoesOn(s)
    BY <1>5, RemoveMemberGoesOn DEF ExitRoom
  <1>6. ASSUME NEW r \in RoomNames, NEW u \in Users, ChangeTeam(c, r, u)
        PROVE  \A s \in RoomNames : rooms'[s].inGame => GoesOn(s)
    <2> DEFINE t == IF rooms[r].team[u] = "Blue" THEN "Red" ELSE "Blue"
    <2>1. t \in Teams \union {"None"} /\ rooms[r] \in Room /\ ~rooms[r].inGame
      BY <1>6 DEF Teams, TypeOK, ChangeTeam
    <2>2. rooms' = [rooms EXCEPT ![r] = OnTeam(rooms[r], u, t)]
      BY <1>6 DEF ChangeTeam
    <2>3. ~OnTeam(rooms[r], u, t).inGame
      <3> HIDE DEF t
      <3> QED BY <2>1, RoomUpdates
    <2>4. QED
      <3> HIDE DEF t
      <3> QED BY <2>2, <2>3 DEF GoesOn, Members, TypeOK
  <1>7. CASE TryStartGame(c)
    <2> DEFINE r == task[c].name
    <2>1. r \in RoomNames
      BY <1>7, TaskFields DEF TryStartGame, TypeOK
    <2>2. CASE ~rooms[r].inGame /\ nextMatchId < MaxMatches /\ StartMatch(r)
      <3>1. /\ rooms' = [rooms EXCEPT ![r] = InMatch(rooms[r], nextMatchId + 1)]
            /\ resolved' = resolved \ {r}
        BY <2>2 DEF StartMatch, ForgetMatch
      <3>2. nextMatchId + 1 \in 0 .. MaxMatches /\ rooms[r] \in Room
        BY <2>1, <2>2 DEF TypeOK
      <3>3. InMatch(rooms[r], nextMatchId + 1).matchId = nextMatchId + 1
        BY <3>2, MatchUpdates
      <3>4. QED BY <2>1, <2>2, <3>1, <3>3 DEF GoesOn, Begins, Members, TypeOK
    <2>3. QED BY <1>1, <1>7, <2>2 DEF TryStartGame, MayStart, MayStartCoop
  <1>8. ASSUME NEW r \in RoomNames, NEW u \in Users, HandleReadyToExit(c, r, u)
        PROVE  \A s \in RoomNames : rooms'[s].inGame => GoesOn(s)
    <2>1. rooms' = rooms \/ rooms' = [rooms EXCEPT ![r] = Waiting(rooms[r])]
      BY <1>8 DEF HandleReadyToExit
    <2>2. ~Waiting(rooms[r]).inGame
      BY MatchUpdates DEF TypeOK
    <2>3. QED BY <2>1, <2>2 DEF GoesOn, Members, TypeOK
  <1>9. \/ rooms' = rooms
        \/ ForceExit(c) \/ TryStartGame(c)
        \/ \E r \in RoomNames : \/ \E coop \in BOOLEAN : CreateRoom(c, r, coop)
                                \/ EnterRoom(c, r)
                                \/ \E u \in Users : \/ ExitRoom(c, r, u)
                                                    \/ ChangeTeam(c, r, u)
                                                    \/ HandleReadyToExit(c, r, u)
    BY DEF SessionStep, RoomStep, Continue, Login, LookUpRoom, ClearId, EraseSession,
           NameWinner, PayRewards, RetryDeath, RecordDeath, MayDie
  <1>10. QED
    BY <1>1, <1>2, <1>3, <1>4, <1>5, <1>6, <1>7, <1>8, <1>9

\* During a match players only leave, and those who stay keep their teams.
THEOREM PlayersOnlyLeave == Spec => RosterOnlyShrinks
  <1>1. TypeOK /\ [Next]_vars =>
          [\A r \in RoomNames, m \in Matches :
             Playing(r, m) /\ Playing(r, m)' =>
               /\ Members(r)' \subseteq Members(r)
               /\ \A u \in Members(r)' : rooms'[r].team[u] = rooms[r].team[u]
               /\ rooms'[r].coop = rooms[r].coop]_vars
    <2> SUFFICES ASSUME TypeOK, Next, NEW r \in RoomNames, NEW m \in Matches,
                        Playing(r, m), Playing(r, m)'
                 PROVE  /\ Members(r)' \subseteq Members(r)
                        /\ \A u \in Members(r)' : rooms'[r].team[u] = rooms[r].team[u]
                        /\ rooms'[r].coop = rooms[r].coop
      OBVIOUS
    <2>1. GoesOn(r) \/ Begins(r)
      BY MatchesGoOn DEF Next, Playing
    <2>2. GoesOn(r)
      BY <2>1 DEF Begins, Playing
    <2>3. QED BY <2>2 DEF GoesOn
  <1>2. QED BY <1>1, TypeCorrect, PTL DEF Spec, RosterOnlyShrinks

-----------------------------------------------------------------------------
(* What a claim covers *)

\* Most steps add no claim, keep the ones there are, and pay nothing.
ClaimsStay ==
  /\ ledger' = ledger
  /\ resolved' \subseteq resolved
  /\ \A d \in Conns : task[d].op \in Paying \/ task'[d].op \in Paying
                         => task'[d] = task[d]

\* Such a step keeps ClaimCore: matches go on with fewer players, and a match
\* that begins is not the one of any claim.
LEMMA ClaimsQuiet ==
  ASSUME TypeOK, RewardCore, ClaimCore, Clean',
         \A r \in RoomNames : rooms'[r].inGame => GoesOn(r) \/ Begins(r),
         ClaimsStay
  PROVE  ClaimCore'
  <1>1. ASSUME NEW r \in RoomNames, NEW d \in Conns, task[d].op \in Paying,
               Playing(r, task[d].room.matchId)'
        PROVE  GoesOn(r) /\ Playing(r, task[d].room.matchId) /\ task'[d] = task[d]
    <2>1. task'[d] = task[d] /\ task[d].room.matchId \in 1 .. nextMatchId
      BY <1>1 DEF ClaimsStay, RewardCore, ClaimsAreResolved
    <2>2. GoesOn(r)
      BY <1>1, <2>1 DEF Playing, Begins, TypeOK
    <2>3. QED BY <1>1, <2>1, <2>2 DEF GoesOn, Playing
  <1>2. ASSUME NEW r \in resolved'
        PROVE  \/ ledger'[rooms'[r].matchId].times = 1
               \/ \E d \in Conns : task'[d].op \in Paying /\ Playing(r, task[d].room.matchId)'
    <2>1. r \in resolved /\ r \in RoomNames
      BY DEF ClaimsStay, TypeOK
    <2>2. rooms'[r].inGame
      BY <1>2, <2>1 DEF Clean, NoLeftovers
    <2>3. GoesOn(r)
      BY <1>2, <2>1, <2>2 DEF Begins
    <2>4. QED BY <2>1, <2>2, <2>3 DEF ClaimCore, ClaimIsBacked, GoesOn, Playing, ClaimsStay
  <1>3. ClaimIsBacked'
    BY <1>2 DEF ClaimIsBacked
  <1>4. ClaimCoversMembers'
    <2> SUFFICES ASSUME NEW r \in RoomNames, NEW d \in Conns, task'[d].op \in Paying,
                        Playing(r, task[d].room.matchId)'
                 PROVE  /\ Members(r)' \subseteq task'[d].room.users
                        /\ \A u \in Members(r)' : rooms'[r].team[u] = task'[d].room.team[u]
      BY DEF ClaimCoversMembers
    <2>1. GoesOn(r) /\ Playing(r, task[d].room.matchId) /\ task'[d] = task[d]
      BY <1>1 DEF ClaimsStay
    <2>2. QED BY <2>1 DEF GoesOn, ClaimCore, ClaimCoversMembers
  <1>5. CopyIsDecided'
    <2> SUFFICES ASSUME NEW d \in Conns, task'[d].op \in Paying
                 PROVE  /\ IsFiniteSet(task'[d].room.users)
                        /\ Decided(task'[d].room, task'[d].dead)
      BY DEF CopyIsDecided, Decided
    <2>1. task'[d] = task[d] /\ task[d].op \in Paying
      BY DEF ClaimsStay
    <2>2. QED BY <2>1 DEF ClaimCore, CopyIsDecided
  <1>6. WinnerStands'
    <2> SUFFICES ASSUME NEW d \in Conns, NEW r \in RoomNames,
                        task'[d].op \in {"pay", "retry"},
                        Playing(r, task[d].room.matchId)',
                        NEW u \in Members(r)' \ task'[d].dead
                 PROVE  task'[d].winner = IF task'[d].room.coop THEN task'[d].room.team[u]
                                                                ELSE <<"nickname", u>>
      BY DEF WinnerStands
    <2>1. task'[d] = task[d] /\ task[d].op \in Paying
      BY DEF ClaimsStay, Paying
    <2>2. GoesOn(r) /\ Playing(r, task[d].room.matchId)
      BY <1>1, <2>1
    <2>3. QED BY <2>1, <2>2 DEF GoesOn, ClaimCore, WinnerStands
  <1>7. QED BY <1>3, <1>4, <1>5, <1>6 DEF ClaimCore

\* A set that shares one value has one survivor, or one team of survivors.
LEMMA DecidedMeansOne ==
  ASSUME NEW R \in Room, NEW D, IsFiniteSet(R.users), Decided(R, D)
  PROVE  \A u, v \in R.users \ D : IF R.coop THEN R.team[u] = R.team[v] ELSE u = v
  <1> DEFINE S == R.users \ D
             T == {R.team[u] : u \in S}
  <1>1. CASE R.coop
    <2>1. IsFiniteSet({"Blue", "Red", "None"})
      <3>1. IsFiniteSet({"Blue"} \union {"Red"})
        BY FS_Singleton, FS_AddElement
      <3>2. IsFiniteSet(({"Blue"} \union {"Red"}) \union {"None"})
        BY <3>1, FS_AddElement
      <3>3. ({"Blue"} \union {"Red"}) \union {"None"} = {"Blue", "Red", "None"}
        OBVIOUS
      <3>4. QED BY <3>2, <3>3
    <2>2. T \subseteq {"Blue", "Red", "None"}
      BY DEF Room, Teams
    <2>3. IsFiniteSet(T)
      BY <2>1, <2>2, FS_Subset
    <2>4. Cardinality(T) = 1
      BY <1>1 DEF Decided
    <2>5. PICK x : T = {x}
      BY <2>3, <2>4, FS_Singleton
    <2>6. \A u \in S : R.team[u] = x
      BY <2>5
    <2>7. QED BY <1>1, <2>6
  <1>2. CASE ~R.coop
    <2>1. IsFiniteSet(S)
      BY FS_Subset
    <2>2. Cardinality(S) = 1
      BY <1>2 DEF Decided
    <2>3. PICK x : S = {x}
      BY <2>1, <2>2, FS_Singleton
    <2>4. QED BY <1>2, <2>3
  <1>3. QED BY <1>1, <1>2

\* The deciding death takes a claim that covers the room as it stands.
LEMMA ClaimTaken ==
  ASSUME TypeOK, RewardCore, Roster, ClaimCore,
         NEW c \in Conns, NEW r \in RoomNames, NEW t,
         task[c].op \notin Paying, rooms[r].inGame,
         t.op = "name", t.room = rooms[r], Decided(rooms[r], t.dead),
         task' = [task EXCEPT ![c] = t], resolved' = resolved \union {r},
         UNCHANGED <<rooms, ledger>>
  PROVE  ClaimCore'
  <1>1. \A d \in Conns : task'[d] = IF d = c THEN t ELSE task[d]
    BY DEF TypeOK
  <1>2. "name" \in Paying /\ "name" \notin {"pay", "retry"}
    BY DEF Paying
  <1>3. ClaimIsBacked'
    <2> SUFFICES ASSUME NEW s \in resolved'
                 PROVE  \/ ledger[rooms[s].matchId].times = 1
                        \/ \E d \in Conns : /\ task'[d].op \in Paying
                                            /\ Playing(s, task'[d].room.matchId)
      BY DEF ClaimIsBacked, Playing
    <2>1. CASE s = r
      BY <1>1, <1>2, <2>1 DEF Playing
    <2>2. CASE s \in resolved
      BY <1>1, <2>2 DEF ClaimCore, ClaimIsBacked
    <2>3. QED BY <2>1, <2>2
  <1>4. ClaimCoversMembers'
    <2> SUFFICES ASSUME NEW s \in RoomNames, NEW d \in Conns, task'[d].op \in Paying,
                        Playing(s, task'[d].room.matchId)
                 PROVE  /\ Members(s) \subseteq task'[d].room.users
                        /\ \A u \in Members(s) : rooms[s].team[u] = task'[d].room.team[u]
      BY DEF ClaimCoversMembers, Members, Playing
    <2>1. CASE d # c
      BY <1>1, <2>1 DEF ClaimCore, ClaimCoversMembers
    <2>2. CASE d = c
      <3>1. s = r
        BY <1>1, <2>2 DEF RewardCore, MatchIdsIssued, Playing
      <3>2. QED BY <1>1, <2>2, <3>1 DEF Members
    <2>3. QED BY <2>1, <2>2
  <1>5. CopyIsDecided'
    <2> SUFFICES ASSUME NEW d \in Conns, task'[d].op \in Paying
                 PROVE  /\ IsFiniteSet(task'[d].room.users)
                        /\ Decided(task'[d].room, task'[d].dead)
      BY DEF CopyIsDecided, Decided
    <2>1. IsFiniteSet(rooms[r].users)
      BY DEF Roster, Members
    <2>2. QED BY <1>1, <2>1 DEF ClaimCore, CopyIsDecided
  <1>6. WinnerStands'
    <2> SUFFICES ASSUME NEW d \in Conns, NEW s \in RoomNames,
                        task'[d].op \in {"pay", "retry"},
                        Playing(s, task'[d].room.matchId),
                        NEW u \in Members(s) \ task'[d].dead
                 PROVE  task'[d].winner = IF task'[d].room.coop THEN task'[d].room.team[u]
                                                                ELSE <<"nickname", u>>
      BY DEF WinnerStands, Playing, Members
    <2>1. task'[d] = task[d]
      BY <1>1, <1>2
    <2>2. QED BY <2>1 DEF ClaimCore, WinnerStands
  <1>7. QED BY <1>3, <1>4, <1>5, <1>6 DEF ClaimCore

\* A claim moves on with the copy it holds; the winner it names is right.
LEMMA ClaimMovesOn ==
  ASSUME TypeOK, ClaimCore, NEW c \in Conns, NEW t,
         task[c].op \in Paying, t.op \in Paying,
         t.room = task[c].room, t.dead = task[c].dead,
         \A r \in RoomNames : Playing(r, t.room.matchId) =>
            \A u \in Members(r) \ t.dead :
               t.winner = IF t.room.coop THEN t.room.team[u] ELSE <<"nickname", u>>,
         task' = [task EXCEPT ![c] = t],
         UNCHANGED <<rooms, resolved, ledger>>
  PROVE  ClaimCore'
  <1>1. \A d \in Conns : task'[d] = IF d = c THEN t ELSE task[d]
    BY DEF TypeOK
  <1>2. \A d \in Conns : /\ task'[d].op \in Paying <=> task[d].op \in Paying
                         /\ task'[d].op \in Paying => /\ task'[d].room = task[d].room
                                                      /\ task'[d].dead = task[d].dead
    BY <1>1
  <1>3. ClaimIsBacked'
    BY <1>2 DEF ClaimCore, ClaimIsBacked, Playing
  <1>4. ClaimCoversMembers'
    BY <1>2 DEF ClaimCore, ClaimCoversMembers, Playing, Members
  <1>5. CopyIsDecided'
    <2> SUFFICES ASSUME NEW d \in Conns, task'[d].op \in Paying
                 PROVE  /\ IsFiniteSet(task'[d].room.users)
                        /\ Decided(task'[d].room, task'[d].dead)
      BY DEF CopyIsDecided, Decided
    <2>1. QED BY <1>2 DEF ClaimCore, CopyIsDecided
  <1>6. WinnerStands'
    <2> SUFFICES ASSUME NEW d \in Conns, NEW r \in RoomNames,
                        task'[d].op \in {"pay", "retry"},
                        Playing(r, task'[d].room.matchId),
                        NEW u \in Members(r) \ task'[d].dead
                 PROVE  task'[d].winner = IF task'[d].room.coop THEN task'[d].room.team[u]
                                                                ELSE <<"nickname", u>>
      BY DEF WinnerStands, Playing, Members
    <2>1. CASE d = c
      BY <1>1, <2>1
    <2>2. CASE d # c
      BY <1>1, <2>2 DEF ClaimCore, WinnerStands
    <2>3. QED BY <2>1, <2>2
  <1>7. QED BY <1>3, <1>4, <1>5, <1>6 DEF ClaimCore

\* A claim ends: its match is paid, or no room that plays it stays resolved.
LEMMA ClaimEnds ==
  ASSUME TypeOK, ClaimCore, NEW c \in Conns, task[c].op \in Paying,
         task' = [task EXCEPT ![c] = Idle],
         UNCHANGED rooms, resolved' \subseteq resolved,
         \A m \in Matches : ledger[m].times = 1 => ledger'[m].times = 1,
         \A r \in resolved' : rooms[r].matchId \in Matches,
         \A r \in resolved' : Playing(r, task[c].room.matchId)
                                => ledger'[task[c].room.matchId].times = 1
  PROVE  ClaimCore'
  <1>1. \A d \in Conns : task'[d] = IF d = c THEN Idle ELSE task[d]
    BY DEF TypeOK
  <1>2. \A d \in Conns : task'[d].op \in Paying => d # c /\ task'[d] = task[d]
    BY <1>1, Ops
  <1>3. ClaimIsBacked'
    <2> SUFFICES ASSUME NEW r \in resolved'
                 PROVE  \/ ledger'[rooms[r].matchId].times = 1
                        \/ \E d \in Conns : /\ task'[d].op \in Paying
                                            /\ Playing(r, task'[d].room.matchId)
      BY DEF ClaimIsBacked, Playing
    <2>1. CASE ledger[rooms[r].matchId].times = 1
      BY <2>1
    <2>2. CASE \E d \in Conns : task[d].op \in Paying /\ Playing(r, task[d].room.matchId)
      BY <1>1, <2>2 DEF Playing
    <2>3. QED BY <2>1, <2>2 DEF ClaimCore, ClaimIsBacked
  <1>4. ClaimCoversMembers'
    BY <1>2 DEF ClaimCore, ClaimCoversMembers, Playing, Members
  <1>5. CopyIsDecided'
    <2> SUFFICES ASSUME NEW d \in Conns, task'[d].op \in Paying
                 PROVE  /\ IsFiniteSet(task'[d].room.users)
                        /\ Decided(task'[d].room, task'[d].dead)
      BY DEF CopyIsDecided, Decided
    <2>1. QED BY <1>2 DEF ClaimCore, CopyIsDecided
  <1>6. WinnerStands'
    <2> SUFFICES ASSUME NEW d \in Conns, NEW s \in RoomNames,
                        task'[d].op \in {"pay", "retry"},
                        Playing(s, task'[d].room.matchId),
                        NEW u \in Members(s) \ task'[d].dead
                 PROVE  task'[d].winner = IF task'[d].room.coop THEN task'[d].room.team[u]
                                                                ELSE <<"nickname", u>>
      BY DEF WinnerStands, Playing, Members
    <2>1. task'[d] = task[d]
      BY <1>2 DEF Paying
    <2>2. QED BY <2>1 DEF ClaimCore, WinnerStands
  <1>7. QED BY <1>3, <1>4, <1>5, <1>6 DEF ClaimCore

\* Every step of a connection keeps ClaimCore.
LEMMA ClaimCoreStep ==
  ASSUME TypeOK, RewardCore, Roster, Clean, Clean', ClaimCore, NEW c \in Conns,
         SessionStep(c) \/ RoomStep(c) \/ Continue(c)
  PROVE  ClaimCore'
  <1>0. /\ task[c] \in Task
        /\ \A r \in RoomNames : rooms'[r].inGame => GoesOn(r) \/ Begins(r)
    BY MatchesGoOn DEF TypeOK
  <1>1. ASSUME ledger' = ledger, resolved' \subseteq resolved,
               \/ task' = task
               \/ \E t : Goto(c, t) /\ t.op \notin Paying /\ task[c].op \notin Paying
        PROVE  ClaimCore'
    <2>1. ClaimsStay
      BY <1>1, GotoTask DEF ClaimsStay
    <2>2. QED BY <1>0, <2>1, ClaimsQuiet
  <1>2. CASE SessionStep(c) \/ ClearId(c) \/ EraseSession(c) \/ TryStartGame(c)
    <2>1. ledger' = ledger /\ resolved' \subseteq resolved
      BY <1>2 DEF SessionStep, Login, ForceExit, RemoveMember, ForgetMatch, ClearId,
                  EraseSession, TryStartGame, StartMatch, matchVars
    <2>2. task[c].op \notin Paying
      BY <1>2, Ops DEF SessionStep, Login, ForceExit, ClearId, EraseSession, TryStartGame, Paying
    <2>3. \/ task' = task
          \/ Goto(c, [op |-> "clear", user |-> clientId[c]])
          \/ Goto(c, [op |-> "erase", user |-> task[c].user])
          \/ Goto(c, Idle)
      BY <1>2 DEF SessionStep, Login, ForceExit, ClearId, EraseSession, TryStartGame
    <2>4. task' = task \/ \E t : Goto(c, t) /\ t.op \notin Paying
      <3>1. [op |-> "clear", user |-> clientId[c]].op \notin Paying
        BY DEF Paying
      <3>2. [op |-> "erase", user |-> task[c].user].op \notin Paying
        BY DEF Paying
      <3>3. QED BY <2>3, <3>1, <3>2, Ops, Zenon
    <2>5. QED BY <1>1, <2>1, <2>2, <2>4
  <1>3. ASSUME NEW r \in RoomNames,
               \/ \E coop \in BOOLEAN : CreateRoom(c, r, coop)
               \/ EnterRoom(c, r)
               \/ LookUpRoom(c, r)
               \/ \E u \in Users : \/ ExitRoom(c, r, u)
                                   \/ ChangeTeam(c, r, u)
                                   \/ HandleReadyToExit(c, r, u)
        PROVE  ClaimCore'
    <2>1. ledger' = ledger /\ resolved' \subseteq resolved /\ task[c] = Idle
      BY <1>3 DEF CreateRoom, EnterRoom, LookUpRoom, ExitRoom, RemoveMember, ForgetMatch,
                  ChangeTeam, HandleReadyToExit, matchVars
    <2>2. \/ task' = task
          \/ Goto(c, [op |-> "start", name |-> r, coop |-> rooms[r].coop])
      BY <1>3 DEF CreateRoom, EnterRoom, LookUpRoom, ExitRoom, ChangeTeam, HandleReadyToExit
    <2>3. task' = task \/ \E t : Goto(c, t) /\ t.op \notin Paying
      <3>1. [op |-> "start", name |-> r, coop |-> rooms[r].coop].op \notin Paying
        BY DEF Paying
      <3>2. QED BY <2>2, <3>1, Zenon
    <2>4. QED BY <1>1, <2>1, <2>3, Ops
  <1>4. ASSUME NEW r \in RoomNames, NEW u \in Users, RecordDeath(c, r, u)
        PROVE  ClaimCore'
    <2> DEFINE fallen == dead[r] \union {u}
               t == [op |-> "name", name |-> r, room |-> rooms[r],
                     dead |-> fallen, died |-> u, winner |-> "None"]
    <2>1. /\ task[c] = Idle /\ rooms[r].inGame
          /\ UNCHANGED <<rooms, ledger>>
      BY <1>4 DEF RecordDeath, MayDie
    <2>2. CASE Decided(rooms[r], fallen) /\ resolved' = resolved \union {r} /\ Goto(c, t)
      <3>1. t.op = "name" /\ t.room = rooms[r] /\ t.dead = fallen
        OBVIOUS
      <3>2. task' = [task EXCEPT ![c] = t]
        BY <2>2 DEF Goto
      <3> HIDE DEF t, fallen
      <3>3. QED BY <2>1, <2>2, <3>1, <3>2, ClaimTaken, Ops
    <2>3. CASE UNCHANGED <<resolved, task>>
      BY <1>1, <2>1, <2>3
    <2>4. QED BY <1>4, <2>2, <2>3 DEF RecordDeath, MayDie
  <1>5. CASE NameWinner(c)
    <2>1. /\ task[c].op \in Paying
          /\ task[c] \in [op : Paying, name : RoomNames, room : Room,
                          dead : SUBSET Users, died : Users,
                          winner : Names \union Teams \union {"None"}]
      BY <1>0, <1>5, TaskFields DEF NameWinner, Paying
    <2> DEFINE R == task[c].room
    <2>2. PICK u \in R.users \ task[c].dead :
             Goto(c, [task[c] EXCEPT !.op = "pay",
                        !.winner = IF R.coop THEN R.team[u] ELSE Nickname(u)])
      BY <1>5 DEF NameWinner
    <2> DEFINE w == IF R.coop THEN R.team[u] ELSE Nickname(u)
               t == [task[c] EXCEPT !.op = "pay", !.winner = w]
    <2>3. /\ t.op = "pay" /\ t.room = R /\ t.dead = task[c].dead /\ t.winner = w
          /\ "pay" \in Paying
      BY <2>1 DEF Paying
    <2>4. ASSUME NEW r \in RoomNames, Playing(r, R.matchId), NEW v \in Members(r) \ task[c].dead
          PROVE  w = IF R.coop THEN R.team[v] ELSE <<"nickname", v>>
      <3>1. v \in R.users
        BY <2>1, <2>4 DEF ClaimCore, ClaimCoversMembers
      <3>2. IF R.coop THEN R.team[u] = R.team[v] ELSE u = v
        BY <2>1, <2>2, <2>4, <3>1, DecidedMeansOne DEF ClaimCore, CopyIsDecided
      <3>3. HasSession(v)
        BY <2>4 DEF Roster, MembersHaveSessions, HasSession, Members, TypeOK, Room
      <3>4. QED BY <3>2, <3>3 DEF Nickname
    <2>5. /\ task' = [task EXCEPT ![c] = t]
          /\ UNCHANGED <<rooms, resolved, ledger>>
      BY <1>5, <2>2 DEF NameWinner, Goto, matchVars
    <2>6. QED
      <3> HIDE DEF t, w
      <3>1. \A r \in RoomNames : Playing(r, t.room.matchId) =>
               \A v \in Members(r) \ t.dead :
                  t.winner = IF t.room.coop THEN t.room.team[v] ELSE <<"nickname", v>>
        BY <2>3, <2>4
      <3>2. QED BY <2>1, <2>3, <2>5, <3>1, ClaimMovesOn
  <1>6. CASE PayRewards(c)
    <2>1. /\ task[c].op = "pay" /\ task[c].op \in Paying
          /\ task[c] \in [op : Paying, name : RoomNames, room : Room,
                          dead : SUBSET Users, died : Users,
                          winner : Names \union Teams \union {"None"}]
      BY <1>0, <1>6, TaskFields DEF PayRewards, Paying
    <2>2. UNCHANGED <<rooms, resolved>>
      BY <1>6 DEF PayRewards, matchVars
    <2> DEFINE m == task[c].room.matchId
               w == Winners(task[c])
    <2>3. CASE /\ ledger' = [ledger EXCEPT ![m] = [times |-> @.times + 1, winners |-> w]]
               /\ Goto(c, Idle)
      <3>1. m \in Matches /\ ledger[m].times = 0
        <4>1. m \in 1..nextMatchId
          BY <2>1 DEF RewardCore, ClaimsAreResolved
        <4>2. m \in Matches
          BY <4>1 DEF TypeOK, Matches
        <4>3. Claims(c, m)
          BY <2>1 DEF Claims
        <4> HIDE DEF m
        <4>4. ledger[m].times = 0
          BY <4>2, <4>3 DEF RewardCore, OneRewardPerMatch
        <4>5. QED BY <4>2, <4>4
      <3>2. ledger'[m].times = 1 /\ \A n \in Matches : n # m => ledger'[n] = ledger[n]
        <4> HIDE DEF w, m
        <4> QED BY <2>3, <3>1 DEF TypeOK
      <3>3. \A r \in resolved : rooms[r].matchId \in Matches
        BY DEF Clean, NoLeftovers, RewardCore, MatchIdsIssued, TypeOK, Matches
      <3>4. \A n \in Matches : ledger[n].times = 1 => ledger'[n].times = 1
        <4> HIDE DEF m
        <4> QED BY <3>1, <3>2
      <3>5. QED BY <2>1, <2>2, <2>3, <3>2, <3>3, <3>4, ClaimEnds DEF Goto
    <2>4. CASE Goto(c, [task[c] EXCEPT !.op = "retry"]) /\ UNCHANGED ledger
      <3> DEFINE t == [task[c] EXCEPT !.op = "retry"]
      <3>1. /\ t.op \in Paying /\ t.room = task[c].room /\ t.dead = task[c].dead
            /\ t.winner = task[c].winner
        BY <2>1 DEF Paying
      <3>2. \A r \in RoomNames : Playing(r, m) =>
               \A u \in Members(r) \ task[c].dead :
                  task[c].winner = IF task[c].room.coop THEN task[c].room.team[u]
                                                        ELSE <<"nickname", u>>
        BY <2>1 DEF ClaimCore, WinnerStands
      <3>3. task' = [task EXCEPT ![c] = t]
        BY <2>4 DEF Goto
      <3> HIDE DEF t
      <3>4. QED BY <2>1, <2>2, <2>4, <3>1, <3>2, <3>3, ClaimMovesOn
    <2>5. QED BY <1>6, <2>3, <2>4 DEF PayRewards
  <1>7. CASE RetryDeath(c)
    <2> DEFINE m == task[c].room.matchId
               r == task[c].name
    <2>1. /\ task[c].op \in Paying /\ task' = [task EXCEPT ![c] = Idle]
          /\ UNCHANGED <<rooms, ledger>>
          /\ resolved' = IF SameMatch(r, task[c].room) THEN resolved \ {r} ELSE resolved
      BY <1>7 DEF RetryDeath, Goto, Paying
    <2>2. \A s \in resolved : rooms[s].matchId \in Matches
      BY DEF Clean, NoLeftovers, RewardCore, MatchIdsIssued, TypeOK, Matches
    <2>3. \A s \in resolved' : ~Playing(s, m)
      BY <2>1 DEF RewardCore, ClaimsAreResolved, Playing, SameMatch, TypeOK
    <2>4. QED BY <2>1, <2>2, <2>3, ClaimEnds
  <1>8. QED
    BY <1>2, <1>3, <1>4, <1>5, <1>6, <1>7 DEF RoomStep, Continue

\* Claims are backed, cover the players still in the match, and pay by a copy
\* that names the right winner.
THEOREM ClaimInvariant == Spec => []ClaimCore
  <1>1. Init => ClaimCore
    BY DEF Init, ClaimCore, ClaimIsBacked, ClaimCoversMembers, CopyIsDecided,
           WinnerStands, Idle, Paying
  <1>2. /\ TypeOK /\ RewardInv /\ Roster /\ Clean /\ Clean' /\ ClaimCore
        /\ [Next]_vars
        => ClaimCore'
    <2> SUFFICES ASSUME TypeOK, RewardInv, Roster, Clean, Clean', ClaimCore, [Next]_vars
                 PROVE  ClaimCore'
      OBVIOUS
    <2>1. RewardCore
      BY DEF RewardInv, RewardCore
    <2>2. CASE Next
      BY <2>1, <2>2, ClaimCoreStep DEF Next
    <2>3. CASE UNCHANGED vars
      <3>1. ClaimsStay /\ \A r \in RoomNames : rooms'[r].inGame => GoesOn(r)
        BY <2>3 DEF vars, ClaimsStay, GoesOn, Members
      <3>2. QED BY <2>1, <3>1, ClaimsQuiet
    <2>4. QED BY <2>2, <2>3
  <1>3. QED BY <1>1, <1>2, TypeCorrect, RewardInvariant, RosterInvariant, CleanInvariant,
               PTL DEF Spec

\* A claim in resolvedRooms_ is paid or in the hands of a thread that pays it.
THEOREM ClaimsAreBacked == Spec => []ClaimIsBacked
  <1>1. ClaimCore => ClaimIsBacked
    BY DEF ClaimCore
  <1>2. QED BY <1>1, ClaimInvariant, PTL

\* Everybody still in a claimed match is in the copy the claim pays from, with
\* the team it had when the match was decided.
THEOREM ClaimsCoverMembers == Spec => []ClaimCoversMembers
  <1>1. ClaimCore => ClaimCoversMembers
    BY DEF ClaimCore
  <1>2. QED BY <1>1, ClaimInvariant, PTL

-----------------------------------------------------------------------------
(* What a step may not do *)

\* Apart from RetryDeath, no step of a connection takes back a claim or a death
\* of a match that goes on.
LEMMA RecordsStay ==
  ASSUME TypeOK, NEW c \in Conns, SessionStep(c) \/ RoomStep(c) \/ Continue(c),
         ~RetryDeath(c), NEW r \in RoomNames, rooms[r].inGame, rooms'[r].inGame
  PROVE  (r \in resolved => r \in resolved') /\ dead[r] \subseteq dead'[r]
  <1>1. CASE UNCHANGED <<dead, resolved>>
    BY <1>1
  <1>2. ASSUME NEW s \in RoomNames, NEW u \in Users, NEW keep \in BOOLEAN,
               RemoveMember(s, u, keep)
        PROVE  (r \in resolved => r \in resolved') /\ dead[r] \subseteq dead'[r]
    <2>1. ~NoRoom.inGame
      BY DEF NoRoom
    <2>2. QED BY <1>2, <2>1 DEF RemoveMember, ForgetMatch, TypeOK
  <1>3. CASE ForceExit(c)
    <2>1. clientId[c] \in Users
      BY <1>3 DEF ForceExit, TypeOK
    <2>2. QED BY <1>1, <1>2, <1>3, <2>1 DEF ForceExit
  <1>4. ASSUME NEW s \in RoomNames, NEW u \in Users, ExitRoom(c, s, u)
        PROVE  (r \in resolved => r \in resolved') /\ dead[r] \subseteq dead'[r]
    BY <1>2, <1>4 DEF ExitRoom
  <1>5. CASE TryStartGame(c)
    <2> DEFINE s == task[c].name
    <2>1. s \in RoomNames
      BY <1>5, TaskFields DEF TryStartGame, TypeOK
    <2>2. CASE ~rooms[s].inGame /\ StartMatch(s)
      BY <2>1, <2>2 DEF StartMatch, ForgetMatch, TypeOK
    <2>3. QED BY <1>1, <1>5, <2>2 DEF TryStartGame, MayStart, MayStartCoop, matchVars
  <1>6. ASSUME NEW s \in RoomNames, NEW u \in Users, RecordDeath(c, s, u)
        PROVE  (r \in resolved => r \in resolved') /\ dead[r] \subseteq dead'[r]
    BY <1>6 DEF RecordDeath, MayDie, TypeOK
  <1>7. ASSUME NEW s \in RoomNames, NEW u \in Users, HandleReadyToExit(c, s, u)
        PROVE  (r \in resolved => r \in resolved') /\ dead[r] \subseteq dead'[r]
    <2>1. ~Waiting(rooms[s]).inGame
      BY MatchUpdates DEF TypeOK
    <2>2. QED BY <1>7, <2>1 DEF HandleReadyToExit, ForgetMatch, TypeOK
  <1>8. \/ UNCHANGED <<dead, resolved>>
        \/ ForceExit(c) \/ TryStartGame(c)
        \/ \E s \in RoomNames, u \in Users : \/ ExitRoom(c, s, u)
                                             \/ RecordDeath(c, s, u)
                                             \/ HandleReadyToExit(c, s, u)
    BY DEF SessionStep, RoomStep, Continue, Login, CreateRoom, EnterRoom, LookUpRoom,
           ChangeTeam, ClearId, EraseSession, NameWinner, PayRewards, matchVars
  <1>9. QED BY <1>1, <1>3, <1>4, <1>5, <1>6, <1>7, <1>8

\* A claim or a death is taken back only by the thread whose payment failed.
THEOREM ClaimsReleasedByOwner == Spec => OnlyOwnClaimReleased
  <1>1. TypeOK /\ [Next]_vars =>
          [\A r \in RoomNames, m \in Matches :
             /\ Playing(r, m) /\ Playing(r, m)'
             /\ r \in resolved \ resolved' \/ dead[r] \ dead'[r] # {}
             => \E c \in Conns : /\ task[c].op = "retry" /\ Claims(c, m)
                                 /\ dead[r] \ dead'[r] \subseteq {task[c].died}]_vars
    <2> SUFFICES ASSUME TypeOK, Next, NEW r \in RoomNames, NEW m \in Matches,
                        Playing(r, m), Playing(r, m)',
                        r \in resolved \ resolved' \/ dead[r] \ dead'[r] # {}
                 PROVE  \E c \in Conns : /\ task[c].op = "retry" /\ Claims(c, m)
                                         /\ dead[r] \ dead'[r] \subseteq {task[c].died}
      OBVIOUS
    <2>1. PICK c \in Conns : SessionStep(c) \/ RoomStep(c) \/ Continue(c)
      BY DEF Next
    <2>2. RetryDeath(c)
      BY <2>1, RecordsStay DEF Playing
    <2>3. r = task[c].name /\ SameMatch(r, task[c].room)
      BY <2>2 DEF RetryDeath, TypeOK
    <2>4. /\ task[c].op = "retry" /\ Claims(c, m)
          /\ dead[r] \ dead'[r] \subseteq {task[c].died}
      BY <2>2, <2>3 DEF RetryDeath, TypeOK, Claims, Paying, SameMatch, Playing
    <2>5. QED BY <2>4
  <1>2. QED BY <1>1, TypeCorrect, PTL DEF Spec, OnlyOwnClaimReleased

\* A payment makes no loser of a survivor who is still in the match.
THEOREM SurvivorsNeverLose == Spec => OnlyFallenLose
  <1>1. TypeOK /\ RewardInv /\ Roster /\ ClaimCore /\ [Next]_vars =>
          [\A m \in Matches, c \in Conns :
             Claims(c, m) /\ ledger'[m].times > ledger[m].times =>
               \A u \in task[c].room.users \ (ledger'[m].winners \union task[c].dead) :
                 ~\E r \in RoomNames : Playing(r, m) /\ u \in Members(r)]_vars
    <2> SUFFICES ASSUME TypeOK, RewardInv, Roster, ClaimCore, Next,
                        NEW m \in Matches, NEW c \in Conns,
                        Claims(c, m), ledger'[m].times > ledger[m].times,
                        NEW u \in task[c].room.users \ (ledger'[m].winners \union task[c].dead),
                        NEW r \in RoomNames, Playing(r, m), u \in Members(r)
                 PROVE  FALSE
      OBVIOUS
    <2>1. PICK d \in Conns : PayRewards(d) /\ ledger' # ledger
      <3>1. ledger' # ledger
        BY DEF TypeOK
      <3>2. PICK d \in Conns : SessionStep(d) \/ RoomStep(d) \/ Continue(d)
        BY DEF Next
      <3>3. PayRewards(d)
        BY <3>1, <3>2 DEF SessionStep, RoomStep, Continue, Login, ForceExit, CreateRoom,
             EnterRoom, LookUpRoom, ExitRoom, ChangeTeam, RecordDeath, MayDie,
             HandleReadyToExit, ClearId, EraseSession, TryStartGame, NameWinner, RetryDeath
      <3>4. QED BY <3>1, <3>3
    <2>2. /\ task[d].op = "pay"
          /\ ledger' = [ledger EXCEPT ![task[d].room.matchId] =
                          [times |-> @.times + 1, winners |-> Winners(task[d])]]
      BY <2>1 DEF PayRewards
    <2>3. task[d].room.matchId = m
      BY <2>2 DEF TypeOK
    <2>4. d = c
      BY <2>2, <2>3 DEF RewardInv, OneRewardPerMatch, Claims, Paying
    <2>5. ledger'[m].winners = Winners(task[c])
      BY <2>2, <2>3, <2>4 DEF TypeOK
    <2>6. task[c].winner = IF task[c].room.coop THEN task[c].room.team[u]
                                                ELSE <<"nickname", u>>
      BY <2>2, <2>3, <2>4 DEF ClaimCore, WinnerStands
    <2>7. HasSession(u) /\ u \in Users
      BY DEF Roster, MembersHaveSessions, HasSession, Members, TypeOK, Room
    <2>8. u \in Winners(task[c])
      BY <2>6, <2>7 DEF Winners, Nickname
    <2>9. QED BY <2>5, <2>8
  <1>2. QED BY <1>1, TypeCorrect, RewardInvariant, RosterInvariant, ClaimInvariant,
               PTL DEF Spec, OnlyFallenLose

-----------------------------------------------------------------------------
(* The rooms implement MatchReward *)

\* A match stays in its phase while nothing is paid, claimed or given back and
\* no match begins.
LEMMA SamePhase ==
  ASSUME NEW m \in Matches, ledger'[m] = ledger[m],
         m <= nextMatchId' <=> m <= nextMatchId,
         (\E c \in Conns : Claims(c, m)') <=> (\E c \in Conns : Claims(c, m))
  PROVE  MatchPhase(m)' = MatchPhase(m)
  BY DEF MatchPhase, Claims

\* One match that changes phase while the others keep theirs is a move.
LEMMA PhaseMove ==
  ASSUME NEW m \in Matches, NEW from, NEW to,
         MatchPhase(m) = from, MatchPhase(m)' = to,
         \A n \in Matches : n # m => MatchPhase(n)' = MatchPhase(n)
  PROVE  Reward!Move(m, from, to)
  BY DEF Reward!Move

\* Whoever does not pay, claim or give back leaves every match in its phase,
\* except for the one TryStartGame begins.
LEMMA QuietPhases ==
  ASSUME ledger' = ledger, nextMatchId' = nextMatchId,
         \A d \in Conns : /\ task'[d].op \in Paying <=> task[d].op \in Paying
                          /\ task'[d].op \in Paying => task'[d].room = task[d].room
  PROVE  \A m \in Matches : MatchPhase(m)' = MatchPhase(m)
  BY SamePhase DEF Claims

\* Every step of a connection is a move of one match, or none.
LEMMA RewardRefinesStep ==
  ASSUME TypeOK, RewardCore, NEW c \in Conns,
         SessionStep(c) \/ RoomStep(c) \/ Continue(c)
  PROVE  \/ Reward!Next
         \/ \A m \in Matches : MatchPhase(m)' = MatchPhase(m)
  <1>0. task[c] \in Task
    BY DEF TypeOK
  <1>1. ASSUME ledger' = ledger, nextMatchId' = nextMatchId,
               \/ task' = task
               \/ \E t : Goto(c, t) /\ t.op \notin Paying /\ task[c].op \notin Paying
               \/ \E t : Goto(c, t) /\ t.op \in Paying /\ task[c].op \in Paying
                                    /\ t.room = task[c].room
        PROVE  \A m \in Matches : MatchPhase(m)' = MatchPhase(m)
    BY <1>1, GotoTask, QuietPhases
  <1>2. CASE SessionStep(c) \/ ClearId(c) \/ EraseSession(c)
    <2>1. ledger' = ledger /\ nextMatchId' = nextMatchId /\ task[c].op \notin Paying
      BY <1>2, Ops DEF SessionStep, Login, ForceExit, ClearId, EraseSession, matchVars, Paying
    <2>2. \/ task' = task
          \/ Goto(c, [op |-> "clear", user |-> clientId[c]])
          \/ Goto(c, [op |-> "erase", user |-> task[c].user])
          \/ Goto(c, Idle)
      BY <1>2 DEF SessionStep, Login, ForceExit, ClearId, EraseSession
    <2>3. task' = task \/ \E t : Goto(c, t) /\ t.op \notin Paying
      <3>1. [op |-> "clear", user |-> clientId[c]].op \notin Paying
        BY DEF Paying
      <3>2. [op |-> "erase", user |-> task[c].user].op \notin Paying
        BY DEF Paying
      <3>3. QED BY <2>2, <3>1, <3>2, Ops, Zenon
    <2>4. QED BY <1>1, <2>1, <2>3
  <1>3. ASSUME NEW r \in RoomNames,
               \/ \E coop \in BOOLEAN : CreateRoom(c, r, coop)
               \/ EnterRoom(c, r)
               \/ LookUpRoom(c, r)
               \/ \E u \in Users : \/ ExitRoom(c, r, u)
                                   \/ ChangeTeam(c, r, u)
                                   \/ HandleReadyToExit(c, r, u)
        PROVE  \A m \in Matches : MatchPhase(m)' = MatchPhase(m)
    <2>1. ledger' = ledger /\ nextMatchId' = nextMatchId /\ task[c] = Idle
      BY <1>3 DEF CreateRoom, EnterRoom, LookUpRoom, ExitRoom, ChangeTeam,
                  HandleReadyToExit, matchVars
    <2>2. \/ task' = task
          \/ Goto(c, [op |-> "start", name |-> r, coop |-> rooms[r].coop])
      BY <1>3 DEF CreateRoom, EnterRoom, LookUpRoom, ExitRoom, ChangeTeam, HandleReadyToExit
    <2>3. task' = task \/ \E t : Goto(c, t) /\ t.op \notin Paying
      <3>1. [op |-> "start", name |-> r, coop |-> rooms[r].coop].op \notin Paying
        BY DEF Paying
      <3>2. QED BY <2>2, <3>1, Zenon
    <2>4. QED BY <1>1, <2>1, <2>3, Ops
  <1>4. CASE TryStartGame(c)
    <2>1. /\ ledger' = ledger /\ task[c].op \notin Paying
          /\ Goto(c, Idle)
      BY <1>4 DEF TryStartGame, Paying
    <2>2. CASE UNCHANGED <<rooms, matchVars>>
      BY <1>1, <2>1, <2>2, Ops DEF matchVars
    <2>3. CASE nextMatchId < MaxMatches /\ nextMatchId' = nextMatchId + 1
      <3>0. PICK m \in Matches : m = nextMatchId + 1
        BY <2>3 DEF Matches, TypeOK
      <3>1. ~(m <= nextMatchId) /\ m <= nextMatchId'
        BY <2>3, <3>0 DEF TypeOK
      <3>2. \A n \in Matches :
               (\E d \in Conns : Claims(d, n)') <=> (\E d \in Conns : Claims(d, n))
        BY <2>1, GotoTask, Ops DEF Claims
      <3>3. \A d \in Conns : ~Claims(d, m)
        BY <3>1 DEF RewardCore, ClaimsAreResolved, Claims, TypeOK
      <3>4. ledger[m].times = 0
        BY <3>1 DEF RewardCore, PaidAreResolved, TypeOK
      <3>5. MatchPhase(m) = "unplayed"
        BY <3>1, <3>3, <3>4 DEF MatchPhase
      <3>6. MatchPhase(m)' = "open"
        BY <2>1, <3>1, <3>2, <3>3, <3>4 DEF MatchPhase
      <3>7. ASSUME NEW n \in Matches, n # m PROVE MatchPhase(n)' = MatchPhase(n)
        <4>1. n <= nextMatchId' <=> n <= nextMatchId
          BY <2>3, <3>0, <3>7 DEF Matches, TypeOK
        <4>2. QED BY <2>1, <3>2, <4>1, SamePhase
      <3>8. Reward!Start(m)
        BY <3>5, <3>6, <3>7, PhaseMove DEF Reward!Start
      <3>9. QED BY <3>8 DEF Reward!Next
    <2>4. QED BY <1>4, <2>2, <2>3 DEF TryStartGame, StartMatch
  <1>5. ASSUME NEW r \in RoomNames, NEW u \in Users, RecordDeath(c, r, u)
        PROVE  \/ Reward!Next
               \/ \A m \in Matches : MatchPhase(m)' = MatchPhase(m)
    <2> DEFINE t == [op |-> "name", name |-> r, room |-> rooms[r],
                     dead |-> dead[r] \union {u}, died |-> u, winner |-> "None"]
    <2>1. /\ task[c] = Idle /\ rooms[r].inGame /\ r \notin resolved
          /\ ledger' = ledger /\ nextMatchId' = nextMatchId
      BY <1>5 DEF RecordDeath, MayDie
    <2>2. CASE UNCHANGED <<resolved, task>>
      BY <1>1, <2>1, <2>2
    <2>3. CASE Goto(c, t)
      <3>0. PICK m \in Matches : m = rooms[r].matchId
        BY <2>1 DEF RewardCore, MatchIdsIssued, TypeOK, Matches
      <3>1. m <= nextMatchId
        BY <2>1, <3>0 DEF RewardCore, MatchIdsIssued
      <3>2. ledger[m].times = 0
        BY <2>1, <3>0 DEF RewardCore, PaidAreResolved, Playing, TypeOK
      <3>3. \A d \in Conns : ~Claims(d, m)
        BY <2>1, <3>0 DEF RewardCore, ClaimsAreResolved, Playing, Claims
      <3>4. t.op \in Paying /\ t.room.matchId = m
        BY <3>0 DEF Paying
      <3>5. \A d \in Conns : task'[d] = IF d = c THEN t ELSE task[d]
        BY <2>3, GotoTask
      <3>6. MatchPhase(m) = "open"
        BY <3>1, <3>2, <3>3 DEF MatchPhase
      <3>7. MatchPhase(m)' = "claimed"
        <4>1. Claims(c, m)'
          <5> HIDE DEF t
          <5> QED BY <3>4, <3>5 DEF Claims
        <4>2. QED BY <2>1, <3>2, <4>1 DEF MatchPhase
      <3>8. ASSUME NEW n \in Matches, n # m PROVE MatchPhase(n)' = MatchPhase(n)
        <4> HIDE DEF t
        <4>1. (\E d \in Conns : Claims(d, n)') <=> (\E d \in Conns : Claims(d, n))
          BY <2>1, <3>4, <3>5, <3>8, Ops DEF Claims
        <4>2. QED BY <2>1, <4>1, SamePhase
      <3>9. Reward!Claim(m)
        BY <3>6, <3>7, <3>8, PhaseMove DEF Reward!Claim
      <3>10. QED BY <3>9 DEF Reward!Next
    <2>4. QED BY <1>5, <2>2, <2>3 DEF RecordDeath, MayDie
  <1>6. CASE NameWinner(c)
    <2>1. PICK w : Goto(c, [task[c] EXCEPT !.op = "pay", !.winner = w])
      BY <1>6 DEF NameWinner
    <2> DEFINE t == [task[c] EXCEPT !.op = "pay", !.winner = w]
    <2>2. t.op \in Paying /\ t.room = task[c].room /\ task[c].op \in Paying
      BY <1>0, <1>6, TaskFields DEF NameWinner, Paying
    <2>3. ledger' = ledger /\ nextMatchId' = nextMatchId
      BY <1>6 DEF NameWinner, matchVars
    <2>4. QED
      <3>1. Goto(c, t)
        BY <2>1
      <3> HIDE DEF t
      <3> QED BY <1>1, <2>2, <2>3, <3>1
  <1>7. ASSUME task[c].op \in Paying, Goto(c, Idle), nextMatchId' = nextMatchId,
               NEW m \in Matches, Claims(c, m),
               \A n \in Matches : n # m => ledger'[n] = ledger[n],
               NEW to \in {"open", "paid"},
               ledger'[m].times = IF to = "paid" THEN 1 ELSE 0
        PROVE  Reward!Move(m, "claimed", to)
    <2>1. /\ m <= nextMatchId /\ ledger[m].times = 0
          /\ \A d \in Conns : Claims(d, m) => d = c
      BY <1>7 DEF RewardCore, OneRewardPerMatch, ClaimsAreResolved, Claims, TypeOK
    <2>2. \A d \in Conns : task'[d] = IF d = c THEN Idle ELSE task[d]
      BY <1>7, GotoTask
    <2>3. \A d \in Conns : ~Claims(d, m)'
      BY <2>1, <2>2, Ops DEF Claims
    <2>4. MatchPhase(m) = "claimed"
      BY <1>7, <2>1 DEF MatchPhase
    <2>5. MatchPhase(m)' = to
      BY <1>7, <2>1, <2>3 DEF MatchPhase, Claims
    <2>6. ASSUME NEW n \in Matches, n # m PROVE MatchPhase(n)' = MatchPhase(n)
      <3>1. (\E d \in Conns : Claims(d, n)') <=> (\E d \in Conns : Claims(d, n))
        BY <1>7, <2>2, <2>6, Ops DEF Claims
      <3>2. QED BY <1>7, <2>6, <3>1, SamePhase
    <2>7. QED BY <2>4, <2>5, <2>6, PhaseMove
  <1>8. CASE PayRewards(c)
    <2> DEFINE w == Winners(task[c])
               t == [task[c] EXCEPT !.op = "retry"]
    <2>1. /\ task[c].op \in Paying /\ nextMatchId' = nextMatchId
          /\ t.op \in Paying /\ t.room = task[c].room
      BY <1>0, <1>8, TaskFields DEF PayRewards, Paying, matchVars
    <2>2. PICK m \in Matches : m = task[c].room.matchId
      BY <2>1 DEF RewardCore, ClaimsAreResolved, TypeOK, Matches
    <2>3. Claims(c, m) /\ ledger[m].times = 0
      BY <2>1, <2>2 DEF RewardCore, OneRewardPerMatch, Claims
    <2>4. CASE /\ ledger' = [ledger EXCEPT ![m] = [times |-> @.times + 1, winners |-> w]]
               /\ Goto(c, Idle)
      <3>1. ledger'[m].times = 1 /\ \A n \in Matches : n # m => ledger'[n] = ledger[n]
        <4> HIDE DEF w
        <4> QED BY <2>3, <2>4 DEF TypeOK
      <3>2. Reward!Pay(m)
        BY <1>7, <2>1, <2>3, <2>4, <3>1 DEF Reward!Pay
      <3>3. QED BY <3>2 DEF Reward!Next
    <2>5. CASE Goto(c, t) /\ ledger' = ledger
      <3> HIDE DEF t
      <3> QED BY <1>1, <2>1, <2>5
    <2>6. QED BY <1>8, <2>2, <2>4, <2>5 DEF PayRewards
  <1>9. CASE RetryDeath(c)
    <2>1. /\ task[c].op \in Paying /\ nextMatchId' = nextMatchId
          /\ Goto(c, Idle) /\ ledger' = ledger
      BY <1>9 DEF RetryDeath, Paying
    <2>2. PICK m \in Matches : m = task[c].room.matchId
      BY <2>1 DEF RewardCore, ClaimsAreResolved, TypeOK, Matches
    <2>3. Claims(c, m) /\ ledger[m].times = 0
      BY <2>1, <2>2 DEF RewardCore, OneRewardPerMatch, Claims
    <2>4. Reward!Release(m)
      BY <1>7, <2>1, <2>3 DEF Reward!Release
    <2>5. QED BY <2>4 DEF Reward!Next
  <1>10. QED
    BY <1>2, <1>3, <1>4, <1>5, <1>6, <1>8, <1>9 DEF RoomStep, Continue

\* Match by match, the rooms do what MatchReward allows: a match is played,
\* claimed by one death, and paid at most once or handed back.
THEOREM RoomsImplementReward == Spec => RewardSpec
  <1>1. Init => Reward!Init
    <2> SUFFICES ASSUME Init PROVE Reward!Init
      OBVIOUS
    <2>1. ASSUME NEW m \in Matches PROVE MatchPhase(m) = "unplayed"
      <3>1. ~(m <= nextMatchId) /\ ledger[m].times = 0 /\ \A c \in Conns : ~Claims(c, m)
        BY Ops DEF Init, Matches, Claims
      <3>2. QED BY <3>1 DEF MatchPhase
    <2>2. QED BY <2>1 DEF Reward!Init
  <1>2. RewardInv /\ [Next]_vars => [Reward!Next]_([m \in Matches |-> MatchPhase(m)])
    <2> SUFFICES ASSUME RewardInv, [Next]_vars
                 PROVE  \/ Reward!Next
                        \/ \A m \in Matches : MatchPhase(m)' = MatchPhase(m)
      OBVIOUS
    <2>1. TypeOK /\ RewardCore
      BY DEF RewardInv, RewardCore
    <2>2. CASE Next
      BY <2>1, <2>2, RewardRefinesStep DEF Next
    <2>3. CASE UNCHANGED vars
      BY <2>3 DEF vars, MatchPhase, Claims
    <2>4. QED BY <2>2, <2>3
  <1>3. QED BY <1>1, <1>2, RewardInvariant, PTL DEF Spec, RewardSpec, Reward!Spec
==============================================================================
