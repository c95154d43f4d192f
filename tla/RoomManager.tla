----------------------------- MODULE RoomManager -----------------------------
(***************************************************************************)
(* Rooms, sessions and matches: RoomManager.cpp with the handlers of       *)
(* ClientHandler.cpp that drive it.                                        *)
(*                                                                         *)
(* One receive thread runs per connection, so a connection is a process    *)
(* and task[c] is what its thread has in hand.  A handler that works under *)
(* one acquisition of roomsMutex is one action.  START_GAME, LOGOUT and a  *)
(* deciding DEAD release the lock in between and take several.  A packet   *)
(* names its user by nickname and nothing ties that nickname to the        *)
(* sender, so every request takes the acting connection and the named user *)
(* apart.                                                                  *)
(*                                                                         *)
(* A handler that resolves a nickname and then changes a room is collapsed *)
(* to the moment it holds roomsMutex: its change needs the named user to   *)
(* be a member at that moment, and a member always has a session           *)
(* (MembersHaveSessions), so the earlier lookup can only turn the handler  *)
(* into a no-op.                                                           *)
(***************************************************************************)
EXTENDS Naturals, FiniteSets

CONSTANTS
  Users,       \* account ids
  Conns,       \* accepted connections, each with its receive thread
  RoomNames,   \* room names clients choose
  TeamSize,    \* players of one team; the code's value is 2
  MaxMatches,  \* bound on ++nextMatchId_
  NoUser,      \* an empty ClientInfo::id
  NoConn       \* no entry in clientsMap

ASSUME RoomManagerAssumption ==
  /\ TeamSize \in Nat \ {0}
  /\ MaxMatches \in Nat
  /\ NoUser \notin Users
  /\ NoConn \notin Conns

VARIABLES
  clientId,    \* ClientInfo::id of each connection
  clientsMap,  \* ClientHandler::clientsMap, the login sessions
  rooms,       \* RoomManager::rooms by name; no member means no such room
  dead,        \* deadUsersByRoom
  ready,       \* readyUsersByRoom
  resolved,    \* resolvedRooms_, the claims on a match result
  nextMatchId, \* nextMatchId_
  task,        \* what the thread of a connection is in the middle of
  ledger       \* history: the committed reward transactions of each match

sessionVars == <<clientId, clientsMap>>
matchVars   == <<dead, ready, resolved, nextMatchId>>
vars        == <<clientId, clientsMap, rooms, dead, ready, resolved,
                 nextMatchId, task, ledger>>

Teams    == {"Blue", "Red"}
Matches  == 1 .. MaxMatches
Capacity == 2 * TeamSize

\* What GetNicknameById returns: the nickname of a session, else the id.
Names == {"nickname", "id"} \X Users

\* Room: the members (join order is layout only), the mode, the team entries.
Room == [users   : SUBSET Users,
         coop    : BOOLEAN,
         team    : [Users -> Teams \union {"None"}],
         inGame  : BOOLEAN,
         matchId : 0 .. MaxMatches]

NoRoom == [users |-> {}, coop |-> FALSE, team |-> [u \in Users |-> "None"],
           inGame |-> FALSE, matchId |-> 0]

Idle == [op |-> "idle"]

\* The thread of a connection is idle, part way through LogoutUser, between
\* the two room lookups of START_GAME, or paying a match it has claimed.
Task ==
       {Idle}
  \union [op : {"clear", "erase"}, user : Users]
  \union [op : {"start"}, name : RoomNames, coop : BOOLEAN]
  \union [op : {"name", "pay", "retry"}, name : RoomNames, room : Room,
          dead : SUBSET Users, died : Users, winner : Names \union Teams \union {"None"}]

Paying == {"name", "pay", "retry"}

TypeOK ==
  /\ clientId \in [Conns -> Users \union {NoUser}]
  /\ clientsMap \in [Users -> Conns \union {NoConn}]
  /\ rooms \in [RoomNames -> Room]
  /\ dead \in [RoomNames -> SUBSET Users]
  /\ ready \in [RoomNames -> SUBSET Users]
  /\ resolved \subseteq RoomNames
  /\ nextMatchId \in 0 .. MaxMatches
  /\ task \in [Conns -> Task]
  /\ ledger \in [Matches -> [times : Nat, winners : SUBSET Users]]

Init ==
  /\ clientId = [c \in Conns |-> NoUser]
  /\ clientsMap = [u \in Users |-> NoConn]
  /\ rooms = [r \in RoomNames |-> NoRoom]
  /\ dead = [r \in RoomNames |-> {}]
  /\ ready = [r \in RoomNames |-> {}]
  /\ resolved = {}
  /\ nextMatchId = 0
  /\ task = [c \in Conns |-> Idle]
  /\ ledger = [m \in Matches |-> [times |-> 0, winners |-> {}]]

-----------------------------------------------------------------------------
(* Lookups *)

Exists(r)  == rooms[r].users # {}
Members(r) == rooms[r].users
InRoomPlaying(u) == \E r \in RoomNames : rooms[r].inGame /\ u \in rooms[r].users
InRoom(u)        == \E r \in RoomNames : u \in rooms[r].users

HasSession(u) ==
  \E v \in Users : clientsMap[v] # NoConn /\ clientId[clientsMap[v]] = u

\* GetNicknameById falls back to the id when no session carries it.
Nickname(u) == IF HasSession(u) THEN <<"nickname", u>> ELSE <<"id", u>>

TeamMembers(room, t) == {u \in room.users : room.team[u] = t}

\* A room after one member more or less, a team change, and at the two ends of
\* a match.  ExitRoom forgets to erase the team entry; ForceExitRoom does not.
With(room, u, t)       == [room EXCEPT !.users = @ \union {u}, !.team[u] = t]
Without(room, u, keep) == [room EXCEPT !.users = @ \ {u},
                                       !.team[u] = IF keep THEN @ ELSE "None"]
OnTeam(room, u, t)     == [room EXCEPT !.team[u] = t]
InMatch(room, m)       == [room EXCEPT !.inGame = TRUE, !.matchId = m]
StillInGame(room)      == room
Waiting(room)          == [room EXCEPT !.inGame = FALSE]

Goto(c, next) == task' = [task EXCEPT ![c] = next]

-----------------------------------------------------------------------------
(* Sessions *)

\* LOGIN: the whole handler holds the user-state lock; the last check and the
\* publication of the session share one acquisition of clientsMutex.
Login(c, u) ==
  /\ task[c] = Idle
  /\ clientId[c] = NoUser
  /\ clientsMap[u] = NoConn
  /\ clientId' = [clientId EXCEPT ![c] = u]
  /\ clientsMap' = [clientsMap EXCEPT ![u] = c]
  /\ UNCHANGED <<rooms, matchVars, task, ledger>>

\* The three erasures that go with every end and every start of a match.
ForgetMatchButReady(r) ==
  /\ dead' = [dead EXCEPT ![r] = {}]
  /\ resolved' = resolved \ {r}
  /\ UNCHANGED ready

ForgetMatch(r) ==
  /\ dead' = [dead EXCEPT ![r] = {}]
  /\ ready' = [ready EXCEPT ![r] = {}]
  /\ resolved' = resolved \ {r}

\* What leaves of room r once u is gone: the last member takes the room and
\* its match state along.
RemoveMember(r, u, keepTeam) ==
  IF rooms[r].users = {u}
  THEN /\ rooms' = [rooms EXCEPT ![r] = NoRoom]
       /\ ForgetMatch(r)
  ELSE /\ rooms' = [rooms EXCEPT ![r] = Without(@, u, keepTeam)]
       /\ UNCHANGED <<dead, ready, resolved>>

\* ForceExitRoomByUserId, the first step of LOGOUT and of the cleanup after
\* the receive loop.
ForceExit(c) ==
  /\ task[c] = Idle
  /\ clientId[c] # NoUser
  /\ LET u == clientId[c] IN
       /\ Goto(c, [op |-> "clear", user |-> u])
       /\ \/ \E r \in RoomNames : u \in Members(r) /\ RemoveMember(r, u, FALSE)
          \/ ~InRoom(u) /\ UNCHANGED <<rooms, dead, ready, resolved>>
  /\ UNCHANGED <<sessionVars, nextMatchId, ledger>>

\* LogoutUser clears the id under one acquisition of clientsMutex ...
ClearId(c) ==
  /\ task[c].op = "clear"
  /\ clientId' = [clientId EXCEPT ![c] = NoUser]
  /\ Goto(c, [op |-> "erase", user |-> task[c].user])
  /\ UNCHANGED <<clientsMap, rooms, matchVars, ledger>>

\* ... and RemoveLoginSession erases the map entry under the next.
EraseSession(c) ==
  /\ task[c].op = "erase"
  /\ clientsMap' = [clientsMap EXCEPT ![task[c].user] = NoConn]
  /\ Goto(c, Idle)
  /\ UNCHANGED <<clientId, rooms, matchVars, ledger>>

-----------------------------------------------------------------------------
(* Waiting rooms *)

CreateRoom(c, r, coop) ==
  /\ task[c] = Idle
  /\ clientId[c] # NoUser
  /\ ~Exists(r)
  /\ ~InRoom(clientId[c])
  /\ rooms' = [rooms EXCEPT ![r] = With([NoRoom EXCEPT !.coop = coop], clientId[c],
                                        IF coop THEN "Blue" ELSE "None")]
  /\ UNCHANGED <<sessionVars, matchVars, task, ledger>>

\* ENTER_ROOM is refused by a room in a match and by a full one.
HasSeatAnyTime(r) == Exists(r) /\ Cardinality(Members(r)) < Capacity
HasSeat(r) == Exists(r) /\ ~rooms[r].inGame /\ Cardinality(Members(r)) < Capacity

EnterRoom(c, r) ==
  /\ task[c] = Idle
  /\ clientId[c] # NoUser
  /\ ~InRoom(clientId[c])
  /\ HasSeat(r)
  /\ LET u == clientId[c]
         t == CASE ~rooms[r].coop                   -> rooms[r].team[u]
                [] Cardinality(Members(r)) % 2 = 0  -> "Blue"
                [] OTHER                            -> "Red"
     IN  rooms' = [rooms EXCEPT ![r] = With(@, u, t)]
  /\ UNCHANGED <<sessionVars, matchVars, task, ledger>>

ExitRoom(c, r, u) ==
  /\ task[c] = Idle
  /\ u \in Members(r)
  /\ RemoveMember(r, u, TRUE)
  /\ UNCHANGED <<sessionVars, nextMatchId, task, ledger>>

ChangeTeam(c, r, u) ==
  /\ task[c] = Idle
  /\ u \in Members(r)
  /\ rooms[r].coop
  /\ ~rooms[r].inGame
  /\ rooms[r].team[u] \in Teams
  /\ LET other == IF rooms[r].team[u] = "Blue" THEN "Red" ELSE "Blue"
     IN  rooms' = [rooms EXCEPT ![r] = OnTeam(@, u, other)]
  /\ UNCHANGED <<sessionVars, matchVars, task, ledger>>

-----------------------------------------------------------------------------
(* Starting a match *)

\* START_GAME reads the mode from a copy of the room (FindRoomByName) ...
LookUpRoom(c, r) ==
  /\ task[c] = Idle
  /\ Exists(r)
  /\ Goto(c, [op |-> "start", name |-> r, coop |-> rooms[r].coop])
  /\ UNCHANGED <<sessionVars, rooms, matchVars, ledger>>

MayStart(r) ==
  Exists(r) /\ ~rooms[r].inGame /\ Cardinality(Members(r)) >= 2

MayStartCoop(r) ==
  /\ Exists(r) /\ ~rooms[r].inGame
  /\ Cardinality(Members(r)) = Capacity
  /\ \A t \in Teams : Cardinality(TeamMembers(rooms[r], t)) = TeamSize

StartMatch(r) ==
  /\ nextMatchId' = nextMatchId + 1
  /\ rooms' = [rooms EXCEPT ![r] = InMatch(@, nextMatchId + 1)]
  /\ ForgetMatch(r)

\* ... and then starts the room of that name by the mode it read.  Past the
\* bound MaxMatches every start is refused.
TryStartGame(c) ==
  /\ task[c].op = "start"
  /\ LET r  == task[c].name
         ok == /\ nextMatchId < MaxMatches
               /\ IF task[c].coop THEN MayStartCoop(r) ELSE MayStart(r)
     IN  \/ ok /\ StartMatch(r)
         \/ ~ok /\ UNCHANGED <<rooms, matchVars>>
  /\ Goto(c, Idle)
  /\ UNCHANGED <<sessionVars, ledger>>

-----------------------------------------------------------------------------
(* Deaths and rewards *)

\* A death counts once per match, and no longer once the result is claimed.
MayDie(r, u) ==
  rooms[r].inGame /\ r \notin resolved /\ u \in Members(r) \ dead[r]

\* The result is decided when one player, or one team, is left.
DecidedByFallen(room, fallen) ==
  LET survivors == room.users \ fallen
  IN  IF room.coop THEN Cardinality({room.team[u] : u \in fallen}) = 1
                   ELSE Cardinality(survivors) = 1

Decided(room, fallen) ==
  LET survivors == room.users \ fallen
  IN  IF room.coop THEN Cardinality({room.team[u] : u \in survivors}) = 1
                   ELSE Cardinality(survivors) = 1

\* DEAD up to RecordDeath: the thread that decides the match claims it and
\* keeps a copy of the room and of the dead.
RecordDeath(c, r, u) ==
  /\ task[c] = Idle
  /\ MayDie(r, u)
  /\ LET fallen == dead[r] \union {u} IN
       /\ dead' = [dead EXCEPT ![r] = fallen]
       /\ IF Decided(rooms[r], fallen)
          THEN /\ resolved' = resolved \union {r}
               /\ Goto(c, [op |-> "name", name |-> r, room |-> rooms[r],
                           dead |-> fallen, died |-> u, winner |-> "None"])
          ELSE UNCHANGED <<resolved, task>>
  /\ UNCHANGED <<sessionVars, rooms, ready, nextMatchId, ledger>>

\* The winner is named from the copy: a team, or the nickname of the survivor
\* as GetNicknameById answers now.
NameWinner(c) ==
  /\ task[c].op = "name"
  /\ \E u \in task[c].room.users \ task[c].dead :
       Goto(c, [task[c] EXCEPT !.op = "pay",
                  !.winner = IF task[c].room.coop THEN task[c].room.team[u]
                                                  ELSE Nickname(u)])
  /\ UNCHANGED <<sessionVars, rooms, matchVars, ledger>>

\* Who the reward loop takes for a winner, reading nicknames a second time.
Winners(t) ==
  IF t.room.coop THEN {u \in t.room.users : t.room.team[u] = t.winner}
                 ELSE {u \in t.room.users : Nickname(u) = t.winner}

\* The reward transaction: all of the copied members in one commit, or an
\* error that rolls the memory back.
PayRewards(c) ==
  /\ task[c].op = "pay"
  /\ LET m == task[c].room.matchId IN
     \/ /\ ledger' = [ledger EXCEPT ![m] = [times   |-> @.times + 1,
                                            winners |-> Winners(task[c])]]
        /\ Goto(c, Idle)
     \/ /\ Goto(c, [task[c] EXCEPT !.op = "retry"])
        /\ UNCHANGED ledger
  /\ UNCHANGED <<sessionVars, rooms, matchVars>>

\* RetryDeath gives the claim back if the room still plays that match.
SameName(r, room)     == rooms[r].inGame
SameSnapshot(r, room) == rooms[r] = room
SameMatch(r, room)    == rooms[r].inGame /\ rooms[r].matchId = room.matchId

RetryDeath(c) ==
  /\ task[c].op = "retry"
  /\ LET r == task[c].name IN
       IF SameMatch(r, task[c].room)
       THEN /\ resolved' = resolved \ {r}
            /\ dead' = [dead EXCEPT ![r] = @ \ {task[c].died}]
       ELSE UNCHANGED <<resolved, dead>>
  /\ Goto(c, Idle)
  /\ UNCHANGED <<sessionVars, rooms, ready, nextMatchId, ledger>>

-----------------------------------------------------------------------------
(* Leaving the results screen *)

\* The barrier: every member has acknowledged once u has.
AllReady(r, u) == Members(r) \subseteq ready[r] \union {u}

HandleReadyToExit(c, r, u) ==
  /\ task[c] = Idle
  /\ u \in Members(r)
  /\ rooms[r].inGame
  /\ u \notin ready[r]
  /\ IF AllReady(r, u)
     THEN /\ rooms' = [rooms EXCEPT ![r] = Waiting(@)]
          /\ ForgetMatch(r)
     ELSE /\ ready' = [ready EXCEPT ![r] = @ \union {u}]
          /\ UNCHANGED <<rooms, dead, resolved>>
  /\ UNCHANGED <<sessionVars, nextMatchId, task, ledger>>

-----------------------------------------------------------------------------
SessionStep(c) ==
  \/ \E u \in Users : Login(c, u)
  \/ ForceExit(c)

RoomStep(c) ==
  \E r \in RoomNames :
     \/ \E coop \in BOOLEAN : CreateRoom(c, r, coop)
     \/ EnterRoom(c, r)
     \/ LookUpRoom(c, r)
     \/ \E u \in Users : \/ ExitRoom(c, r, u)
                         \/ ChangeTeam(c, r, u)
                         \/ RecordDeath(c, r, u)
                         \/ HandleReadyToExit(c, r, u)

\* The rest of a handler that has begun.
Continue(c) ==
  \/ ClearId(c)
  \/ EraseSession(c)
  \/ TryStartGame(c)
  \/ NameWinner(c)
  \/ PayRewards(c)
  \/ RetryDeath(c)

Next == \E c \in Conns : SessionStep(c) \/ RoomStep(c) \/ Continue(c)

Spec == Init /\ [][Next]_vars

\* A thread that has begun a handler is scheduled until it is done: no step of
\* a handler waits for a client.
FairSpec == Spec /\ \A c \in Conns : WF_vars(Continue(c))

-----------------------------------------------------------------------------
(* Invariants *)

Claims(c, m)  == task[c].op \in Paying /\ task[c].room.matchId = m
Playing(r, m) == rooms[r].inGame /\ rooms[r].matchId = m

\* A user is a member of at most one room and a room never holds more than two
\* teams, although CreateRoom, EnterRoom and ExitRoom each see one moment only.
Membership ==
  /\ \A r, s \in RoomNames : r # s => Members(r) \cap Members(s) = {}
  /\ \A r \in RoomNames : Cardinality(Members(r)) <= Capacity

\* Every member of a room is the user of a connection that has not begun to
\* log out: LOGOUT and a disconnect leave the room before they touch the
\* session, and nobody else can put the user back in between.
MembersHaveSessions ==
  \A r \in RoomNames : \A u \in Members(r) :
     \E c \in Conns : /\ clientsMap[u] = c
                      /\ clientId[c] = u
                      /\ task[c].op \notin {"clear", "erase"}

\* Death, ready and claim bookkeeping exists only for a room in a match, so no
\* later match can inherit any of it.
NoLeftovers ==
  \A r \in RoomNames :
     ~rooms[r].inGame => dead[r] = {} /\ ready[r] = {} /\ r \notin resolved

\* The reward of a match is committed at most once, however DEAD packets,
\* failed commits, retries, exits and restarts of the room interleave; and no
\* two threads ever hold a claim on one match.
OneRewardPerMatch ==
  \A m \in Matches :
     /\ ledger[m].times <= 1
     /\ \A c, d \in Conns : Claims(c, m) /\ Claims(d, m) => c = d
     /\ \A c \in Conns : Claims(c, m) => ledger[m].times = 0

\* A claim in resolvedRooms_ never leaks: its match has been paid, or a thread
\* is still working on the payment and will pay or give the claim back.
ClaimIsBacked ==
  \A r \in resolved :
     \/ ledger[rooms[r].matchId].times = 1
     \/ \E c \in Conns : task[c].op \in Paying /\ Playing(r, task[c].room.matchId)

\* The copy a claim pays from still covers everybody who is in the match.
ClaimCoversMembers ==
  \A r \in RoomNames, c \in Conns :
     task[c].op \in Paying /\ Playing(r, task[c].room.matchId)
        => /\ Members(r) \subseteq task[c].room.users
           /\ \A u \in Members(r) : rooms[r].team[u] = task[c].room.team[u]

-----------------------------------------------------------------------------
(* The strengthening that makes OneRewardPerMatch inductive *)

\* Match ids in play have been issued and no two rooms share one.
MatchIdsIssued ==
  \A r \in RoomNames : rooms[r].inGame =>
     /\ rooms[r].matchId \in 1 .. nextMatchId
     /\ \A s \in RoomNames : Playing(s, rooms[r].matchId) => r = s

\* A room that still plays a claimed match is the room of the claim, and
\* resolvedRooms_ keeps it from being claimed again.
ClaimsAreResolved ==
  \A c \in Conns : task[c].op \in Paying =>
     /\ task[c].room.matchId \in 1 .. nextMatchId
     /\ \A r \in RoomNames :
          Playing(r, task[c].room.matchId) => r = task[c].name /\ r \in resolved

\* So does a room that still plays a paid match.
PaidAreResolved ==
  \A m \in Matches : ledger[m].times > 0 =>
     /\ m <= nextMatchId
     /\ \A r \in RoomNames : Playing(r, m) => r \in resolved

\* Holds in every reachable state, and every step keeps it.
RewardInv ==
  /\ TypeOK
  /\ OneRewardPerMatch
  /\ MatchIdsIssued
  /\ ClaimsAreResolved
  /\ PaidAreResolved

-----------------------------------------------------------------------------
(* Action properties *)

\* During a match the players can only become fewer and keep their teams.
RosterOnlyShrinks ==
  [][\A r \in RoomNames, m \in Matches :
        Playing(r, m) /\ Playing(r, m)' =>
          /\ Members(r)' \subseteq Members(r)
          /\ \A u \in Members(r)' : rooms'[r].team[u] = rooms[r].team[u]
          /\ rooms'[r].coop = rooms[r].coop]_vars

\* Within a match a death or a claim is taken back only by the thread whose
\* own payment of this very match failed.
OnlyOwnClaimReleased ==
  [][\A r \in RoomNames, m \in Matches :
        /\ Playing(r, m) /\ Playing(r, m)'
        /\ r \in resolved \ resolved' \/ dead[r] \ dead'[r] # {}
        => \E c \in Conns : /\ task[c].op = "retry" /\ Claims(c, m)
                            /\ dead[r] \ dead'[r] \subseteq {task[c].died}]_vars

\* Nobody is paid as a loser who outlived the match: a payment makes losers of
\* the fallen only, and of those who had left the match by then.
OnlyFallenLose ==
  [][\A m \in Matches, c \in Conns :
        Claims(c, m) /\ ledger'[m].times > ledger[m].times =>
          \A u \in task[c].room.users \ (ledger'[m].winners \union task[c].dead) :
             ~\E r \in RoomNames : Playing(r, m) /\ u \in Members(r)]_vars

-----------------------------------------------------------------------------
(* Liveness *)

\* A claimed match is eventually paid, or the claim is given back or the match
\* is over: no claim is left behind for good.
ClaimSettles ==
  \A m \in Matches :
     (\E c \in Conns : Claims(c, m)) ~>
        \/ ledger[m].times = 1
        \/ ~\E r \in resolved : Playing(r, m)

-----------------------------------------------------------------------------
(* What the code's documents and tests promise, where the code falls short *)

\* A room whose members have all acknowledged the result is back in waiting
\* (docs/engineering/diagrams/room-state-en.puml:19).  The barrier is looked at
\* when a member becomes ready, not when an unready member leaves.
BarrierNeverStuck ==
  \A r \in RoomNames : rooms[r].inGame => ~(Members(r) \subseteq ready[r])

\* A paid match has a winner (tools/benchmark/room_state.py:30 expects the
\* survivor of each match to be paid as one).
EveryPaidMatchHasWinner ==
  \A m \in Matches : ledger[m].times > 0 => ledger[m].winners # {}

\* Cooperative play starts only with two full teams
\* (docs/engineering/README.md:75).
CoopStartsWithFullTeams ==
  [][\A r \in RoomNames :
        rooms'[r].coop /\ rooms'[r].inGame /\ ~rooms[r].inGame =>
          \A t \in Teams : Cardinality(TeamMembers(rooms'[r], t)) = TeamSize]_vars

-----------------------------------------------------------------------------
(* The promise about match results that the module implements *)

MatchPhase(m) ==
  IF ledger[m].times > 1 THEN "overpaid"
  ELSE IF ledger[m].times = 1 THEN "paid"
  ELSE IF \E c \in Conns : Claims(c, m) THEN "claimed"
  ELSE IF m <= nextMatchId THEN "open" ELSE "unplayed"

Reward == INSTANCE MatchReward WITH phase <- [m \in Matches |-> MatchPhase(m)]

\* Every behaviour of the rooms is, match by match, one the promise allows.
RewardSpec == Reward!Spec

\* And a claimed match is decided.
RewardFairSpec == Reward!FairSpec
=============================================================================
