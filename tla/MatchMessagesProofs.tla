------------------------- MODULE MatchMessagesProofs -------------------------
(***************************************************************************)
(* Theorems about MatchMessages for every set of users, connections and    *)
(* room names and every number of matches: what a player is told of a      *)
(* match, how often, and in which order.                                   *)
(***************************************************************************)
EXTENDS MatchMessages, RoomManagerProofs, SequenceTheorems

USE RoomManagerAssumption

-----------------------------------------------------------------------------
(* Entries and messages *)

LEMMA KindsDiffer ==
  ASSUME NEW e \in Entries
  PROVE  /\ e.msg \in Messages
         /\ e.does \in {"broadcast", "retained", "tell"}
         /\ e.does = "broadcast" => e.from \in Users
         /\ e.does = "retained" => e.to \in Conns \union {NoConn}
         /\ e.does = "tell" => e.users \in SUBSET Users
  BY DEF Entries

LEMMA NewEntries ==
  ASSUME NEW msg \in Messages
  PROVE  /\ \A u \in Users : /\ Broadcast(u, msg) \in Entries
                             /\ Broadcast(u, msg).msg = msg
                             /\ Broadcast(u, msg).does = "broadcast"
                             /\ Broadcast(u, msg).from = u
                             /\ Tell(u, msg) \in Entries
                             /\ Tell(u, msg).msg = msg
                             /\ Tell(u, msg).does = "tell"
                             /\ Tell(u, msg).users = {u}
         /\ \A c \in Conns \union {NoConn} : /\ Retained(c, msg) \in Entries
                                             /\ Retained(c, msg).msg = msg
                                             /\ Retained(c, msg).does = "retained"
                                             /\ Retained(c, msg).to = c
         /\ \A us \in SUBSET Users : /\ TellAll(us, msg) \in Entries
                                     /\ TellAll(us, msg).msg = msg
                                     /\ TellAll(us, msg).does = "tell"
                                     /\ TellAll(us, msg).users = us
  BY DEF Entries, Broadcast, Tell, Retained, TellAll

LEMMA NewMessages ==
  ASSUME NEW is \in Kinds, NEW r \in RoomNames, NEW m \in Matches
  PROVE  /\ Message(is, r, m) \in Messages
         /\ Message(is, r, m).is = is
         /\ Message(is, r, m).room = r
         /\ Message(is, r, m).match = m
  BY DEF Messages, Message

-----------------------------------------------------------------------------
(* Sequences *)

\* A function on 1..n is a sequence of length n.
LEMMA FunctionIsSeq ==
  ASSUME NEW S, NEW n \in Nat, NEW f \in [1..n -> S]
  PROVE  f \in Seq(S) /\ Len(f) = n
  OBVIOUS

\* What is left of a queue once its first entry is taken.
LEMMA QueueTail ==
  ASSUME NEW S, NEW q \in Seq(S), q # <<>>
  PROVE  /\ Len(q) \in Nat \ {0} /\ 1 \in 1..Len(q)
         /\ Head(q) = q[1] /\ Head(q) \in S
         /\ Tail(q) \in Seq(S) /\ Len(Tail(q)) = Len(q) - 1
         /\ \A k \in 1..Len(Tail(q)) : /\ k + 1 \in 1..Len(q) /\ k + 1 # 1
                                       /\ Tail(q)[k] = q[k + 1]
         /\ \A k \in 1..Len(q) : k # 1 => /\ k - 1 \in 1..Len(Tail(q))
                                         /\ Tail(q)[k - 1] = q[k]
  <1>1. Len(q) \in Nat \ {0}
    BY EmptySeq
  <1>2. /\ Head(q) \in S /\ Tail(q) \in Seq(S) /\ Len(Tail(q)) = Len(q) - 1
        /\ \A k \in 1..Len(Tail(q)) : Tail(q)[k] = q[k + 1]
    BY HeadTailProperties
  <1>3. Head(q) = q[1]
    BY <1>1
  <1>4. ASSUME NEW k \in 1..Len(q), k # 1
        PROVE  k - 1 \in 1..Len(Tail(q)) /\ Tail(q)[k - 1] = q[k]
    <2>1. k - 1 \in 1..Len(Tail(q)) /\ (k - 1) + 1 = k
      BY <1>1, <1>2, <1>4
    <2>2. QED BY <1>2, <2>1
  <1>5. \A k \in 1..Len(Tail(q)) : k + 1 \in 1..Len(q) /\ k + 1 # 1
    BY <1>1, <1>2
  <1>6. QED BY <1>1, <1>2, <1>3, <1>4, <1>5

\* Who has joined at the end of a list sits behind all others.
LEMMA SeatTaken ==
  ASSUME NEW q \in Seq(Users), IsInjective(q), NEW u \in Users, u \notin ToSet(q)
  PROVE  /\ Append(q, u) \in Seq(Users)
         /\ ToSet(Append(q, u)) = ToSet(q) \union {u}
         /\ IsInjective(Append(q, u))
         /\ \A v, w \in Users : w # u /\ Before(Append(q, u), v, w) => Before(q, v, w)
         /\ \A w \in Users : First(q, w) => First(Append(q, u), w)
  <1> DEFINE p == Append(q, u)
  <1>1. /\ p \in Seq(Users) /\ Len(p) = Len(q) + 1 /\ Len(q) \in Nat
        /\ \A i \in 1..Len(q) : p[i] = q[i]
        /\ p[Len(q) + 1] = u
        /\ DOMAIN p = 1..Len(p) /\ DOMAIN q = 1..Len(q)
    BY AppendProperties, LenProperties
  <1> HIDE DEF p
  <1>2. 1..Len(p) = 1..Len(q) \union {Len(q) + 1} /\ Len(q) + 1 \notin 1..Len(q)
    BY <1>1
  <1>3. ToSet(p) = ToSet(q) \union {u}
    BY <1>1, <1>2 DEF ToSet
  <1>4. \A i \in 1..Len(q) : q[i] # u
    BY <1>1 DEF ToSet
  <1>5. IsInjective(p)
    BY <1>1, <1>2, <1>4 DEF IsInjective
  <1>6. ASSUME NEW v \in Users, NEW w \in Users, w # u, Before(p, v, w)
        PROVE  Before(q, v, w)
    <2>1. PICK i \in 1..Len(p), j \in 1..Len(p) : i <= j /\ p[i] = v /\ p[j] = w
      BY <1>6 DEF Before
    <2>2. j \in 1..Len(q)
      BY <1>1, <1>2, <1>6, <2>1
    <2>3. i \in 1..Len(q)
      BY <1>1, <1>2, <2>1, <2>2
    <2>4. QED BY <1>1, <2>1, <2>2, <2>3 DEF Before
  <1>7. ASSUME NEW w \in Users, First(q, w)
        PROVE  First(p, w)
    <2>1. PICK i \in 1..Len(q) : q[i] = w
      BY <1>7 DEF First, Before
    <2>2. w # u /\ i \in 1..Len(p) /\ p[i] = w
      BY <1>1, <1>2, <1>4, <2>1
    <2>3. Before(p, w, w)
      BY <1>1, <2>2 DEF Before
    <2>4. \A v \in Users : Before(p, v, w) => v = w
      BY <1>6, <1>7, <2>2 DEF First
    <2>5. QED BY <2>3, <2>4 DEF First
  <1>8. QED BY <1>1, <1>3, <1>5, <1>6, <1>7 DEF p

\* Who leaves a list leaves the others in their order.
LEMMA SeatVacated ==
  ASSUME NEW q \in Seq(Users), IsInjective(q), NEW u \in ToSet(q)
  PROVE  /\ Vacate(q, u) \in Seq(Users)
         /\ ToSet(Vacate(q, u)) = ToSet(q) \ {u}
         /\ IsInjective(Vacate(q, u))
         /\ \A v, w \in Users : Before(Vacate(q, u), v, w) => Before(q, v, w)
         /\ \A w \in Users : w # u /\ First(q, w) => First(Vacate(q, u), w)
  <1> DEFINE n == CHOOSE k \in 1..Len(q) : q[k] = u
             p == Vacate(q, u)
             old(k) == IF k < n THEN k ELSE k + 1
  <1>1. Len(q) \in Nat /\ DOMAIN q = 1..Len(q)
    BY LenProperties
  <1>2. n \in 1..Len(q) /\ q[n] = u
    BY <1>1 DEF ToSet
  <1>3. p = SubSeq(q, 1, n - 1) \o SubSeq(q, n + 1, Len(q))
    BY DEF Vacate, RemoveAt
  <1> HIDE DEF n, p
  <1>4. /\ SubSeq(q, 1, n - 1) \in Seq(Users) /\ Len(SubSeq(q, 1, n - 1)) = n - 1
        /\ \A k \in 1..n - 1 : SubSeq(q, 1, n - 1)[k] = q[k]
    <2>1. \A k \in 1..n - 1 : q[k] \in Users
      BY <1>1, <1>2, ElementOfSeq
    <2>2. 1 \in Int /\ n - 1 \in Int /\ \A k \in 1..(n - 1) - 1 + 1 : 1 + k - 1 = k
      BY <1>1, <1>2
    <2>3. QED BY <1>1, <1>2, <2>1, <2>2, SubSeqProperties
  <1>5. /\ SubSeq(q, n + 1, Len(q)) \in Seq(Users)
        /\ Len(SubSeq(q, n + 1, Len(q))) = Len(q) - n
        /\ \A k \in 1..Len(q) - n : SubSeq(q, n + 1, Len(q))[k] = q[n + k]
    <2>1. \A k \in n + 1..Len(q) : q[k] \in Users
      BY <1>1, <1>2, ElementOfSeq
    <2>2. n + 1 \in Int /\ Len(q) \in Int
      BY <1>1, <1>2
    <2>3. /\ SubSeq(q, n + 1, Len(q)) \in Seq(Users)
          /\ Len(SubSeq(q, n + 1, Len(q))) = IF n + 1 <= Len(q) THEN Len(q) - (n + 1) + 1 ELSE 0
          /\ \A k \in 1..Len(q) - (n + 1) + 1 :
                SubSeq(q, n + 1, Len(q))[k] = q[(n + 1) + k - 1]
      BY <2>1, <2>2, SubSeqProperties
    <2>4. \A k \in 1..Len(q) - n : /\ (n + 1) + k - 1 = n + k
                                   /\ k \in 1..Len(q) - (n + 1) + 1
      BY <1>1, <1>2
    <2>5. Len(SubSeq(q, n + 1, Len(q))) = Len(q) - n
      <3>1. CASE n < Len(q)
        <4>1. n + 1 <= Len(q) /\ Len(q) - (n + 1) + 1 = Len(q) - n
          BY <1>1, <1>2, <3>1
        <4>2. QED BY <2>3, <4>1
      <3>2. CASE n = Len(q)
        <4>1. ~(n + 1 <= Len(q)) /\ 0 = Len(q) - n
          BY <1>1, <1>2, <3>2
        <4>2. QED BY <2>3, <4>1
      <3>3. n < Len(q) \/ n = Len(q)
        <4>1. \A a \in Nat : \A b \in 1..a : b < a \/ b = a
          OBVIOUS
        <4>2. QED BY <1>1, <1>2, <4>1
      <3>4. QED BY <3>1, <3>2, <3>3
    <2>6. QED BY <2>3, <2>4, <2>5
  <1>6. /\ p \in Seq(Users) /\ Len(p) = Len(q) - 1 /\ DOMAIN p = 1..Len(p)
        /\ \A k \in 1..Len(p) : old(k) \in 1..Len(q) /\ old(k) # n /\ p[k] = q[old(k)]
    <2>1. /\ p \in Seq(Users) /\ Len(p) = (n - 1) + (Len(q) - n)
          /\ \A k \in 1..(n - 1) + (Len(q) - n) :
                p[k] = IF k <= n - 1 THEN SubSeq(q, 1, n - 1)[k]
                                     ELSE SubSeq(q, n + 1, Len(q))[k - (n - 1)]
      BY <1>3, <1>4, <1>5, ConcatProperties
    <2>2. Len(p) = Len(q) - 1
      BY <1>1, <1>2, <2>1
    <2>3. ASSUME NEW k \in 1..Len(p)
          PROVE  old(k) \in 1..Len(q) /\ old(k) # n /\ p[k] = q[old(k)]
      <3>1. CASE k < n
        BY <1>1, <1>2, <1>4, <2>1, <2>2, <3>1
      <3>2. CASE ~(k < n)
        <4>1. k - (n - 1) \in 1..Len(q) - n /\ n + (k - (n - 1)) = k + 1 /\ ~(k <= n - 1)
              /\ k \in 1..(n - 1) + (Len(q) - n)
          BY <1>1, <1>2, <2>2, <3>2
        <4>2. p[k] = q[k + 1]
          BY <1>5, <2>1, <4>1
        <4>3. QED BY <1>1, <1>2, <2>2, <3>2, <4>2
      <3>3. QED BY <3>1, <3>2
    <2>4. QED BY <2>1, <2>2, <2>3, LenProperties
  <1>7. ASSUME NEW k \in 1..Len(q), k # n
        PROVE  \E l \in 1..Len(p) : old(l) = k
    <2>1. CASE k < n
      BY <1>1, <1>2, <1>6, <2>1
    <2>2. CASE k > n
      <3>1. k - 1 \in 1..Len(p) /\ old(k - 1) = k
        BY <1>1, <1>2, <1>6, <2>2
      <3>2. QED BY <3>1
    <2>3. QED BY <1>1, <1>2, <1>7, <2>1, <2>2
  <1>8. \A k, l \in 1..Len(p) : /\ k <= l => old(k) <= old(l)
                                /\ old(k) = old(l) => k = l
                                /\ old(k) <= old(l) => k <= l
    BY <1>1, <1>2, <1>6
  <1> HIDE DEF old
  <1>9. \A k, l \in 1..Len(q) : q[k] = q[l] => k = l
    BY <1>1 DEF IsInjective
  <1>10. IsInjective(p)
    BY <1>6, <1>8, <1>9 DEF IsInjective
  <1>11. ToSet(p) = ToSet(q) \ {u}
    <2>1. ASSUME NEW x \in ToSet(p) PROVE x \in ToSet(q) \ {u}
      BY <1>1, <1>2, <1>6, <1>9, <2>1 DEF ToSet
    <2>2. ASSUME NEW x \in ToSet(q), x # u PROVE x \in ToSet(p)
      <3>1. PICK k \in 1..Len(q) : q[k] = x
        BY <1>1 DEF ToSet
      <3>2. PICK l \in 1..Len(p) : old(l) = k
        BY <1>2, <1>7, <2>2, <3>1
      <3>3. QED BY <1>6, <3>1, <3>2 DEF ToSet
    <2>3. u \notin ToSet(p)
      BY <2>1
    <2>4. QED BY <2>1, <2>2, <2>3
  <1>12. ASSUME NEW v \in Users, NEW w \in Users, Before(p, v, w)
         PROVE  Before(q, v, w)
    BY <1>6, <1>8, <1>12 DEF Before
  <1>13. ASSUME NEW w \in Users, w # u, First(q, w)
         PROVE  First(p, w)
    <2>1. PICK i \in 1..Len(q) : q[i] = w
      BY <1>13 DEF First, Before
    <2>2. i # n
      BY <1>2, <1>13, <2>1
    <2>3. PICK l \in 1..Len(p) : old(l) = i
      BY <1>7, <2>2
    <2>4. p[l] = w /\ l <= l
      BY <1>6, <2>1, <2>3
    <2>5. Before(p, w, w)
      BY <2>4 DEF Before
    <2>6. QED BY <1>12, <1>13, <2>5 DEF First
  <1>14. QED BY <1>6, <1>10, <1>11, <1>12, <1>13 DEF p

-----------------------------------------------------------------------------
(* The steps of the rooms *)

RoomMove(c) == SessionStep(c) \/ RoomStep(c) \/ Continue(c)

\* What RoomManagerProofs has shown of the rooms.
RoomsInv == TypeOK /\ RewardCore /\ SessionsAgree /\ Roster /\ Clean

\* A step of the rooms keeps it.
LEMMA RoomsStep ==
  ASSUME RoomsInv, NEW c \in Conns, RoomMove(c)
  PROVE  RoomsInv'
  BY TypeStep, RewardStep, SessionsStep, RosterStep, CleanStep DEF RoomsInv, RoomMove

\* The user of a member's session is that member, and nobody else's.
LEMMA MemberSession ==
  ASSUME RoomsInv, NEW r \in RoomNames, NEW u \in Members(r)
  PROVE  /\ u \in Users
         /\ clientsMap[u] \in Conns
         /\ clientId[clientsMap[u]] = u
         /\ \A c \in Conns : clientId[c] = u => clientsMap[u] = c
  <1>1. u \in Users
    BY DEF RoomsInv, TypeOK, Room, Members
  <1>2. PICK d \in Conns : clientsMap[u] = d /\ clientId[d] = u
    BY DEF RoomsInv, Roster, MembersHaveSessions
  <1>3. \A c \in Conns : clientId[c] = u => clientsMap[u] = c
    BY <1>1 DEF RoomsInv, SessionsAgree
  <1>4. QED BY <1>1, <1>2, <1>3

\* A user is in one room at a time.
LEMMA OneRoom ==
  ASSUME RoomsInv, NEW r \in RoomNames, NEW s \in RoomNames, NEW u \in Members(r),
         u \in Members(s)
  PROVE  r = s
  BY DEF RoomsInv, Roster, Membership

\* A match is played in one room at a time.
LEMMA OneMatch ==
  ASSUME RoomsInv, NEW r \in RoomNames, NEW s \in RoomNames, NEW m, Playing(r, m),
         Playing(s, m)
  PROVE  r = s
  BY DEF RoomsInv, RewardCore, MatchIdsIssued, Playing

\* The id of a match that is played is one of Matches and has been issued.
LEMMA PlayedMatch ==
  ASSUME RoomsInv, NEW r \in RoomNames, rooms[r].inGame
  PROVE  /\ rooms[r].matchId \in Matches
         /\ rooms[r].matchId <= nextMatchId
         /\ nextMatchId \in Nat /\ nextMatchId <= MaxMatches
  <1>1. rooms[r].matchId \in 1..nextMatchId /\ nextMatchId \in 0..MaxMatches
    BY DEF RoomsInv, RewardCore, MatchIdsIssued, TypeOK
  <1>2. QED BY <1>1 DEF Matches

\* Every request, and the rest of every handler, is a step of the rooms.
LEMMA ActIsRoomMove ==
  ASSUME TypeOK, NEW c \in Conns, Request(c) \/ Rest(c)
  PROVE  RoomMove(c)
  <1>0. \A r \in RoomNames : Members(r) \subseteq Users
    BY DEF TypeOK, Room, Members
  <1>1. ASSUME NEW r \in RoomNames, Enter(c, r) PROVE RoomMove(c)
    BY <1>1 DEF Enter, RoomMove, RoomStep
  <1>2. CASE Quit(c)
    <2>1. CASE ForceExit(c)
      BY <2>1 DEF RoomMove, SessionStep
    <2>2. ASSUME NEW r \in RoomNames, ExitRoom(c, r, Self(c)) PROVE RoomMove(c)
      <3>1. Self(c) \in Users
        BY <1>0, <2>2 DEF ExitRoom
      <3>2. QED BY <2>2, <3>1 DEF RoomMove, RoomStep
    <2>3. QED BY <1>2, <2>1, <2>2 DEF Quit
  <1>3. ASSUME NEW r \in RoomNames, StartGame(c, r) PROVE RoomMove(c)
    BY <1>3 DEF StartGame, RoomMove, RoomStep
  <1>4. ASSUME NEW r \in RoomNames, Dead(c, r) PROVE RoomMove(c)
    <2>1. RecordDeath(c, r, Self(c)) /\ Self(c) \in Users
      BY <1>0, <1>4 DEF Dead, RecordDeath, MayDie
    <2>2. QED BY <2>1 DEF RoomMove, RoomStep
  <1>5. ASSUME NEW r \in RoomNames, ReadyToExit(c, r) PROVE RoomMove(c)
    <2>1. HandleReadyToExit(c, r, Self(c)) /\ Self(c) \in Users
      BY <1>0, <1>5 DEF ReadyToExit, HandleReadyToExit
    <2>2. QED BY <2>1 DEF RoomMove, RoomStep
  <1>6. CASE Rest(c)
    BY <1>6 DEF Rest, Started, Announce, RoomMove, Continue
  <1>7. QED BY <1>1, <1>2, <1>3, <1>4, <1>5, <1>6 DEF Request

\* The others who are in a match stay in it.
StaysIn(d, r) ==
  /\ clientId[d] \in Members(r) => clientId[d] \in Members(r)'
  /\ rooms[r].inGame /\ clientId[d] \in Members(r) \ ready[r] =>
       /\ rooms'[r].inGame /\ rooms'[r].matchId = rooms[r].matchId
       /\ clientId[d] \notin ready'[r]

\* Who leaves a room takes nobody along.
LEMMA RemoveMemberStays ==
  ASSUME RoomsInv, NEW s \in RoomNames, NEW u \in Users, NEW keep \in BOOLEAN,
         RemoveMember(s, u, keep), NEW d \in Conns, clientId[d] # u,
         NEW r \in RoomNames
  PROVE  StaysIn(d, r)
  <1>1. Members(r)' = IF r = s THEN Members(s) \ {u} ELSE Members(r)
    BY RemoveMemberMembers DEF RoomsInv
  <1>2. CASE rooms[s].users = {u}
    <2>1. CASE r = s
      BY <1>1, <1>2, <2>1 DEF StaysIn, Members
    <2>2. CASE r # s
      <3>1. rooms'[r] = rooms[r] /\ ready'[r] = ready[r]
        BY <1>2, <2>2 DEF RemoveMember, ForgetMatch, RoomsInv, TypeOK
      <3>2. QED BY <1>1, <2>2, <3>1 DEF StaysIn
    <2>3. QED BY <2>1, <2>2
  <1>3. CASE rooms[s].users # {u}
    <2>1. rooms' = [rooms EXCEPT ![s] = Without(rooms[s], u, keep)] /\ ready' = ready
      BY <1>3 DEF RemoveMember, ForgetMatch
    <2>2. /\ Without(rooms[s], u, keep).inGame = rooms[s].inGame
          /\ Without(rooms[s], u, keep).matchId = rooms[s].matchId
      BY RoomUpdates DEF RoomsInv, TypeOK
    <2>3. rooms'[r].inGame = rooms[r].inGame /\ rooms'[r].matchId = rooms[r].matchId
      BY <2>1, <2>2 DEF RoomsInv, TypeOK
    <2>4. QED BY <1>1, <2>1, <2>3 DEF StaysIn
  <1>4. QED BY <1>2, <1>3

\* The others in a room keep their places in a step that leaves its match alone.
LEMMA SameMatchStays ==
  ASSUME RoomsInv, NEW s \in RoomNames, NEW R, rooms' = [rooms EXCEPT ![s] = R],
         rooms[s].users \subseteq R.users, R.inGame = rooms[s].inGame,
         R.matchId = rooms[s].matchId, ready' = ready, NEW d \in Conns,
         NEW r \in RoomNames
  PROVE  StaysIn(d, r)
  BY DEF StaysIn, Members, RoomsInv, TypeOK

\* What a handler does to the rooms, nobody else is moved by it.
LEMMA OthersStay ==
  ASSUME RoomsInv, NEW c \in Conns, Request(c) \/ Rest(c), NEW d \in Conns, d # c,
         NEW r \in RoomNames
  PROVE  StaysIn(d, r)
  <1>0. Members(r) \subseteq Users
    BY DEF RoomsInv, TypeOK, Room, Members
  <1>1. CASE UNCHANGED <<rooms, ready>>
    BY <1>1 DEF StaysIn, Members
  <1>2. CASE clientId[d] \notin Users
    BY <1>0, <1>2 DEF StaysIn
  <1>3. CASE clientId[d] \in Users /\ ~UNCHANGED <<rooms, ready>>
    <2>1. clientId[d] # clientId[c]
      BY <1>3 DEF RoomsInv, SessionsAgree
    <2>2. ASSUME NEW s \in RoomNames, Enter(c, s) PROVE StaysIn(d, r)
      <3>1. CASE EnterRoom(c, s)
        <4> DEFINE u == clientId[c]
                   t == CASE ~rooms[s].coop                   -> rooms[s].team[u]
                          [] Cardinality(Members(s)) % 2 = 0  -> "Blue"
                          [] OTHER                            -> "Red"
                   R == With(rooms[s], u, t)
        <4>1. u \in Users /\ rooms[s] \in Room
          BY <3>1 DEF EnterRoom, HasSeat, RoomsInv, TypeOK
        <4>2. t \in Teams \union {"None"}
          BY <4>1 DEF Teams, Room
        <4>3. rooms' = [rooms EXCEPT ![s] = R] /\ ready' = ready
          BY <3>1 DEF EnterRoom, HasSeat, matchVars
        <4> HIDE DEF t, u
        <4>4. /\ R.users = rooms[s].users \union {u}
              /\ R.inGame = rooms[s].inGame /\ R.matchId = rooms[s].matchId
          BY <4>1, <4>2, RosterUpdates, RoomUpdates
        <4> HIDE DEF R
        <4>5. QED BY <4>3, <4>4, SameMatchStays
      <3>2. CASE CreateRoom(c, s, FALSE)
        <4>1. /\ Members(s) = {} /\ ready' = ready
              /\ \A n \in RoomNames : n # s => rooms'[n] = rooms[n]
          BY <3>2 DEF CreateRoom, Exists, Members, matchVars, RoomsInv, TypeOK
        <4>2. QED BY <4>1 DEF StaysIn, Members
      <3>3. QED BY <2>2, <3>1, <3>2 DEF Enter
    <2>3. CASE Quit(c)
      <3>1. ASSUME NEW s \in RoomNames, ExitRoom(c, s, Self(c)) PROVE StaysIn(d, r)
        <4>1. clientId[c] \in Users /\ RemoveMember(s, clientId[c], TRUE)
          BY <3>1 DEF ExitRoom, Self, RoomsInv, TypeOK, Room, Members
        <4>2. QED BY <2>1, <4>1, RemoveMemberStays
      <3>2. ASSUME NEW s \in RoomNames, RemoveMember(s, clientId[c], FALSE),
                   clientId[c] \in Users
            PROVE  StaysIn(d, r)
        BY <2>1, <3>2, RemoveMemberStays
      <3>3. CASE ForceExit(c)
        <4>1. clientId[c] \in Users
          BY <3>3 DEF ForceExit, RoomsInv, TypeOK
        <4>2. QED BY <1>3, <3>2, <3>3, <4>1 DEF ForceExit
      <3>4. QED BY <2>3, <3>1, <3>3 DEF Quit
    <2>4. CASE Started(c)
      <3>1. PICK s \in RoomNames : s = task[c].name
        BY <2>4, TaskFields DEF Started, TryStartGame, RoomsInv, TypeOK
      <3>2. ~rooms[s].inGame /\ nextMatchId < MaxMatches /\ StartMatch(s)
        BY <1>3, <2>4, <3>1 DEF Started, TryStartGame, MayStart, MayStartCoop, matchVars
      <3>3. /\ rooms' = [rooms EXCEPT ![s] = InMatch(rooms[s], nextMatchId + 1)]
            /\ ready' = [ready EXCEPT ![s] = {}]
        BY <3>2 DEF StartMatch, ForgetMatch
      <3>4. InMatch(rooms[s], nextMatchId + 1).users = rooms[s].users
        BY <3>1, <3>2, SameRosterUpdates DEF RoomsInv, TypeOK
      <3>5. /\ Members(s)' = Members(s)
            /\ \A n \in RoomNames : n # s => rooms'[n] = rooms[n] /\ ready'[n] = ready[n]
        BY <3>1, <3>3, <3>4 DEF Members, RoomsInv, TypeOK
      <3>6. QED BY <3>2, <3>5 DEF StaysIn, Members
    <2>5. ASSUME NEW s \in RoomNames, ReadyToExit(c, s) PROVE StaysIn(d, r)
      <3>1. HandleReadyToExit(c, s, clientId[c])
        BY <2>5 DEF ReadyToExit, Self
      <3>2. CASE AllReady(s, clientId[c])
        <4>1. /\ rooms' = [rooms EXCEPT ![s] = Waiting(rooms[s])]
              /\ ready' = [ready EXCEPT ![s] = {}]
          BY <3>1, <3>2 DEF HandleReadyToExit, ForgetMatch
        <4>2. Waiting(rooms[s]).users = rooms[s].users
          BY SameRosterUpdates DEF RoomsInv, TypeOK
        <4>3. /\ Members(s)' = Members(s)
              /\ \A n \in RoomNames : n # s => rooms'[n] = rooms[n] /\ ready'[n] = ready[n]
          BY <4>1, <4>2 DEF Members, RoomsInv, TypeOK
        <4>4. clientId[d] \notin Members(s) \ ready[s]
          BY <2>1, <3>2 DEF AllReady
        <4>5. QED BY <4>3, <4>4 DEF StaysIn, Members
      <3>3. CASE ~AllReady(s, clientId[c])
        <4>1. rooms' = rooms /\ ready' = [ready EXCEPT ![s] = @ \union {clientId[c]}]
          BY <3>1, <3>3 DEF HandleReadyToExit
        <4>2. QED BY <2>1, <4>1 DEF StaysIn, Members, RoomsInv, TypeOK
      <3>4. QED BY <3>2, <3>3
    <2>6. \/ \E s \in RoomNames : Enter(c, s) \/ ReadyToExit(c, s)
          \/ Quit(c) \/ Started(c)
      <3>1. ASSUME NEW s \in RoomNames, StartGame(c, s) PROVE UNCHANGED <<rooms, ready>>
        BY <3>1 DEF StartGame, LookUpRoom, matchVars
      <3>2. ASSUME NEW s \in RoomNames, Dead(c, s) PROVE UNCHANGED <<rooms, ready>>
        BY <3>2 DEF Dead, RecordDeath, MayDie
      <3>3. ASSUME Announce(c) \/ NameWinner(c) \/ RetryDeath(c)
            PROVE  UNCHANGED <<rooms, ready>>
        BY <3>3 DEF Announce, PayRewards, NameWinner, RetryDeath, matchVars
      <3>4. ASSUME ClearId(c) \/ EraseSession(c) PROVE UNCHANGED <<rooms, ready>>
        BY <3>4 DEF ClearId, EraseSession, matchVars
      <3>5. QED BY <1>3, <3>1, <3>2, <3>3, <3>4 DEF Request, Rest
    <2>7. QED BY <2>2, <2>3, <2>4, <2>5, <2>6
  <1>4. QED BY <1>1, <1>2, <1>3

\* A thread has its own user, its own task and its own messages to send.
LEMMA OthersKeep ==
  ASSUME RoomsInv, MessagesTypeOK, NEW c \in Conns, Request(c) \/ Rest(c),
         NEW d \in Conns, d # c
  PROVE  clientId'[d] = clientId[d] /\ task'[d] = task[d] /\ outbox'[d] = outbox[d]
  <1>1. ASSUME NEW s \in RoomNames, Enter(c, s)
        PROVE  clientId' = clientId /\ task' = task /\ outbox' = outbox
    BY <1>1 DEF Enter, EnterRoom, CreateRoom, sessionVars
  <1>2. ASSUME NEW t, Goto(c, t) PROVE task'[d] = task[d]
    BY <1>2, GotoTask DEF RoomsInv
  <1>3. ASSUME NEW plan, Sends(c, plan) PROVE outbox'[d] = outbox[d]
    BY <1>3 DEF Sends, MessagesTypeOK
  <1>4. CASE Quit(c)
    <2>1. task' = task \/ Goto(c, [op |-> "clear", user |-> clientId[c]])
      BY <1>4 DEF Quit, ExitRoom, ForceExit
    <2>2. QED BY <1>2, <1>4, <2>1 DEF Quit, ExitRoom, ForceExit, sessionVars
  <1>5. ASSUME NEW s \in RoomNames, StartGame(c, s)
        PROVE  clientId'[d] = clientId[d] /\ task'[d] = task[d] /\ outbox'[d] = outbox[d]
    BY <1>2, <1>5 DEF StartGame, LookUpRoom, sessionVars
  <1>6. CASE Started(c)
    <2>1. outbox'[d] = outbox[d]
      BY <1>3, <1>6 DEF Started
    <2>2. clientId' = clientId /\ Goto(c, Idle)
      BY <1>6 DEF Started, TryStartGame, sessionVars
    <2>3. QED BY <1>2, <2>1, <2>2
  <1>7. ASSUME NEW s \in RoomNames, Dead(c, s)
        PROVE  clientId'[d] = clientId[d] /\ task'[d] = task[d] /\ outbox'[d] = outbox[d]
    <2>1. outbox'[d] = outbox[d]
      BY <1>3, <1>7 DEF Dead
    <2>2. clientId' = clientId /\ (task' = task \/ \E t : Goto(c, t))
      BY <1>7 DEF Dead, RecordDeath, sessionVars
    <2>3. QED BY <1>2, <2>1, <2>2
  <1>8. CASE Announce(c)
    <2>1. outbox'[d] = outbox[d]
      BY <1>3, <1>8 DEF Announce
    <2>2. clientId' = clientId /\ \E t : Goto(c, t)
      BY <1>8 DEF Announce, PayRewards, sessionVars
    <2>3. QED BY <1>2, <2>1, <2>2
  <1>9. ASSUME NEW s \in RoomNames, ReadyToExit(c, s)
        PROVE  clientId'[d] = clientId[d] /\ task'[d] = task[d] /\ outbox'[d] = outbox[d]
    <2>1. outbox'[d] = outbox[d]
      BY <1>3, <1>9 DEF ReadyToExit
    <2>2. clientId' = clientId /\ task' = task
      BY <1>9 DEF ReadyToExit, HandleReadyToExit, sessionVars
    <2>3. QED BY <2>1, <2>2
  <1>10. CASE NameWinner(c) /\ UNCHANGED outbox
    BY <1>2, <1>10 DEF NameWinner, sessionVars
  <1>11. CASE RetryDeath(c) /\ UNCHANGED outbox
    BY <1>2, <1>11 DEF RetryDeath, sessionVars
  <1>12. CASE ClearId(c) /\ UNCHANGED outbox
    BY <1>2, <1>12 DEF ClearId, RoomsInv, TypeOK
  <1>13. CASE EraseSession(c) /\ UNCHANGED outbox
    BY <1>2, <1>13 DEF EraseSession
  <1>14. QED
    BY <1>1, <1>4, <1>5, <1>6, <1>7, <1>8, <1>9, <1>10, <1>11, <1>12, <1>13
       DEF Request, Rest

\* Sessions only end.
LEMMA SessionsEnd ==
  ASSUME RoomsInv, NEW c \in Conns, Request(c) \/ Rest(c)
  PROVE  \A u \in Users : clientsMap'[u] \in {clientsMap[u], NoConn}
  <1>1. ASSUME NEW r \in RoomNames, \/ Enter(c, r) \/ StartGame(c, r)
                                    \/ Dead(c, r) \/ ReadyToExit(c, r)
        PROVE  clientsMap' = clientsMap
    BY <1>1 DEF Enter, EnterRoom, CreateRoom, StartGame, LookUpRoom, Dead, RecordDeath,
                ReadyToExit, HandleReadyToExit, sessionVars
  <1>2. ASSUME Quit(c) PROVE clientsMap' = clientsMap
    BY <1>2 DEF Quit, ExitRoom, ForceExit, sessionVars
  <1>3. ASSUME Started(c) \/ Announce(c) \/ NameWinner(c) \/ RetryDeath(c) \/ ClearId(c)
        PROVE  clientsMap' = clientsMap
    BY <1>3 DEF Started, TryStartGame, Announce, PayRewards, NameWinner, RetryDeath,
                ClearId, sessionVars
  <1>4. CASE EraseSession(c)
    BY <1>4 DEF EraseSession, RoomsInv, TypeOK
  <1>5. QED BY <1>1, <1>2, <1>3, <1>4 DEF Request, Rest

\* Match ids and payments are only added to.
LEMMA HistoryGrows ==
  ASSUME RoomsInv, NEW c \in Conns, Request(c) \/ Rest(c)
  PROVE  /\ nextMatchId' \in {nextMatchId, nextMatchId + 1}
         /\ \A m \in Matches : ledger[m].times > 0 => ledger'[m].times > 0
  <1>1. ASSUME NEW r \in RoomNames, \/ Enter(c, r) \/ StartGame(c, r)
                                    \/ Dead(c, r) \/ ReadyToExit(c, r)
        PROVE  nextMatchId' = nextMatchId /\ ledger' = ledger
    BY <1>1 DEF Enter, EnterRoom, CreateRoom, StartGame, LookUpRoom, Dead, RecordDeath,
                MayDie, ReadyToExit, HandleReadyToExit, matchVars
  <1>2. ASSUME Quit(c) PROVE nextMatchId' = nextMatchId /\ ledger' = ledger
    BY <1>2 DEF Quit, ExitRoom, ForceExit
  <1>3. ASSUME NameWinner(c) \/ RetryDeath(c) \/ ClearId(c) \/ EraseSession(c)
        PROVE  nextMatchId' = nextMatchId /\ ledger' = ledger
    BY <1>3 DEF NameWinner, RetryDeath, ClearId, EraseSession, matchVars
  <1>4. CASE Started(c)
    BY <1>4 DEF Started, TryStartGame, StartMatch, matchVars
  <1>5. CASE Announce(c)
    <2> DEFINE p == task[c].room.matchId
               w == Winners(task[c])
    <2>1. nextMatchId' = nextMatchId
      BY <1>5 DEF Announce, PayRewards, matchVars
    <2>2. \/ ledger' = ledger
          \/ ledger' = [ledger EXCEPT ![p] = [times |-> ledger[p].times + 1, winners |-> w]]
      BY <1>5 DEF Announce, PayRewards
    <2> HIDE DEF p, w
    <2>3. ASSUME NEW m \in Matches, ledger[m].times > 0 PROVE ledger'[m].times > 0
      <3>1. ledger[m].times \in Nat /\ ledger[m].times + 1 > 0
        BY <2>3 DEF RoomsInv, TypeOK
      <3>2. \/ ledger'[m].times = ledger[m].times
            \/ ledger'[m].times = ledger[m].times + 1
        BY <2>2 DEF RoomsInv, TypeOK
      <3>3. QED BY <2>3, <3>1, <3>2
    <2>4. QED BY <2>1, <2>3
  <1>6. QED BY <1>1, <1>2, <1>3, <1>4, <1>5 DEF Request, Rest

-----------------------------------------------------------------------------
(* What a handler sends *)

QueueInv == MessagesTypeOK /\ SeatsAreMembers /\ SessionsApart

SpeakInv == SpeaksOfOwnMatch /\ WorksOnOwnMatch /\ ReadyArePaid /\ SaidIsTrue

\* What a thread is going to send when its handler has changed the rooms: about
\* a match its user is in, or has just ended, and new unless it is a death.
PlanHolds(c) ==
  /\ outbox'[c] \in Seq(Entries)
  /\ \A e \in Pending(c)' :
       /\ e.msg.is # "GAME_END" => Plays(c, e.msg.room, e.msg.match)'
       /\ e.msg.is = "GAME_END" => clientId'[c] \in Members(e.msg.room)' /\ Len(outbox'[c]) = 1
       /\ e.does = "broadcast" => e.from = clientId'[c]
       /\ e.does = "tell" <=> e.msg.is \in {"GAME_START", "GAME_END"}
       /\ e.msg.match <= nextMatchId'
       /\ e.msg.is \in {"WIN", "REWARD_RESULT"} => ledger'[e.msg.match].times > 0
       /\ e.msg.is = "GAME_END" => \A r \in RoomNames : ~Playing(r, e.msg.match)'
       /\ e.msg.is # "PLAYER_DEAD" => \A d \in Conns : ~Said(d, e.msg)
  /\ \A k, l \in 1..Len(outbox'[c]), d \in Conns :
       /\ k # l /\ outbox'[c][k].msg = outbox'[c][l].msg
       /\ outbox'[c][k].msg.is # "PLAYER_DEAD"
       => ~(Reaches(outbox[c][k], d)' /\ Reaches(outbox[c][l], d)')

LEMMA NothingToSend ==
  ASSUME NEW c \in Conns, outbox'[c] = <<>>
  PROVE  PlanHolds(c)
  BY EmptySeq DEF PlanHolds, Pending

LEMMA PlanSent ==
  ASSUME MessagesTypeOK, NEW c \in Conns, NEW plan, Sends(c, plan)
  PROVE  outbox'[c] = plan
  BY DEF Sends, MessagesTypeOK

\* DEAD: a player who dies has not left the results of the match, as nobody
\* does before it is paid.
LEMMA DeadPlan ==
  ASSUME RoomsInv, QueueInv, SpeakInv, NEW c \in Conns, NEW r \in RoomNames, Dead(c, r)
  PROVE  PlanHolds(c)
  <1> DEFINE u == clientId[c]
             msg == Message("PLAYER_DEAD", r, rooms[r].matchId)
             b == Broadcast(u, msg)
  <1>1. RecordDeath(c, r, u) /\ MayDie(r, u) /\ outbox'[c] = <<b>>
    BY PlanSent DEF Dead, Self, RecordDeath, QueueInv
  <1>2. /\ u \in Users /\ u \in Members(r) /\ rooms[r].inGame /\ r \notin resolved
        /\ rooms' = rooms /\ ready' = ready /\ clientId' = clientId
        /\ nextMatchId' = nextMatchId
    BY <1>1 DEF RecordDeath, MayDie, RoomsInv, TypeOK, Room, Members, sessionVars
  <1>3. /\ rooms[r].matchId \in Matches /\ rooms[r].matchId <= nextMatchId
        /\ Playing(r, rooms[r].matchId)
    BY <1>2, PlayedMatch DEF Playing
  <1>4. ready[r] = {}
    BY <1>2, <1>3 DEF SpeakInv, ReadyArePaid, RoomsInv, RewardCore, PaidAreResolved
  <1>5. /\ msg \in Messages /\ msg.is = "PLAYER_DEAD" /\ msg.room = r
        /\ msg.match = rooms[r].matchId
    BY <1>3, NewMessages DEF Kinds
  <1> HIDE DEF msg
  <1>6. b \in Entries /\ b.msg = msg /\ b.does = "broadcast" /\ b.from = u
    BY <1>2, <1>5, NewEntries
  <1>7. Plays(c, r, rooms[r].matchId)'
    BY <1>2, <1>3, <1>4 DEF Plays, Playing, Members
  <1> HIDE DEF b
  <1>8. Len(outbox'[c]) = 1 /\ Pending(c)' = {b} /\ outbox'[c] \in Seq(Entries)
    BY <1>1, <1>6 DEF Pending
  <1>9. \A k, l \in 1..Len(outbox'[c]) : k = l
    BY <1>8
  <1>10. \A e \in Pending(c)' : e = b
    BY <1>8
  <1>11. rooms'[r].matchId = rooms[r].matchId /\ clientId'[c] = u
    BY <1>2
  <1>12. QED
    BY <1>2, <1>3, <1>5, <1>6, <1>7, <1>8, <1>9, <1>10, <1>11 DEF PlanHolds

\* READY_TO_EXIT: the match is over, and nobody has been told so before.
LEMMA EndPlan ==
  ASSUME RoomsInv, QueueInv, SpeakInv, NEW c \in Conns, NEW r \in RoomNames,
         ReadyToExit(c, r)
  PROVE  PlanHolds(c)
  <1>0. /\ rooms[r].inGame /\ rooms[r].matchId \in Matches /\ rooms[r].matchId <= nextMatchId
        /\ clientId[c] \in Members(r) /\ Members(r) \in SUBSET Users
    BY PlayedMatch DEF ReadyToExit, HandleReadyToExit, Self, RoomsInv, TypeOK, Room, Members
  <1>00. /\ \E m \in Matches : m = rooms[r].matchId
         /\ \E us \in SUBSET Users : us = Members(r)
         /\ \E u : u = clientId[c]
    BY <1>0
  <1> PICK m \in Matches : m = rooms[r].matchId
    BY <1>00
  <1> PICK us \in SUBSET Users : us = Members(r)
    BY <1>00
  <1> PICK u : u = clientId[c]
    BY <1>00
  <1> PICK msg : msg = Message("GAME_END", r, m)
    OBVIOUS
  <1> PICK b : b = TellAll(us, msg)
    OBVIOUS
  <1>1. /\ HandleReadyToExit(c, r, u)
        /\ outbox'[c] = IF rooms'[r].inGame THEN <<>> ELSE <<b>>
    BY PlanSent DEF ReadyToExit, Self, QueueInv, End
  <1>2. /\ u \in Members(r) /\ rooms[r].inGame /\ clientId' = clientId
        /\ nextMatchId' = nextMatchId
    BY <1>1, <1>0 DEF HandleReadyToExit, sessionVars
  <1>3. CASE rooms'[r].inGame
    BY <1>1, <1>3, NothingToSend
  <1>4. CASE ~rooms'[r].inGame
    <2>1. rooms' = [rooms EXCEPT ![r] = Waiting(rooms[r])]
      BY <1>1, <1>2, <1>4 DEF HandleReadyToExit
    <2>2. Waiting(rooms[r]).users = rooms[r].users
      BY SameRosterUpdates DEF RoomsInv, TypeOK
    <2>3. u \in Members(r)' /\ \A s \in RoomNames : s # r => rooms'[s] = rooms[s]
      BY <1>2, <2>1, <2>2 DEF Members, RoomsInv, TypeOK
    <2>4. m \in Matches /\ m <= nextMatchId /\ Playing(r, m)
      BY <1>0 DEF Playing
    <2>5. \A s \in RoomNames : ~(rooms'[s].inGame /\ rooms'[s].matchId = m)
      BY <1>4, <2>3, <2>4, OneMatch DEF Playing
    <2>6. msg \in Messages /\ msg.is = "GAME_END" /\ msg.room = r /\ msg.match = m
      BY <2>4, NewMessages DEF Kinds
    <2>8. b \in Entries /\ b.msg = msg /\ b.does = "tell"
      BY <2>6, NewEntries
    <2>9. \A d \in Conns : ~Said(d, msg)
      BY <2>4, <2>6 DEF SpeakInv, SaidIsTrue
    <2>10. Len(outbox'[c]) = 1 /\ Pending(c)' = {b} /\ outbox'[c] \in Seq(Entries)
      BY <1>1, <1>4, <2>8 DEF Pending
    <2>11. \A k, l \in 1..Len(outbox'[c]) : k = l
      BY <2>10
    <2>12. \A e \in Pending(c)' : e = b
      BY <2>10
    <2>13. \A s \in RoomNames : ~Playing(s, b.msg.match)'
      BY <2>5, <2>6, <2>8 DEF Playing
    <2>14. clientId'[c] \in Members(b.msg.room)' /\ b.msg.match <= nextMatchId'
      BY <1>2, <2>3, <2>4, <2>6, <2>8
    <2>15. QED
      BY <2>6, <2>8, <2>9, <2>10, <2>11, <2>12, <2>13, <2>14 DEF PlanHolds
  <1>5. QED BY <1>3, <1>4

\* DEAD, once the match is paid: nobody has been told its result before.
LEMMA AnnouncePlan ==
  ASSUME RoomsInv, QueueInv, SpeakInv, NEW c \in Conns, Announce(c)
  PROVE  PlanHolds(c)
  <1>0. /\ task[c].op = "pay" /\ task[c].op \in Paying
        /\ task[c].name \in RoomNames /\ task[c].died = clientId[c]
        /\ Plays(c, task[c].name, task[c].room.matchId)
    <2>1. task[c].op = "pay" /\ task[c].op \in Paying /\ task[c] \in Task
      BY DEF Announce, PayRewards, Paying, RoomsInv, TypeOK
    <2>2. task[c].name \in RoomNames
      BY <2>1, TaskFields
    <2>3. QED BY <2>1, <2>2 DEF SpeakInv, WorksOnOwnMatch
  <1>1. PICK r \in RoomNames : r = task[c].name
    BY <1>0
  <1>2. task[c].room.matchId \in Matches /\ task[c].room.matchId <= nextMatchId
    BY <1>0, PlayedMatch DEF Plays, Playing
  <1>3. PICK m \in Matches : m = task[c].room.matchId
    BY <1>2
  <1>4. clientId[c] \in Users
    BY <1>0 DEF Plays, RoomsInv, TypeOK, Room, Members
  <1>5. PICK u \in Users : u = clientId[c]
    BY <1>4
  <1>6. PICK won : won = Message("WIN", r, m)
    OBVIOUS
  <1>7. PICK paid : paid = Message("REWARD_RESULT", r, m)
    OBVIOUS
  <1>8. PICK e1 : e1 = Broadcast(u, won)
    OBVIOUS
  <1>9. PICK e2 : e2 = Broadcast(u, paid)
    OBVIOUS
  <1>10. /\ PayRewards(c)
         /\ outbox'[c] = IF ledger' = ledger THEN <<>> ELSE <<e1, e2>>
    BY <1>0, <1>1, <1>3, <1>5, <1>6, <1>7, <1>8, <1>9, PlanSent
       DEF Announce, ResultRoom, QueueInv
  <1>11. CASE ledger' = ledger
    BY <1>10, <1>11, NothingToSend
  <1>12. CASE ledger' # ledger
    <2>1. /\ won \in Messages /\ won.is = "WIN" /\ won.room = r /\ won.match = m
          /\ paid \in Messages /\ paid.is = "REWARD_RESULT" /\ paid.room = r
          /\ paid.match = m
      BY <1>6, <1>7, NewMessages DEF Kinds
    <2>2. /\ e1 \in Entries /\ e1.msg = won /\ e1.does = "broadcast" /\ e1.from = u
          /\ e2 \in Entries /\ e2.msg = paid /\ e2.does = "broadcast" /\ e2.from = u
      BY <1>8, <1>9, <2>1, NewEntries
    <2>3. /\ rooms' = rooms /\ ready' = ready /\ clientId' = clientId
          /\ nextMatchId' = nextMatchId
      BY <1>10 DEF PayRewards, sessionVars, matchVars
    <2>4. Plays(c, r, m)'
      BY <1>0, <1>1, <1>3, <2>3 DEF Plays, Playing, Members
    <2>5. ledger[m].times = 0
      BY <1>0, <1>3 DEF RoomsInv, RewardCore, OneRewardPerMatch, Claims
    <2>6. ledger'[m].times > 0
      <3> DEFINE w == Winners(task[c])
      <3>1. ledger' = [ledger EXCEPT ![m] = [times |-> ledger[m].times + 1, winners |-> w]]
        BY <1>3, <1>10, <1>12 DEF PayRewards
      <3> HIDE DEF w
      <3>2. ledger'[m].times = 0 + 1
        BY <2>5, <3>1 DEF RoomsInv, TypeOK
      <3>3. QED BY <3>2
    <2>7. \A d \in Conns : ~Said(d, won) /\ ~Said(d, paid)
      BY <2>1, <2>5 DEF SpeakInv, SaidIsTrue
    <2>8. outbox'[c] = <<e1, e2>>
      BY <1>10, <1>12
    <2>9. outbox'[c] \in Seq(Entries) /\ Len(outbox'[c]) = 2 /\ Pending(c)' = {e1, e2}
      BY <2>2, <2>8 DEF Pending
    <2>10. \A k, l \in 1..Len(outbox'[c]) :
              outbox'[c][k].msg = outbox'[c][l].msg => k = l
      BY <2>1, <2>2, <2>8
    <2>11. \A e \in Pending(c)' : /\ e.msg.is \in {"WIN", "REWARD_RESULT"}
                                  /\ e.msg.room = r /\ e.msg.match = m
                                  /\ e.does = "broadcast" /\ e.from = u
                                  /\ \A d \in Conns : ~Said(d, e.msg)
      BY <2>1, <2>2, <2>7, <2>9
    <2>12. m <= nextMatchId' /\ clientId'[c] = u
      BY <1>2, <1>3, <1>5, <2>3
    <2>13. QED BY <2>4, <2>6, <2>9, <2>10, <2>11, <2>12 DEF PlanHolds
  <1>13. QED BY <1>11, <1>12

\* START_GAME: every member gets one message of the new match.
LEMMA StartedPlan ==
  ASSUME RoomsInv, QueueInv, SpeakInv, NEW c \in Conns, Started(c)
  PROVE  PlanHolds(c)
  <1>0. task[c].op = "start" /\ task[c].name \in RoomNames
    BY TaskFields DEF Started, TryStartGame, RoomsInv, TypeOK
  <1>1. PICK r \in RoomNames : r = task[c].name
    BY <1>0
  <1>2. PICK q \in Seq(Users) : q = seats[r]
    BY DEF QueueInv, MessagesTypeOK
  <1>3. PICK n : n = nextMatchId'
    OBVIOUS
  <1>4. PICK msg : msg = Start(r, n)
    OBVIOUS
  <1>5. /\ TryStartGame(c)
        /\ outbox'[c] = IF n = nextMatchId THEN <<>>
                        ELSE [k \in 1..Len(q) |-> Tell(q[k], msg)]
    BY <1>1, <1>2, <1>3, <1>4, PlanSent DEF Started, Start, QueueInv
  <1>6. CASE n = nextMatchId
    BY <1>5, <1>6, NothingToSend
  <1>7. CASE n # nextMatchId
    <2>1. nextMatchId < MaxMatches /\ StartMatch(r) /\ clientsMap' = clientsMap
          /\ clientId' = clientId
      BY <1>1, <1>3, <1>5, <1>7 DEF TryStartGame, matchVars, sessionVars
    <2>2. n \in Matches /\ n = nextMatchId + 1 /\ nextMatchId \in Nat
      BY <1>3, <2>1 DEF StartMatch, RoomsInv, TypeOK, Matches
    <2>3. msg \in Messages /\ msg.is = "GAME_START" /\ msg.room = r /\ msg.match = n
      BY <1>4, <2>2, NewMessages DEF Start, Kinds
    <2>4. /\ rooms' = [rooms EXCEPT ![r] = InMatch(rooms[r], n)]
          /\ ready' = [ready EXCEPT ![r] = {}]
      BY <2>1, <2>2 DEF StartMatch, ForgetMatch
    <2>5. /\ InMatch(rooms[r], n).users = rooms[r].users
          /\ InMatch(rooms[r], n).inGame /\ InMatch(rooms[r], n).matchId = n
      <3>1. n \in 0..MaxMatches
        BY <2>2 DEF Matches
      <3>2. QED BY <3>1, MatchUpdates, SameRosterUpdates DEF RoomsInv, TypeOK
    <2>6. clientId[c] \in Members(r)
      BY <1>0, <1>1 DEF SpeakInv, WorksOnOwnMatch
    <2>7. Plays(c, r, n)'
      BY <2>1, <2>4, <2>5, <2>6 DEF Plays, Playing, Members, RoomsInv, TypeOK
    <2>8. \A d \in Conns : ~Said(d, msg)
      <3>1. ASSUME NEW d \in Conns, Said(d, msg) PROVE FALSE
        <4>1. n <= nextMatchId
          BY <2>3, <3>1 DEF SpeakInv, SaidIsTrue
        <4>2. QED BY <2>2, <4>1
      <3>2. QED BY <3>1
    <2>9. Len(q) \in Nat /\ \A k \in 1..Len(q) : q[k] \in Users
      BY <1>2, LenProperties, ElementOfSeq
    <2>10. \A k \in 1..Len(q) : /\ Tell(q[k], msg) \in Entries
                                /\ Tell(q[k], msg).msg = msg
                                /\ Tell(q[k], msg).does = "tell"
                                /\ Tell(q[k], msg).users = {q[k]}
      BY <2>3, <2>9, NewEntries
    <2>11. PICK plan : plan = [k \in 1..Len(q) |-> Tell(q[k], msg)]
      OBVIOUS
    <2>12. /\ plan \in [1..Len(q) -> Entries]
           /\ \A k \in 1..Len(q) : /\ plan[k].msg = msg
                                   /\ plan[k].does = "tell"
                                   /\ plan[k].users = {q[k]}
      BY <2>10, <2>11
    <2>13. plan \in Seq(Entries) /\ Len(plan) = Len(q)
      BY <2>9, <2>12, FunctionIsSeq
    <2>14. outbox'[c] = plan
      BY <1>5, <1>7, <2>11
    <2>15. \A e \in Pending(c)' : e.msg = msg /\ e.does = "tell"
      BY <2>12, <2>13, <2>14 DEF Pending
    <2>16. \A k, l \in 1..Len(outbox'[c]), d \in Conns :
              Reaches(outbox[c][k], d)' /\ Reaches(outbox[c][l], d)' => k = l
      <3>1. ASSUME NEW k \in 1..Len(q), NEW l \in 1..Len(q), NEW d \in Conns,
                   clientsMap'[q[k]] = d, clientsMap'[q[l]] = d
            PROVE  k = l
        <4>1. q[k] = q[l]
          BY <2>1, <2>9, <3>1 DEF QueueInv, SessionsApart
        <4>2. IsInjective(q) /\ DOMAIN q = 1..Len(q)
          BY <1>2, LenProperties DEF QueueInv, SeatsAreMembers
        <4>3. QED BY <4>1, <4>2 DEF IsInjective
      <3>2. ASSUME NEW k \in 1..Len(q), NEW d \in Conns, Reaches(outbox[c][k], d)'
            PROVE  clientsMap'[q[k]] = d
        BY <2>12, <2>14, <3>2 DEF Reaches
      <3>3. Len(outbox'[c]) = Len(q)
        BY <2>13, <2>14
      <3>4. QED BY <3>1, <3>2, <3>3
    <2>17. n <= nextMatchId' /\ clientId'[c] = clientId[c]
      BY <1>3, <2>1, <2>2
    <2>18. QED
      BY <2>3, <2>7, <2>8, <2>13, <2>14, <2>15, <2>16, <2>17 DEF PlanHolds
  <1>8. QED BY <1>6, <1>7

\* Whatever a handler sends once it has changed the rooms.
LEMMA NewPlan ==
  ASSUME RoomsInv, QueueInv, SpeakInv, NEW c \in Conns, outbox[c] = <<>>,
         Request(c) \/ Rest(c)
  PROVE  PlanHolds(c)
  <1>1. ASSUME NEW r \in RoomNames, Enter(c, r) \/ StartGame(c, r) PROVE PlanHolds(c)
    BY <1>1, NothingToSend DEF Enter, StartGame
  <1>2. ASSUME NEW r \in RoomNames, Dead(c, r) \/ ReadyToExit(c, r) PROVE PlanHolds(c)
    BY <1>2, DeadPlan, EndPlan
  <1>3. CASE Quit(c)
    BY <1>3, NothingToSend DEF Quit
  <1>4. CASE Started(c) \/ Announce(c)
    BY <1>4, StartedPlan, AnnouncePlan
  <1>5. CASE UNCHANGED outbox
    BY <1>5, NothingToSend
  <1>6. QED BY <1>1, <1>2, <1>3, <1>4, <1>5 DEF Request, Rest

-----------------------------------------------------------------------------
(* Queues and seats *)

\* What a step of c does to the list of the members of r.
SeatMove(c, r) ==
  LET u == clientId[c] IN
  \/ seats'[r] = seats[r] /\ Members(r)' = Members(r)
  \/ /\ Enter(c, r) /\ u \in Users /\ u \notin Members(r)
     /\ seats'[r] = Append(seats[r], u) /\ Members(r)' = Members(r) \union {u}
  \/ /\ Quit(c) /\ u \in Users /\ u \in Members(r)
     /\ seats'[r] = Vacate(seats[r], u) /\ Members(r)' = Members(r) \ {u}

LEMMA SeatsEnter ==
  ASSUME RoomsInv, MessagesTypeOK, NEW c \in Conns, NEW r \in RoomNames, Enter(c, r)
  PROVE  /\ seats' = [s \in RoomNames |-> seats'[s]]
         /\ \A s \in RoomNames : SeatMove(c, s)
  <1>1. PICK u : u = clientId[c]
    OBVIOUS
  <1>2. u \in Users /\ ~InRoom(u)
    BY <1>1 DEF Enter, EnterRoom, CreateRoom, RoomsInv, TypeOK
  <1>3. u \notin Members(r)
    BY <1>2 DEF InRoom, Members
  <1>4. seats' = [seats EXCEPT ![r] = Append(seats[r], u)]
    BY <1>1 DEF Enter, TakeSeat, Self
  <1>5. \E R : rooms' = [rooms EXCEPT ![r] = R] /\ R.users = Members(r) \union {u}
    <2>1. CASE EnterRoom(c, r)
      <3> DEFINE t == CASE ~rooms[r].coop                   -> rooms[r].team[u]
                        [] Cardinality(Members(r)) % 2 = 0  -> "Blue"
                        [] OTHER                            -> "Red"
      <3>1. t \in Teams \union {"None"} /\ rooms[r] \in Room
        BY <1>2 DEF Teams, Room, RoomsInv, TypeOK
      <3>2. rooms' = [rooms EXCEPT ![r] = With(rooms[r], u, t)]
        BY <1>1, <2>1 DEF EnterRoom
      <3> HIDE DEF t
      <3>3. With(rooms[r], u, t).users = rooms[r].users \union {u}
        BY <1>2, <3>1, RosterUpdates
      <3>4. QED BY <3>2, <3>3 DEF Members
    <2>2. CASE CreateRoom(c, r, FALSE)
      <3> DEFINE B == [NoRoom EXCEPT !.coop = FALSE]
      <3>1. B \in Room /\ B.users = {} /\ Members(r) = {}
        BY <2>2, NoRoomType DEF NoRoom, Room, CreateRoom, Exists, Members
      <3>2. rooms' = [rooms EXCEPT ![r] = With(B, u, "None")]
        BY <1>1, <2>2 DEF CreateRoom
      <3> HIDE DEF B
      <3>3. With(B, u, "None").users = B.users \union {u}
        BY <1>2, <3>1, RosterUpdates DEF Teams
      <3>4. QED BY <3>1, <3>2, <3>3
    <2>3. QED BY <2>1, <2>2 DEF Enter
  <1>6. /\ Members(r)' = Members(r) \union {u}
        /\ \A s \in RoomNames : s # r => Members(s)' = Members(s)
    BY <1>5 DEF Members, RoomsInv, TypeOK
  <1>7. /\ seats'[r] = Append(seats[r], u) /\ seats' = [s \in RoomNames |-> seats'[s]]
        /\ \A s \in RoomNames : s # r => seats'[s] = seats[s]
    BY <1>4 DEF MessagesTypeOK
  <1>8. QED BY <1>1, <1>2, <1>3, <1>6, <1>7 DEF SeatMove

LEMMA SeatsQuit ==
  ASSUME RoomsInv, MessagesTypeOK, NEW c \in Conns, Quit(c)
  PROVE  /\ seats' = [s \in RoomNames |-> seats'[s]]
         /\ \A s \in RoomNames : SeatMove(c, s)
  <1>1. PICK u : u = clientId[c]
    OBVIOUS
  <1>2. u \in Users /\ \/ \E r \in RoomNames, keep \in BOOLEAN :
                             u \in Members(r) /\ RemoveMember(r, u, keep)
                       \/ ~InRoom(u) /\ rooms' = rooms
    <2>1. CASE ForceExit(c)
      BY <1>1, <2>1 DEF ForceExit, RoomsInv, TypeOK
    <2>2. ASSUME NEW r \in RoomNames, ExitRoom(c, r, u)
          PROVE  u \in Users /\ u \in Members(r) /\ RemoveMember(r, u, TRUE)
      BY <2>2 DEF ExitRoom, Members, RoomsInv, TypeOK, Room
    <2>3. QED BY <1>1, <2>1, <2>2 DEF Quit, Self
  <1>3. seats' = [s \in RoomNames |-> IF u \in Members(s) THEN Vacate(seats[s], u)
                                                          ELSE seats[s]]
    BY <1>1 DEF Quit, LeaveSeat, Self
  <1>4. \A s \in RoomNames : Members(s)' = IF u \in Members(s) THEN Members(s) \ {u}
                                                               ELSE Members(s)
    <2>1. ASSUME NEW r \in RoomNames, NEW keep \in BOOLEAN, u \in Members(r),
                 RemoveMember(r, u, keep), NEW s \in RoomNames
          PROVE  Members(s)' = IF u \in Members(s) THEN Members(s) \ {u} ELSE Members(s)
      <3>1. Members(s)' = IF s = r THEN Members(r) \ {u} ELSE Members(s)
        BY <1>2, <2>1, RemoveMemberMembers DEF RoomsInv
      <3>2. u \in Members(s) => s = r
        BY <2>1, OneRoom
      <3>3. QED BY <2>1, <3>1, <3>2
    <2>2. CASE ~InRoom(u) /\ rooms' = rooms
      BY <2>2 DEF InRoom, Members
    <2>3. QED BY <1>2, <2>1, <2>2
  <1>5. QED BY <1>1, <1>2, <1>3, <1>4 DEF SeatMove

\* Nobody takes or leaves a seat in any other handler.
LEMMA SeatsRest ==
  ASSUME RoomsInv, MessagesTypeOK, NEW c \in Conns,
         \/ \E r \in RoomNames : StartGame(c, r) \/ Dead(c, r) \/ ReadyToExit(c, r)
         \/ Rest(c)
  PROVE  seats' = seats /\ \A s \in RoomNames : Members(s)' = Members(s)
  <1>1. seats' = seats
    BY DEF StartGame, Dead, ReadyToExit, Rest, Started, Announce
  <1>2. CASE rooms' = rooms
    BY <1>1, <1>2 DEF Members
  <1>3. ASSUME NEW r \in RoomNames, ReadyToExit(c, r)
        PROVE  \A s \in RoomNames : Members(s)' = Members(s)
    <2>1. rooms' = rooms \/ rooms' = [rooms EXCEPT ![r] = Waiting(rooms[r])]
      BY <1>3 DEF ReadyToExit, HandleReadyToExit
    <2>2. Waiting(rooms[r]).users = rooms[r].users
      BY SameRosterUpdates DEF RoomsInv, TypeOK
    <2>3. QED BY <1>2, <2>1, <2>2, SameRoster DEF RoomsInv
  <1>4. ASSUME Started(c) PROVE \A s \in RoomNames : Members(s)' = Members(s)
    <2>1. PICK r \in RoomNames : r = task[c].name
      BY <1>4, TaskFields DEF Started, TryStartGame, RoomsInv, TypeOK
    <2>2. \/ rooms' = rooms
          \/ nextMatchId < MaxMatches /\ StartMatch(r)
      BY <1>4, <2>1 DEF Started, TryStartGame
    <2>3. CASE nextMatchId < MaxMatches /\ StartMatch(r)
      <3>1. rooms' = [rooms EXCEPT ![r] = InMatch(rooms[r], nextMatchId + 1)]
        BY <2>3 DEF StartMatch, ForgetMatch
      <3>2. InMatch(rooms[r], nextMatchId + 1).users = rooms[r].users
        BY <2>3, SameRosterUpdates DEF RoomsInv, TypeOK
      <3>3. QED BY <3>1, <3>2, SameRoster DEF RoomsInv
    <2>4. QED BY <1>2, <2>2, <2>3
  <1>5. \/ rooms' = rooms
        \/ Started(c)
        \/ \E r \in RoomNames : ReadyToExit(c, r)
    <2>1. ASSUME NEW r \in RoomNames, StartGame(c, r) \/ Dead(c, r) PROVE rooms' = rooms
      BY <2>1 DEF StartGame, LookUpRoom, Dead, RecordDeath, MayDie
    <2>2. ASSUME \/ Announce(c) \/ NameWinner(c) \/ RetryDeath(c) \/ ClearId(c)
                 \/ EraseSession(c)
          PROVE  rooms' = rooms
      BY <2>2 DEF Announce, PayRewards, NameWinner, RetryDeath, ClearId, EraseSession
    <2>3. QED BY <2>1, <2>2 DEF Rest
  <1>6. QED BY <1>1, <1>2, <1>3, <1>4, <1>5

LEMMA SeatsMove ==
  ASSUME RoomsInv, MessagesTypeOK, NEW c \in Conns, Request(c) \/ Rest(c)
  PROVE  /\ seats' = [s \in RoomNames |-> seats'[s]]
         /\ \A s \in RoomNames : SeatMove(c, s)
  <1>1. CASE \E r \in RoomNames : Enter(c, r)
    BY <1>1, SeatsEnter
  <1>2. CASE Quit(c)
    BY <1>2, SeatsQuit
  <1>3. CASE \/ \E r \in RoomNames : StartGame(c, r) \/ Dead(c, r) \/ ReadyToExit(c, r)
             \/ Rest(c)
    <2>1. seats' = seats /\ \A s \in RoomNames : Members(s)' = Members(s)
      BY <1>3, SeatsRest
    <2>2. seats' = [s \in RoomNames |-> seats'[s]]
      BY <2>1 DEF MessagesTypeOK
    <2>3. QED BY <2>1, <2>2 DEF SeatMove
  <1>4. QED BY <1>1, <1>2, <1>3 DEF Request

\* How a list of seats comes out of a step: the members sit once each, and who
\* is in it keeps his place.
LEMMA SeatsOrder ==
  ASSUME RoomsInv, QueueInv, NEW c \in Conns, NEW r \in RoomNames, SeatMove(c, r)
  PROVE  /\ seats'[r] \in Seq(Users)
         /\ ToSet(seats'[r]) = Members(r)' /\ IsInjective(seats'[r])
         /\ \A v, w \in Users : w \in Members(r) /\ Before(seats'[r], v, w)
                                   => Before(seats[r], v, w)
         /\ \A w \in Users : w \in Members(r)' /\ First(seats[r], w)
                                => First(seats'[r], w)
  <1>1. PICK q \in Seq(Users) : q = seats[r]
    BY DEF QueueInv, MessagesTypeOK
  <1>2. ToSet(q) = Members(r) /\ IsInjective(q)
    BY <1>1 DEF QueueInv, SeatsAreMembers
  <1>3. PICK u : u = clientId[c]
    OBVIOUS
  <1>4. CASE seats'[r] = seats[r] /\ Members(r)' = Members(r)
    BY <1>1, <1>2, <1>4
  <1>5. CASE /\ u \in Users /\ u \notin Members(r)
             /\ seats'[r] = Append(q, u) /\ Members(r)' = Members(r) \union {u}
    <2>1. \A w \in Users : w \in Members(r) => w # u
      BY <1>5
    <2>2. /\ Append(q, u) \in Seq(Users)
          /\ ToSet(Append(q, u)) = ToSet(q) \union {u}
          /\ IsInjective(Append(q, u))
          /\ \A v, w \in Users : w # u /\ Before(Append(q, u), v, w) => Before(q, v, w)
          /\ \A w \in Users : First(q, w) => First(Append(q, u), w)
      BY <1>2, <1>5, SeatTaken
    <2>3. QED BY <1>1, <1>2, <1>5, <2>1, <2>2
  <1>6. CASE /\ u \in Users /\ u \in Members(r)
             /\ seats'[r] = Vacate(q, u) /\ Members(r)' = Members(r) \ {u}
    <2>1. \A w \in Users : w \in Members(r)' => w # u
      BY <1>6
    <2>2. /\ Vacate(q, u) \in Seq(Users)
          /\ ToSet(Vacate(q, u)) = ToSet(q) \ {u}
          /\ IsInjective(Vacate(q, u))
          /\ \A v, w \in Users : Before(Vacate(q, u), v, w) => Before(q, v, w)
          /\ \A w \in Users : w # u /\ First(q, w) => First(Vacate(q, u), w)
      BY <1>2, <1>6, SeatVacated
    <2>3. QED BY <1>1, <1>2, <1>6, <2>1, <2>2
  <1>7. QED BY <1>1, <1>3, <1>4, <1>5, <1>6 DEF SeatMove

\* A handler gives its own thread a plan and moves the screen of nobody else.
LEMMA QueuesMove ==
  ASSUME MessagesTypeOK, NEW c \in Conns, Request(c) \/ Rest(c)
  PROVE  /\ outbox' = [d \in Conns |-> outbox'[d]]
         /\ screen' \in [Conns -> {"room", "loading", "match"}]
         /\ \A d \in Conns : d # c => screen'[d] = screen[d]
         /\ ~Quit(c) => screen' = screen
  <1>1. outbox' = outbox \/ \E plan : Sends(c, plan)
    BY DEF Request, Rest, Enter, Quit, StartGame, Dead, ReadyToExit, Started, Announce
  <1>2. outbox' = [d \in Conns |-> outbox'[d]]
    <2>1. CASE outbox' = outbox
      BY <2>1 DEF MessagesTypeOK
    <2>2. CASE \E plan : Sends(c, plan)
      BY <2>2 DEF MessagesTypeOK, Sends
    <2>3. QED BY <1>1, <2>1, <2>2
  <1>3. \/ screen' = screen
        \/ Quit(c) /\ screen' = [screen EXCEPT ![c] = "room"]
    BY DEF Request, Rest, Enter, Quit, StartGame, Dead, ReadyToExit, Started, Announce
  <1>4. QED BY <1>2, <1>3 DEF MessagesTypeOK

LEMMA RequestQueues ==
  ASSUME RoomsInv, QueueInv, SpeakInv, NEW c \in Conns, outbox[c] = <<>>,
         Request(c) \/ Rest(c), UNCHANGED inbox
  PROVE  QueueInv'
  <1>1. /\ seats' = [s \in RoomNames |-> seats'[s]]
        /\ \A s \in RoomNames : /\ seats'[s] \in Seq(Users)
                                /\ ToSet(seats'[s]) = Members(s)'
                                /\ IsInjective(seats'[s])
    BY SeatsMove, SeatsOrder DEF QueueInv
  <1>2. \A d \in Conns : outbox'[d] \in Seq(Entries)
    BY NewPlan, OthersKeep DEF PlanHolds, QueueInv, MessagesTypeOK
  <1>3. /\ outbox' = [d \in Conns |-> outbox'[d]]
        /\ screen' \in [Conns -> {"room", "loading", "match"}]
    BY QueuesMove DEF QueueInv
  <1>4. seats' \in [RoomNames -> Seq(Users)]
    BY <1>1
  <1>5. outbox' \in [Conns -> Seq(Entries)]
    BY <1>2, <1>3
  <1>6. inbox' \in [Conns -> Seq(Messages)]
    BY DEF QueueInv, MessagesTypeOK
  <1>7. MessagesTypeOK'
    BY <1>3, <1>4, <1>5, <1>6 DEF MessagesTypeOK
  <1>8. SeatsAreMembers'
    BY <1>1 DEF SeatsAreMembers
  <1>9. SessionsApart'
    BY SessionsEnd DEF SessionsApart, QueueInv
  <1>10. QED BY <1>7, <1>8, <1>9 DEF QueueInv

-----------------------------------------------------------------------------
(* What is said is true and about the speaker's own match *)

\* A match that is played after a step was played before it or has just begun.
LEMMA PlayedBefore ==
  ASSUME RoomsInv, NEW c \in Conns, Request(c) \/ Rest(c), NEW r \in RoomNames, NEW m,
         Playing(r, m)'
  PROVE  Playing(r, m) \/ (m = nextMatchId + 1 /\ ~rooms[r].inGame)
  <1>1. RoomMove(c)
    BY ActIsRoomMove DEF RoomsInv
  <1>2. rooms'[r].inGame /\ rooms'[r].matchId = m
    BY DEF Playing
  <1>3. GoesOn(r) \/ Begins(r)
    BY <1>1, <1>2, MatchesGoOn DEF RoomMove, RoomsInv
  <1>4. QED BY <1>2, <1>3 DEF GoesOn, Begins, Playing

\* Nobody is ready but by READY_TO_EXIT.
LEMMA ReadyGrows ==
  ASSUME RoomsInv, NEW c \in Conns, Request(c) \/ Rest(c), NEW r \in RoomNames
  PROVE  ready'[r] \subseteq ready[r] \/ ReadyToExit(c, r)
  <1>1. ASSUME NEW s \in RoomNames, NEW u, NEW keep, RemoveMember(s, u, keep)
        PROVE  ready'[r] \subseteq ready[r]
    BY <1>1 DEF RemoveMember, ForgetMatch, RoomsInv, TypeOK
  <1>2. CASE Quit(c)
    BY <1>1, <1>2 DEF Quit, ExitRoom, ForceExit
  <1>3. ASSUME NEW s \in RoomNames, Enter(c, s) \/ StartGame(c, s) \/ Dead(c, s)
        PROVE  ready' = ready
    BY <1>3 DEF Enter, EnterRoom, HasSeat, CreateRoom, StartGame, LookUpRoom, Dead,
                RecordDeath, MayDie, matchVars
  <1>4. CASE Announce(c) \/ NameWinner(c) \/ RetryDeath(c) \/ ClearId(c) \/ EraseSession(c)
    BY <1>4 DEF Announce, PayRewards, NameWinner, RetryDeath, ClearId, EraseSession,
                matchVars
  <1>5. CASE Started(c)
    <2>1. ready' = ready \/ \E s : ready' = [ready EXCEPT ![s] = {}]
      BY <1>5 DEF Started, TryStartGame, StartMatch, ForgetMatch, matchVars
    <2>2. QED BY <2>1 DEF RoomsInv, TypeOK
  <1>6. ASSUME NEW s \in RoomNames, ReadyToExit(c, s), s # r
        PROVE  ready'[r] = ready[r]
    <2>1. \E S : ready' = [ready EXCEPT ![s] = S]
      BY <1>6 DEF ReadyToExit, HandleReadyToExit, ForgetMatch
    <2>2. QED BY <1>6, <2>1 DEF RoomsInv, TypeOK
  <1>7. QED BY <1>2, <1>3, <1>4, <1>5, <1>6 DEF Request, Rest

\* What has been heard of a payment has been paid.
LEMMA HeardIsPaid ==
  ASSUME MessagesTypeOK, SaidIsTrue, NEW c \in Conns, NEW m, Heard(c, "REWARD_RESULT", m)
  PROVE  ledger[m].times > 0
  <1>1. PICK k \in 1..Len(inbox[c]) :
           inbox[c][k].is = "REWARD_RESULT" /\ inbox[c][k].match = m
    BY DEF Heard
  <1>2. inbox[c][k] \in Messages /\ inbox[c][k] \in Received(c)
    BY ElementOfSeq DEF MessagesTypeOK, Received
  <1>3. QED BY <1>1, <1>2 DEF SaidIsTrue, Said

LEMMA RequestPaid ==
  ASSUME RoomsInv, QueueInv, SpeakInv, NEW c \in Conns, Request(c) \/ Rest(c)
  PROVE  ReadyArePaid'
  <1>1. ASSUME NEW r \in RoomNames, rooms'[r].inGame, ready'[r] # {}
        PROVE  ledger'[rooms'[r].matchId].times > 0
    <2>1. PICK m : m = rooms'[r].matchId
      OBVIOUS
    <2>2. Playing(r, m)'
      BY <1>1, <2>1 DEF Playing
    <2>3. CASE ReadyToExit(c, r)
      <3>1. rooms[r].inGame /\ Heard(c, "REWARD_RESULT", rooms[r].matchId)
        BY <2>3 DEF ReadyToExit, HandleReadyToExit
      <3>2. Playing(r, m)
        BY <2>2, <3>1, PlayedBefore
      <3>3. Heard(c, "REWARD_RESULT", m) /\ m \in Matches
        BY <3>1, <3>2, PlayedMatch DEF Playing
      <3>4. ledger[m].times > 0
        BY <3>3, HeardIsPaid DEF QueueInv, SpeakInv
      <3>5. QED BY <2>1, <3>3, <3>4, HistoryGrows
    <2>4. CASE ~ReadyToExit(c, r)
      <3>1. ready[r] # {}
        BY <1>1, <2>4, ReadyGrows
      <3>2. rooms[r].inGame
        BY <3>1 DEF RoomsInv, Clean, NoLeftovers
      <3>3. rooms[r].matchId = m
        BY <2>2, <3>2, PlayedBefore DEF Playing
      <3>4. m \in Matches /\ ledger[m].times > 0
        BY <3>1, <3>2, <3>3, PlayedMatch DEF SpeakInv, ReadyArePaid
      <3>5. QED BY <2>1, <3>4, HistoryGrows
    <2>5. QED BY <2>3, <2>4
  <1>2. QED BY <1>1 DEF ReadyArePaid

\* What one thread has in hand.
OwnWork(c) ==
  /\ task[c].op \in Paying => /\ task[c].died = clientId[c]
                             /\ Plays(c, task[c].name, task[c].room.matchId)
  /\ task[c].op = "start" => clientId[c] \in Members(task[c].name)

\* A thread that goes on with a payment keeps the match it is about.
LEMMA SameWork ==
  ASSUME NEW c \in Conns, OwnWork(c), task[c].op \in Paying, NEW t, task'[c] = t,
         t.op # "start", t.name = task[c].name, t.room = task[c].room,
         t.died = task[c].died, clientId' = clientId, rooms' = rooms, ready' = ready
  PROVE  OwnWork(c)'
  <1>1. PICK r : r = task[c].name
    OBVIOUS
  <1>2. PICK m : m = task[c].room.matchId
    OBVIOUS
  <1>3. Plays(c, r, m)'
    BY <1>1, <1>2 DEF OwnWork, Plays, Playing, Members
  <1>4. QED BY <1>1, <1>2, <1>3 DEF OwnWork

LEMMA NoWork ==
  ASSUME NEW c \in Conns, task'[c].op \notin Paying, task'[c].op # "start"
  PROVE  OwnWork(c)'
  BY DEF OwnWork

LEMMA CallerWorks ==
  ASSUME RoomsInv, QueueInv, SpeakInv, NEW c \in Conns, Request(c) \/ Rest(c)
  PROVE  OwnWork(c)'
  <1>0. OwnWork(c) /\ task[c] \in Task /\ Idle.op = "idle" /\ "idle" \notin Paying
    BY Ops DEF SpeakInv, WorksOnOwnMatch, OwnWork, RoomsInv, TypeOK
  <1>1. ASSUME task[c] = Idle, task' = task PROVE OwnWork(c)'
    BY <1>0, <1>1, NoWork
  <1>2. ASSUME NEW t, Goto(c, t), t.op \notin Paying, t.op # "start" PROVE OwnWork(c)'
    <2>1. task'[c] = t
      BY <1>2, GotoTask DEF RoomsInv
    <2>2. QED BY <1>2, <2>1, NoWork
  <1>3. CASE Goto(c, Idle)
    BY <1>0, <1>2, <1>3
  <1>4. ASSUME NEW t \in Task, task[c].op \in Paying, Goto(c, t), t.op # "start",
               t.name = task[c].name, t.room = task[c].room, t.died = task[c].died,
               clientId' = clientId, rooms' = rooms, ready' = ready
        PROVE  OwnWork(c)'
    <2>1. task'[c] = t
      BY <1>4, GotoTask DEF RoomsInv
    <2>2. QED BY <1>0, <1>4, <2>1, SameWork
  <1>5. ASSUME NEW r \in RoomNames, Enter(c, r) \/ ReadyToExit(c, r)
        PROVE  OwnWork(c)'
    BY <1>1, <1>5 DEF Enter, EnterRoom, CreateRoom, ReadyToExit, HandleReadyToExit
  <1>6. CASE Quit(c)
    <2>1. \/ task[c] = Idle /\ task' = task
          \/ Goto(c, [op |-> "clear", user |-> clientId[c]])
      BY <1>6 DEF Quit, ExitRoom, ForceExit
    <2>2. [op |-> "clear", user |-> clientId[c]].op \notin Paying
      BY DEF Paying
    <2>3. QED BY <1>1, <1>2, <2>1, <2>2
  <1>7. ASSUME NEW r \in RoomNames, StartGame(c, r) PROVE OwnWork(c)'
    <2>1. PICK t : t = [op |-> "start", name |-> r, coop |-> rooms[r].coop]
      OBVIOUS
    <2>2. t.op = "start" /\ t.name = r /\ Goto(c, t) /\ rooms' = rooms
          /\ clientId' = clientId
      BY <1>7, <2>1 DEF StartGame, LookUpRoom, sessionVars
    <2>3. task'[c] = t
      BY <2>2, GotoTask DEF RoomsInv
    <2>4. clientId[c] \in Members(r)
      <3>1. PICK q \in Seq(Users) : q = seats[r]
        BY DEF QueueInv, MessagesTypeOK
      <3>2. q # <<>> /\ Head(q) = clientId[c] /\ ToSet(q) = Members(r)
        BY <1>7, <3>1 DEF StartGame, Self, QueueInv, SeatsAreMembers
      <3>3. 1 \in DOMAIN q /\ q[1] = clientId[c]
        BY <3>2, QueueTail, LenProperties
      <3>4. QED BY <3>2, <3>3 DEF ToSet
    <2>5. QED BY <2>2, <2>3, <2>4 DEF OwnWork, Paying, Members
  <1>8. ASSUME NEW r \in RoomNames, Dead(c, r) PROVE OwnWork(c)'
    <2>1. PICK u : u = clientId[c]
      OBVIOUS
    <2>2. RecordDeath(c, r, u) /\ MayDie(r, u)
      BY <1>8, <2>1 DEF Dead, RecordDeath, Self
    <2>3. /\ u \in Members(r) /\ rooms[r].inGame /\ r \notin resolved
          /\ rooms' = rooms /\ ready' = ready /\ clientId' = clientId
      BY <2>2 DEF RecordDeath, MayDie, Members, sessionVars
    <2>4. ready[r] = {}
      <3>1. rooms[r].matchId \in Matches /\ Playing(r, rooms[r].matchId)
        BY <2>3, PlayedMatch DEF Playing
      <3>2. QED
        BY <2>3, <3>1 DEF SpeakInv, ReadyArePaid, RoomsInv, RewardCore, PaidAreResolved
    <2>5. PICK t : t = [op |-> "name", name |-> r, room |-> rooms[r],
                        dead |-> dead[r] \union {u}, died |-> u, winner |-> "None"]
      OBVIOUS
    <2>6. (task' = task /\ task[c] = Idle) \/ Goto(c, t)
      BY <2>2, <2>5 DEF RecordDeath
    <2>7. CASE Goto(c, t)
      <3>1. /\ t.op = "name" /\ t.name = r /\ t.died = u /\ t.room = rooms[r]
            /\ t.op # "start"
        BY <2>5
      <3>2. task'[c] = t
        BY <2>7, GotoTask DEF RoomsInv
      <3>3. Plays(c, r, rooms[r].matchId)'
        BY <2>1, <2>3, <2>4 DEF Plays, Playing, Members
      <3>4. clientId'[c] = u /\ rooms'[r].matchId = rooms[r].matchId
        BY <2>1, <2>3
      <3>5. QED BY <3>1, <3>2, <3>3, <3>4 DEF OwnWork
    <2>8. QED BY <1>1, <2>6, <2>7
  <1>9. CASE Started(c) \/ RetryDeath(c) \/ EraseSession(c)
    BY <1>3, <1>9 DEF Started, TryStartGame, RetryDeath, EraseSession
  <1>10. CASE Announce(c)
    <2>1. PICK t : t = [task[c] EXCEPT !.op = "retry"]
      OBVIOUS
    <2>2. /\ task[c].op = "pay"
          /\ Goto(c, Idle) \/ Goto(c, t)
          /\ clientId' = clientId /\ rooms' = rooms /\ ready' = ready
      BY <1>10, <2>1 DEF Announce, PayRewards, sessionVars, matchVars
    <2>3. CASE Goto(c, t)
      <3>1. /\ t \in Task /\ t.op = "retry" /\ t.name = task[c].name
            /\ t.room = task[c].room /\ t.died = task[c].died /\ task[c].op \in Paying
            /\ t.op # "start"
        <4>1. task[c] \in [op : Paying, name : RoomNames, room : Room,
                           dead : SUBSET Users, died : Users,
                           winner : Names \union Teams \union {"None"}]
          BY <1>0, <2>2, TaskFields DEF Paying
        <4>2. /\ t \in [op : {"retry"}, name : RoomNames, room : Room,
                        dead : SUBSET Users, died : Users,
                        winner : Names \union Teams \union {"None"}]
              /\ t.name = task[c].name /\ t.room = task[c].room /\ t.died = task[c].died
          BY <2>1, <4>1
        <4>3. QED BY <2>2, <4>2 DEF Task, Paying
      <3>2. QED BY <1>4, <2>2, <2>3, <3>1
    <2>4. QED BY <1>3, <2>2, <2>3
  <1>11. CASE NameWinner(c)
    <2>1. PICK w \in Names \union Teams \union {"None"} :
             Goto(c, [task[c] EXCEPT !.op = "pay", !.winner = w])
      <3>1. PICK u \in task[c].room.users \ task[c].dead :
              Goto(c, [task[c] EXCEPT !.op = "pay",
                  !.winner = IF task[c].room.coop THEN task[c].room.team[u]
                                                  ELSE Nickname(u)])
        BY <1>11 DEF NameWinner
      <3>2. task[c].room \in Room
        BY <1>0, <1>11, TaskFields DEF NameWinner, Paying
      <3>3. u \in Users /\ task[c].room.team[u] \in Teams \union {"None"}
        BY <3>2 DEF Room
      <3>4. Nickname(u) \in Names
        BY <3>3 DEF Nickname, Names
      <3>5. QED BY <3>1, <3>3, <3>4
    <2>2. PICK t : t = [task[c] EXCEPT !.op = "pay", !.winner = w]
      OBVIOUS
    <2>3. /\ task[c].op = "name" /\ Goto(c, t)
          /\ clientId' = clientId /\ rooms' = rooms /\ ready' = ready
      BY <1>11, <2>1, <2>2 DEF NameWinner, sessionVars, matchVars
    <2>4. /\ t \in Task /\ t.op = "pay" /\ t.name = task[c].name
          /\ t.room = task[c].room /\ t.died = task[c].died /\ task[c].op \in Paying
          /\ t.op # "start"
      <3>1. task[c] \in [op : Paying, name : RoomNames, room : Room,
                         dead : SUBSET Users, died : Users,
                         winner : Names \union Teams \union {"None"}]
        BY <1>0, <2>3, TaskFields DEF Paying
      <3>2. /\ t \in [op : {"pay"}, name : RoomNames, room : Room,
                      dead : SUBSET Users, died : Users,
                      winner : Names \union Teams \union {"None"}]
            /\ t.name = task[c].name /\ t.room = task[c].room /\ t.died = task[c].died
        BY <2>1, <2>2, <3>1
      <3>3. QED BY <2>3, <3>2 DEF Task, Paying
    <2>5. QED BY <1>4, <2>3, <2>4
  <1>12. CASE ClearId(c)
    <2>1. Goto(c, [op |-> "erase", user |-> task[c].user])
      BY <1>12 DEF ClearId
    <2>2. [op |-> "erase", user |-> task[c].user].op \notin Paying
      BY DEF Paying
    <2>3. QED BY <1>2, <2>1, <2>2
  <1>13. QED
    BY <1>5, <1>6, <1>7, <1>8, <1>9, <1>10, <1>11, <1>12 DEF Request, Rest

LEMMA RequestWorks ==
  ASSUME RoomsInv, QueueInv, SpeakInv, NEW c \in Conns, Request(c) \/ Rest(c)
  PROVE  WorksOnOwnMatch'
  <1>1. ASSUME NEW d \in Conns, d # c PROVE OwnWork(d)'
    <2>1. /\ clientId'[d] = clientId[d] /\ task'[d] = task[d]
          /\ OwnWork(d) /\ task[d] \in Task
      BY <1>1, OthersKeep DEF QueueInv, SpeakInv, WorksOnOwnMatch, OwnWork, RoomsInv, TypeOK
    <2>2. task[d].op \in Paying \/ task[d].op = "start" => task[d].name \in RoomNames
      BY <2>1, TaskFields
    <2>3. \A r \in RoomNames : StaysIn(d, r)
      BY <1>1, OthersStay
    <2>4. QED BY <2>1, <2>2, <2>3 DEF OwnWork, Plays, Playing, StaysIn, Members
  <1>2. \A d \in Conns : OwnWork(d)'
    BY <1>1, CallerWorks
  <1>3. QED BY <1>2 DEF WorksOnOwnMatch, OwnWork

\* What one thread has to send, and whether it is true.
OwnSpeech(c) ==
  \A e \in Pending(c) :
    /\ e.msg.is # "GAME_END" => Plays(c, e.msg.room, e.msg.match)
    /\ e.msg.is = "GAME_END" => clientId[c] \in Members(e.msg.room) /\ Len(outbox[c]) = 1
    /\ e.does = "broadcast" => e.from = clientId[c]
    /\ e.does = "tell" <=> e.msg.is \in {"GAME_START", "GAME_END"}

IsTrue(msg) ==
  /\ msg.match <= nextMatchId
  /\ msg.is \in {"WIN", "REWARD_RESULT"} => ledger[msg.match].times > 0
  /\ msg.is = "GAME_END" => \A r \in RoomNames : ~Playing(r, msg.match)

\* An entry is made of a message to one of the rooms about one of the matches.
LEMMA PendingType ==
  ASSUME MessagesTypeOK, NEW c \in Conns
  PROVE  /\ \A e \in Pending(c) : e \in Entries /\ e.msg \in Messages /\ Said(c, e.msg)
         /\ \A msg \in Received(c) : msg \in Messages /\ Said(c, msg)
  <1>1. \A k \in 1..Len(outbox[c]) : outbox[c][k] \in Entries
    BY ElementOfSeq DEF MessagesTypeOK
  <1>2. \A k \in 1..Len(inbox[c]) : inbox[c][k] \in Messages
    BY ElementOfSeq DEF MessagesTypeOK
  <1>3. QED BY <1>1, <1>2, KindsDiffer DEF Pending, Received, Said

LEMMA MessageParts ==
  ASSUME NEW msg \in Messages
  PROVE  msg.is \in Kinds /\ msg.room \in RoomNames /\ msg.match \in Matches
  BY DEF Messages

LEMMA RequestSpeaks ==
  ASSUME RoomsInv, QueueInv, SpeakInv, NEW c \in Conns, outbox[c] = <<>>,
         Request(c) \/ Rest(c), UNCHANGED inbox
  PROVE  SpeaksOfOwnMatch' /\ SaidIsTrue'
  <1>1. ASSUME NEW d \in Conns, d # c PROVE OwnSpeech(d)'
    <2>1. /\ clientId'[d] = clientId[d] /\ outbox'[d] = outbox[d] /\ Pending(d)' = Pending(d)
          /\ OwnSpeech(d)
      BY <1>1, OthersKeep DEF QueueInv, SpeakInv, SpeaksOfOwnMatch, OwnSpeech, Pending
    <2>2. \A e \in Pending(d) : e.msg.room \in RoomNames
      BY PendingType, MessageParts DEF QueueInv
    <2>3. \A r \in RoomNames : StaysIn(d, r)
      BY <1>1, OthersStay
    <2>4. QED BY <2>1, <2>2, <2>3 DEF OwnSpeech, Plays, Playing, StaysIn, Members
  <1>2. OwnSpeech(c)' /\ \A e \in Pending(c)' : IsTrue(e.msg)'
    <2>1. PlanHolds(c)
      BY NewPlan
    <2>2. OwnSpeech(c)'
      BY <2>1 DEF OwnSpeech, PlanHolds
    <2>3. \A e \in Pending(c)' : IsTrue(e.msg)'
      BY <2>1 DEF IsTrue, PlanHolds
    <2>4. QED BY <2>2, <2>3
  <1>3. ASSUME NEW msg \in Messages, IsTrue(msg) PROVE IsTrue(msg)'
    <2>1. msg.match \in Matches /\ msg.match <= nextMatchId /\ nextMatchId \in Nat
      BY <1>3, MessageParts DEF IsTrue, RoomsInv, TypeOK
    <2>2. msg.match <= nextMatchId' /\ msg.match # nextMatchId + 1
      BY <2>1, HistoryGrows DEF Matches
    <2>3. ASSUME msg.is = "GAME_END", NEW r \in RoomNames, Playing(r, msg.match)' PROVE FALSE
      BY <1>3, <2>2, <2>3, PlayedBefore DEF IsTrue
    <2>4. ledger[msg.match].times > 0 => ledger'[msg.match].times > 0
      BY <2>1, HistoryGrows
    <2>5. QED BY <1>3, <2>2, <2>3, <2>4 DEF IsTrue
  <1>4. ASSUME NEW d \in Conns, NEW msg \in Messages, Said(d, msg)'
        PROVE  IsTrue(msg)'
    <2>1. CASE Said(d, msg)
      BY <1>3, <1>4, <2>1 DEF SpeakInv, SaidIsTrue, IsTrue
    <2>2. CASE ~Said(d, msg)
      <3>1. PICK e \in Pending(d)' : e.msg = msg /\ e \notin Pending(d)
        BY <1>4, <2>2 DEF Said, Received
      <3>2. d = c
        BY <3>1, OthersKeep DEF Pending, QueueInv
      <3>3. QED BY <1>2, <3>1, <3>2
    <2>3. QED BY <2>1, <2>2
  <1>5. \A d \in Conns : OwnSpeech(d)'
    BY <1>1, <1>2
  <1>6. SpeaksOfOwnMatch'
    BY <1>5 DEF SpeaksOfOwnMatch, OwnSpeech
  <1>7. SaidIsTrue'
    BY <1>4 DEF SaidIsTrue, IsTrue
  <1>8. QED BY <1>6, <1>7

-----------------------------------------------------------------------------
(* Sending *)

\* The first entry of the queue of c goes to everybody it reaches ...
Delivers(c, e) ==
  /\ outbox' = [outbox EXCEPT ![c] = Tail(outbox[c])]
  /\ inbox' = [d \in Conns |-> IF Reaches(e, d) THEN Append(inbox[d], e.msg) ELSE inbox[d]]
  /\ screen' = [d \in Conns |-> IF ~Reaches(e, d) THEN screen[d]
                                ELSE CASE e.msg.is = "GAME_START" -> "loading"
                                       [] e.msg.is = "GAME_END"   -> "room"
                                       [] OTHER                   -> screen[d]]

\* ... or is a broadcast, and becomes an entry for every member of its room.
ForMembers(r, msg) == [k \in 1..Len(seats[r]) |-> Retained(clientsMap[seats[r][k]], msg)]

Expands(c, e) ==
  /\ e.does = "broadcast"
  /\ Plays(c, e.msg.room, e.msg.match)
  /\ outbox' = [outbox EXCEPT ![c] = ForMembers(e.msg.room, e.msg) \o Tail(outbox[c])]
  /\ UNCHANGED <<inbox, screen>>

SendStep(c) ==
  /\ outbox[c] # <<>>
  /\ ReadRecipients(c) \/ ServeRetained(c) \/ TellUsers(c)
  /\ UNCHANGED <<vars, seats>>

\* A thread broadcasts to the room it speaks of, since its user is there.
LEMMA SendMoves ==
  ASSUME RoomsInv, QueueInv, SpeakInv, NEW c \in Conns, SendStep(c)
  PROVE  \E e \in Entries : e = Head(outbox[c]) /\ (Delivers(c, e) \/ Expands(c, e))
  <1>1. PICK q \in Seq(Entries) : q = outbox[c] /\ q # <<>>
    BY DEF SendStep, QueueInv, MessagesTypeOK
  <1>2. PICK e \in Entries : e = Head(outbox[c]) /\ e \in Pending(c)
    BY <1>1, QueueTail DEF Pending
  <1>3. CASE ServeRetained(c)
    <2>1. e.does = "retained" /\ Deliver({e.to}, e.msg) /\ Sends(c, Tail(outbox[c]))
      BY <1>2, <1>3 DEF ServeRetained
    <2>2. \A d \in Conns : Reaches(e, d) <=> d \in {e.to}
      BY <2>1 DEF Reaches
    <2>3. QED BY <1>2, <2>1, <2>2 DEF Deliver, Delivers, Sends
  <1>4. CASE TellUsers(c)
    <2>1. e.does = "tell" /\ Deliver(Sessions(e.users), e.msg) /\ Sends(c, Tail(outbox[c]))
      BY <1>2, <1>4 DEF TellUsers
    <2>2. \A d \in Conns : Reaches(e, d) <=> d \in Sessions(e.users)
      BY <2>1 DEF Reaches, Sessions
    <2>3. QED BY <1>2, <2>1, <2>2 DEF Deliver, Delivers, Sends
  <1>5. CASE ReadRecipients(c)
    <2>1. PICK r : r = e.msg.room
      OBVIOUS
    <2>2. e.does = "broadcast" /\ e.from = clientId[c] /\ Plays(c, r, e.msg.match)
      BY <1>2, <1>5, <2>1 DEF ReadRecipients, SpeakInv, SpeaksOfOwnMatch
    <2>3. r \in RoomNames /\ clientId[c] \in Members(r)
      BY <2>1, <2>2, KindsDiffer, MessageParts DEF Plays
    <2>4. InRoom(e.from)
      BY <2>2, <2>3 DEF InRoom, Members
    <2>5. \A s \in RoomNames : e.from \in Members(s) => s = r
      BY <2>2, <2>3, OneRoom
    <2>6. Sends(c, ForMembers(r, e.msg) \o Tail(outbox[c]))
      BY <1>2, <1>5, <2>4, <2>5 DEF ReadRecipients, ForMembers
    <2>7. QED BY <1>2, <1>5, <2>1, <2>2, <2>6 DEF Expands, Sends, ReadRecipients
  <1>6. QED BY <1>3, <1>4, <1>5 DEF SendStep

\* What is on the queue of c once an entry has been delivered ...
LEMMA DeliveredQueue ==
  ASSUME MessagesTypeOK, NEW c \in Conns, outbox[c] # <<>>, NEW e \in Entries,
         e = Head(outbox[c]), Delivers(c, e)
  PROVE  /\ \A d \in Conns : d # c => outbox'[d] = outbox[d]
         /\ outbox'[c] \in Seq(Entries) /\ Len(outbox'[c]) = Len(outbox[c]) - 1
         /\ Len(outbox[c]) \in Nat \ {0} /\ 1 \in 1..Len(outbox[c]) /\ outbox[c][1] = e
         /\ \A k \in 1..Len(outbox'[c]) : /\ k + 1 \in 1..Len(outbox[c]) /\ k + 1 # 1
                                          /\ outbox'[c][k] = outbox[c][k + 1]
         /\ \A k \in 1..Len(outbox[c]) : k # 1 => /\ k - 1 \in 1..Len(outbox'[c])
                                                 /\ outbox'[c][k - 1] = outbox[c][k]
         /\ Pending(c)' \subseteq Pending(c)
         /\ Pending(c) \subseteq Pending(c)' \union {e}
         /\ \A d \in Conns : /\ ~Reaches(e, d) => inbox'[d] = inbox[d]
                             /\ Reaches(e, d) => inbox'[d] = Append(inbox[d], e.msg)
  <1>1. PICK q \in Seq(Entries) : q = outbox[c] /\ q # <<>>
    BY DEF MessagesTypeOK
  <1>2. outbox'[c] = Tail(q) /\ \A d \in Conns : d # c => outbox'[d] = outbox[d]
    BY <1>1 DEF Delivers, MessagesTypeOK
  <1>3. /\ Len(q) \in Nat \ {0} /\ 1 \in 1..Len(q)
        /\ Head(q) = q[1] /\ Head(q) \in Entries
        /\ Tail(q) \in Seq(Entries) /\ Len(Tail(q)) = Len(q) - 1
        /\ \A k \in 1..Len(Tail(q)) : /\ k + 1 \in 1..Len(q) /\ k + 1 # 1
                                      /\ Tail(q)[k] = q[k + 1]
        /\ \A k \in 1..Len(q) : k # 1 => /\ k - 1 \in 1..Len(Tail(q))
                                         /\ Tail(q)[k - 1] = q[k]
    BY <1>1, QueueTail
  <1>4. Pending(c)' \subseteq Pending(c) /\ Pending(c) \subseteq Pending(c)' \union {e}
    BY <1>1, <1>2, <1>3 DEF Pending
  <1>5. \A d \in Conns : /\ ~Reaches(e, d) => inbox'[d] = inbox[d]
                         /\ Reaches(e, d) => inbox'[d] = Append(inbox[d], e.msg)
    BY DEF Delivers
  <1>6. QED BY <1>1, <1>2, <1>3, <1>4, <1>5

\* The rest of a queue stands behind n new entries.
Slides(c, n) ==
  \A k \in 1..Len(outbox'[c]) : k \notin 1..n =>
     \E l \in 1..Len(outbox[c]) : l # 1 /\ k + 1 = n + l /\ outbox'[c][k] = outbox[c][l]

\* ... and once a broadcast has been expanded.
LEMMA ExpandedQueue ==
  ASSUME RoomsInv, QueueInv, NEW c \in Conns, outbox[c] # <<>>, NEW e \in Entries,
         e = Head(outbox[c]), Expands(c, e), NEW n, n = Len(seats[e.msg.room])
  PROVE  /\ \A d \in Conns : d # c => outbox'[d] = outbox[d]
         /\ outbox'[c] \in Seq(Entries) /\ n \in Nat
         /\ Len(outbox[c]) \in Nat \ {0} /\ 1 \in 1..Len(outbox[c]) /\ outbox[c][1] = e
         /\ \A k \in 1..n : /\ k \in 1..Len(outbox'[c])
                            /\ outbox'[c][k] \in Entries
                            /\ outbox'[c][k].msg = e.msg
                            /\ outbox'[c][k].does = "retained"
                            /\ outbox'[c][k].to = clientsMap[seats[e.msg.room][k]]
         /\ Slides(c, n)
         /\ \A l \in 1..Len(outbox[c]) : l # 1 => outbox[c][l] \in Pending(c)'
  <1>1. PICK q \in Seq(Entries) : q = outbox[c] /\ q # <<>>
    BY DEF QueueInv, MessagesTypeOK
  <1>2. PICK r \in RoomNames : r = e.msg.room
    BY KindsDiffer, MessageParts
  <1>3. PICK s \in Seq(Users) : s = seats[r]
    BY DEF QueueInv, MessagesTypeOK
  <1>4. PICK msg \in Messages : msg = e.msg
    BY KindsDiffer
  <1>5. n \in Nat /\ n = Len(s) /\ \A k \in 1..n : s[k] \in Users
    BY <1>2, <1>3, LenProperties, ElementOfSeq
  <1>6. PICK p : p = ForMembers(r, msg)
    OBVIOUS
  <1>7. /\ p \in [1..n -> Entries]
        /\ \A k \in 1..n : /\ p[k] \in Entries /\ p[k].msg = msg /\ p[k].does = "retained"
                           /\ p[k].to = clientsMap[s[k]]
    <2>1. \A k \in 1..n : clientsMap[s[k]] \in Conns \union {NoConn}
      BY <1>5 DEF RoomsInv, TypeOK
    <2>2. p = [k \in 1..n |-> Retained(clientsMap[s[k]], msg)]
      BY <1>3, <1>5, <1>6 DEF ForMembers
    <2>3. \A d \in Conns \union {NoConn} :
             /\ Retained(d, msg) \in Entries /\ Retained(d, msg).msg = msg
             /\ Retained(d, msg).does = "retained" /\ Retained(d, msg).to = d
      BY NewEntries
    <2>4. QED BY <2>1, <2>2, <2>3
  <1>8. p \in Seq(Entries) /\ Len(p) = n
    BY <1>5, <1>7, FunctionIsSeq
  <1>9. /\ Len(q) \in Nat \ {0} /\ 1 \in 1..Len(q)
        /\ Head(q) = q[1] /\ Head(q) \in Entries
        /\ Tail(q) \in Seq(Entries) /\ Len(Tail(q)) = Len(q) - 1
        /\ \A k \in 1..Len(Tail(q)) : /\ k + 1 \in 1..Len(q) /\ k + 1 # 1
                                      /\ Tail(q)[k] = q[k + 1]
        /\ \A k \in 1..Len(q) : k # 1 => /\ k - 1 \in 1..Len(Tail(q))
                                         /\ Tail(q)[k - 1] = q[k]
    BY <1>1, QueueTail
  <1>10. PICK t \in Seq(Entries) : t = Tail(q)
    BY <1>9
  <1>11. PICK z : z = p \o t
    OBVIOUS
  <1>12. /\ z \in Seq(Entries) /\ Len(z) = n + Len(t) /\ Len(t) \in Nat
         /\ \A k \in 1..n + Len(t) : z[k] = IF k <= n THEN p[k] ELSE t[k - n]
    <2>1. p \in Seq(Entries) /\ t \in Seq(Entries) /\ Len(t) \in Nat
      BY <1>8, <1>10, LenProperties
    <2>2. /\ p \o t \in Seq(Entries) /\ Len(p \o t) = Len(p) + Len(t)
          /\ \A k \in 1..Len(p) + Len(t) :
                (p \o t)[k] = IF k <= Len(p) THEN p[k] ELSE t[k - Len(p)]
      BY <2>1, ConcatProperties
    <2>3. QED BY <1>8, <1>11, <2>1, <2>2
  <1>13. outbox'[c] = z /\ \A d \in Conns : d # c => outbox'[d] = outbox[d]
    BY <1>1, <1>2, <1>4, <1>6, <1>10, <1>11 DEF Expands, QueueInv, MessagesTypeOK
  <1>14. \A k \in 1..n : k \in 1..Len(z) /\ z[k] = p[k]
    BY <1>5, <1>12
  <1>15. ASSUME NEW k \in 1..Len(z), k \notin 1..n
         PROVE  \E l \in 1..Len(q) : l # 1 /\ k + 1 = n + l /\ z[k] = q[l]
    <2>1. ~(k <= n) /\ k - n \in 1..Len(t)
      BY <1>5, <1>12, <1>15
    <2>2. z[k] = t[k - n]
      BY <1>12, <2>1
    <2>3. (k - n) + 1 \in 1..Len(q) /\ (k - n) + 1 # 1 /\ t[k - n] = q[(k - n) + 1]
      BY <1>9, <1>10, <2>1
    <2>4. k + 1 = n + ((k - n) + 1)
      BY <1>5, <1>12
    <2>5. QED BY <2>2, <2>3, <2>4
  <1>16. ASSUME NEW l \in 1..Len(q), l # 1
         PROVE  \E k \in 1..Len(z) : z[k] = q[l]
    <2>1. l - 1 \in 1..Len(t) /\ t[l - 1] = q[l]
      BY <1>9, <1>10, <1>16
    <2>2. n + (l - 1) \in 1..Len(z) /\ ~(n + (l - 1) <= n) /\ (n + (l - 1)) - n = l - 1
      BY <1>5, <1>12, <2>1
    <2>3. z[n + (l - 1)] = q[l]
      BY <1>12, <2>1, <2>2
    <2>4. QED BY <2>2, <2>3
  <1>17. \A l \in 1..Len(q) : l # 1 => q[l] \in Pending(c)'
    BY <1>13, <1>16 DEF Pending
  <1>18. \A k \in 1..n : /\ k \in 1..Len(outbox'[c])
                         /\ outbox'[c][k] \in Entries
                         /\ outbox'[c][k].msg = e.msg
                         /\ outbox'[c][k].does = "retained"
                         /\ outbox'[c][k].to = clientsMap[seats[e.msg.room][k]]
    BY <1>2, <1>3, <1>4, <1>7, <1>13, <1>14
  <1>19. Slides(c, n)
    BY <1>1, <1>13, <1>15 DEF Slides
  <1>20. /\ Len(outbox[c]) \in Nat \ {0} /\ 1 \in 1..Len(outbox[c]) /\ outbox[c][1] = e
         /\ \A l \in 1..Len(outbox[c]) : l # 1 => outbox[c][l] \in Pending(c)'
    BY <1>1, <1>9, <1>17
  <1>21. n \in Nat /\ outbox'[c] \in Seq(Entries)
    BY <1>5, <1>12, <1>13
  <1>22. QED BY <1>13, <1>18, <1>19, <1>20, <1>21

\* A step that leaves the rooms alone keeps what is known of them.
LEMMA RoomsUnchanged ==
  ASSUME RoomsInv, UNCHANGED vars
  PROVE  RoomsInv'
  <1>1. TypeOK' /\ SessionsAgree'
    BY DEF RoomsInv, TypeOK, SessionsAgree, vars
  <1>2. RewardCore'
    BY DEF RoomsInv, RewardCore, OneRewardPerMatch, Claims, MatchIdsIssued, Playing,
           ClaimsAreResolved, PaidAreResolved, vars
  <1>3. Roster' /\ Clean'
    BY DEF RoomsInv, Roster, Membership, MembersHaveSessions, Members, Clean, NoLeftovers,
           vars
  <1>4. QED BY <1>1, <1>2, <1>3 DEF RoomsInv

\* What is on a queue after a step of sending was there before, or replaces the
\* broadcast at its head.
LEMMA SentEntries ==
  ASSUME RoomsInv, QueueInv, SpeakInv, NEW c \in Conns, SendStep(c), NEW d \in Conns,
         NEW f \in Pending(d)'
  PROVE  \/ f \in Pending(d)
         \/ /\ d = c /\ f.does = "retained"
            /\ \E e \in Pending(c) : e.does = "broadcast" /\ f.msg = e.msg
  <1>1. CASE d # c
    <2>1. outbox'[d] = outbox[d]
      BY <1>1, SendMoves DEF Delivers, Expands, QueueInv, MessagesTypeOK
    <2>2. QED BY <2>1 DEF Pending
  <1>2. CASE d = c
    <2>1. PICK e \in Entries : e = Head(outbox[c]) /\ (Delivers(c, e) \/ Expands(c, e))
      BY SendMoves
    <2>2. CASE Delivers(c, e)
      BY <1>2, <2>1, <2>2, DeliveredQueue DEF SendStep, QueueInv
    <2>3. CASE Expands(c, e)
      <3>1. PICK n : n = Len(seats[e.msg.room])
        OBVIOUS
      <3>2. PICK k \in 1..Len(outbox'[c]) : f = outbox'[c][k]
        BY <1>2 DEF Pending
      <3>3. 1 \in 1..Len(outbox[c]) /\ outbox[c][1] = e
        BY <2>1, <2>3, <3>1, ExpandedQueue DEF SendStep
      <3>4. e \in Pending(c) /\ e.does = "broadcast"
        BY <2>3, <3>3 DEF Pending, Expands
      <3>5. CASE k \in 1..n
        <4>1. f.msg = e.msg /\ f.does = "retained"
          BY <2>1, <2>3, <3>1, <3>2, <3>5, ExpandedQueue DEF SendStep
        <4>2. QED BY <1>2, <3>4, <4>1
      <3>6. CASE k \notin 1..n
        <4>1. \E l \in 1..Len(outbox[c]) : f = outbox[c][l]
          BY <2>1, <2>3, <3>1, <3>2, <3>6, ExpandedQueue DEF SendStep, Slides
        <4>2. QED BY <1>2, <4>1 DEF Pending
      <3>7. QED BY <3>5, <3>6
    <2>4. QED BY <2>1, <2>2, <2>3
  <1>3. QED BY <1>1, <1>2

\* Nothing is said in sending that its own thread has not had to say before.
LEMMA NothingNewSaid ==
  ASSUME RoomsInv, QueueInv, SpeakInv, NEW c \in Conns, SendStep(c), NEW d \in Conns,
         NEW msg, Said(d, msg)'
  PROVE  Said(d, msg) \/ \E e \in Pending(c) : e.msg = msg
  <1>1. CASE \E f \in Pending(d)' : f.msg = msg
    <2>1. PICK f \in Pending(d)' : f.msg = msg
      BY <1>1
    <2>2. f \in Pending(d) \/ \E e \in Pending(c) : f.msg = e.msg
      BY SentEntries
    <2>3. QED BY <2>1, <2>2 DEF Said
  <1>2. CASE msg \in Received(d)'
    <2>1. PICK k \in 1..Len(inbox'[d]) : inbox'[d][k] = msg
      BY <1>2 DEF Received
    <2>2. PICK e \in Entries : e = Head(outbox[c]) /\ (Delivers(c, e) \/ Expands(c, e))
      BY SendMoves
    <2>3. CASE inbox'[d] = inbox[d]
      BY <2>1, <2>3 DEF Received, Said
    <2>4. CASE Delivers(c, e) /\ inbox'[d] # inbox[d]
      <3>1. /\ inbox'[d] = Append(inbox[d], e.msg)
            /\ 1 \in 1..Len(outbox[c]) /\ outbox[c][1] = e
        BY <2>2, <2>4, DeliveredQueue DEF SendStep, QueueInv
      <3>2. e \in Pending(c)
        BY <3>1 DEF Pending
      <3>3. PICK p \in Seq(Messages) : p = inbox[d]
        BY DEF QueueInv, MessagesTypeOK
      <3>4. e.msg \in Messages
        BY KindsDiffer
      <3>5. k \in 1..Len(p) + 1 /\ Len(p) \in Nat /\ \A i \in 1..Len(p) : Append(p, e.msg)[i] = p[i]
        BY <2>1, <3>1, <3>3, <3>4, AppendProperties, LenProperties
      <3>6. Append(p, e.msg)[Len(p) + 1] = e.msg
        BY <3>3, <3>4, AppendProperties
      <3>7. CASE k \in 1..Len(p)
        BY <2>1, <3>1, <3>3, <3>5, <3>7 DEF Said, Received
      <3>8. CASE k = Len(p) + 1
        BY <2>1, <3>1, <3>2, <3>3, <3>6, <3>8
      <3>9. QED BY <3>5, <3>7, <3>8
    <2>5. QED BY <2>2, <2>3, <2>4 DEF Expands
  <1>3. QED BY <1>1, <1>2 DEF Said

LEMMA SendQueues ==
  ASSUME RoomsInv, QueueInv, SpeakInv, NEW c \in Conns, SendStep(c)
  PROVE  QueueInv'
  <1>1. PICK e \in Entries : e = Head(outbox[c]) /\ (Delivers(c, e) \/ Expands(c, e))
    BY SendMoves
  <1>2. seats' = seats /\ clientsMap' = clientsMap /\ rooms' = rooms /\ outbox[c] # <<>>
    BY DEF SendStep, vars
  <1>3. outbox' \in [Conns -> Seq(Entries)]
    <2>1. outbox'[c] \in Seq(Entries) /\ \A d \in Conns : d # c => outbox'[d] = outbox[d]
      <3>1. CASE Delivers(c, e)
        BY <1>1, <1>2, <3>1, DeliveredQueue DEF QueueInv
      <3>2. CASE Expands(c, e)
        <4>1. PICK n : n = Len(seats[e.msg.room])
          OBVIOUS
        <4>2. QED BY <1>1, <1>2, <3>2, <4>1, ExpandedQueue
      <3>3. QED BY <1>1, <3>1, <3>2
    <2>2. outbox' = [d \in Conns |-> outbox'[d]]
      BY <1>1 DEF Delivers, Expands, QueueInv, MessagesTypeOK
    <2>3. QED BY <2>1, <2>2 DEF QueueInv, MessagesTypeOK
  <1>4. inbox' \in [Conns -> Seq(Messages)]
    <2>1. e.msg \in Messages
      BY KindsDiffer
    <2>2. \A d \in Conns : inbox[d] \in Seq(Messages) /\ Append(inbox[d], e.msg) \in Seq(Messages)
      BY <2>1, AppendProperties DEF QueueInv, MessagesTypeOK
    <2>3. QED BY <1>1, <2>2 DEF Delivers, Expands, QueueInv, MessagesTypeOK
  <1>5. screen' \in [Conns -> {"room", "loading", "match"}]
    BY <1>1 DEF Delivers, Expands, QueueInv, MessagesTypeOK
  <1>6. MessagesTypeOK'
    BY <1>2, <1>3, <1>4, <1>5 DEF QueueInv, MessagesTypeOK
  <1>7. SeatsAreMembers' /\ SessionsApart'
    BY <1>2 DEF QueueInv, SeatsAreMembers, SessionsApart, Members
  <1>8. QED BY <1>6, <1>7 DEF QueueInv

LEMMA SendSpeaks ==
  ASSUME RoomsInv, QueueInv, SpeakInv, NEW c \in Conns, SendStep(c)
  PROVE  SpeakInv'
  <1>1. UNCHANGED <<clientId, rooms, ready, nextMatchId, ledger, task>>
    BY DEF SendStep, vars
  <1>2. WorksOnOwnMatch' /\ ReadyArePaid'
    BY <1>1 DEF SpeakInv, WorksOnOwnMatch, ReadyArePaid, Plays, Playing, Members
  <1>3. ASSUME NEW d \in Conns, NEW f \in Pending(d)'
        PROVE  /\ f.msg.is # "GAME_END" => Plays(d, f.msg.room, f.msg.match)'
               /\ f.msg.is = "GAME_END" => /\ clientId'[d] \in Members(f.msg.room)'
                                           /\ Len(outbox'[d]) = 1
               /\ f.does = "broadcast" => f.from = clientId'[d]
               /\ f.does = "tell" <=> f.msg.is \in {"GAME_START", "GAME_END"}
    <2>1. CASE f \in Pending(d)
      <3>1. CASE f.msg.is # "GAME_END"
        BY <1>1, <2>1, <3>1 DEF SpeakInv, SpeaksOfOwnMatch, Plays, Playing, Members
      <3>2. CASE f.msg.is = "GAME_END"
        <4>1. /\ clientId[d] \in Members(f.msg.room) /\ Len(outbox[d]) = 1
              /\ f.does = "tell"
          BY <2>1, <3>2 DEF SpeakInv, SpeaksOfOwnMatch
        <4>2. d # c
          <5>1. ASSUME d = c PROVE FALSE
            <6>1. PICK e \in Entries :
                     e = Head(outbox[c]) /\ (Delivers(c, e) \/ Expands(c, e))
              BY SendMoves
            <6>2. 1 \in 1..Len(outbox[c]) /\ outbox[c][1] = e
              <7>1. CASE Delivers(c, e)
                BY <6>1, <7>1, DeliveredQueue DEF QueueInv, SendStep
              <7>2. CASE Expands(c, e)
                <8>1. PICK n : n = Len(seats[e.msg.room])
                  OBVIOUS
                <8>2. QED BY <6>1, <7>2, <8>1, ExpandedQueue DEF SendStep
              <7>3. QED BY <6>1, <7>1, <7>2
            <6>3. f = e
              BY <2>1, <4>1, <5>1, <6>2 DEF Pending
            <6>4. Delivers(c, e)
              BY <4>1, <6>1, <6>3 DEF Expands
            <6>5. Len(outbox'[c]) = 0
              BY <4>1, <5>1, <6>1, <6>4, DeliveredQueue DEF QueueInv, SendStep
            <6>6. QED BY <5>1, <6>5 DEF Pending
          <5>2. QED BY <5>1
        <4>3. outbox'[d] = outbox[d]
          BY <4>2, SendMoves DEF Delivers, Expands, QueueInv, MessagesTypeOK
        <4>4. QED BY <1>1, <3>2, <4>1, <4>3 DEF Members
      <3>3. QED BY <3>1, <3>2
    <2>2. CASE /\ d = c /\ f.does = "retained"
               /\ \E e \in Pending(c) : e.does = "broadcast" /\ f.msg = e.msg
      <3>1. PICK e \in Pending(c) : e.does = "broadcast" /\ f.msg = e.msg
        BY <2>2
      <3>2. f.msg.is \notin {"GAME_START", "GAME_END"} /\ Plays(c, f.msg.room, f.msg.match)
        BY <3>1 DEF SpeakInv, SpeaksOfOwnMatch
      <3>3. Plays(c, f.msg.room, f.msg.match)'
        BY <1>1, <3>2 DEF Plays, Playing, Members
      <3>4. QED BY <2>2, <3>2, <3>3
    <2>3. QED BY <2>1, <2>2, SentEntries
  <1>4. SpeaksOfOwnMatch'
    BY <1>3 DEF SpeaksOfOwnMatch
  <1>5. ASSUME NEW d \in Conns, NEW msg \in Messages, Said(d, msg)'
        PROVE  IsTrue(msg)'
    <2>1. \E x \in Conns : Said(x, msg)
      BY <1>5, NothingNewSaid DEF Said
    <2>2. IsTrue(msg)
      BY <2>1 DEF SpeakInv, SaidIsTrue, IsTrue
    <2>3. QED BY <1>1, <2>2 DEF IsTrue, Playing
  <1>6. SaidIsTrue'
    BY <1>5 DEF SaidIsTrue, IsTrue
  <1>7. QED BY <1>2, <1>4, <1>6 DEF SpeakInv

\* GET_MAP turns a page and tells nobody anything.
LEMMA GetMapKeeps ==
  ASSUME QueueInv, SpeakInv, NEW c \in Conns, GetMap(c)
  PROVE  QueueInv' /\ SpeakInv'
  <1>1. UNCHANGED <<vars, seats, outbox, inbox>>
    BY DEF GetMap
  <1>2. screen' \in [Conns -> {"room", "loading", "match"}]
    BY DEF GetMap, QueueInv, MessagesTypeOK
  <1>3. QueueInv'
    BY <1>1, <1>2 DEF QueueInv, MessagesTypeOK, SeatsAreMembers, SessionsApart, Members, vars
  <1>4. SpeaksOfOwnMatch' /\ WorksOnOwnMatch' /\ ReadyArePaid'
    BY <1>1 DEF SpeakInv, SpeaksOfOwnMatch, WorksOnOwnMatch, ReadyArePaid, Plays, Playing,
                Members, Pending, vars
  <1>5. SaidIsTrue'
    BY <1>1 DEF SpeakInv, SaidIsTrue, Said, Received, Pending, Playing, vars
  <1>6. QED BY <1>3, <1>4, <1>5 DEF SpeakInv

-----------------------------------------------------------------------------
(* The invariant, and who is told what how often *)

CoreInv == RoomsInv /\ QueueInv /\ SpeakInv

OnceInv == ToldOnce /\ SaidByOne /\ EntriesApart /\ NotSaidAgain

LEMMA StartsTrue ==
  ASSUME MessagesInit
  PROVE  CoreInv /\ OnceInv
  <1>1. \A r \in RoomNames : /\ rooms[r] \in Room /\ ~rooms[r].inGame
                             /\ rooms[r].users \in SUBSET Users
    <2>1. ASSUME NEW us \in SUBSET Users, NEW R, R = [NoRoom EXCEPT !.users = us]
          PROVE  R \in Room /\ ~R.inGame /\ R.users \in SUBSET Users
      BY <2>1, NoRoomType DEF NoRoom, Room
    <2>2. ASSUME NEW r \in RoomNames
          PROVE  \E us \in SUBSET Users : rooms[r] = [NoRoom EXCEPT !.users = us]
      <3> DEFINE New(us) == [NoRoom EXCEPT !.users = us]
      <3>1. rooms \in [RoomNames -> {New(us) : us \in SUBSET Users}]
        BY DEF MessagesInit
      <3> HIDE DEF New
      <3>2. \E us \in SUBSET Users : rooms[r] = New(us)
        BY <3>1
      <3>3. QED BY <3>2 DEF New
    <2>3. QED BY <2>1, <2>2
  <1>2. Idle \in Task /\ Idle.op = "idle" /\ "idle" \notin Paying
    BY Ops DEF Task
  <1>3. TypeOK
    BY <1>1, <1>2 DEF MessagesInit, TypeOK
  <1>4. RewardCore
    BY <1>1, <1>2 DEF MessagesInit, RewardCore, OneRewardPerMatch, MatchIdsIssued,
                      ClaimsAreResolved, PaidAreResolved, Claims
  <1>5. SessionsAgree
    BY <1>2, <1>3 DEF MessagesInit, SessionsAgree, TypeOK
  <1>6. Roster /\ Clean
    BY <1>1 DEF MessagesInit, Roster, Clean, NoLeftovers
  <1>7. \A c \in Conns : /\ outbox[c] = <<>> /\ inbox[c] = <<>>
                         /\ Pending(c) = {} /\ Received(c) = {}
    BY DEF MessagesInit, Pending, Received
  <1>8. MessagesTypeOK
    BY EmptySeq DEF MessagesInit, MessagesTypeOK
  <1>9. SeatsAreMembers
    BY DEF MessagesInit, SeatsAreMembers
  <1>10. SessionsApart
    <2>1. ASSUME NEW u \in Users, NEW v \in Users, clientsMap[u] = clientsMap[v],
                 clientsMap[u] # NoConn
          PROVE  u = v
      <3>1. clientsMap[u] \in Conns
        BY <2>1 DEF MessagesInit
      <3>2. clientId[clientsMap[u]] = u /\ clientId[clientsMap[u]] = v
        BY <2>1, <3>1 DEF MessagesInit
      <3>3. QED BY <3>2
    <2>2. QED BY <2>1 DEF SessionsApart
  <1>11. SpeakInv
    BY <1>1, <1>2, <1>7 DEF SpeakInv, SpeaksOfOwnMatch, WorksOnOwnMatch, ReadyArePaid,
                            SaidIsTrue, Said, MessagesInit
  <1>12. OnceInv
    BY <1>7 DEF OnceInv, ToldOnce, After, SaidByOne, EntriesApart, NotSaidAgain
  <1>13. QED
    BY <1>3, <1>4, <1>5, <1>6, <1>8, <1>9, <1>10, <1>11, <1>12
       DEF CoreInv, RoomsInv, QueueInv

\* What a step of the composed system is.
Asks(c) ==
  /\ outbox[c] = <<>>
  /\ Request(c) \/ Rest(c)
  /\ UNCHANGED <<inbox, up>>

LEMMA StepKinds ==
  ASSUME MessagesNext
  PROVE  \E c \in Conns : Asks(c) \/ GetMap(c) \/ SendStep(c)
  BY DEF MessagesNext, Act, Asks, SendStep

LEMMA CoreStep ==
  ASSUME CoreInv, MessagesNext
  PROVE  CoreInv'
  <1>1. PICK c \in Conns : Asks(c) \/ GetMap(c) \/ SendStep(c)
    BY StepKinds
  <1>2. CASE Asks(c)
    <2>1. RoomsInv'
      BY <1>2, ActIsRoomMove, RoomsStep DEF Asks, CoreInv, RoomsInv
    <2>2. QueueInv' /\ SpeakInv'
      BY <1>2, RequestQueues, RequestWorks, RequestPaid, RequestSpeaks
         DEF Asks, CoreInv, SpeakInv
    <2>3. QED BY <2>1, <2>2 DEF CoreInv
  <1>3. CASE GetMap(c)
    BY <1>3, RoomsUnchanged, GetMapKeeps DEF CoreInv, GetMap
  <1>4. CASE SendStep(c)
    BY <1>4, RoomsUnchanged, SendQueues, SendSpeaks DEF CoreInv, SendStep
  <1>5. QED BY <1>1, <1>2, <1>3, <1>4

LEMMA CoreStutter ==
  ASSUME CoreInv, UNCHANGED <<vars, messageVars>>
  PROVE  CoreInv'
  <1>1. RoomsInv'
    BY RoomsUnchanged DEF CoreInv
  <1>2. QueueInv'
    BY DEF CoreInv, QueueInv, MessagesTypeOK, SeatsAreMembers, SessionsApart, Members, vars,
           messageVars
  <1>3. SpeaksOfOwnMatch' /\ WorksOnOwnMatch' /\ ReadyArePaid'
    BY DEF CoreInv, SpeakInv, SpeaksOfOwnMatch, WorksOnOwnMatch, ReadyArePaid, Plays,
           Playing, Members, Pending, vars, messageVars
  <1>4. SaidIsTrue'
    BY DEF CoreInv, SpeakInv, SaidIsTrue, Said, Received, Pending, Playing, vars,
           messageVars
  <1>5. QED BY <1>1, <1>2, <1>3, <1>4 DEF CoreInv, SpeakInv

\* A message that is told once, about the entries that are pending afterwards:
\* old ones reach no more than before, and the new ones say something new.
LEMMA AskedOnce ==
  ASSUME CoreInv, OnceInv, NEW c \in Conns, Asks(c)
  PROVE  OnceInv'
  <1>1. PlanHolds(c) /\ Pending(c) = {}
    BY NewPlan DEF Asks, CoreInv, Pending
  <1>2. \A d \in Conns : d # c => outbox'[d] = outbox[d] /\ Pending(d)' = Pending(d)
    BY OthersKeep DEF Asks, CoreInv, QueueInv, Pending
  <1>3. \A u \in Users : clientsMap'[u] \in {clientsMap[u], NoConn}
    BY SessionsEnd DEF Asks, CoreInv
  <1>4. ASSUME NEW e \in Entries, NEW d \in Conns, Reaches(e, d)' PROVE Reaches(e, d)
    <2>1. e.does = "tell" => e.users \in SUBSET Users
      BY KindsDiffer
    <2>2. QED BY <1>3, <1>4, <2>1 DEF Reaches
  <1>5. \A d \in Conns : inbox'[d] = inbox[d] /\ Received(d)' = Received(d)
    BY DEF Asks, Received
  <1>6. \A e \in Pending(c)' : e.msg.is # "PLAYER_DEAD" =>
           \A d \in Conns : e.msg \notin Received(d) /\ \A f \in Pending(d) : f.msg # e.msg
    BY <1>1 DEF PlanHolds, Said
  <1>7. ToldOnce'
    BY <1>5 DEF OnceInv, ToldOnce, After
  <1>8. SaidByOne'
    BY <1>2, <1>6 DEF OnceInv, SaidByOne
  <1>9. ASSUME NEW d \in Conns, NEW x \in Conns, NEW k \in 1..Len(outbox'[d]),
               NEW l \in 1..Len(outbox'[d]), k # l,
               outbox'[d][k].msg = outbox'[d][l].msg,
               outbox'[d][k].msg.is # "PLAYER_DEAD",
               Reaches(outbox[d][k], x)', Reaches(outbox[d][l], x)'
        PROVE  FALSE
    <2>1. CASE d = c
      BY <1>1, <1>9, <2>1 DEF PlanHolds
    <2>2. CASE d # c
      <3>1. /\ outbox'[d] = outbox[d] /\ outbox[d][k] \in Entries
            /\ outbox[d][l] \in Entries
        BY <1>2, <1>9, <2>2, ElementOfSeq DEF CoreInv, QueueInv, MessagesTypeOK
      <3>2. PICK e \in Entries : e = outbox[d][k]
        BY <3>1
      <3>3. PICK f \in Entries : f = outbox[d][l]
        BY <3>1
      <3>4. Reaches(e, x)' /\ Reaches(f, x)'
        BY <1>9, <3>1, <3>2, <3>3 DEF Reaches
      <3>5. Reaches(e, x) /\ Reaches(f, x)
        BY <1>4, <3>4
      <3>6. QED BY <1>9, <3>1, <3>2, <3>3, <3>5 DEF OnceInv, EntriesApart
    <2>3. QED BY <2>1, <2>2
  <1>10. EntriesApart'
    BY <1>9 DEF EntriesApart
  <1>11. ASSUME NEW d \in Conns, NEW x \in Conns, NEW e \in Pending(d)',
                e.msg \in Received(x), e.msg.is # "PLAYER_DEAD", Reaches(e, x)'
         PROVE  FALSE
    <2>1. d # c
      BY <1>6, <1>11
    <2>2. e \in Pending(d) /\ e \in Entries
      BY <1>2, <1>11, <2>1, PendingType DEF CoreInv, QueueInv
    <2>3. Reaches(e, x)
      BY <1>4, <1>11, <2>2
    <2>4. QED BY <1>11, <2>2, <2>3 DEF OnceInv, NotSaidAgain
  <1>12. NotSaidAgain'
    BY <1>5, <1>11 DEF NotSaidAgain
  <1>13. QED BY <1>7, <1>8, <1>10, <1>12 DEF OnceInv

\* Delivering an entry tells everybody it reaches something new.
LEMMA DeliveredOnce ==
  ASSUME CoreInv, OnceInv, NEW c \in Conns, SendStep(c), NEW e \in Entries,
         e = Head(outbox[c]), Delivers(c, e)
  PROVE  OnceInv'
  <1>0. outbox[c] # <<>> /\ clientsMap' = clientsMap /\ MessagesTypeOK
    BY DEF SendStep, vars, CoreInv, QueueInv
  <1>1. /\ \A d \in Conns : d # c => outbox'[d] = outbox[d] /\ Pending(d)' = Pending(d)
        /\ Len(outbox[c]) \in Nat \ {0} /\ 1 \in 1..Len(outbox[c]) /\ outbox[c][1] = e
        /\ \A k \in 1..Len(outbox'[c]) : /\ k + 1 \in 1..Len(outbox[c]) /\ k + 1 # 1
                                         /\ outbox'[c][k] = outbox[c][k + 1]
        /\ Pending(c)' \subseteq Pending(c)
    BY <1>0, DeliveredQueue DEF Pending
  <1>2. \A d \in Conns : /\ ~Reaches(e, d) => inbox'[d] = inbox[d]
                         /\ Reaches(e, d) => inbox'[d] = Append(inbox[d], e.msg)
    BY <1>0, DeliveredQueue
  <1>3. e \in Pending(c) /\ e.msg \in Messages
    BY <1>1, KindsDiffer DEF Pending
  <1>4. \A d \in Conns : Pending(d)' \subseteq Pending(d)
    BY <1>1
  <1>5. \A f, d : Reaches(f, d)' => Reaches(f, d)
    BY <1>0 DEF Reaches
  <1>6. ASSUME NEW d \in Conns, Reaches(e, d)
        PROVE  /\ Len(inbox[d]) \in Nat /\ Len(inbox'[d]) = Len(inbox[d]) + 1
               /\ \A i \in 1..Len(inbox[d]) : inbox'[d][i] = inbox[d][i]
               /\ inbox'[d][Len(inbox[d]) + 1] = e.msg
               /\ Received(d)' = Received(d) \union {e.msg}
    <2>1. PICK p \in Seq(Messages) : p = inbox[d]
      BY <1>0 DEF MessagesTypeOK
    <2>2. /\ Len(p) \in Nat /\ Len(Append(p, e.msg)) = Len(p) + 1
          /\ \A i \in 1..Len(p) : Append(p, e.msg)[i] = p[i]
          /\ Append(p, e.msg)[Len(p) + 1] = e.msg
      BY <1>3, AppendProperties, LenProperties
    <2>3. inbox'[d] = Append(p, e.msg)
      BY <1>2, <1>6, <2>1
    <2>4. 1..Len(p) + 1 = 1..Len(p) \union {Len(p) + 1}
      BY <2>2
    <2>5. QED BY <2>1, <2>2, <2>3, <2>4 DEF Received
  <1>7. ASSUME NEW d \in Conns, NEW i \in 1..Len(inbox'[d]), NEW j \in 1..Len(inbox'[d]),
               After(d, i, j)', inbox'[d][i].is # "PLAYER_DEAD", inbox'[d][i] = inbox'[d][j]
        PROVE  FALSE
    <2>1. CASE ~Reaches(e, d)
      BY <1>2, <1>7, <2>1 DEF OnceInv, ToldOnce, After
    <2>2. CASE Reaches(e, d)
      <3>1. i + 1 <= j /\ i \in 1..Len(inbox[d]) /\ inbox'[d][i] = inbox[d][i]
        BY <1>6, <1>7, <2>2 DEF After
      <3>2. inbox[d][i] \in Received(d)
        BY <3>1 DEF Received
      <3>3. CASE j \in 1..Len(inbox[d])
        <4>1. inbox'[d][j] = inbox[d][j] /\ Len(inbox[d]) \in Nat
          BY <1>6, <2>2, <3>3
        <4>2. After(d, i, j)
          BY <3>1, <3>3, <4>1 DEF After
        <4>3. QED BY <1>7, <3>1, <3>3, <4>1, <4>2 DEF OnceInv, ToldOnce
      <3>4. CASE j \notin 1..Len(inbox[d])
        <4>1. j = Len(inbox[d]) + 1
          BY <1>6, <1>7, <2>2, <3>4
        <4>2. inbox[d][i] = e.msg
          BY <1>6, <1>7, <2>2, <3>1, <4>1
        <4>3. e.msg \in Received(d) /\ e.msg.is # "PLAYER_DEAD"
          BY <1>7, <3>1, <3>2, <4>2
        <4>4. QED BY <1>3, <2>2, <4>3 DEF OnceInv, NotSaidAgain
      <3>5. QED BY <3>3, <3>4
    <2>3. QED BY <2>1, <2>2
  <1>8. ToldOnce'
    BY <1>7 DEF ToldOnce
  <1>9. SaidByOne'
    BY <1>4 DEF OnceInv, SaidByOne
  <1>10. ASSUME NEW d \in Conns, NEW x \in Conns, NEW k \in 1..Len(outbox'[d]),
                NEW l \in 1..Len(outbox'[d]), k # l,
                outbox'[d][k].msg = outbox'[d][l].msg,
                outbox'[d][k].msg.is # "PLAYER_DEAD",
                Reaches(outbox[d][k], x)', Reaches(outbox[d][l], x)'
         PROVE  FALSE
    <2>1. PICK g : g = outbox'[d][k]
      OBVIOUS
    <2>2. PICK h : h = outbox'[d][l]
      OBVIOUS
    <2>3. Reaches(g, x) /\ Reaches(h, x)
      BY <1>0, <1>10, <2>1, <2>2 DEF Reaches
    <2>4. CASE d # c
      BY <1>1, <1>10, <2>1, <2>2, <2>3, <2>4 DEF OnceInv, EntriesApart
    <2>5. CASE d = c
      <3>1. /\ k + 1 \in 1..Len(outbox[d]) /\ l + 1 \in 1..Len(outbox[d]) /\ k + 1 # l + 1
            /\ g = outbox[d][k + 1] /\ h = outbox[d][l + 1]
        BY <1>1, <1>10, <2>1, <2>2, <2>5
      <3>2. QED BY <1>10, <2>1, <2>2, <2>3, <3>1 DEF OnceInv, EntriesApart
    <2>6. QED BY <2>4, <2>5
  <1>11. EntriesApart'
    BY <1>10 DEF EntriesApart
  <1>12. ASSUME NEW d \in Conns, NEW x \in Conns, NEW f \in Pending(d)',
                f.msg \in Received(x)', f.msg.is # "PLAYER_DEAD", Reaches(f, x)'
         PROVE  FALSE
    <2>1. f \in Pending(d) /\ Reaches(f, x)
      BY <1>4, <1>5, <1>12
    <2>2. CASE f.msg \in Received(x)
      BY <1>12, <2>1, <2>2 DEF OnceInv, NotSaidAgain
    <2>3. CASE f.msg \notin Received(x)
      <3>1. Reaches(e, x) /\ f.msg = e.msg
        BY <1>2, <1>6, <1>12, <2>3 DEF Received
      <3>2. d = c
        BY <1>3, <1>12, <2>1, <3>1 DEF OnceInv, SaidByOne
      <3>3. PICK k \in 1..Len(outbox'[c]) : f = outbox'[c][k]
        BY <1>12, <3>2 DEF Pending
      <3>4. k + 1 \in 1..Len(outbox[c]) /\ k + 1 # 1 /\ f = outbox[c][k + 1]
        BY <1>1, <3>3
      <3>5. QED BY <1>1, <1>12, <2>1, <3>1, <3>4 DEF OnceInv, EntriesApart
    <2>4. QED BY <2>2, <2>3
  <1>13. NotSaidAgain'
    BY <1>12 DEF NotSaidAgain
  <1>14. QED BY <1>8, <1>9, <1>11, <1>13 DEF OnceInv

\* The entries that replace a broadcast go to the members' sessions, one each.
LEMMA ExpandedOnce ==
  ASSUME CoreInv, OnceInv, NEW c \in Conns, SendStep(c), NEW e \in Entries,
         e = Head(outbox[c]), Expands(c, e)
  PROVE  OnceInv'
  <1>0. /\ outbox[c] # <<>> /\ clientsMap' = clientsMap /\ inbox' = inbox
        /\ RoomsInv /\ QueueInv /\ SpeakInv
    BY DEF SendStep, vars, CoreInv, Expands
  <1>1. PICK r \in RoomNames : r = e.msg.room
    BY KindsDiffer, MessageParts
  <1>2. PICK q \in Seq(Users) : q = seats[r]
    BY <1>0 DEF QueueInv, MessagesTypeOK
  <1>3. PICK n : n = Len(seats[e.msg.room])
    OBVIOUS
  <1>4. /\ \A d \in Conns : d # c => outbox'[d] = outbox[d] /\ Pending(d)' = Pending(d)
        /\ n \in Nat
        /\ Len(outbox[c]) \in Nat \ {0} /\ 1 \in 1..Len(outbox[c]) /\ outbox[c][1] = e
    BY <1>0, <1>3, ExpandedQueue DEF Pending
  <1>5. \A k \in 1..n : /\ outbox'[c][k].msg = e.msg /\ outbox'[c][k].does = "retained"
                        /\ outbox'[c][k].to = clientsMap[q[k]]
    BY <1>0, <1>1, <1>2, <1>3, ExpandedQueue
  <1>6. \A k \in 1..Len(outbox'[c]) : k \notin 1..n =>
               \E l \in 1..Len(outbox[c]) :
                  l # 1 /\ k + 1 = n + l /\ outbox'[c][k] = outbox[c][l]
    <2>1. Slides(c, n)
      BY <1>0, <1>3, ExpandedQueue
    <2>2. QED BY <2>1 DEF Slides
  <1>7. e \in Pending(c) /\ e.does = "broadcast" /\ \A d : Reaches(e, d)
    BY <1>4 DEF Pending, Expands, Reaches
  <1>8. \A d \in Conns : \A f \in Pending(d)' :
           f \in Pending(d) \/ (d = c /\ f.msg = e.msg)
    <2>1. ASSUME NEW k \in 1..Len(outbox'[c]) 
          PROVE  outbox'[c][k] \in Pending(c) \/ outbox'[c][k].msg = e.msg
      BY <1>5, <1>6 DEF Pending
    <2>2. QED BY <1>4, <2>1 DEF Pending
  <1>9. \A k, l \in 1..n : clientsMap[q[k]] = clientsMap[q[l]] => k = l
    <2>1. Len(q) = n /\ ToSet(q) = Members(r) /\ IsInjective(q) /\ DOMAIN q = 1..n
      BY <1>0, <1>1, <1>2, <1>3, LenProperties DEF QueueInv, SeatsAreMembers
    <2>2. \A k \in 1..n : q[k] \in Members(r)
      BY <2>1 DEF ToSet
    <2>3. \A k \in 1..n : q[k] \in Users /\ clientsMap[q[k]] # NoConn
      BY <1>0, <2>2, MemberSession
    <2>4. \A k, l \in 1..n : clientsMap[q[k]] = clientsMap[q[l]] => q[k] = q[l]
      BY <1>0, <2>3 DEF QueueInv, SessionsApart
    <2>5. QED BY <2>1, <2>4 DEF IsInjective
  <1>10. \A d \in Conns : Received(d)' = Received(d)
    BY <1>0 DEF Received
  <1>11. ToldOnce'
    BY <1>0 DEF OnceInv, ToldOnce, After
  <1>12. SaidByOne'
    BY <1>7, <1>8 DEF OnceInv, SaidByOne
  <1>13. ASSUME NEW x \in Conns, NEW k \in 1..Len(outbox'[c]), k \notin 1..n,
                Reaches(outbox[c][k], x)'
         PROVE  \E l \in 1..Len(outbox[c]) : /\ l # 1 /\ k + 1 = n + l
                                             /\ outbox'[c][k] = outbox[c][l]
                                             /\ Reaches(outbox[c][l], x)
    BY <1>0, <1>6, <1>13 DEF Reaches
  <1>14. ASSUME NEW x \in Conns, NEW k \in 1..Len(outbox'[c]), k \in 1..n,
                Reaches(outbox[c][k], x)'
         PROVE  clientsMap[q[k]] = x
    BY <1>5, <1>14 DEF Reaches
  <1>15. ASSUME NEW x \in Conns, NEW k \in 1..Len(outbox'[c]), k \in 1..n,
                NEW l \in 1..Len(outbox'[c]), l \notin 1..n,
                outbox'[c][k].msg = outbox'[c][l].msg,
                outbox'[c][k].msg.is # "PLAYER_DEAD",
                Reaches(outbox[c][l], x)'
         PROVE  FALSE
    <2>1. PICK i \in 1..Len(outbox[c]) : /\ i # 1 /\ outbox'[c][l] = outbox[c][i]
                                         /\ Reaches(outbox[c][i], x)
      BY <1>13, <1>15
    <2>2. outbox[c][1].msg = outbox[c][i].msg /\ outbox[c][1].msg.is # "PLAYER_DEAD"
      BY <1>4, <1>5, <1>15, <2>1
    <2>3. QED BY <1>4, <1>7, <2>1, <2>2 DEF OnceInv, EntriesApart
  <1>16. ASSUME NEW d \in Conns, NEW x \in Conns, NEW k \in 1..Len(outbox'[d]),
                NEW l \in 1..Len(outbox'[d]), k # l,
                outbox'[d][k].msg = outbox'[d][l].msg,
                outbox'[d][k].msg.is # "PLAYER_DEAD",
                Reaches(outbox[d][k], x)', Reaches(outbox[d][l], x)'
         PROVE  FALSE
    <2>1. CASE d # c
      <3>1. outbox'[d] = outbox[d]
        BY <1>4, <2>1
      <3>2. Reaches(outbox[d][k], x) /\ Reaches(outbox[d][l], x)
        BY <1>0, <1>16, <3>1 DEF Reaches
      <3>3. QED BY <1>16, <3>1, <3>2 DEF OnceInv, EntriesApart
    <2>2. CASE d = c
      <3>1. CASE k \in 1..n /\ l \in 1..n
        BY <1>9, <1>14, <1>16, <2>2, <3>1
      <3>2. CASE k \in 1..n /\ l \notin 1..n
        BY <1>15, <1>16, <2>2, <3>2
      <3>3. CASE k \notin 1..n /\ l \in 1..n
        BY <1>15, <1>16, <2>2, <3>3
      <3>4. CASE k \notin 1..n /\ l \notin 1..n
        <4>1. PICK i \in 1..Len(outbox[c]) : /\ k + 1 = n + i
                                             /\ outbox'[c][k] = outbox[c][i]
                                             /\ Reaches(outbox[c][i], x)
          BY <1>13, <1>16, <2>2, <3>4
        <4>2. PICK j \in 1..Len(outbox[c]) : /\ l + 1 = n + j
                                             /\ outbox'[c][l] = outbox[c][j]
                                             /\ Reaches(outbox[c][j], x)
          BY <1>13, <1>16, <2>2, <3>4
        <4>3. i # j
          BY <1>4, <1>16, <4>1, <4>2
        <4>4. QED BY <1>16, <2>2, <4>1, <4>2, <4>3 DEF OnceInv, EntriesApart
      <3>5. QED BY <3>1, <3>2, <3>3, <3>4
    <2>3. QED BY <2>1, <2>2
  <1>17. EntriesApart'
    BY <1>16 DEF EntriesApart
  <1>18. ASSUME NEW d \in Conns, NEW x \in Conns, NEW f \in Pending(d)',
                f.msg \in Received(x), f.msg.is # "PLAYER_DEAD", Reaches(f, x)'
         PROVE  FALSE
    <2>1. Reaches(f, x)
      BY <1>0, <1>18 DEF Reaches
    <2>2. CASE f \in Pending(d)
      BY <1>18, <2>1, <2>2 DEF OnceInv, NotSaidAgain
    <2>3. CASE f.msg = e.msg
      BY <1>7, <1>18, <2>3 DEF OnceInv, NotSaidAgain
    <2>4. QED BY <1>8, <2>2, <2>3
  <1>19. NotSaidAgain'
    BY <1>10, <1>18 DEF NotSaidAgain
  <1>20. QED BY <1>11, <1>12, <1>17, <1>19 DEF OnceInv

LEMMA OnceStep ==
  ASSUME CoreInv, OnceInv, MessagesNext
  PROVE  OnceInv'
  <1>1. PICK c \in Conns : Asks(c) \/ GetMap(c) \/ SendStep(c)
    BY StepKinds
  <1>2. CASE Asks(c)
    BY <1>2, AskedOnce
  <1>3. CASE GetMap(c)
    BY <1>3 DEF GetMap, vars, OnceInv, ToldOnce, After, SaidByOne, EntriesApart,
                NotSaidAgain, Pending, Received, Reaches
  <1>4. CASE SendStep(c)
    BY <1>4, SendMoves, DeliveredOnce, ExpandedOnce DEF CoreInv
  <1>5. QED BY <1>1, <1>2, <1>3, <1>4

\* What holds of who is told what: the rooms are as RoomManagerProofs shows, a
\* thread speaks of the match its own user is in, and what it says has happened.
THEOREM MessagesInvariant == MessagesSpec => [](CoreInv /\ OnceInv)
  <1>1. MessagesInit => CoreInv /\ OnceInv
    BY StartsTrue
  <1>2. CoreInv /\ OnceInv /\ [MessagesNext]_<<vars, messageVars>> => (CoreInv /\ OnceInv)'
    <2>1. SUFFICES ASSUME CoreInv, OnceInv, [MessagesNext]_<<vars, messageVars>>
                   PROVE  CoreInv' /\ OnceInv'
      OBVIOUS
    <2>2. CASE MessagesNext
      BY <2>1, <2>2, CoreStep, OnceStep
    <2>3. CASE UNCHANGED <<vars, messageVars>>
      <3>1. OnceInv'
        BY <2>1, <2>3 DEF vars, messageVars, OnceInv, ToldOnce, After, SaidByOne,
                          EntriesApart, NotSaidAgain, Pending, Received, Reaches
      <3>2. QED BY <2>1, <2>3, <3>1, CoreStutter
    <2>4. QED BY <2>1, <2>2, <2>3
  <1>3. QED BY <1>1, <1>2, PTL DEF MessagesSpec

\* A player is told of the start, the result, the reward and the end of a match
\* at most once each (StartGame, Dead and ReadyToExit with the broadcasts of
\* ClientHandler.cpp), whoever leaves and whoever repeats a request meanwhile.
THEOREM PlayersAreToldOnce == MessagesSpec => []ToldOnce
  <1>1. CoreInv /\ OnceInv => ToldOnce
    BY DEF OnceInv
  <1>2. QED BY <1>1, MessagesInvariant, PTL

-----------------------------------------------------------------------------
(* Whoever is in a paid match hears of his reward *)

\* A member of a room after a handler has had his session all along.
LEMMA MemberKeepsSession ==
  ASSUME CoreInv, NEW c \in Conns, Asks(c), NEW r \in RoomNames, NEW u \in Members(r)'
  PROVE  u \in Users /\ clientsMap'[u] = clientsMap[u] /\ clientsMap[u] \in Conns
  <1>1. RoomsInv'
    BY ActIsRoomMove, RoomsStep DEF Asks, CoreInv, RoomsInv
  <1>2. PICK v : v = u
    OBVIOUS
  <1>3. v \in rooms'[r].users
    BY <1>2 DEF Members
  <1>4. v \in Users
    BY <1>1, <1>3 DEF RoomsInv, TypeOK, Room
  <1>5. \E d \in Conns : clientsMap'[v] = d
    BY <1>1, <1>3 DEF RoomsInv, Roster, MembersHaveSessions, Members
  <1>6. clientsMap'[v] \in {clientsMap[v], NoConn}
    BY <1>4, SessionsEnd DEF Asks, CoreInv
  <1>7. QED BY <1>2, <1>4, <1>5, <1>6

\* The reward of u for match m is still to come.
Promised(u, m) ==
  \E c \in Conns : \E e \in Pending(c) :
     /\ e.msg.is = "REWARD_RESULT" /\ e.msg.match = m
     /\ Reaches(e, clientsMap[u])

\* A match that is paid in a step is announced to the room it is played in.
LEMMA PaidIsAnnounced ==
  ASSUME CoreInv, NEW c \in Conns, Asks(c), NEW m \in Matches, NEW u,
         ~(ledger[m].times > 0), ledger'[m].times > 0
  PROVE  Promised(u, m)'
  <1>1. CASE ~Announce(c)
    <2>1. ledger' = ledger
      <3>1. ASSUME NEW r \in RoomNames, \/ Enter(c, r) \/ StartGame(c, r)
                                        \/ Dead(c, r) \/ ReadyToExit(c, r)
            PROVE  ledger' = ledger
        BY <3>1 DEF Enter, EnterRoom, CreateRoom, StartGame, LookUpRoom, Dead, RecordDeath,
                    MayDie, ReadyToExit, HandleReadyToExit
      <3>2. ASSUME Quit(c) PROVE ledger' = ledger
        BY <3>2 DEF Quit, ExitRoom, ForceExit
      <3>3. ASSUME \/ NameWinner(c) \/ RetryDeath(c) \/ ClearId(c) \/ EraseSession(c)
                   \/ Started(c)
            PROVE  ledger' = ledger
        BY <3>3 DEF NameWinner, RetryDeath, ClearId, EraseSession, Started, TryStartGame
      <3>4. QED BY <1>1, <3>1, <3>2, <3>3 DEF Asks, Request, Rest
    <2>2. QED BY <2>1
  <1>2. CASE Announce(c)
    <2> PICK p : p = task[c].room.matchId
      OBVIOUS
    <2> PICK w : w = Winners(task[c])
      OBVIOUS
    <2>1. ledger' = [ledger EXCEPT ![p] = [times |-> ledger[p].times + 1, winners |-> w]]
      BY <1>2 DEF Announce, PayRewards
    <2>2. p = m /\ ledger' # ledger
      BY <2>1 DEF CoreInv, RoomsInv, TypeOK
    <2>3. task[c] \in Task /\ task[c].op = "pay"
      BY <1>2 DEF Announce, PayRewards, CoreInv, RoomsInv, TypeOK
    <2>4. task[c].name \in RoomNames /\ task[c].died \in Users
      BY <2>3, TaskFields DEF Paying
    <2> PICK r \in RoomNames : r = task[c].name
      BY <2>4
    <2> PICK v \in Users : v = task[c].died
      BY <2>4
    <2> PICK paid : paid = Message("REWARD_RESULT", r, m)
      OBVIOUS
    <2> PICK e : e = Broadcast(v, paid)
      OBVIOUS
    <2> PICK x : x = Broadcast(v, Message("WIN", r, m))
      OBVIOUS
    <2>5. outbox'[c] = <<x, e>>
      BY <1>2, <2>2, PlanSent DEF Announce, ResultRoom, CoreInv, QueueInv
    <2>6. paid \in Messages /\ paid.is = "REWARD_RESULT" /\ paid.match = m
      BY NewMessages DEF Kinds
    <2>7. e.msg = paid /\ e.does = "broadcast"
      BY <2>6, NewEntries
    <2>8. e \in Pending(c)'
      <3>1. 2 \in 1..Len(outbox'[c]) /\ outbox'[c][2] = e
        BY <2>5
      <3>2. QED BY <3>1 DEF Pending
    <2>9. QED BY <2>6, <2>7, <2>8 DEF Promised, Reaches
  <1>3. QED BY <1>1, <1>2

\* The promise of a reward survives the handlers of others ...
LEMMA AskedKeepsPromise ==
  ASSUME CoreInv, NEW c \in Conns, Asks(c), NEW r \in RoomNames, NEW u \in Members(r)',
         NEW m, Heard(clientsMap[u], "REWARD_RESULT", m) \/ Promised(u, m)
  PROVE  Heard(clientsMap[u], "REWARD_RESULT", m)' \/ Promised(u, m)'
  <1>1. PICK d \in Conns : d = clientsMap[u] /\ d = clientsMap'[u]
    BY MemberKeepsSession
  <1>2. CASE Heard(d, "REWARD_RESULT", m)
    BY <1>1, <1>2 DEF Heard, Asks
  <1>3. CASE Promised(u, m)
    <2>1. PICK x \in Conns : \E e \in Pending(x) :
             e.msg.is = "REWARD_RESULT" /\ e.msg.match = m /\ Reaches(e, d)
      BY <1>1, <1>3 DEF Promised
    <2>2. PICK e \in Pending(x) :
             e.msg.is = "REWARD_RESULT" /\ e.msg.match = m /\ Reaches(e, d)
      BY <2>1
    <2>3. x # c
      BY <2>2 DEF Asks, Pending
    <2>4. e \in Pending(x)'
      BY <2>2, <2>3, OthersKeep DEF Asks, CoreInv, QueueInv, Pending
    <2>5. e.does # "tell"
      BY <2>2 DEF CoreInv, SpeakInv, SpeaksOfOwnMatch
    <2>6. Reaches(e, d)'
      BY <2>2, <2>5 DEF Reaches
    <2>7. QED BY <1>1, <2>2, <2>4, <2>6 DEF Promised
  <1>4. QED BY <1>1, <1>2, <1>3

\* ... and sending keeps it or fulfils it.
LEMMA SentKeepsPromise ==
  ASSUME CoreInv, NEW c \in Conns, SendStep(c), NEW r \in RoomNames, NEW u \in Members(r),
         NEW m, Playing(r, m),
         Heard(clientsMap[u], "REWARD_RESULT", m) \/ Promised(u, m)
  PROVE  Heard(clientsMap[u], "REWARD_RESULT", m)' \/ Promised(u, m)'
  <1>0. /\ RoomsInv /\ QueueInv /\ SpeakInv /\ MessagesTypeOK
        /\ clientsMap' = clientsMap /\ outbox[c] # <<>>
    BY DEF CoreInv, QueueInv, SendStep, vars
  <1>1. PICK d \in Conns : d = clientsMap[u] /\ d = clientsMap'[u]
    BY <1>0, MemberSession
  <1>2. PICK e \in Entries : e = Head(outbox[c]) /\ (Delivers(c, e) \/ Expands(c, e))
    BY <1>0, SendMoves
  <1>3. inbox[d] \in Seq(Messages) /\ e.msg \in Messages
    BY <1>0, KindsDiffer DEF MessagesTypeOK
  <1>4. inbox'[d] = inbox[d] \/ inbox'[d] = Append(inbox[d], e.msg)
    BY <1>2 DEF Delivers, Expands
  <1>5. CASE Heard(d, "REWARD_RESULT", m)
    <2>1. PICK k \in 1..Len(inbox[d]) :
             inbox[d][k].is = "REWARD_RESULT" /\ inbox[d][k].match = m
      BY <1>5 DEF Heard
    <2>2. k \in 1..Len(inbox'[d]) /\ inbox'[d][k] = inbox[d][k]
      BY <1>3, <1>4, AppendProperties, LenProperties
    <2>3. QED BY <1>1, <2>1, <2>2 DEF Heard
  <1>6. CASE Promised(u, m)
    <2>1. PICK x \in Conns : \E f \in Pending(x) :
             f.msg.is = "REWARD_RESULT" /\ f.msg.match = m /\ Reaches(f, d)
      BY <1>1, <1>6 DEF Promised
    <2>2. PICK f \in Pending(x) :
             f.msg.is = "REWARD_RESULT" /\ f.msg.match = m /\ Reaches(f, d)
      BY <2>1
    <2>3. Reaches(f, d)'
      BY <1>0, <2>2 DEF Reaches
    <2>4. CASE f \in Pending(x)'
      BY <1>1, <2>2, <2>3, <2>4 DEF Promised
    <2>5. CASE f \notin Pending(x)'
      <3>1. x = c
        BY <1>2, <2>5 DEF Delivers, Expands, Pending, CoreInv, QueueInv, MessagesTypeOK
      <3>2. CASE Delivers(c, e)
        <4>1. f = e
          BY <1>0, <1>2, <2>5, <3>1, <3>2, DeliveredQueue
        <4>2. inbox'[d] = Append(inbox[d], e.msg)
          BY <2>2, <3>2, <4>1 DEF Delivers
        <4>3. /\ Len(inbox[d]) + 1 \in 1..Len(inbox'[d])
              /\ inbox'[d][Len(inbox[d]) + 1] = e.msg
          BY <1>3, <4>2, AppendProperties, LenProperties
        <4>4. QED BY <1>1, <2>2, <4>1, <4>3 DEF Heard
      <3>3. CASE Expands(c, e)
        <4>1. PICK n : n = Len(seats[e.msg.room])
          OBVIOUS
        <4>2. /\ outbox[c][1] = e
              /\ \A l \in 1..Len(outbox[c]) : l # 1 => outbox[c][l] \in Pending(c)'
          BY <1>0, <1>2, <3>3, <4>1, ExpandedQueue
        <4>3. f = e
          BY <2>5, <3>1, <4>2 DEF Pending
        <4>4. PICK s \in RoomNames : s = e.msg.room
          BY <1>3, MessageParts
        <4>5. s = r
          BY <1>0, <2>2, <3>3, <4>3, <4>4, OneMatch DEF Expands, Plays
        <4>6. PICK q \in Seq(Users) : q = seats[r] /\ ToSet(q) = Members(r) /\ n = Len(q)
          BY <1>0, <4>1, <4>4, <4>5 DEF QueueInv, MessagesTypeOK, SeatsAreMembers
        <4>7. PICK k \in 1..n : q[k] = u
          BY <4>6, LenProperties DEF ToSet
        <4>8. /\ k \in 1..Len(outbox'[c]) /\ outbox'[c][k].msg = e.msg
              /\ outbox'[c][k].does = "retained" /\ outbox'[c][k].to = d
          <5>1. /\ k \in 1..Len(outbox'[c]) /\ outbox'[c][k].msg = e.msg
                /\ outbox'[c][k].does = "retained"
                /\ outbox'[c][k].to = clientsMap[seats[e.msg.room][k]]
            BY <1>0, <1>2, <3>3, <4>1, ExpandedQueue
          <5>2. seats[e.msg.room][k] = u
            BY <4>4, <4>5, <4>6, <4>7
          <5>3. QED BY <1>1, <5>1, <5>2
        <4>9. PICK g : g = outbox'[c][k]
          OBVIOUS
        <4>10. g \in Pending(c)' /\ g.msg = f.msg /\ Reaches(g, d)'
          BY <4>3, <4>8, <4>9 DEF Pending, Reaches
        <4>11. QED BY <1>1, <2>2, <4>10 DEF Promised
      <3>4. QED BY <1>2, <3>2, <3>3
    <2>6. QED BY <2>4, <2>5
  <1>7. QED BY <1>1, <1>5, <1>6

LEMMA RewardStepComes ==
  ASSUME CoreInv, RewardIsOnItsWay, MessagesNext
  PROVE  RewardIsOnItsWay'
  <1>1. PICK c \in Conns : Asks(c) \/ GetMap(c) \/ SendStep(c)
    BY StepKinds
  <1>2. ASSUME NEW r \in RoomNames, NEW m \in Matches, Playing(r, m)', ledger'[m].times > 0,
               NEW u \in Members(r)'
        PROVE  Heard(clientsMap[u], "REWARD_RESULT", m)' \/ Promised(u, m)'
    <2>1. CASE Asks(c)
      <3>1. RoomMove(c) /\ RoomsInv'
        BY <2>1, ActIsRoomMove, RoomsStep DEF Asks, CoreInv, RoomsInv
      <3>2. rooms'[r].inGame /\ rooms'[r].matchId = m
        BY <1>2 DEF Playing
      <3>3. r \in resolved'
        BY <1>2, <3>1 DEF RoomsInv, RewardCore, PaidAreResolved
      <3>4. GoesOn(r)
        BY <3>1, <3>2, <3>3, MatchesGoOn DEF RoomMove, CoreInv, RoomsInv, Begins
      <3>5. Playing(r, m) /\ u \in Members(r)
        BY <1>2, <3>2, <3>4 DEF GoesOn, Playing
      <3>6. CASE ledger[m].times > 0
        <4>1. Heard(clientsMap[u], "REWARD_RESULT", m) \/ Promised(u, m)
          BY <3>5, <3>6 DEF RewardIsOnItsWay, Promised
        <4>2. QED BY <1>2, <2>1, <4>1, AskedKeepsPromise
      <3>7. CASE ~(ledger[m].times > 0)
        BY <1>2, <2>1, <3>7, PaidIsAnnounced
      <3>8. QED BY <3>6, <3>7
    <2>2. CASE GetMap(c)
      <3>1. UNCHANGED <<rooms, ledger, clientsMap, inbox, outbox>>
        BY <2>2 DEF GetMap, vars
      <3>2. Heard(clientsMap[u], "REWARD_RESULT", m) \/ Promised(u, m)
        BY <1>2, <3>1 DEF RewardIsOnItsWay, Promised, Playing, Members
      <3>3. QED BY <3>1, <3>2 DEF Heard, Promised, Pending, Reaches
    <2>3. CASE SendStep(c)
      <3>1. UNCHANGED <<rooms, ledger>>
        BY <2>3 DEF SendStep, vars
      <3>2. Playing(r, m) /\ u \in Members(r) /\ ledger[m].times > 0
        BY <1>2, <3>1 DEF Playing, Members
      <3>3. Heard(clientsMap[u], "REWARD_RESULT", m) \/ Promised(u, m)
        BY <3>2 DEF RewardIsOnItsWay, Promised
      <3>4. QED BY <2>3, <3>2, <3>3, SentKeepsPromise
    <2>4. QED BY <1>1, <2>1, <2>2, <2>3
  <1>3. QED BY <1>2 DEF RewardIsOnItsWay, Promised

\* Everybody who is in a paid match has been told his reward, or a thread still
\* has an entry that will tell him.
THEOREM RewardsAreOnTheirWay == MessagesSpec => []RewardIsOnItsWay
  <1>1. MessagesInit => RewardIsOnItsWay
    BY DEF MessagesInit, RewardIsOnItsWay
  <1>2. /\ CoreInv /\ RewardIsOnItsWay /\ [MessagesNext]_<<vars, messageVars>>
        => RewardIsOnItsWay'
    <2>1. SUFFICES ASSUME CoreInv, RewardIsOnItsWay, [MessagesNext]_<<vars, messageVars>>
                   PROVE  RewardIsOnItsWay'
      OBVIOUS
    <2>2. CASE MessagesNext
      BY <2>1, <2>2, RewardStepComes
    <2>3. CASE UNCHANGED <<vars, messageVars>>
      BY <2>1, <2>3 DEF vars, messageVars, RewardIsOnItsWay, Playing, Members, Heard,
                        Pending, Reaches
    <2>4. QED BY <2>1, <2>2, <2>3
  <1>3. QED BY <1>1, <1>2, MessagesInvariant, PTL DEF MessagesSpec

\* The announcement of the rewards (PayRewards and the broadcasts after it in
\* ClientHandler.cpp), made in the room of the player who died last, is not lost
\* to players who are still in the match when nobody has anything left to say.
THEOREM RewardsAreTold == MessagesSpec => []PaidPlayersAreTold
  <1>1. RewardIsOnItsWay => PaidPlayersAreTold
    BY DEF RewardIsOnItsWay, PaidPlayersAreTold, Busy, Pending
  <1>2. QED BY <1>1, RewardsAreOnTheirWay, PTL

-----------------------------------------------------------------------------
(* The beginning and the end of a match *)

OrderInv ==
  /\ NewestIsPlayed
  /\ LateEndIsOld
  /\ PlayersAreStarted
  /\ HostTellsStart
  /\ HostStarts
  /\ EndComesBeforeStart
  /\ OldMatchIsSilent

\* What c does when it begins match m in room r.
Begun(c, r, m) ==
  /\ task[c].op = "start" /\ task[c].name = r
  /\ ~rooms[r].inGame /\ rooms'[r].inGame /\ rooms'[r].matchId = m
  /\ \A s \in RoomNames : s # r => rooms'[s] = rooms[s]
  /\ m = nextMatchId + 1
  /\ seats' = seats /\ screen' = screen /\ clientId' = clientId /\ Members(r)' = Members(r)
  /\ \A u \in Members(r) : Tell(u, Start(r, m)) \in Pending(c)'
  /\ \A e \in Pending(c)' : e.msg = Start(r, m)

\* What c does when it ends match m in room r with entry e.
Ended(c, r, m, e) ==
  /\ Playing(r, m) /\ ~rooms'[r].inGame
  /\ clientId[c] \in Members(r) /\ AllReady(r, clientId[c])
  /\ seats' = seats /\ screen' = screen /\ \A s \in RoomNames : Members(s)' = Members(s)
  /\ Pending(c)' = {e}
  /\ e.msg.is = "GAME_END" /\ e.msg.room = r /\ e.msg.match = m /\ e.users = Members(r)

\* What START_GAME sends when it has started a match.
LEMMA StartedBegins ==
  ASSUME CoreInv, NEW c \in Conns, Started(c)
  PROVE  \/ outbox'[c] = <<>> /\ rooms' = rooms
         \/ \E r \in RoomNames : Begun(c, r, nextMatchId')
  <1>0. RoomsInv /\ QueueInv /\ SpeakInv /\ MessagesTypeOK
    BY DEF CoreInv, QueueInv
  <1>1. task[c].op = "start" /\ task[c].name \in RoomNames
    BY <1>0, TaskFields DEF Started, TryStartGame, RoomsInv, TypeOK
  <1>2. PICK r \in RoomNames : r = task[c].name
    BY <1>1
  <1>3. PICK q \in Seq(Users) : q = seats[r]
    BY <1>0 DEF MessagesTypeOK
  <1>4. PICK n : n = nextMatchId'
    OBVIOUS
  <1>5. PICK msg : msg = Start(r, n)
    OBVIOUS
  <1>6. /\ TryStartGame(c)
        /\ outbox'[c] = IF n = nextMatchId THEN <<>>
                        ELSE [k \in 1..Len(q) |-> Tell(q[k], msg)]
    BY <1>0, <1>2, <1>3, <1>4, <1>5, PlanSent DEF Started, Start
  <1>7. CASE n # nextMatchId
    <2>1. nextMatchId < MaxMatches /\ StartMatch(r) /\ (MayStart(r) \/ MayStartCoop(r))
      BY <1>2, <1>4, <1>6, <1>7 DEF TryStartGame, matchVars
    <2>2. n \in Matches /\ n = nextMatchId + 1 /\ nextMatchId \in Nat /\ ~rooms[r].inGame
      BY <1>0, <1>4, <2>1 DEF StartMatch, RoomsInv, TypeOK, Matches, MayStart, MayStartCoop
    <2>3. msg \in Messages
      BY <1>5, <2>2, NewMessages DEF Start, Kinds
    <2>4. rooms' = [rooms EXCEPT ![r] = InMatch(rooms[r], n)]
      BY <2>1, <2>2 DEF StartMatch, ForgetMatch
    <2>5. /\ InMatch(rooms[r], n).users = rooms[r].users
          /\ InMatch(rooms[r], n).inGame /\ InMatch(rooms[r], n).matchId = n
      <3>1. n \in 0..MaxMatches
        BY <2>2 DEF Matches
      <3>2. QED BY <1>0, <3>1, MatchUpdates, SameRosterUpdates DEF RoomsInv, TypeOK
    <2>6. /\ rooms'[r].inGame /\ rooms'[r].matchId = n /\ Members(r)' = Members(r)
          /\ \A s \in RoomNames : s # r => rooms'[s] = rooms[s]
      BY <1>0, <2>4, <2>5 DEF Members, RoomsInv, TypeOK
    <2>7. Len(q) \in Nat /\ DOMAIN q = 1..Len(q) /\ \A k \in 1..Len(q) : q[k] \in Users
      BY <1>3, LenProperties, ElementOfSeq
    <2>8. \A u \in Users : Tell(u, msg) \in Entries /\ Tell(u, msg).msg = msg
      BY <2>3, NewEntries
    <2>9. PICK p : p = [k \in 1..Len(q) |-> Tell(q[k], msg)]
      OBVIOUS
    <2>10. p \in [1..Len(q) -> Entries] /\ \A k \in 1..Len(q) : p[k] = Tell(q[k], msg)
      BY <2>7, <2>8, <2>9
    <2>11. outbox'[c] = p /\ Len(p) = Len(q)
      BY <1>6, <1>7, <2>7, <2>9, <2>10, FunctionIsSeq
    <2>12. Members(r) = ToSet(q)
      BY <1>0, <1>3 DEF QueueInv, SeatsAreMembers
    <2>13. \A u \in Members(r) : Tell(u, msg) \in Pending(c)'
      BY <2>7, <2>10, <2>11, <2>12 DEF Pending, ToSet
    <2>14. \A e \in Pending(c)' : e.msg = msg
      BY <2>7, <2>8, <2>10, <2>11 DEF Pending
    <2>15. seats' = seats /\ screen' = screen /\ clientId' = clientId
      BY DEF Started, TryStartGame, sessionVars
    <2>16. QED
      BY <1>1, <1>2, <1>4, <1>5, <2>2, <2>6, <2>13, <2>14, <2>15 DEF Begun
  <1>8. CASE n = nextMatchId
    <2>1. ~StartMatch(r)
      BY <1>0, <1>4, <1>8 DEF StartMatch, RoomsInv, TypeOK
    <2>2. QED BY <1>2, <1>6, <1>8, <2>1 DEF TryStartGame
  <1>9. QED BY <1>7, <1>8

\* What READY_TO_EXIT sends when it has ended a match.
LEMMA ReadyEnds ==
  ASSUME CoreInv, NEW c \in Conns, NEW r \in RoomNames, ReadyToExit(c, r)
  PROVE  outbox'[c] = <<>> \/ \E e \in Entries : Ended(c, r, rooms[r].matchId, e)
  <1>0. RoomsInv /\ QueueInv /\ MessagesTypeOK
    BY DEF CoreInv, QueueInv
  <1>1. PICK u : u = clientId[c]
    OBVIOUS
  <1>2. HandleReadyToExit(c, r, u) /\ u \in Members(r) /\ rooms[r].inGame
    BY <1>1 DEF ReadyToExit, HandleReadyToExit, Self
  <1>3. rooms[r].matchId \in Matches /\ Members(r) \in SUBSET Users
    BY <1>0, <1>2, PlayedMatch DEF RoomsInv, TypeOK, Room, Members
  <1>4. PICK m \in Matches : m = rooms[r].matchId
    BY <1>3
  <1>5. PICK us \in SUBSET Users : us = Members(r)
    BY <1>3
  <1>6. PICK msg : msg = Message("GAME_END", r, m)
    OBVIOUS
  <1>7. PICK e : e = TellAll(us, msg)
    OBVIOUS
  <1>8. outbox'[c] = IF rooms'[r].inGame THEN <<>> ELSE <<e>>
    BY <1>0, <1>4, <1>5, <1>6, <1>7, PlanSent DEF ReadyToExit, End
  <1>9. CASE ~rooms'[r].inGame
    <2>1. AllReady(r, u)
      BY <1>2, <1>9 DEF HandleReadyToExit
    <2>2. msg \in Messages /\ msg.is = "GAME_END" /\ msg.room = r /\ msg.match = m
      BY <1>6, NewMessages DEF Kinds
    <2>3. e \in Entries /\ e.msg = msg /\ e.users = us
      BY <1>7, <2>2, NewEntries
    <2>4. Pending(c)' = {e}
      BY <1>8, <1>9 DEF Pending
    <2>5. seats' = seats /\ screen' = screen
      BY DEF ReadyToExit
    <2>6. \A s \in RoomNames : Members(s)' = Members(s)
      BY <1>0, SeatsRest
    <2>7. QED
      BY <1>1, <1>2, <1>4, <1>5, <1>9, <2>1, <2>2, <2>3, <2>4, <2>5, <2>6 DEF Ended, Playing
  <1>10. QED BY <1>8, <1>9

\* Where a new message comes from.
LEMMA NewSpeech ==
  ASSUME CoreInv, NEW c \in Conns, Asks(c), NEW e \in Pending(c)'
  PROVE  \/ e.msg.is \in {"PLAYER_DEAD", "WIN", "REWARD_RESULT"}
         \/ \E r \in RoomNames, m \in Matches : Begun(c, r, m) /\ e.msg = Start(r, m)
         \/ \E r \in RoomNames, m \in Matches : Ended(c, r, m, e)
  <1>0. RoomsInv /\ QueueInv /\ MessagesTypeOK /\ outbox'[c] # <<>>
    BY DEF CoreInv, QueueInv, Pending
  <1>1. CASE Started(c)
    <2>1. PICK r \in RoomNames : Begun(c, r, nextMatchId')
      BY <1>0, <1>1, StartedBegins
    <2>2. PICK m : m = nextMatchId'
      OBVIOUS
    <2>3. m \in Matches
      <3>1. RoomsInv'
        BY ActIsRoomMove, RoomsStep DEF Asks, CoreInv, RoomsInv
      <3>2. m \in 0..MaxMatches /\ nextMatchId \in Nat /\ m = nextMatchId + 1
        BY <1>0, <2>1, <2>2, <3>1 DEF RoomsInv, TypeOK, Begun
      <3>3. QED BY <3>2 DEF Matches
    <2>4. QED BY <2>1, <2>2, <2>3 DEF Begun
  <1>2. ASSUME NEW r \in RoomNames, ReadyToExit(c, r)
        PROVE  \E m \in Matches : Ended(c, r, m, e)
    <2>1. PICK f \in Entries : Ended(c, r, rooms[r].matchId, f)
      BY <1>0, <1>2, ReadyEnds
    <2>2. f = e
      BY <2>1 DEF Ended
    <2>3. rooms[r].matchId \in Matches
      BY <1>0, <2>1, PlayedMatch DEF Ended, Playing
    <2>4. QED BY <2>1, <2>2, <2>3
  <1>3. ASSUME NEW r \in RoomNames, Dead(c, r)
        PROVE  e.msg.is = "PLAYER_DEAD"
    <2>1. PICK msg : msg = Message("PLAYER_DEAD", r, rooms[r].matchId)
      OBVIOUS
    <2>2. PICK b : b = Broadcast(clientId[c], msg)
      OBVIOUS
    <2>3. outbox'[c] = <<b>>
      BY <1>0, <1>3, <2>1, <2>2, PlanSent DEF Dead, Self
    <2>4. b.msg.is = "PLAYER_DEAD"
      BY <2>1, <2>2 DEF Broadcast, Message
    <2>5. QED BY <2>3, <2>4 DEF Pending
  <1>4. CASE Announce(c)
    <2>1. PICK r : r = task[c].name
      OBVIOUS
    <2>2. PICK m : m = task[c].room.matchId
      OBVIOUS
    <2>3. PICK u : u = task[c].died
      OBVIOUS
    <2>4. PICK x : x = Broadcast(u, Message("WIN", r, m))
      OBVIOUS
    <2>5. PICK y : y = Broadcast(u, Message("REWARD_RESULT", r, m))
      OBVIOUS
    <2>6. outbox'[c] = <<x, y>>
      BY <1>0, <1>4, <2>1, <2>2, <2>3, <2>4, <2>5, PlanSent DEF Announce, ResultRoom
    <2>7. x.msg.is = "WIN" /\ y.msg.is = "REWARD_RESULT"
      BY <2>4, <2>5 DEF Broadcast, Message
    <2>8. QED BY <2>6, <2>7 DEF Pending
  <1>5. outbox' # outbox
    BY <1>0 DEF Asks
  <1>6. \/ Started(c) \/ Announce(c)
        \/ \E r \in RoomNames : Dead(c, r) \/ ReadyToExit(c, r)
    BY <1>5 DEF Asks, Request, Rest, Enter, Quit, StartGame
  <1>7. QED BY <1>1, <1>2, <1>3, <1>4, <1>6

\* A match id is issued by START_GAME only.
LEMMA IdsIssued ==
  ASSUME NEW c \in Conns, Request(c) \/ Rest(c), ~Started(c)
  PROVE  nextMatchId' = nextMatchId
  <1>1. ASSUME NEW r \in RoomNames, \/ Enter(c, r) \/ StartGame(c, r)
                                    \/ Dead(c, r) \/ ReadyToExit(c, r)
        PROVE  nextMatchId' = nextMatchId
    BY <1>1 DEF Enter, EnterRoom, CreateRoom, StartGame, LookUpRoom, Dead, RecordDeath,
                MayDie, ReadyToExit, HandleReadyToExit, matchVars
  <1>2. ASSUME Quit(c) PROVE nextMatchId' = nextMatchId
    BY <1>2 DEF Quit, ExitRoom, ForceExit
  <1>3. ASSUME Announce(c) \/ NameWinner(c) \/ RetryDeath(c) \/ ClearId(c) \/ EraseSession(c)
        PROVE  nextMatchId' = nextMatchId
    BY <1>3 DEF Announce, PayRewards, NameWinner, RetryDeath, ClearId, EraseSession,
                matchVars
  <1>4. QED BY <1>1, <1>2, <1>3 DEF Request, Rest

\* A room in a match after a handler has gone on with it, or the handler has
\* begun it.
LEMMA PlayedOrBegun ==
  ASSUME CoreInv, NEW c \in Conns, Asks(c), NEW r \in RoomNames, rooms'[r].inGame
  PROVE  GoesOn(r) \/ \E m \in Matches : m = nextMatchId' /\ Begun(c, r, m)
  <1>1. RoomMove(c) /\ RoomsInv /\ RoomsInv'
    BY ActIsRoomMove, RoomsStep DEF Asks, CoreInv, RoomsInv
  <1>2. GoesOn(r) \/ Begins(r)
    BY <1>1, MatchesGoOn DEF RoomMove, RoomsInv
  <1>3. CASE Begins(r)
    <2>1. ~rooms[r].inGame /\ rooms'[r].matchId = nextMatchId + 1
      BY <1>3 DEF Begins
    <2>2. PICK n : n = nextMatchId'
      OBVIOUS
    <2>3. rooms'[r].matchId <= n /\ n \in 0..MaxMatches /\ nextMatchId \in Nat
      BY <1>1, <2>2 DEF RoomsInv, RewardCore, MatchIdsIssued, TypeOK
    <2>4. n # nextMatchId /\ n \in Matches
      BY <2>1, <2>3 DEF Matches
    <2>5. Started(c)
      BY <2>2, <2>4, IdsIssued DEF Asks
    <2>6. PICK s \in RoomNames : Begun(c, s, n)
      BY <2>1, <2>2, <2>5, StartedBegins
    <2>7. s = r
      BY <2>1, <2>6 DEF Begun
    <2>8. QED BY <2>2, <2>4, <2>6, <2>7
  <1>4. QED BY <1>2, <1>3

\* Who quits is in no room afterwards.
LEMMA QuitLeaves ==
  ASSUME CoreInv, NEW c \in Conns, Quit(c), NEW r \in RoomNames
  PROVE  clientId[c] \notin Members(r)'
  <1>0. RoomsInv
    BY DEF CoreInv
  <1>1. PICK u : u = clientId[c]
    OBVIOUS
  <1>2. u \in Users /\ \/ \E s \in RoomNames, keep \in BOOLEAN :
                             u \in Members(s) /\ RemoveMember(s, u, keep)
                       \/ ~InRoom(u) /\ rooms' = rooms
    <2>1. CASE ForceExit(c)
      BY <1>0, <1>1, <2>1 DEF ForceExit, RoomsInv, TypeOK
    <2>2. ASSUME NEW s \in RoomNames, ExitRoom(c, s, u)
          PROVE  u \in Users /\ u \in Members(s) /\ RemoveMember(s, u, TRUE)
      BY <1>0, <2>2 DEF ExitRoom, Members, RoomsInv, TypeOK, Room
    <2>3. QED BY <1>1, <2>1, <2>2 DEF Quit, Self
  <1>3. ASSUME NEW s \in RoomNames, NEW keep \in BOOLEAN, u \in Members(s),
               RemoveMember(s, u, keep)
        PROVE  u \notin Members(r)'
    <2>1. Members(r)' = IF r = s THEN Members(s) \ {u} ELSE Members(r)
      BY <1>0, <1>2, <1>3, RemoveMemberMembers DEF RoomsInv
    <2>2. u \in Members(r) => r = s
      BY <1>0, <1>3, OneRoom
    <2>3. QED BY <2>1, <2>2
  <1>4. CASE ~InRoom(u) /\ rooms' = rooms
    BY <1>1, <1>4 DEF InRoom, Members
  <1>5. QED BY <1>1, <1>2, <1>3, <1>4

-----------------------------------------------------------------------------
(* Seats and screens *)

LEMMA SeatedAreMembers ==
  ASSUME QueueInv, NEW r \in RoomNames, NEW v \in Users, NEW w \in Users,
         Before(seats[r], v, w)
  PROVE  v \in Members(r) /\ w \in Members(r)
  <1>1. PICK q \in Seq(Users) : q = seats[r] /\ ToSet(q) = Members(r)
    BY DEF QueueInv, MessagesTypeOK, SeatsAreMembers
  <1>2. DOMAIN q = 1..Len(q)
    BY LenProperties
  <1>3. QED BY <1>1, <1>2 DEF Before, ToSet

\* A room has one first member.
LEMMA FirstIsOne ==
  ASSUME QueueInv, NEW r \in RoomNames, NEW v \in Users, NEW w \in Users,
         First(seats[r], v), First(seats[r], w)
  PROVE  v = w
  <1>1. PICK q \in Seq(Users) : q = seats[r]
    BY DEF QueueInv, MessagesTypeOK
  <1>2. PICK i \in 1..Len(q), j \in 1..Len(q) : q[i] = v /\ q[j] = w
    BY <1>1 DEF First, Before
  <1>3. Len(q) \in Nat /\ (i <= j \/ j <= i)
    BY LenProperties
  <1>4. Before(q, v, w) \/ Before(q, w, v)
    BY <1>2, <1>3 DEF Before
  <1>5. QED BY <1>1, <1>4 DEF First

\* The head of a list sits before everybody in it.
LEMMA HeadIsFirst ==
  ASSUME QueueInv, NEW r \in RoomNames, NEW u \in Users, seats[r] # <<>>,
         Head(seats[r]) = u
  PROVE  First(seats[r], u) /\ \A w \in Members(r) : Before(seats[r], u, w)
  <1>1. PICK q \in Seq(Users) :
           q = seats[r] /\ ToSet(q) = Members(r) /\ IsInjective(q) /\ q # <<>>
    BY DEF QueueInv, MessagesTypeOK, SeatsAreMembers
  <1>2. 1 \in 1..Len(q) /\ q[1] = u /\ Len(q) \in Nat /\ DOMAIN q = 1..Len(q)
    BY <1>1, QueueTail, LenProperties
  <1>3. \A j \in 1..Len(q) : 1 <= j
    OBVIOUS
  <1>4. \A w \in ToSet(q) : Before(q, u, w)
    BY <1>2, <1>3 DEF ToSet, Before
  <1>5. Before(q, u, u)
    BY <1>2, <1>3 DEF Before
  <1>6. ASSUME NEW v \in Users, Before(q, v, u) PROVE v = u
    <2>1. PICK i \in 1..Len(q), j \in 1..Len(q) : i <= j /\ q[i] = v /\ q[j] = u
      BY <1>6 DEF Before
    <2>2. j = 1
      BY <1>1, <1>2, <2>1 DEF IsInjective
    <2>3. i = 1
      BY <2>1, <2>2
    <2>4. QED BY <1>2, <2>1, <2>3
  <1>7. QED BY <1>1, <1>4, <1>5, <1>6 DEF First

\* The client of u has been told of the start of match m and has not left it.
Shows(u, r, m) ==
  Start(r, m) \in Received(clientsMap[u]) /\ screen[clientsMap[u]] # "room"

\* The screen of a member changes only by what he is told, not by a handler.
LEMMA AskedShows ==
  ASSUME CoreInv, NEW c \in Conns, Asks(c), NEW s \in RoomNames, NEW u \in Members(s)',
         NEW r, NEW m, Shows(u, r, m)
  PROVE  Shows(u, r, m)'
  <1>1. PICK d \in Conns : d = clientsMap[u] /\ d = clientsMap'[u]
    BY MemberKeepsSession
  <1>2. Received(d)' = Received(d)
    BY DEF Asks, Received
  <1>3. screen'[d] = screen[d]
    <2>1. MessagesTypeOK /\ RoomsInv
      BY DEF CoreInv, QueueInv
    <2>2. CASE ~Quit(c) \/ d # c
      BY <2>1, <2>2, QueuesMove DEF Asks
    <2>3. CASE Quit(c) /\ d = c
      <3>1. RoomsInv'
        BY ActIsRoomMove, RoomsStep DEF Asks, CoreInv, RoomsInv
      <3>2. PICK v : v = u
        OBVIOUS
      <3>3. v \in rooms'[s].users
        BY <3>2 DEF Members
      <3>4. clientId'[clientsMap'[v]] = v
        BY <3>1, <3>3 DEF RoomsInv, Roster, MembersHaveSessions, Members
      <3>5. clientId' = clientId
        BY <2>3 DEF Quit, ExitRoom, ForceExit, sessionVars
      <3>6. clientId[c] = u
        BY <1>1, <2>3, <3>2, <3>4, <3>5
      <3>7. QED BY <2>3, <3>6, QuitLeaves
    <2>4. QED BY <2>2, <2>3
  <1>4. QED BY <1>1, <1>2, <1>3 DEF Shows

\* What has been received stays.
Grows ==
  \A d \in Conns :
     /\ Len(inbox[d]) \in Nat /\ Len(inbox'[d]) \in Nat /\ Len(inbox[d]) <= Len(inbox'[d])
     /\ \A k \in 1..Len(inbox[d]) : k \in 1..Len(inbox'[d]) /\ inbox'[d][k] = inbox[d][k]

LEMMA InboxGrows ==
  ASSUME CoreInv, NEW c \in Conns, Asks(c) \/ GetMap(c) \/ SendStep(c)
  PROVE  Grows
  <1>0. RoomsInv /\ QueueInv /\ SpeakInv /\ MessagesTypeOK
    BY DEF CoreInv, QueueInv
  <1>1. \A d \in Conns : inbox'[d] = inbox[d] \/
                         \E msg \in Messages : inbox'[d] = Append(inbox[d], msg)
    <2>1. CASE Asks(c) \/ GetMap(c)
      BY <2>1 DEF Asks, GetMap
    <2>2. CASE SendStep(c)
      <3>1. PICK e \in Entries : e = Head(outbox[c]) /\ (Delivers(c, e) \/ Expands(c, e))
        BY <1>0, <2>2, SendMoves
      <3>2. e.msg \in Messages
        BY KindsDiffer
      <3>3. QED BY <3>1, <3>2 DEF Delivers, Expands
    <2>3. QED BY <2>1, <2>2
  <1>2. ASSUME NEW d \in Conns
        PROVE  /\ Len(inbox[d]) \in Nat /\ Len(inbox'[d]) \in Nat
               /\ Len(inbox[d]) <= Len(inbox'[d])
               /\ \A k \in 1..Len(inbox[d]) : /\ k \in 1..Len(inbox'[d])
                                              /\ inbox'[d][k] = inbox[d][k]
    <2>1. PICK p \in Seq(Messages) : p = inbox[d]
      BY <1>0 DEF MessagesTypeOK
    <2>2. Len(p) \in Nat
      BY LenProperties
    <2>3. CASE inbox'[d] = p
      BY <2>1, <2>2, <2>3
    <2>4. ASSUME NEW msg \in Messages, inbox'[d] = Append(p, msg)
          PROVE  /\ Len(p) \in Nat /\ Len(inbox'[d]) = Len(p) + 1
                 /\ \A k \in 1..Len(p) : inbox'[d][k] = p[k]
      BY <2>2, <2>4, AppendProperties
    <2>5. CASE \E msg \in Messages : inbox'[d] = Append(p, msg)
      BY <2>1, <2>2, <2>4, <2>5
    <2>6. QED BY <1>1, <2>1, <2>3, <2>5
  <1>3. QED BY <1>2 DEF Grows

LEMMA ReceivedStays ==
  ASSUME Grows, NEW d \in Conns
  PROVE  Received(d) \subseteq Received(d)'
  BY DEF Grows, Received

LEMMA ThrownStays ==
  ASSUME Grows, NEW m, ThrownOut(m)
  PROVE  ThrownOut(m)'
  <1>1. PICK d \in Conns : \E i, j \in 1..Len(inbox[d]) :
           /\ After(d, i, j)
           /\ inbox[d][i].is = "GAME_START" /\ inbox[d][i].match = m
           /\ inbox[d][j].is = "GAME_END" /\ inbox[d][j].match < m
    BY DEF ThrownOut
  <1>2. PICK i \in 1..Len(inbox[d]), j \in 1..Len(inbox[d]) :
           /\ After(d, i, j)
           /\ inbox[d][i].is = "GAME_START" /\ inbox[d][i].match = m
           /\ inbox[d][j].is = "GAME_END" /\ inbox[d][j].match < m
    BY <1>1
  <1>3. /\ i \in 1..Len(inbox'[d]) /\ inbox'[d][i] = inbox[d][i]
        /\ j \in 1..Len(inbox'[d]) /\ inbox'[d][j] = inbox[d][j]
        /\ Len(inbox[d]) \in Nat /\ Len(inbox'[d]) \in Nat
    BY DEF Grows
  <1>4. i + 1 <= j
    BY <1>2 DEF After
  <1>5. After(d, i, j)'
    BY <1>3, <1>4 DEF After
  <1>6. QED BY <1>2, <1>3, <1>5 DEF ThrownOut

\* A player who shows a match goes on showing it until he is told of an end; if
\* that is the end of an older match he has been thrown out.
LEMMA SentShows ==
  ASSUME CoreInv, NEW c \in Conns, SendStep(c), NEW e \in Entries, e = Head(outbox[c]),
         Delivers(c, e) \/ Expands(c, e), NEW s \in RoomNames, NEW u \in Members(s),
         NEW r \in RoomNames, NEW m \in Matches, Shows(u, r, m),
         e.msg.is = "GAME_END" /\ u \in e.users => e.msg.match < m
  PROVE  Shows(u, r, m)' \/ ThrownOut(m)'
  <1>0. /\ RoomsInv /\ QueueInv /\ SpeakInv /\ MessagesTypeOK
        /\ clientsMap' = clientsMap /\ outbox[c] # <<>>
    BY DEF CoreInv, QueueInv, SendStep, vars
  <1>1. PICK d \in Conns : d = clientsMap[u] /\ d = clientsMap'[u] /\ u \in Users
    BY <1>0, MemberSession
  <1>2. Start(r, m) \in Received(d) /\ screen[d] # "room"
    BY <1>1 DEF Shows
  <1>3. Grows /\ Start(r, m) \in Received(d)'
    BY <1>2, InboxGrows, ReceivedStays
  <1>4. CASE screen'[d] # "room"
    BY <1>1, <1>3, <1>4 DEF Shows
  <1>5. CASE screen'[d] = "room"
    <2>1. e.msg.is = "GAME_END" /\ Reaches(e, d) /\ Delivers(c, e)
      BY <1>2, <1>5 DEF Delivers, Expands
    <2>2. e \in Pending(c)
      BY <1>0, <2>1, DeliveredQueue DEF Pending
    <2>3. e.does = "tell" /\ e.users \in SUBSET Users
      BY <1>0, <2>1, <2>2, KindsDiffer DEF SpeakInv, SpeaksOfOwnMatch
    <2>4. \E v \in e.users : clientsMap[v] = d
      BY <2>1, <2>3 DEF Reaches
    <2>5. u \in e.users
      <3>1. d # NoConn
        OBVIOUS
      <3>2. QED BY <1>0, <1>1, <2>3, <2>4, <3>1 DEF QueueInv, SessionsApart
    <2>6. e.msg.match < m /\ e.msg \in Messages
      BY <2>1, <2>5, KindsDiffer
    <2>7. PICK p \in Seq(Messages) : p = inbox[d]
      BY <1>0 DEF MessagesTypeOK
    <2>8. /\ inbox'[d] = Append(p, e.msg) /\ Len(p) \in Nat
          /\ Len(inbox'[d]) = Len(p) + 1 /\ inbox'[d][Len(p) + 1] = e.msg
          /\ \A k \in 1..Len(p) : inbox'[d][k] = p[k]
      <3>1. inbox'[d] = Append(p, e.msg)
        BY <2>1, <2>7 DEF Delivers
      <3>2. QED BY <2>6, <3>1, AppendProperties, LenProperties
    <2>9. PICK i \in 1..Len(p) : p[i] = Start(r, m)
      BY <1>2, <2>7 DEF Received
    <2>10. p[i].is = "GAME_START" /\ p[i].match = m
      BY <2>9 DEF Start, Message
    <2>11. PICK j : j = Len(p) + 1
      OBVIOUS
    <2>12. /\ i \in 1..Len(inbox'[d]) /\ j \in 1..Len(inbox'[d])
           /\ inbox'[d][i] = p[i] /\ inbox'[d][j] = e.msg
      BY <2>8, <2>9, <2>11
    <2>13. After(d, i, j)'
      BY <2>8, <2>9, <2>11, <2>12 DEF After
    <2>14. QED BY <2>1, <2>6, <2>10, <2>12, <2>13 DEF ThrownOut
  <1>6. QED BY <1>4, <1>5
-----------------------------------------------------------------------------
(* The steps of a handler *)

\* What a handler leaves to the other threads, and what holds after it.
LEMMA Handled ==
  ASSUME CoreInv, NEW c \in Conns, Asks(c)
  PROVE  /\ RoomsInv /\ QueueInv /\ SpeakInv /\ MessagesTypeOK
         /\ RoomsInv' /\ QueueInv' /\ SpeakInv' /\ MessagesTypeOK'
         /\ Grows /\ Pending(c) = {}
         /\ \A d \in Conns : Received(d)' = Received(d)
         /\ \A d \in Conns : d # c => /\ clientId'[d] = clientId[d] /\ task'[d] = task[d]
                                      /\ Pending(d)' = Pending(d)
  <1>1. RoomsInv /\ QueueInv /\ SpeakInv /\ MessagesTypeOK
    BY DEF CoreInv, QueueInv
  <1>2. RoomsInv'
    BY ActIsRoomMove, RoomsStep DEF Asks, CoreInv, RoomsInv
  <1>3. QueueInv' /\ SpeakInv'
    BY RequestQueues, RequestWorks, RequestPaid, RequestSpeaks DEF Asks, CoreInv, SpeakInv
  <1>4. Grows /\ Pending(c) = {} /\ \A d \in Conns : Received(d)' = Received(d)
    BY InboxGrows DEF Asks, Pending, Received
  <1>5. \A d \in Conns : d # c => /\ clientId'[d] = clientId[d] /\ task'[d] = task[d]
                                  /\ Pending(d)' = Pending(d)
    BY <1>1, OthersKeep DEF Asks, Pending
  <1>6. QED BY <1>1, <1>2, <1>3, <1>4, <1>5 DEF QueueInv

\* Where what is said after a handler comes from.
LEMMA AskedSays ==
  ASSUME CoreInv, NEW c \in Conns, Asks(c), NEW d \in Conns, NEW msg, Said(d, msg)'
  PROVE  Said(d, msg) \/ (d = c /\ \E e \in Pending(c)' : e.msg = msg)
  BY Handled DEF Said

\* An end that is new has just come about, and so has a start.
LEMMA NewEnd ==
  ASSUME CoreInv, NEW c \in Conns, Asks(c), NEW e \in Pending(c)', e.msg.is = "GAME_END"
  PROVE  /\ e.msg.room \in RoomNames /\ e.msg.match \in Matches
         /\ Ended(c, e.msg.room, e.msg.match, e)
  <1>1. \A r \in RoomNames, m \in Matches : e.msg # Start(r, m)
    BY DEF Start, Message
  <1>2. PICK r \in RoomNames, m \in Matches : Ended(c, r, m, e)
    BY <1>1, NewSpeech
  <1>3. r = e.msg.room /\ m = e.msg.match
    BY <1>2 DEF Ended
  <1>4. QED BY <1>2, <1>3

LEMMA NewStart ==
  ASSUME CoreInv, NEW c \in Conns, Asks(c), NEW e \in Pending(c)', e.msg.is = "GAME_START"
  PROVE  e.msg.room \in RoomNames /\ Begun(c, e.msg.room, e.msg.match)
  <1>1. ~\E r \in RoomNames, m \in Matches : Ended(c, r, m, e)
    BY DEF Ended
  <1>2. PICK r \in RoomNames, m \in Matches : Begun(c, r, m) /\ e.msg = Start(r, m)
    BY <1>1, NewSpeech
  <1>3. r = e.msg.room /\ m = e.msg.match
    BY <1>2 DEF Start, Message
  <1>4. QED BY <1>2, <1>3

\* Only START_GAME of the host leaves a room to be started.
LEMMA OnlyHostsStart ==
  ASSUME CoreInv, NEW c \in Conns, Asks(c), task'[c].op = "start"
  PROVE  \E r \in RoomNames : StartGame(c, r) /\ task'[c].name = r
  <1>0. RoomsInv /\ task[c] \in Task /\ Idle.op = "idle"
    BY Ops DEF CoreInv, RoomsInv, TypeOK
  <1>1. ASSUME NEW t, Goto(c, t) PROVE task'[c] = t
    BY <1>0, <1>1, GotoTask DEF RoomsInv
  <1>2. ASSUME NEW r \in RoomNames, Enter(c, r) \/ ReadyToExit(c, r)
        PROVE  task'[c] = Idle
    BY <1>2 DEF Enter, EnterRoom, CreateRoom, ReadyToExit, HandleReadyToExit
  <1>3. CASE Quit(c)
    <2>1. \/ task[c] = Idle /\ task' = task
          \/ Goto(c, [op |-> "clear", user |-> clientId[c]])
      BY <1>3 DEF Quit, ExitRoom, ForceExit
    <2>2. QED BY <1>0, <1>1, <2>1
  <1>4. ASSUME NEW r \in RoomNames, StartGame(c, r)
        PROVE  StartGame(c, r) /\ task'[c].name = r
    BY <1>1, <1>4 DEF StartGame, LookUpRoom
  <1>5. ASSUME NEW r \in RoomNames, Dead(c, r) PROVE FALSE
    <2>1. PICK u : u = clientId[c]
      OBVIOUS
    <2>2. PICK t : t = [op |-> "name", name |-> r, room |-> rooms[r],
                        dead |-> dead[r] \union {u}, died |-> u, winner |-> "None"]
      OBVIOUS
    <2>3. (task' = task /\ task[c] = Idle) \/ Goto(c, t)
      BY <1>5, <2>1, <2>2 DEF Dead, RecordDeath, Self
    <2>4. t.op = "name"
      BY <2>2
    <2>5. QED BY <1>0, <1>1, <2>3, <2>4
  <1>6. CASE Started(c) \/ RetryDeath(c) \/ EraseSession(c)
    BY <1>0, <1>1, <1>6 DEF Started, TryStartGame, RetryDeath, EraseSession
  <1>7. CASE ClearId(c)
    <2>1. Goto(c, [op |-> "erase", user |-> task[c].user])
      BY <1>7 DEF ClearId
    <2>2. QED BY <1>1, <2>1
  <1>8. CASE Announce(c) \/ NameWinner(c)
    <2>1. task[c].op \in Paying
      BY <1>8 DEF Announce, PayRewards, NameWinner, Paying
    <2>2. task[c] \in [op : Paying, name : RoomNames, room : Room,
                       dead : SUBSET Users, died : Users,
                       winner : Names \union Teams \union {"None"}]
      BY <1>0, <2>1, TaskFields DEF Paying
    <2>3. \/ Goto(c, Idle)
          \/ Goto(c, [task[c] EXCEPT !.op = "retry"])
          \/ \E w : Goto(c, [task[c] EXCEPT !.op = "pay", !.winner = w])
      BY <1>8 DEF Announce, PayRewards, NameWinner
    <2>4. /\ [task[c] EXCEPT !.op = "retry"].op = "retry"
          /\ \A w : [task[c] EXCEPT !.op = "pay", !.winner = w].op = "pay"
      BY <2>2
    <2>5. QED BY <1>0, <1>1, <2>3, <2>4
  <1>9. QED
    BY <1>0, <1>2, <1>3, <1>4, <1>5, <1>6, <1>7, <1>8 DEF Asks, Request, Rest

\* A room in a match afterwards, and its match id.
LEMMA PlayedAsked ==
  ASSUME CoreInv, NEW c \in Conns, Asks(c), NEW r \in RoomNames, rooms'[r].inGame
  PROVE  \/ GoesOn(r)
         \/ \E m \in Matches : /\ m = nextMatchId' /\ m = nextMatchId + 1
                               /\ nextMatchId \in Nat
                               /\ rooms'[r].matchId = m /\ Begun(c, r, m)
  <1>1. nextMatchId \in Nat
    BY DEF CoreInv, RoomsInv, TypeOK
  <1>2. QED BY <1>1, PlayedOrBegun DEF Begun

LEMMA NewestAsked ==
  ASSUME CoreInv, OrderInv, NEW c \in Conns, Asks(c)
  PROVE  NewestIsPlayed'
  <1>1. SUFFICES ASSUME NEW r \in RoomNames, rooms'[r].inGame, NEW d \in Conns,
                        NEW msg \in Messages, Said(d, msg)', msg.room = r
                 PROVE  msg.match <= rooms'[r].matchId
    BY DEF NewestIsPlayed
  <1>2. CASE \E m \in Matches : m = nextMatchId' /\ rooms'[r].matchId = m
    <2>1. msg.match <= nextMatchId'
      BY <1>1, Handled DEF SpeakInv, SaidIsTrue
    <2>2. QED BY <1>2, <2>1
  <1>3. CASE GoesOn(r)
    <2>1. rooms[r].inGame /\ rooms'[r].matchId = rooms[r].matchId
      BY <1>3 DEF GoesOn
    <2>2. CASE Said(d, msg)
      BY <1>1, <2>1, <2>2 DEF OrderInv, NewestIsPlayed
    <2>3. ASSUME NEW e \in Pending(c)', e.msg = msg
          PROVE  msg.match <= rooms'[r].matchId
      <3>1. msg.is # "GAME_END"
        BY <1>1, <2>3, NewEnd DEF Ended
      <3>2. Plays(c, r, msg.match)'
        BY <1>1, <2>3, <3>1, Handled DEF SpeakInv, SpeaksOfOwnMatch
      <3>3. rooms'[r].matchId = msg.match /\ msg.match \in Matches
        BY <3>2, MessageParts DEF Plays, Playing
      <3>4. QED BY <3>3 DEF Matches
    <2>4. QED BY <1>1, <2>2, <2>3, AskedSays
  <1>4. QED BY <1>1, <1>2, <1>3, PlayedAsked

LEMMA LateEndAsked ==
  ASSUME CoreInv, OrderInv, NEW c \in Conns, Asks(c)
  PROVE  LateEndIsOld'
  <1>1. SUFFICES ASSUME NEW d \in Conns, NEW e \in Pending(d)', e.msg.is = "GAME_END",
                        NEW u \in e.users, NEW r \in RoomNames, u \in Members(r)',
                        rooms'[r].inGame
                 PROVE  e.msg.match < rooms'[r].matchId
    BY DEF LateEndIsOld
  <1>2. CASE d = c
    <2>1. PICK s \in RoomNames : Ended(c, s, e.msg.match, e)
      BY <1>1, <1>2, NewEnd
    <2>2. u \in Members(s)'
      BY <1>1, <2>1 DEF Ended
    <2>3. s = r
      BY <1>1, <2>2, Handled DEF RoomsInv, Roster, Membership
    <2>4. QED BY <1>1, <2>1, <2>3 DEF Ended
  <1>3. CASE d # c
    <2>1. e \in Pending(d) /\ MessagesTypeOK /\ SpeakInv
      BY <1>1, <1>3, Handled
    <2>2. e.msg \in Messages /\ Said(d, e.msg)
      BY <2>1, PendingType
    <2>3. e.msg.match \in Matches /\ e.msg.match <= nextMatchId
      BY <2>1, <2>2, MessageParts DEF SpeakInv, SaidIsTrue
    <2>4. CASE \E m \in Matches : /\ m = nextMatchId + 1 /\ nextMatchId \in Nat
                                  /\ rooms'[r].matchId = m
      BY <2>3, <2>4 DEF Matches
    <2>5. CASE GoesOn(r)
      <3>1. /\ rooms[r].inGame /\ rooms'[r].matchId = rooms[r].matchId
            /\ u \in Members(r)
        BY <1>1, <2>5 DEF GoesOn
      <3>2. QED BY <1>1, <2>1, <3>1 DEF OrderInv, LateEndIsOld
    <2>6. QED BY <1>1, <2>4, <2>5, PlayedAsked
  <1>4. QED BY <1>2, <1>3

LEMMA PlayersAsked ==
  ASSUME CoreInv, OrderInv, NEW c \in Conns, Asks(c)
  PROVE  PlayersAreStarted'
  <1>1. SUFFICES ASSUME NEW r \in RoomNames, NEW m \in Matches, Playing(r, m)',
                        NEW u \in Members(r)'
                 PROVE  \/ ThrownOut(m)'
                        \/ \E d \in Conns : Tell(u, Start(r, m)) \in Pending(d)'
                        \/ Shows(u, r, m)'
    BY DEF PlayersAreStarted, Shows
  <1>2. rooms'[r].inGame /\ rooms'[r].matchId = m
    BY <1>1 DEF Playing
  <1>3. CASE Begun(c, r, m)
    BY <1>1, <1>3 DEF Begun
  <1>4. CASE GoesOn(r)
    <2>1. Playing(r, m) /\ u \in Members(r)
      BY <1>1, <1>2, <1>4 DEF GoesOn, Playing
    <2>2. \/ ThrownOut(m)
          \/ \E d \in Conns : Tell(u, Start(r, m)) \in Pending(d)
          \/ Shows(u, r, m)
      BY <2>1 DEF OrderInv, PlayersAreStarted, Shows
    <2>3. CASE ThrownOut(m)
      BY <2>3, Handled, ThrownStays
    <2>4. ASSUME NEW d \in Conns, Tell(u, Start(r, m)) \in Pending(d)
          PROVE  Tell(u, Start(r, m)) \in Pending(d)'
      BY <2>4, Handled
    <2>5. CASE Shows(u, r, m)
      BY <1>1, <2>5, AskedShows
    <2>6. QED BY <2>2, <2>3, <2>4, <2>5
  <1>5. QED BY <1>2, <1>3, <1>4, PlayedAsked

LEMMA HostTellsAsked ==
  ASSUME CoreInv, OrderInv, NEW c \in Conns, Asks(c)
  PROVE  HostTellsStart'
  <1>1. SUFFICES ASSUME NEW d \in Conns, NEW e \in Pending(d)', e.msg.is = "GAME_START"
                 PROVE  First(seats'[e.msg.room], clientId'[d])
    BY DEF HostTellsStart
  <1>2. CASE d = c
    <2>1. Begun(c, e.msg.room, e.msg.match)
      BY <1>1, <1>2, NewStart
    <2>2. First(seats[e.msg.room], clientId[c])
      BY <2>1 DEF Begun, OrderInv, HostStarts
    <2>3. QED BY <1>2, <2>1, <2>2 DEF Begun
  <1>3. CASE d # c
    <2>1. PICK r \in RoomNames : r = e.msg.room
      BY <1>1, <1>3, Handled, PendingType, MessageParts
    <2>2. PICK w : w = clientId[d] /\ w = clientId'[d]
      BY <1>3, Handled
    <2>3. Plays(d, r, e.msg.match)'
      BY <1>1, <2>1, Handled DEF SpeakInv, SpeaksOfOwnMatch
    <2>4. w \in Members(r)' /\ w \in Users
      BY <2>2, <2>3, Handled DEF Plays, RoomsInv, TypeOK, Room, Members
    <2>5. e \in Pending(d) /\ First(seats[r], w)
      BY <1>1, <1>3, <2>1, <2>2, Handled DEF OrderInv, HostTellsStart
    <2>6. SeatMove(c, r)
      BY Handled, SeatsMove DEF Asks
    <2>7. First(seats'[r], w)
      BY <2>4, <2>5, <2>6, Handled, SeatsOrder
    <2>8. QED BY <2>1, <2>2, <2>7
  <1>4. QED BY <1>2, <1>3

\* The user of a connection with something to say about a room is a member.
LEMMA SpeakerIsMember ==
  ASSUME CoreInv, NEW c \in Conns, NEW e \in Pending(c)
  PROVE  /\ e.msg.room \in RoomNames /\ e.msg.match \in Matches /\ e.msg \in Messages
         /\ clientId[c] \in Members(e.msg.room) /\ clientId[c] \in Users
         /\ clientsMap[clientId[c]] = c
  <1>1. e.msg \in Messages /\ e.msg.room \in RoomNames /\ e.msg.match \in Matches
    BY PendingType, MessageParts DEF CoreInv, QueueInv
  <1>2. clientId[c] \in Members(e.msg.room)
    BY DEF CoreInv, SpeakInv, SpeaksOfOwnMatch, Plays
  <1>3. QED BY <1>1, <1>2, MemberSession DEF CoreInv

\* Who may start the next match has been told of the end of the last one.
LEMMA HostStartsNext ==
  ASSUME CoreInv, OrderInv, NEW c \in Conns, NEW r \in RoomNames, StartGame(c, r),
         outbox[c] = <<>>
  PROVE  /\ First(seats[r], clientId[c])
         /\ rooms[r].inGame => ThrownOut(rooms[r].matchId)
         /\ \A d \in Conns : \A e \in Pending(d) :
              e.msg.is = "GAME_END" /\ e.msg.room = r => ThrownOut(e.msg.match)
  <1>0. RoomsInv /\ QueueInv /\ SpeakInv /\ Pending(c) = {}
    BY DEF CoreInv, Pending
  <1>1. PICK q \in Seq(Users) : q = seats[r] /\ q # <<>>
    BY <1>0 DEF StartGame, QueueInv, MessagesTypeOK
  <1>2. PICK u \in Users : u = clientId[c] /\ Head(seats[r]) = u
    <2>1. Head(q) \in Users /\ Head(q) = clientId[c]
      BY <1>1, QueueTail DEF StartGame, Self
    <2>2. QED BY <1>1, <2>1
  <1>3. First(seats[r], u) /\ \A w \in Members(r) : Before(seats[r], u, w)
    BY <1>0, <1>1, <1>2, HeadIsFirst
  <1>4. u \in Members(r)
    BY <1>0, <1>3, SeatedAreMembers DEF First
  <1>5. clientsMap[u] = c /\ screen[c] = "room"
    BY <1>0, <1>2, <1>4, MemberSession DEF StartGame
  <1>6. ASSUME rooms[r].inGame PROVE ThrownOut(rooms[r].matchId)
    <2>1. PICK m \in Matches : m = rooms[r].matchId /\ Playing(r, m)
      BY <1>0, <1>6, PlayedMatch DEF Playing
    <2>2. \/ ThrownOut(m)
          \/ \E d \in Conns : Tell(u, Start(r, m)) \in Pending(d)
          \/ Shows(u, r, m)
      BY <1>4, <2>1 DEF OrderInv, PlayersAreStarted, Shows
    <2>3. ASSUME NEW d \in Conns, Tell(u, Start(r, m)) \in Pending(d) PROVE FALSE
      <3>1. PICK e : e = Tell(u, Start(r, m))
        OBVIOUS
      <3>2. e.msg.is = "GAME_START" /\ e.msg.room = r
        BY <3>1 DEF Tell, Start, Message
      <3>3. First(seats[r], clientId[d])
        BY <2>3, <3>1, <3>2 DEF OrderInv, HostTellsStart
      <3>4. clientId[d] \in Users /\ clientsMap[clientId[d]] = d
        BY <2>3, <3>1, SpeakerIsMember
      <3>5. clientId[d] = u
        BY <1>0, <1>3, <3>3, <3>4, FirstIsOne
      <3>6. QED BY <1>0, <1>5, <2>3, <3>4, <3>5
    <2>4. ~Shows(u, r, m)
      BY <1>5 DEF Shows
    <2>5. QED BY <2>1, <2>2, <2>3, <2>4
  <1>7. ASSUME NEW d \in Conns, NEW e \in Pending(d), e.msg.is = "GAME_END", e.msg.room = r
        PROVE  ThrownOut(e.msg.match)
    <2>1. Before(seats[r], u, clientId[d])
      BY <1>3, <1>7, SpeakerIsMember
    <2>2. ~Waits(u, e.msg)
      BY <1>5 DEF Waits
    <2>3. QED BY <1>7, <2>1, <2>2 DEF OrderInv, EndComesBeforeStart
  <1>8. QED BY <1>2, <1>3, <1>6, <1>7

LEMMA HostStartsAsked ==
  ASSUME CoreInv, OrderInv, NEW c \in Conns, Asks(c)
  PROVE  HostStarts'
  <1>0. ASSUME NEW m, ThrownOut(m) PROVE ThrownOut(m)'
    BY <1>0, Handled, ThrownStays
  <1>1. SUFFICES ASSUME NEW d \in Conns, task'[d].op = "start", NEW r, r = task'[d].name
                 PROVE  /\ First(seats'[r], clientId'[d])
                        /\ rooms'[r].inGame => ThrownOut(rooms[r].matchId)'
                        /\ \A x \in Conns : \A e \in Pending(x)' :
                             e.msg.is = "GAME_END" /\ e.msg.room = r
                               => ThrownOut(e.msg.match)'
    BY DEF HostStarts
  <1>2. CASE d = c
    <2>1. StartGame(c, r) /\ r \in RoomNames
      BY <1>1, <1>2, OnlyHostsStart
    <2>2. /\ seats' = seats /\ clientId' = clientId /\ rooms' = rooms
          /\ \A x \in Conns : Pending(x)' = Pending(x)
      BY <2>1 DEF StartGame, LookUpRoom, sessionVars, Pending
    <2>3. /\ First(seats[r], clientId[c])
          /\ rooms[r].inGame => ThrownOut(rooms[r].matchId)
          /\ \A x \in Conns : \A e \in Pending(x) :
               e.msg.is = "GAME_END" /\ e.msg.room = r => ThrownOut(e.msg.match)
      BY <2>1, HostStartsNext DEF Asks
    <2>4. rooms[r].inGame => ThrownOut(rooms[r].matchId)'
      <3>1. PICK m : m = rooms[r].matchId
        OBVIOUS
      <3>2. rooms[r].inGame => ThrownOut(m)'
        BY <1>0, <2>3, <3>1
      <3>3. m = rooms'[r].matchId
        BY <2>2, <3>1
      <3>4. QED BY <3>2, <3>3
    <2>5. QED BY <1>0, <1>2, <2>2, <2>3, <2>4
  <1>3. CASE d # c
    <2>1. task'[d] = task[d] /\ clientId'[d] = clientId[d] /\ task[d] \in Task
      BY <1>3, Handled DEF RoomsInv, TypeOK
    <2>2. r \in RoomNames /\ task[d].op = "start" /\ r = task[d].name
      BY <1>1, <2>1, TaskFields
    <2>3. PICK w : w = clientId[d] /\ w = clientId'[d]
      BY <2>1
    <2>4. w \in Members(r)' /\ w \in Members(r) /\ w \in Users
      <3>1. w \in Members(r)
        BY <2>2, <2>3, Handled DEF SpeakInv, WorksOnOwnMatch
      <3>2. w \in Members(r)'
        BY <1>1, <2>1, <2>3, Handled DEF SpeakInv, WorksOnOwnMatch
      <3>3. QED BY <2>2, <3>1, <3>2, MemberSession DEF CoreInv
    <2>5. /\ First(seats[r], w)
          /\ rooms[r].inGame => ThrownOut(rooms[r].matchId)
          /\ \A x \in Conns : \A e \in Pending(x) :
               e.msg.is = "GAME_END" /\ e.msg.room = r => ThrownOut(e.msg.match)
      BY <2>2, <2>3 DEF OrderInv, HostStarts
    <2>6. First(seats'[r], w)
      <3>1. SeatMove(c, r)
        BY <2>2, Handled, SeatsMove DEF Asks
      <3>2. QED BY <2>2, <2>4, <2>5, <3>1, Handled, SeatsOrder
    <2>7. ASSUME rooms'[r].inGame PROVE ThrownOut(rooms[r].matchId)'
      <3>1. PICK m : m = rooms'[r].matchId
        OBVIOUS
      <3>2. ~Begun(c, r, m)
        <4>1. SUFFICES ASSUME Begun(c, r, m) PROVE FALSE
          OBVIOUS
        <4>2. First(seats[r], clientId[c])
          BY <4>1 DEF Begun, OrderInv, HostStarts
        <4>3. clientId[c] \in Members(r)
          BY <4>1 DEF Begun, CoreInv, SpeakInv, WorksOnOwnMatch
        <4>4. clientId[c] \in Users /\ clientsMap[clientId[c]] = c /\ clientsMap[w] = d
          <5>1. RoomsInv
            BY DEF CoreInv
          <5>2. clientId[c] \in Users /\ clientsMap[clientId[c]] = c
            BY <2>2, <4>3, <5>1, MemberSession
          <5>3. clientsMap[w] = d
            BY <2>2, <2>3, <2>4, <5>1, MemberSession
          <5>4. QED BY <5>2, <5>3
        <4>5. clientId[c] = w
          BY <2>2, <2>4, <2>5, <4>2, <4>4, Handled, FirstIsOne
        <4>6. QED BY <1>3, <4>4, <4>5
      <3>3. rooms[r].inGame /\ rooms[r].matchId = m
        BY <2>2, <2>7, <3>1, <3>2, PlayedAsked DEF GoesOn
      <3>4. ThrownOut(m)'
        BY <1>0, <2>5, <3>3
      <3>5. QED BY <3>1, <3>4
    <2>8. ASSUME NEW x \in Conns, NEW e \in Pending(x)', e.msg.is = "GAME_END",
                 e.msg.room = r
          PROVE  ThrownOut(e.msg.match)'
      <3>1. CASE x = c
        <4>1. Ended(c, r, e.msg.match, e)
          BY <2>8, <3>1, NewEnd
        <4>2. ThrownOut(e.msg.match)
          BY <2>5, <4>1 DEF Ended, Playing
        <4>3. QED BY <1>0, <4>2
      <3>2. CASE x # c
        BY <1>0, <2>5, <2>8, <3>2, Handled
      <3>3. QED BY <3>1, <3>2
    <2>9. QED BY <2>3, <2>6, <2>7, <2>8
  <1>4. QED BY <1>2, <1>3

\* A match that ends has been shown to everybody who sits before its last
\* player, and no later match of the room is spoken of.
LEMMA EndIsInOrder ==
  ASSUME CoreInv, OrderInv, NEW c \in Conns, Asks(c), NEW r \in RoomNames,
         NEW m \in Matches, NEW e \in Pending(c)', Ended(c, r, m, e), ~ThrownOut(m)
  PROVE  /\ \A d \in Conns, msg \in Messages : Said(d, msg)' /\ msg.room = r => msg.match <= m
         /\ \A v \in Members(r) : Waits(v, e.msg)'
  <1>0. /\ Playing(r, m) /\ e.msg.room = r /\ e.msg.match = m /\ Pending(c)' = {e}
        /\ clientId[c] \in Members(r) /\ AllReady(r, clientId[c])
        /\ Members(r)' = Members(r)
    BY DEF Ended
  <1>1. ASSUME NEW d \in Conns, NEW msg \in Messages, Said(d, msg)', msg.room = r
        PROVE  msg.match <= m
    <2>1. Said(d, msg) \/ msg = e.msg
      BY <1>0, <1>1, AskedSays
    <2>2. Said(d, msg) => msg.match <= m
      BY <1>0, <1>1 DEF OrderInv, NewestIsPlayed, Playing
    <2>3. m <= m
      BY DEF Matches
    <2>4. QED BY <1>0, <2>1, <2>2, <2>3
  <1>2. ASSUME NEW v \in Members(r) PROVE Waits(v, e.msg)'
    <2>1. Shows(v, r, m)
      <3>1. ASSUME NEW d \in Conns, Tell(v, Start(r, m)) \in Pending(d) PROVE FALSE
        <4>1. PICK f : f = Tell(v, Start(r, m))
          OBVIOUS
        <4>2. f.msg.is # "GAME_END" /\ f.msg.room = r /\ f.msg.match = m
          BY <4>1 DEF Tell, Start, Message
        <4>3. clientId[d] \in Members(r) \ ready[r]
          BY <3>1, <4>1, <4>2 DEF CoreInv, SpeakInv, SpeaksOfOwnMatch, Plays
        <4>4. clientId[d] = clientId[c]
          BY <1>0, <4>3 DEF AllReady
        <4>5. d = c
          BY <1>0, <4>4, MemberSession DEF CoreInv
        <4>6. QED BY <3>1, <4>5, Handled
      <3>2. QED BY <1>0, <3>1 DEF OrderInv, PlayersAreStarted, Shows
    <2>2. Shows(v, r, m)'
      BY <1>0, <2>1, AskedShows
    <2>3. ASSUME NEW d \in Conns, NEW f \in Pending(d)', f.msg.is = "GAME_END", v \in f.users
          PROVE  f.msg = e.msg \/ f.msg.match < m
      <3>1. CASE d = c
        BY <1>0, <2>3, <3>1
      <3>2. CASE d # c
        <4>1. f \in Pending(d)
          BY <2>3, <3>2, Handled
        <4>2. QED BY <1>0, <2>3, <4>1 DEF OrderInv, LateEndIsOld, Playing
      <3>3. QED BY <3>1, <3>2
    <2>4. QED BY <1>0, <2>2, <2>3 DEF Shows, Waits
  <1>3. QED BY <1>1, <1>2

\* What holds until an end has been told survives the handlers of others.
LEMMA EndStaysInOrder ==
  ASSUME CoreInv, OrderInv, NEW c \in Conns, Asks(c), NEW d \in Conns, d # c,
         NEW e \in Pending(d), e.msg.is = "GAME_END", ~ThrownOut(e.msg.match),
         NEW r \in RoomNames, r = e.msg.room
  PROVE  /\ ~rooms'[r].inGame
         /\ \A x \in Conns, msg \in Messages :
              Said(x, msg)' /\ msg.room = r => msg.match <= e.msg.match
         /\ \A v \in Users : Before(seats'[r], v, clientId[d]) => Waits(v, e.msg)'
  <1>0. /\ ~rooms[r].inGame
        /\ \A x \in Conns : \A msg \in Messages :
             Said(x, msg) /\ msg.room = r => msg.match <= e.msg.match
        /\ \A v \in Users : Before(seats[r], v, clientId[d]) => Waits(v, e.msg)
    BY DEF OrderInv, EndComesBeforeStart
  <1>1. ~rooms'[r].inGame
    <2>1. ASSUME NEW m, Begun(c, r, m) PROVE FALSE
      BY <2>1 DEF Begun, OrderInv, HostStarts
    <2>2. QED BY <1>0, <2>1, PlayedAsked DEF GoesOn
  <1>2. ASSUME NEW f \in Pending(c)' PROVE f.msg.room # r
    <2>1. CASE f.msg.is = "GAME_END"
      BY <1>0, <2>1, NewEnd DEF Ended, Playing
    <2>2. CASE f.msg.is # "GAME_END"
      <3>1. Plays(c, f.msg.room, f.msg.match)'
        BY <2>2, Handled DEF SpeakInv, SpeaksOfOwnMatch
      <3>2. QED BY <1>1, <3>1 DEF Plays, Playing
    <2>3. QED BY <2>1, <2>2
  <1>3. ASSUME NEW x \in Conns, NEW msg \in Messages, Said(x, msg)', msg.room = r
        PROVE  msg.match <= e.msg.match
    BY <1>0, <1>2, <1>3, AskedSays
  <1>4. ASSUME NEW v \in Users, Before(seats'[r], v, clientId[d]) PROVE Waits(v, e.msg)'
    <2>1. clientId[d] \in Members(r) /\ clientId[d] \in Users
      BY SpeakerIsMember
    <2>2. SeatMove(c, r)
      BY Handled, SeatsMove DEF Asks
    <2>3. Before(seats[r], v, clientId[d])
      BY <1>4, <2>1, <2>2, Handled, SeatsOrder
    <2>4. Waits(v, e.msg)
      BY <1>0, <2>3
    <2>5. v \in Members(r)'
      <3>1. PICK q \in Seq(Users) : q = seats'[r] /\ ToSet(q) = Members(r)'
        BY <2>2, Handled, SeatsOrder
      <3>2. DOMAIN q = 1..Len(q)
        BY LenProperties
      <3>3. QED BY <1>4, <3>1, <3>2 DEF Before, ToSet
    <2>6. PICK m : m = e.msg.match /\ Start(r, m) = Start(e.msg.room, e.msg.match)
      OBVIOUS
    <2>7. Shows(v, r, m)'
      BY <2>4, <2>5, <2>6, AskedShows DEF Waits, Shows
    <2>8. ASSUME NEW x \in Conns, NEW f \in Pending(x)', f.msg.is = "GAME_END", v \in f.users
          PROVE  f.msg = e.msg \/ f.msg.match < e.msg.match
      <3>1. CASE x = c
        <4>1. PICK s \in RoomNames : s = f.msg.room /\ Ended(c, s, f.msg.match, f)
          BY <2>8, <3>1, NewEnd
        <4>2. v \in Members(s)'
          BY <2>8, <4>1 DEF Ended
        <4>3. s = r
          BY <2>5, <4>2, Handled DEF RoomsInv, Roster, Membership
        <4>4. QED BY <1>2, <2>8, <3>1, <4>1, <4>3
      <3>2. CASE x # c
        BY <2>4, <2>8, <3>2, Handled DEF Waits
      <3>3. QED BY <3>1, <3>2
    <2>9. QED BY <2>6, <2>7, <2>8 DEF Shows, Waits
  <1>5. QED BY <1>1, <1>3, <1>4

LEMMA EndAsked ==
  ASSUME CoreInv, OrderInv, NEW c \in Conns, Asks(c)
  PROVE  EndComesBeforeStart'
  <1>1. SUFFICES ASSUME NEW d \in Conns, NEW e \in Pending(d)', e.msg.is = "GAME_END",
                        ~ThrownOut(e.msg.match)'
                 PROVE  /\ ~rooms'[e.msg.room].inGame
                        /\ \A x \in Conns : \A msg \in Messages :
                             Said(x, msg)' /\ msg.room = e.msg.room
                               => msg.match <= e.msg.match
                        /\ \A v \in Users :
                             Before(seats'[e.msg.room], v, clientId'[d]) => Waits(v, e.msg)'
    BY DEF EndComesBeforeStart
  <1>2. PICK m : m = e.msg.match
    OBVIOUS
  <1>3. ~ThrownOut(m)
    BY <1>1, <1>2, Handled, ThrownStays
  <1>4. CASE d = c
    <2>1. PICK r \in RoomNames : r = e.msg.room /\ m \in Matches /\ Ended(c, r, m, e)
      BY <1>1, <1>2, <1>4, NewEnd
    <2>2. /\ \A x \in Conns, msg \in Messages : Said(x, msg)' /\ msg.room = r => msg.match <= m
          /\ \A v \in Members(r) : Waits(v, e.msg)'
      BY <1>1, <1>3, <1>4, <2>1, EndIsInOrder
    <2>3. ~rooms'[r].inGame /\ seats' = seats
      BY <2>1 DEF Ended
    <2>4. PICK q \in Seq(Users) : q = seats[r] /\ ToSet(q) = Members(r)
      BY Handled DEF QueueInv, MessagesTypeOK, SeatsAreMembers
    <2>5. DOMAIN q = 1..Len(q)
      BY LenProperties
    <2>6. PICK w : w = clientId'[c]
      OBVIOUS
    <2>7. \A v \in Users : Before(q, v, w) => v \in Members(r)
      BY <2>4, <2>5 DEF Before, ToSet
    <2>8. QED BY <1>2, <1>4, <2>1, <2>2, <2>3, <2>4, <2>6, <2>7
  <1>5. CASE d # c
    <2>1. e \in Pending(d) /\ clientId'[d] = clientId[d]
      BY <1>1, <1>5, Handled
    <2>2. PICK r \in RoomNames : r = e.msg.room
      BY <2>1, SpeakerIsMember
    <2>3. QED BY <1>1, <1>2, <1>3, <1>5, <2>1, <2>2, EndStaysInOrder
  <1>6. QED BY <1>4, <1>5

LEMMA SilentAsked ==
  ASSUME CoreInv, OrderInv, NEW c \in Conns, Asks(c)
  PROVE  OldMatchIsSilent'
  BY DEF Asks, OrderInv, OldMatchIsSilent, After, ThrownOut

LEMMA OrderAsked ==
  ASSUME CoreInv, OrderInv, NEW c \in Conns, Asks(c)
  PROVE  OrderInv'
  BY NewestAsked, LateEndAsked, PlayersAsked, HostTellsAsked, HostStartsAsked, EndAsked,
     SilentAsked DEF OrderInv

-----------------------------------------------------------------------------
(* The steps of sending *)

\* Sending leaves the rooms, the sessions and the other queues as they are, and
\* a start or an end that is still to be sent has been there before.
LEMMA Sent ==
  ASSUME CoreInv, NEW c \in Conns, SendStep(c)
  PROVE  /\ RoomsInv /\ QueueInv /\ SpeakInv /\ MessagesTypeOK
         /\ UNCHANGED <<rooms, clientId, clientsMap, task, nextMatchId, seats>>
         /\ Grows
         /\ \A d \in Conns : d # c => Pending(d)' = Pending(d)
         /\ \A d \in Conns : \A f \in Pending(d)' :
              f.msg.is \in {"GAME_START", "GAME_END"} => f \in Pending(d)
  <1>1. /\ RoomsInv /\ QueueInv /\ SpeakInv /\ MessagesTypeOK
        /\ UNCHANGED <<rooms, clientId, clientsMap, task, nextMatchId, seats>>
    BY DEF CoreInv, QueueInv, SendStep, vars
  <1>2. Grows
    BY InboxGrows
  <1>3. \A d \in Conns : d # c => Pending(d)' = Pending(d)
    <2>1. \A d \in Conns : d # c => outbox'[d] = outbox[d]
      BY <1>1, SendMoves DEF Delivers, Expands, MessagesTypeOK
    <2>2. QED BY <2>1 DEF Pending
  <1>4. ASSUME NEW d \in Conns, NEW f \in Pending(d)', f.msg.is \in {"GAME_START", "GAME_END"}
        PROVE  f \in Pending(d)
    <2>1. ASSUME NEW e \in Pending(c), e.does = "broadcast", f.msg = e.msg PROVE FALSE
      <3>1. e.does # "tell"
        BY <2>1
      <3>2. e.msg.is \notin {"GAME_START", "GAME_END"}
        BY <1>1, <3>1 DEF SpeakInv, SpeaksOfOwnMatch
      <3>3. QED BY <1>4, <2>1, <3>2
    <2>2. QED BY <1>1, <1>4, <2>1, SentEntries
  <1>5. QED BY <1>1, <1>2, <1>3, <1>4

\* What is said after sending has been said before.
LEMMA SentSays ==
  ASSUME CoreInv, NEW c \in Conns, SendStep(c), NEW d \in Conns, NEW msg, Said(d, msg)'
  PROVE  \E x \in Conns : Said(x, msg)
  <1>1. Said(d, msg) \/ \E e \in Pending(c) : e.msg = msg
    BY NothingNewSaid DEF CoreInv
  <1>2. QED BY <1>1 DEF Said

\* The head of a queue is on it.
LEMMA HeadIsPending ==
  ASSUME MessagesTypeOK, NEW c \in Conns, outbox[c] # <<>>
  PROVE  Head(outbox[c]) \in Pending(c)
  <1>1. PICK q \in Seq(Entries) : q = outbox[c] /\ q # <<>>
    BY DEF MessagesTypeOK
  <1>2. QED BY <1>1, QueueTail DEF Pending

\* The start that a thread has still to tell is delivered or stays on its queue.
LEMMA StartIsTold ==
  ASSUME CoreInv, NEW c \in Conns, SendStep(c), NEW u \in Users, clientsMap[u] \in Conns,
         NEW r \in RoomNames, NEW m \in Matches, Tell(u, Start(r, m)) \in Pending(c)
  PROVE  Tell(u, Start(r, m)) \in Pending(c)' \/ Shows(u, r, m)'
  <1>1. PICK e \in Entries : e = Head(outbox[c]) /\ (Delivers(c, e) \/ Expands(c, e))
    BY SendMoves DEF CoreInv
  <1>2. /\ RoomsInv /\ QueueInv /\ MessagesTypeOK /\ outbox[c] # <<>>
        /\ clientsMap' = clientsMap
    BY Sent DEF SendStep
  <1>3. PICK msg \in Messages : msg = Start(r, m)
    BY NewMessages DEF Start, Kinds
  <1>4. PICK t \in Entries :
           /\ t = Tell(u, msg) /\ t.does = "tell" /\ t.users = {u} /\ t.msg = msg
    <2>1. PICK t : t = Tell(u, msg)
      OBVIOUS
    <2>2. t \in Entries
      BY <2>1, NewEntries
    <2>3. t.does = "tell" /\ t.users = {u} /\ t.msg = msg
      BY <2>1 DEF Tell
    <2>4. QED BY <2>1, <2>2, <2>3
  <1>5. t \in Pending(c) /\ msg.is = "GAME_START"
    BY <1>3, <1>4 DEF Start, Message
  <1>6. CASE Expands(c, e)
    <2>1. PICK l \in 1..Len(outbox[c]) : t = outbox[c][l]
      BY <1>5 DEF Pending
    <2>2. PICK n : n = Len(seats[e.msg.room])
      OBVIOUS
    <2>3. e.does = "broadcast" /\ outbox[c][1] = e
      BY <1>1, <1>2, <1>6, <2>2, ExpandedQueue DEF Expands
    <2>4. l # 1
      BY <1>4, <2>1, <2>3
    <2>5. t \in Pending(c)'
      BY <1>1, <1>2, <1>6, <2>1, <2>2, <2>4, ExpandedQueue
    <2>6. QED BY <1>3, <1>4, <2>5
  <1>7. CASE Delivers(c, e) /\ t # e
    BY <1>1, <1>2, <1>3, <1>4, <1>5, <1>7, DeliveredQueue
  <1>8. CASE Delivers(c, e) /\ t = e
    <2>1. PICK d \in Conns : d = clientsMap[u] /\ d = clientsMap'[u]
      BY <1>2
    <2>2. Reaches(e, d)
      BY <1>4, <1>8, <2>1 DEF Reaches
    <2>3. screen'[d] = "loading"
      BY <1>4, <1>5, <1>8, <2>2 DEF Delivers
    <2>4. PICK p \in Seq(Messages) : p = inbox[d]
      BY <1>2 DEF MessagesTypeOK
    <2>5. inbox'[d] = Append(p, msg)
      BY <1>4, <1>8, <2>2, <2>4 DEF Delivers
    <2>6. /\ Len(p) \in Nat /\ Len(Append(p, msg)) = Len(p) + 1
          /\ Append(p, msg)[Len(p) + 1] = msg
      BY <2>4, AppendProperties, LenProperties
    <2>7. Len(p) + 1 \in 1..Len(p) + 1
      BY <2>6
    <2>8. msg \in Received(d)'
      BY <2>5, <2>6, <2>7 DEF Received
    <2>9. QED BY <1>3, <2>1, <2>3, <2>8 DEF Shows
  <1>9. QED BY <1>1, <1>6, <1>7, <1>8

LEMMA PlayersSent ==
  ASSUME CoreInv, OrderInv, NEW c \in Conns, SendStep(c)
  PROVE  PlayersAreStarted'
  <1>1. SUFFICES ASSUME NEW r \in RoomNames, NEW m \in Matches, Playing(r, m),
                        NEW u \in Members(r)
                 PROVE  \/ ThrownOut(m)'
                        \/ \E d \in Conns : Tell(u, Start(r, m)) \in Pending(d)'
                        \/ Shows(u, r, m)'
    BY Sent DEF PlayersAreStarted, Shows, Playing, Members
  <1>2. \/ ThrownOut(m)
        \/ \E d \in Conns : Tell(u, Start(r, m)) \in Pending(d)
        \/ Shows(u, r, m)
    BY <1>1 DEF OrderInv, PlayersAreStarted, Shows
  <1>3. CASE ThrownOut(m)
    BY <1>3, Sent, ThrownStays
  <1>4. ASSUME NEW d \in Conns, Tell(u, Start(r, m)) \in Pending(d)
        PROVE  Tell(u, Start(r, m)) \in Pending(d)' \/ Shows(u, r, m)'
    <2>1. CASE d # c
      BY <1>4, <2>1, Sent
    <2>2. CASE d = c
      <3>1. u \in Users /\ clientsMap[u] \in Conns
        BY MemberSession DEF CoreInv
      <3>2. QED BY <1>4, <2>2, <3>1, StartIsTold
    <2>3. QED BY <2>1, <2>2
  <1>5. CASE Shows(u, r, m)
    <2>1. PICK e \in Entries : e = Head(outbox[c]) /\ (Delivers(c, e) \/ Expands(c, e))
      BY SendMoves DEF CoreInv
    <2>2. e \in Pending(c)
      BY <2>1, Sent, HeadIsPending DEF SendStep
    <2>3. e.msg.is = "GAME_END" /\ u \in e.users => e.msg.match < m
      BY <1>1, <2>2 DEF OrderInv, LateEndIsOld, Playing
    <2>4. QED BY <1>5, <2>1, <2>3, SentShows
  <1>6. QED BY <1>2, <1>3, <1>4, <1>5

LEMMA EndSent ==
  ASSUME CoreInv, OrderInv, OnceInv, NEW c \in Conns, SendStep(c)
  PROVE  EndComesBeforeStart'
  <1>1. SUFFICES ASSUME NEW d \in Conns, NEW e \in Pending(d)', e.msg.is = "GAME_END",
                        ~ThrownOut(e.msg.match)'
                 PROVE  /\ ~rooms[e.msg.room].inGame
                        /\ \A x \in Conns : \A msg \in Messages :
                             Said(x, msg)' /\ msg.room = e.msg.room
                               => msg.match <= e.msg.match
                        /\ \A v \in Users :
                             Before(seats[e.msg.room], v, clientId[d]) => Waits(v, e.msg)'
    BY Sent DEF EndComesBeforeStart
  <1>2. e \in Pending(d)
    BY <1>1, Sent
  <1>3. PICK r \in RoomNames, m \in Matches : r = e.msg.room /\ m = e.msg.match
    BY <1>2, SpeakerIsMember
  <1>4. ~ThrownOut(m)
    BY <1>1, <1>3, Sent, ThrownStays
  <1>5. /\ ~rooms[r].inGame
        /\ \A x \in Conns : \A msg \in Messages :
             Said(x, msg) /\ msg.room = r => msg.match <= m
        /\ \A v \in Users : Before(seats[r], v, clientId[d]) => Waits(v, e.msg)
    BY <1>1, <1>2, <1>3, <1>4 DEF OrderInv, EndComesBeforeStart
  <1>6. PICK f \in Entries : /\ f = Head(outbox[c]) /\ f \in Pending(c)
                             /\ Delivers(c, f) \/ Expands(c, f)
    BY SendMoves, Sent, HeadIsPending DEF SendStep
  <1>7. d # c
    <2>1. SUFFICES ASSUME d = c PROVE FALSE
      OBVIOUS
    <2>2. Len(outbox[c]) = 1 /\ e.does = "tell"
      BY <1>1, <1>2, <2>1 DEF CoreInv, SpeakInv, SpeaksOfOwnMatch
    <2>3. CASE Delivers(c, f)
      <3>1. Len(outbox'[c]) = 0
        BY <1>6, <2>2, <2>3, Sent, DeliveredQueue DEF SendStep
      <3>2. QED BY <1>1, <2>1, <3>1 DEF Pending
    <2>4. CASE Expands(c, f)
      <3>1. PICK n : n = Len(seats[f.msg.room])
        OBVIOUS
      <3>2. outbox[c][1] = f
        BY <1>6, <2>4, <3>1, Sent, ExpandedQueue DEF SendStep
      <3>3. e = f
        BY <1>2, <2>1, <2>2, <3>2 DEF Pending
      <3>4. QED BY <2>2, <2>4, <3>3 DEF Expands
    <2>5. QED BY <1>6, <2>3, <2>4
  <1>8. ASSUME NEW v \in Users, Before(seats[r], v, clientId[d]) PROVE Waits(v, e.msg)'
    <2>1. Waits(v, e.msg) /\ v \in Members(r)
      <3>1. clientId[d] \in Users
        BY <1>2, SpeakerIsMember
      <3>2. QED BY <1>5, <1>8, <3>1, Sent, SeatedAreMembers
    <2>2. Shows(v, r, m)
      BY <1>3, <2>1 DEF Waits, Shows
    <2>3. f.msg.is = "GAME_END" /\ v \in f.users => f.msg.match < m
      <3>1. f.msg # e.msg
        BY <1>1, <1>2, <1>6, <1>7 DEF OnceInv, SaidByOne
      <3>2. QED BY <1>3, <1>6, <2>1, <3>1 DEF Waits
    <2>4. Shows(v, r, m)'
      BY <1>1, <1>3, <1>6, <2>1, <2>2, <2>3, SentShows
    <2>5. \A x \in Conns : \A g \in Pending(x)' :
             g.msg.is = "GAME_END" /\ v \in g.users => g.msg = e.msg \/ g.msg.match < m
      BY <1>3, <2>1, Sent DEF Waits
    <2>6. QED BY <1>3, <2>4, <2>5 DEF Shows, Waits
  <1>9. QED BY <1>3, <1>5, <1>8, SentSays

LEMMA SameMessage ==
  ASSUME NEW a \in Messages, NEW b \in Messages, a.is = b.is, a.room = b.room,
         a.match = b.match
  PROVE  a = b
  <1>1. /\ a = [is |-> a.is, room |-> a.room, match |-> a.match]
        /\ b = [is |-> b.is, room |-> b.room, match |-> b.match]
    BY DEF Messages
  <1>2. QED BY <1>1

\* Nobody is sent a message of a room about a match that is over for him.
LEMMA SilentSent ==
  ASSUME CoreInv, OrderInv, OnceInv, NEW c \in Conns, SendStep(c)
  PROVE  OldMatchIsSilent'
  <1>1. SUFFICES ASSUME NEW d \in Conns,
                        NEW i \in 1..Len(inbox'[d]), NEW j \in 1..Len(inbox'[d]),
                        After(d, i, j)', NEW a, a = inbox'[d][i], NEW b, b = inbox'[d][j],
                        a.room = b.room
                 PROVE  \/ b.match > a.match
                        \/ b.match = a.match /\ a.is # "GAME_END"
                        \/ /\ b.match < a.match
                           /\ b.is = "GAME_END" /\ ThrownOut(b.match)'
    BY DEF OldMatchIsSilent
  <1>2. ASSUME NEW m, ThrownOut(m) PROVE ThrownOut(m)'
    BY <1>2, Sent, ThrownStays
  <1>3. i + 1 <= j /\ Len(inbox'[d]) \in Nat
    BY <1>1, Sent DEF After, Grows
  <1>4. PICK p \in Seq(Messages) : p = inbox[d]
    BY Sent DEF MessagesTypeOK
  <1>5. Len(p) \in Nat /\ \A k \in 1..Len(p) : inbox'[d][k] = p[k] /\ p[k] \in Received(d)
    BY <1>4, LenProperties, Sent DEF Grows, Received
  <1>6. CASE j \in 1..Len(p)
    <2>1. i \in 1..Len(p)
      BY <1>3, <1>5, <1>6
    <2>2. a = inbox[d][i] /\ b = inbox[d][j] /\ After(d, i, j)
      BY <1>1, <1>3, <1>4, <1>5, <1>6, <2>1 DEF After
    <2>3. \/ b.match > a.match
          \/ b.match = a.match /\ a.is # "GAME_END"
          \/ /\ b.match < a.match
             /\ b.is = "GAME_END" /\ ThrownOut(b.match)
      BY <1>1, <1>4, <1>6, <2>1, <2>2 DEF OrderInv, OldMatchIsSilent
    <2>4. QED BY <1>2, <2>3
  <1>7. CASE j \notin 1..Len(p)
    <2>1. PICK e \in Entries : /\ e = Head(outbox[c]) /\ e \in Pending(c)
                               /\ Delivers(c, e) \/ Expands(c, e)
      BY SendMoves, Sent, HeadIsPending DEF SendStep
    <2>2. inbox'[d] # p
      BY <1>1, <1>7
    <2>3. Delivers(c, e) /\ Reaches(e, d)
      BY <1>4, <2>1, <2>2 DEF Delivers, Expands
    <2>4. e.msg \in Messages /\ inbox'[d] = Append(p, e.msg)
      BY <1>4, <2>3, KindsDiffer DEF Delivers
    <2>5. Len(inbox'[d]) = Len(p) + 1 /\ inbox'[d][Len(p) + 1] = e.msg
      BY <2>4, AppendProperties
    <2>6. j = Len(p) + 1 /\ i \in 1..Len(p)
      BY <1>3, <1>5, <1>7, <2>5
    <2>7. b = e.msg /\ a \in Received(d)
      BY <1>1, <1>5, <2>5, <2>6
    <2>8. a \in Messages /\ b \in Messages /\ Said(d, a) /\ Said(c, b)
      BY <2>1, <2>7, Sent, PendingType
    <2>9. PICK r \in RoomNames : r = a.room /\ r = b.room
      BY <1>1, <2>8, MessageParts
    <2>10. PICK m \in Matches, n \in Matches : m = a.match /\ n = b.match
      BY <2>8, MessageParts
    <2>11. m \in Int /\ n \in Int /\ nextMatchId \in Nat
      BY Sent DEF Matches, RoomsInv, TypeOK
    <2>12. CASE b.is # "GAME_END"
      <3>1. Playing(r, n)
        BY <2>1, <2>7, <2>9, <2>10, <2>12 DEF CoreInv, SpeakInv, SpeaksOfOwnMatch, Plays
      <3>2. m <= n
        BY <2>8, <2>9, <2>10, <3>1 DEF OrderInv, NewestIsPlayed, Playing
      <3>3. a.is = "GAME_END" => m # n
        BY <2>8, <2>9, <2>10, <3>1 DEF CoreInv, SpeakInv, SaidIsTrue
      <3>4. QED BY <2>10, <2>11, <3>2, <3>3
    <2>13. CASE b.is = "GAME_END"
      <3>1. a.is = "GAME_END" => m # n
        <4>1. SUFFICES ASSUME a.is = "GAME_END", m = n PROVE FALSE
          OBVIOUS
        <4>2. a = b
          BY <2>8, <2>9, <2>10, <2>13, <4>1, SameMessage
        <4>3. e.msg \in Received(d) /\ e.msg.is # "PLAYER_DEAD"
          BY <2>7, <2>13, <4>2
        <4>4. QED BY <2>1, <2>3, <4>3 DEF OnceInv, NotSaidAgain
      <3>2. ThrownOut(n) \/ m <= n
        BY <2>1, <2>7, <2>8, <2>9, <2>10, <2>13 DEF OrderInv, EndComesBeforeStart
      <3>3. n > m \/ n = m \/ n < m
        BY <2>11
      <3>4. ThrownOut(n) => ThrownOut(b.match)'
        BY <1>2, <2>10
      <3>5. m <= n => n > m \/ n = m
        BY <2>11
      <3>6. QED BY <2>10, <2>13, <3>1, <3>2, <3>3, <3>4, <3>5
    <2>14. QED BY <2>12, <2>13
  <1>8. QED BY <1>6, <1>7

LEMMA OrderSent ==
  ASSUME CoreInv, OrderInv, OnceInv, NEW c \in Conns, SendStep(c)
  PROVE  OrderInv'
  <1>1. NewestIsPlayed'
    <2>1. ASSUME NEW r \in RoomNames, rooms[r].inGame, NEW d \in Conns,
                 NEW msg \in Messages, Said(d, msg)', msg.room = r
          PROVE  msg.match <= rooms[r].matchId
      BY <2>1, SentSays DEF OrderInv, NewestIsPlayed
    <2>2. QED BY <2>1, Sent DEF NewestIsPlayed
  <1>2. LateEndIsOld'
    BY Sent DEF OrderInv, LateEndIsOld, Members
  <1>3. HostTellsStart'
    BY Sent DEF OrderInv, HostTellsStart
  <1>4. HostStarts'
    <2>1. ASSUME NEW m, ThrownOut(m) PROVE ThrownOut(m)'
      BY <2>1, Sent, ThrownStays
    <2>2. SUFFICES ASSUME NEW d \in Conns, task[d].op = "start", NEW r, r = task[d].name
                   PROVE  /\ First(seats[r], clientId[d])
                          /\ rooms[r].inGame => ThrownOut(rooms[r].matchId)'
                          /\ \A x \in Conns : \A e \in Pending(x)' :
                               e.msg.is = "GAME_END" /\ e.msg.room = r
                                 => ThrownOut(e.msg.match)'
      BY Sent DEF HostStarts
    <2>3. /\ First(seats[r], clientId[d])
          /\ rooms[r].inGame => ThrownOut(rooms[r].matchId)
          /\ \A x \in Conns : \A e \in Pending(x) :
               e.msg.is = "GAME_END" /\ e.msg.room = r => ThrownOut(e.msg.match)
      BY <2>2 DEF OrderInv, HostStarts
    <2>4. PICK m : m = rooms[r].matchId /\ m = rooms'[r].matchId
      BY Sent
    <2>5. rooms[r].inGame => ThrownOut(rooms[r].matchId)'
      BY <2>1, <2>3, <2>4
    <2>6. QED BY <2>1, <2>3, <2>5, Sent
  <1>5. QED BY <1>1, <1>2, <1>3, <1>4, PlayersSent, EndSent, SilentSent DEF OrderInv

-----------------------------------------------------------------------------
(* A match is over when it is over *)

LEMMA OrderMapped ==
  ASSUME CoreInv, OrderInv, NEW c \in Conns, GetMap(c)
  PROVE  OrderInv'
  <1>1. UNCHANGED <<vars, seats, outbox, inbox>>
    BY DEF GetMap
  <1>2. \A d \in Conns : screen[d] # "room" => screen'[d] # "room"
    BY DEF GetMap, CoreInv, QueueInv, MessagesTypeOK
  <1>3. \A m : ThrownOut(m)' <=> ThrownOut(m)
    BY <1>1 DEF ThrownOut, After
  <1>4. NewestIsPlayed' /\ LateEndIsOld' /\ HostTellsStart' /\ HostStarts'
    BY <1>1, <1>3 DEF OrderInv, NewestIsPlayed, LateEndIsOld, HostTellsStart, HostStarts, Said,
                      Received, Pending, Members, vars
  <1>5. OldMatchIsSilent'
    BY <1>1, <1>3 DEF OrderInv, OldMatchIsSilent, After
  <1>6. ASSUME NEW r \in RoomNames, NEW u \in Members(r), NEW s, NEW m, Shows(u, s, m)
        PROVE  Shows(u, s, m)'
    BY <1>1, <1>2, <1>6, MemberSession DEF Shows, Received, CoreInv, vars
  <1>7. PlayersAreStarted'
    <2>1. ASSUME NEW r \in RoomNames, NEW m \in Matches, Playing(r, m), NEW u \in Members(r)
          PROVE  \/ ThrownOut(m)'
                 \/ \E d \in Conns : Tell(u, Start(r, m)) \in Pending(d)'
                 \/ Shows(u, r, m)'
      <3>1. \/ ThrownOut(m)
            \/ \E d \in Conns : Tell(u, Start(r, m)) \in Pending(d)
            \/ Shows(u, r, m)
        BY <2>1 DEF OrderInv, PlayersAreStarted, Shows
      <3>2. \A d \in Conns : Pending(d)' = Pending(d)
        BY <1>1 DEF Pending
      <3>3. QED BY <1>3, <1>6, <3>1, <3>2
    <2>2. QED BY <1>1, <2>1 DEF PlayersAreStarted, Shows, Playing, Members, vars
  <1>8. EndComesBeforeStart'
    <2>1. SUFFICES ASSUME NEW d \in Conns, NEW e \in Pending(d), e.msg.is = "GAME_END",
                          ~ThrownOut(e.msg.match)
                   PROVE  /\ ~rooms[e.msg.room].inGame
                          /\ \A x \in Conns : \A msg \in Messages :
                               Said(x, msg)' /\ msg.room = e.msg.room
                                 => msg.match <= e.msg.match
                          /\ \A v \in Users :
                               Before(seats[e.msg.room], v, clientId[d]) => Waits(v, e.msg)'
      <3>1. \A d \in Conns : Pending(d)' = Pending(d)
        BY <1>1 DEF Pending
      <3>2. UNCHANGED <<rooms, seats, clientId>>
        BY <1>1 DEF vars
      <3>3. QED BY <1>3, <3>1, <3>2 DEF EndComesBeforeStart
    <2>2. /\ ~rooms[e.msg.room].inGame
          /\ \A x \in Conns : \A msg \in Messages :
               Said(x, msg) /\ msg.room = e.msg.room => msg.match <= e.msg.match
          /\ \A v \in Users :
               Before(seats[e.msg.room], v, clientId[d]) => Waits(v, e.msg)
      BY <2>1 DEF OrderInv, EndComesBeforeStart
    <2>3. \A x \in Conns : Pending(x)' = Pending(x) /\ Received(x)' = Received(x)
      BY <1>1 DEF Pending, Received
    <2>4. ASSUME NEW v \in Users, Before(seats[e.msg.room], v, clientId[d])
          PROVE  Waits(v, e.msg)'
      <3>1. PICK r \in RoomNames : r = e.msg.room /\ clientId[d] \in Users
        BY SpeakerIsMember
      <3>2. v \in Members(r)
        BY <2>4, <3>1, SeatedAreMembers DEF CoreInv
      <3>3. Waits(v, e.msg)
        BY <2>2, <2>4
      <3>4. PICK m : m = e.msg.match
        OBVIOUS
      <3>5. Shows(v, r, m)
        BY <3>1, <3>3, <3>4 DEF Waits, Shows
      <3>6. Shows(v, r, m)'
        BY <1>6, <3>2, <3>5
      <3>7. QED BY <2>3, <3>1, <3>3, <3>4, <3>6 DEF Waits, Shows
    <2>5. QED BY <2>2, <2>3, <2>4 DEF Said
  <1>9. QED BY <1>4, <1>5, <1>7, <1>8 DEF OrderInv

LEMMA OrderStarts ==
  ASSUME MessagesInit
  PROVE  OrderInv
  <1>1. \A c \in Conns : /\ Pending(c) = {} /\ Received(c) = {} /\ inbox[c] = <<>>
                         /\ task[c].op # "start"
    BY Ops DEF MessagesInit, Pending, Received, Idle
  <1>2. \A r \in RoomNames : ~rooms[r].inGame
    <2>1. RoomsInv /\ nextMatchId = 0
      BY StartsTrue DEF MessagesInit, CoreInv
    <2>2. ASSUME NEW r \in RoomNames, rooms[r].inGame PROVE FALSE
      <3>1. rooms[r].matchId \in Matches /\ rooms[r].matchId <= 0
        BY <2>1, <2>2, PlayedMatch
      <3>2. QED BY <3>1 DEF Matches
    <2>3. QED BY <2>2
  <1>3. QED
    BY <1>1, <1>2 DEF OrderInv, NewestIsPlayed, LateEndIsOld, PlayersAreStarted,
                      HostTellsStart, HostStarts, EndComesBeforeStart, OldMatchIsSilent,
                      Playing, After

\* How the starts and the ends of matches follow each other: only the host
\* starts a match, and only after he has been told that the last one has ended.
THEOREM MatchesAreInOrder == MessagesSpec => []OrderInv
  <1>1. MessagesInit => OrderInv
    BY OrderStarts
  <1>2. /\ CoreInv /\ OnceInv /\ OrderInv /\ [MessagesNext]_<<vars, messageVars>>
        => OrderInv'
    <2>1. SUFFICES ASSUME CoreInv, OnceInv, OrderInv, [MessagesNext]_<<vars, messageVars>>
                   PROVE  OrderInv'
      OBVIOUS
    <2>2. CASE MessagesNext
      BY <2>1, <2>2, StepKinds, OrderAsked, OrderMapped, OrderSent
    <2>3. CASE UNCHANGED <<vars, messageVars>>
      BY <2>1, <2>3 DEF vars, messageVars, OrderInv, NewestIsPlayed, LateEndIsOld,
                        PlayersAreStarted, HostTellsStart, HostStarts, EndComesBeforeStart,
                        OldMatchIsSilent, Said, Pending, Received, Playing, Members, After,
                        ThrownOut, Waits
    <2>4. QED BY <2>1, <2>2, <2>3
  <1>3. QED BY <1>1, <1>2, MessagesInvariant, PTL DEF MessagesSpec

\* Nothing of a match reaches a player once he has been told that it is over or
\* that the next one in the room has begun (StartGame, Dead and ReadyToExit in
\* ClientHandler.cpp), except the end of a match its players were thrown out of.
THEOREM OldMatchesAreSilent == MessagesSpec => []OldMatchIsSilent
  <1>1. OrderInv => OldMatchIsSilent
    BY DEF OrderInv
  <1>2. QED BY <1>1, MatchesAreInOrder, PTL
==============================================================================
