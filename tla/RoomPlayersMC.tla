---------------------------- MODULE RoomPlayersMC ----------------------------
(* Instances of RoomManager with more players than two, for TLC. *)
EXTENDS RoomManager, FiniteSetsExt, TLC

CONSTANTS
  Trio,    \* the connections of the instance with three players
  Acting   \* the connections whose threads take steps in the seated instance

VARIABLE cast  \* the instance: whose threads take steps, for which users

UserSymmetry == Permutations(Users)

\* A cooperative room filled through LOGIN, CREATE_ROOM and ENTER_ROOM: every
\* user has a session and sits in one room, the teams alternating by join
\* order.  The run that starts here need not replay the way to it.
SeatedInit ==
  /\ \E seat \in [Users -> Conns], r \in RoomNames, blue \in SUBSET Users :
       /\ \A u, v \in Users : seat[u] = seat[v] => u = v
       /\ Cardinality(blue) = TeamSize
       /\ clientsMap = seat
       /\ clientId = [c \in Conns |->
                        IF \E u \in Users : seat[u] = c
                        THEN CHOOSE u \in Users : seat[u] = c ELSE NoUser]
       /\ rooms = [[n \in RoomNames |-> NoRoom] EXCEPT ![r] =
                     [NoRoom EXCEPT !.users = Users, !.coop = TRUE,
                        !.team = [u \in Users |-> IF u \in blue THEN "Blue" ELSE "Red"]]]
  /\ dead = [r \in RoomNames |-> {}]
  /\ ready = [r \in RoomNames |-> {}]
  /\ resolved = {}
  /\ nextMatchId = 0
  /\ task = [c \in Conns |-> Idle]
  /\ ledger = [m \in Matches |-> [times |-> 0, winners |-> {}]]

\* Three players who come and go, in a room of four seats; or four seated
\* ones.  The seated members are named by the packets of any connection, so two
\* acting threads reach all of them; the other connections stay idle and nobody
\* logs in or out, which the other instance covers.
PlayersInit ==
  \/ /\ Init
     /\ cast \in {[users |-> us, threads |-> Trio, sessions |-> TRUE] :
                    us \in kSubset(Cardinality(Trio), Users)}
  \/ /\ SeatedInit
     /\ cast = [users |-> Users, threads |-> Acting, sessions |-> FALSE]

PlayersNext ==
  /\ \E c \in cast.threads :
       \/ cast.sessions /\ (ForceExit(c) \/ \E u \in cast.users : Login(c, u))
       \/ RoomStep(c)
       \/ Continue(c)
  /\ UNCHANGED cast

PlayersSpec == PlayersInit /\ [][PlayersNext]_<<vars, cast>>
=============================================================================
