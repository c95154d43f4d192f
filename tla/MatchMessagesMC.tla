--------------------------- MODULE MatchMessagesMC ---------------------------
(* Instances of MatchMessages for TLC. *)
EXTENDS MatchMessages

VARIABLE scene  \* the instance: who plays, in which rooms, how many matches

Everybody == [players |-> Users, rooms |-> RoomNames, matches |-> MaxMatches]

\* Two players, all rooms and matches; or all users, one room and one match.
Scenes ==
  {[Everybody EXCEPT !.players = us] : us \in kSubset(2, Users)}
    \union {[Everybody EXCEPT !.rooms = {r}, !.matches = 1] : r \in RoomNames}

\* Every player has logged in on a connection and sits in one room.
Seated ==
  /\ \E seat \in [scene.players -> Conns] :
       /\ IsInjective(seat)
       /\ clientsMap = [u \in Users |-> IF u \in scene.players THEN seat[u] ELSE NoConn]
       /\ clientId = [c \in Conns |->
                        IF c \in Range(seat)
                        THEN CHOOSE u \in scene.players : seat[u] = c ELSE NoUser]
  /\ \E r \in scene.rooms :
       rooms = [n \in RoomNames |->
                  IF n = r THEN [NoRoom EXCEPT !.users = scene.players] ELSE NoRoom]
  /\ seats \in [RoomNames -> SeqOf(Users, Cardinality(Users))]
  /\ MessagesInit

InScene ==
  /\ nextMatchId' <= scene.matches
  /\ \A r \in RoomNames \ scene.rooms : rooms'[r] = NoRoom

SeatedNext == MessagesNext /\ InScene /\ UNCHANGED scene

SeatedInit == scene \in Scenes /\ Seated
SeatedSpec == SeatedInit /\ [][SeatedNext]_<<vars, messageVars, scene>>

\* All users play, in all rooms.
CrowdedInit == scene = Everybody /\ Seated
CrowdedSpec == CrowdedInit /\ [][SeatedNext]_<<vars, messageVars, scene>>

Symmetry == Permutations(Users) \union Permutations(Conns) \union Permutations(RoomNames)
=============================================================================
