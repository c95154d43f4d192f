------------------------------ MODULE RoomLists ------------------------------
(***************************************************************************)
(* What the members of a room are told about it: the list of members with  *)
(* their characters (CREATE_ROOM_SUCCESS, ENTER_ROOM_SUCCESS,              *)
(* REFRESH_ROOM_SUCCESS) and single changes (UPDATE_CHARACTER).            *)
(*                                                                         *)
(* Most lists are made and sent under roomsMutex, at one moment.  Four are *)
(* made under one acquisition of a lock and sent under a later one: the    *)
(* answers to CREATE_ROOM and ENTER_ROOM, the refresh after a forced exit  *)
(* and the refresh after TEAMCHANGE, for which the room and its members    *)
(* are even read apart.  One room stands for all: lists name their room.   *)
(*                                                                         *)
(* Every user has a session and a thread of his own.  The teams, which     *)
(* only some of the lists carry, are left out.                             *)
(***************************************************************************)
EXTENDS Naturals, FiniteSets

CONSTANTS
  Users,       \* account ids
  Characters,  \* character indices; 0 is the index of who has not chosen
  NoList,      \* what a client shows that is not in the room
  MaxBusy      \* bound: threads that handle a request at a time

VARIABLES
  members,    \* Room::users, empty when there is no such room
  character,  \* Room::characterSelections
  task,       \* where the thread of a user is, with the list it has made
  view        \* the list the client of a user shows

vars == <<members, character, task, view>>

Idle == [at |-> "idle"]

List(us, chosen) == [u \in us |-> chosen[u]]

Current == List(members, character)

Init ==
  /\ members = {}
  /\ character = [u \in Users |-> 0]
  /\ task = [u \in Users |-> Idle]
  /\ view = [u \in Users |-> NoList]

Goto(u, next) == task' = [task EXCEPT ![u] = next]

\* The clients of the users in to show the list; those who have left the room
\* do not look at it.
Show(to, list, shown) ==
  view' = [v \in Users |-> IF v \in to /\ v \in members' THEN list ELSE shown[v]]

-----------------------------------------------------------------------------
(* Lists made and sent under one acquisition of roomsMutex *)

\* ExitRoom keeps the character of who leaves.  The last one takes the room
\* with him.
ExitRoom(u) ==
  /\ task[u] = Idle
  /\ u \in members
  /\ members' = members \ {u}
  /\ character' = IF members' = {} THEN [v \in Users |-> 0] ELSE character
  /\ Show(members', Current', [view EXCEPT ![u] = NoList])
  /\ UNCHANGED task

\* UPDATE_CHARACTER changes one line of the list a client shows.
HandleCharacterChoice(u, k) ==
  /\ task[u] = Idle
  /\ u \in members
  /\ character' = [character EXCEPT ![u] = k]
  /\ view' = [v \in Users |->
                IF v \in members /\ view[v] # NoList /\ u \in DOMAIN view[v]
                THEN [view[v] EXCEPT ![u] = k] ELSE view[v]]
  /\ UNCHANGED <<members, task>>

-----------------------------------------------------------------------------
(* Lists sent later *)

CreateRoom(u) ==
  /\ task[u] = Idle
  /\ members = {}
  /\ members' = {u}
  /\ UNCHANGED <<character, view>>
  /\ Goto(u, [at |-> "answer", list |-> Current'])

\* The others are refreshed under the lock, the newcomer is answered after.
EnterRoom(u) ==
  /\ task[u] = Idle
  /\ members # {} /\ u \notin members
  /\ members' = members \union {u}
  /\ UNCHANGED character
  /\ Show(members, Current', view)
  /\ Goto(u, [at |-> "answer", list |-> Current'])

Answer(u) ==
  /\ task[u].at = "answer"
  /\ UNCHANGED <<members, character>>
  /\ Show({u}, task[u].list, view)
  /\ Goto(u, Idle)

\* ForceExitRoomByUserId makes the list under roomsMutex ...
ForceExitRoom(u) ==
  /\ task[u] = Idle
  /\ u \in members
  /\ members' = members \ {u}
  /\ character' = IF members' = {} THEN [v \in Users |-> 0] ELSE [character EXCEPT ![u] = 0]
  /\ view' = [view EXCEPT ![u] = NoList]
  /\ Goto(u, IF members' = {} THEN Idle ELSE [at |-> "whom", list |-> Current'])

\* ... asks who is a member under the next acquisition ...
GetUserIdsInRoom(u) ==
  /\ task[u].at = "whom"
  /\ Goto(u, [at |-> "refresh", list |-> task[u].list, to |-> members])
  /\ UNCHANGED <<members, character, view>>

\* ... and sends under clientsMutex.
Refresh(u) ==
  /\ task[u].at = "refresh"
  /\ UNCHANGED <<members, character>>
  /\ Show(task[u].to, task[u].list, view)
  /\ Goto(u, Idle)

\* TEAMCHANGE keeps a copy of the room, then reads its members, then its
\* recipients, and serves them one by one.
ChangeTeam(u) ==
  /\ task[u] = Idle
  /\ u \in members
  /\ Goto(u, [at |-> "copied", chosen |-> character])
  /\ UNCHANGED <<members, character, view>>

ListTeams(u) ==
  /\ task[u].at = "copied"
  /\ Goto(u, [at |-> "listed", list |-> List(members, task[u].chosen)])
  /\ UNCHANGED <<members, character, view>>

ReadRecipients(u) ==
  /\ task[u].at = "listed"
  /\ Goto(u, [at |-> "serve", list |-> task[u].list, to |-> IF u \in members THEN members ELSE {}])
  /\ UNCHANGED <<members, character, view>>

Serve(u) ==
  /\ task[u].at = "serve"
  /\ UNCHANGED <<members, character>>
  /\ \/ \E v \in task[u].to : /\ Show({v}, task[u].list, view)
                              /\ Goto(u, [task[u] EXCEPT !.to = @ \ {v}])
     \/ /\ task[u].to = {}
        /\ Goto(u, Idle)
        /\ UNCHANGED view

-----------------------------------------------------------------------------
Request(u) ==
  /\ Cardinality({v \in Users : task[v] # Idle}) < MaxBusy
  /\ \/ CreateRoom(u) \/ EnterRoom(u) \/ ExitRoom(u) \/ ForceExitRoom(u) \/ ChangeTeam(u)
     \/ \E k \in Characters : HandleCharacterChoice(u, k)

Continue(u) ==
  Answer(u) \/ GetUserIdsInRoom(u) \/ Refresh(u) \/ ListTeams(u) \/ ReadRecipients(u) \/ Serve(u)

Next == \E u \in Users : Request(u) \/ Continue(u)

Spec == Init /\ [][Next]_vars

-----------------------------------------------------------------------------
(* Properties *)

\* When the handlers have done their work every member is shown the room as
\* it is.  RoomManager.cpp:222 "send the refresh message to the other clients",
\* of a newcomer, and RoomManager.cpp:835 "the room remains: broadcast the
\* refresh", of a forced exit.
MembersSeeTheRoom ==
  (\A u \in Users : task[u] = Idle) => \A v \in members : view[v] = Current
=============================================================================
