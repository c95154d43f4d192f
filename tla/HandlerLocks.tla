----------------------------- MODULE HandlerLocks -----------------------------
(***************************************************************************)
(* The locks the handlers of the server take, in the order they take them. *)
(* A handler is the sequence of what its thread does to locks: it takes    *)
(* one, leaves one, or writes the files of the user store.  What it does   *)
(* under its locks is the subject of the other modules.                    *)
(*                                                                         *)
(* A loop over recipients or members appears with one turn.  usersMutex is *)
(* recursive: taking it again under itself neither waits nor releases and  *)
(* is left out.                                                            *)
(***************************************************************************)
EXTENDS ServerLocks, Sequences

\* usersMutex, roomsMutex, clientsMutex, playerPositionsMutex, registryMutex,
\* and the mutexes mutex_ of all output queues taken as one.
ServerRank == [users |-> 1, rooms |-> 2, clients |-> 3,
               positions |-> 4, registry |-> 4, queue |-> 4]

ASSUME HandlerLocksAssumption == Locks = DOMAIN ServerRank /\ Rank = ServerRank

VARIABLE script  \* script[t] is what the handler of thread t has still to do

vars == <<owner, awaits, script>>

-----------------------------------------------------------------------------
(* The vocabulary of a handler. *)

Op(does, lock) == <<[does |-> does, lock |-> lock]>>

With(lock, body) == Op("take", lock) \o body \o Op("leave", lock)

Touch(lock) == With(lock, <<>>)

Commit == Op("write", Nothing)

-----------------------------------------------------------------------------
(* Functions that handlers call. *)

QueueSend == Touch("registry") \o Touch("queue")

\* GetNicknameById, GetIdByNickname: a search of the sessions.
LookUp == Touch("clients")

BroadcastMessageExcept == With("clients", QueueSend)

\* Mutant: the recipients are read with the locks the other way round.
RecipientsFirst == With("clients", Touch("rooms")) \o QueueSend

BroadcastToUserRoom == With("rooms", Touch("clients")) \o QueueSend

BroadcastToRoomExcept == With("rooms", Touch("clients")) \o QueueSend

SendServerMessageToRoom == With("rooms", With("clients", QueueSend))

SendRoomList == Touch("rooms") \o QueueSend

\* Mutant: the list is made while the recipients are still locked.
ListUnderLock == With("clients", Touch("users")) \o QueueSend

BroadcastLobbyUserList == Touch("clients") \o Touch("users") \o QueueSend

\* Mutant: the lists of rooms are sent under the lock of the recipients.
RoomDeletedLocked == With("clients", SendRoomList)

RoomDeleted == Touch("clients") \o SendRoomList

ForceExitRoomByUserId ==
  {With("rooms", LookUp) \o Touch("rooms") \o With("clients", QueueSend),
   Touch("rooms") \o RoomDeleted}

\* LogoutUser: the id of the connection, its session, the lobby list.
LogoutUser == Touch("clients") \o Touch("clients") \o BroadcastLobbyUserList

-----------------------------------------------------------------------------
(* The handlers. *)

Login == {With("users", With("clients", QueueSend)),
          With("users", Touch("clients") \o Touch("clients") \o QueueSend)}

Register == {With("users", Commit) \o QueueSend}

\* GETINFO and the other requests for what a user owns; GET_USER_INFO.
ReadUser == {With("users", LookUp \o QueueSend), With("users", QueueSend)}

\* BUY_* and *_CHANGE: the transaction lives until the handler returns.
ChangeUser == {With("users", LookUp \o Commit \o QueueSend)}

Lobby == {BroadcastLobbyUserList, With("clients", QueueSend)}

Logout == {exit \o LogoutUser \o QueueSend : exit \in ForceExitRoomByUserId}

GetRoomList == {With("rooms", LookUp) \o QueueSend}

CreateRoom == {With("rooms", LookUp) \o QueueSend \o BroadcastMessageExcept}

EnterRoom == {With("rooms", LookUp \o BroadcastMessageExcept) \o QueueSend}

ExitRoom == {LookUp \o With("rooms", LookUp \o With("clients", QueueSend)),
             LookUp \o Touch("rooms") \o RoomDeleted}

HandleCharacterChoice == {LookUp \o With("rooms", With("clients", QueueSend))}

Chat == {SendServerMessageToRoom}

TeamChange ==
  {LookUp \o Touch("rooms") \o Touch("rooms") \o Touch("rooms") \o LookUp
     \o BroadcastToUserRoom \o SendServerMessageToRoom}

StartGame == {Touch("rooms") \o With("rooms", LookUp) \o QueueSend
                \o LookUp \o With("clients", QueueSend)}

GetMap == {Touch("rooms") \o LookUp \o With("clients", QueueSend)}

\* The relays of the battle: emotes, weapons, melodies, balloons, hits.
Relay == {LookUp \o BroadcastToUserRoom, BroadcastToRoomExcept,
          LookUp \o LookUp \o Touch("rooms") \o BroadcastToUserRoom}

Move == Touch("rooms") \o Touch("positions") \o BroadcastToRoomExcept

\* DEAD: the reward is announced before its transaction ends, and a failed
\* one gives the claim back after it has.
Dead ==
  LET fallen == LookUp \o Touch("rooms") \o Touch("rooms") \o BroadcastToUserRoom IN
  {fallen,
   fallen \o LookUp \o With("users", LookUp \o Commit \o BroadcastToUserRoom
                                            \o BroadcastToUserRoom),
   fallen \o LookUp \o With("users", LookUp \o Commit) \o Touch("rooms") \o QueueSend}

HandleReadyToExit == {LookUp \o Touch("rooms") \o Touch("rooms") \o LookUp
                        \o With("clients", QueueSend)}

\* What follows the receive loop: the exit, the logout, the list of
\* connections, and the destructor of the queue.
Disconnect == {exit \o LogoutUser \o Touch("clients") \o Touch("registry") :
                 exit \in ForceExitRoomByUserId}

\* AcceptClients, and a completion handled by the dispatcher, which may own
\* the last reference to a queue.
Accept == {Touch("registry") \o Touch("clients")}

Completion == {Touch("queue") \o Touch("queue") \o Touch("registry")}

Handlers ==
  UNION {Login, Register, ReadUser, ChangeUser, Lobby, Logout, GetRoomList, CreateRoom,
         EnterRoom, ExitRoom, HandleCharacterChoice, Chat, TeamChange, StartGame, GetMap,
         Relay, {Move}, Dead, HandleReadyToExit, Disconnect, Accept, Completion}

-----------------------------------------------------------------------------
At(t, does) == script[t] # <<>> /\ Head(script[t]).does = does

Init ==
  /\ script = [t \in Threads |-> <<>>]
  /\ owner = [l \in Locks |-> NoOne]
  /\ awaits = [t \in Threads |-> Nothing]

\* The thread goes on with rest, and waits for a lock if that is what is next.
Continue(t, rest) ==
  /\ script' = [script EXCEPT ![t] = rest]
  /\ awaits' = [awaits EXCEPT ![t] =
                  IF rest # <<>> /\ Head(rest).does = "take" THEN Head(rest).lock ELSE Nothing]

\* A thread begins its next handler.
Begin(t) ==
  /\ script[t] = <<>>
  /\ LocksOf(t) = {}
  /\ \E h \in Handlers : Continue(t, h)
  /\ UNCHANGED owner

Take(t) ==
  /\ At(t, "take")
  /\ owner[awaits[t]] = NoOne
  /\ owner' = [owner EXCEPT ![awaits[t]] = t]
  /\ Continue(t, Tail(script[t]))

\* After what it has seen under a lock a handler goes on, or returns.
Leave(t) ==
  LET l == Head(script[t]).lock IN
  /\ At(t, "leave")
  /\ owner' = [owner EXCEPT ![l] = NoOne]
  /\ \/ Continue(t, Tail(script[t]))
     \/ Continue(t, <<>>)

\* On its return destructors leave what it holds, what was taken last first.
Unwind(t) ==
  /\ script[t] = <<>>
  /\ \E l \in LocksOf(t) :
       /\ \A k \in LocksOf(t) : Rank[k] <= Rank[l]
       /\ owner' = [owner EXCEPT ![l] = NoOne]
  /\ Continue(t, <<>>)

Write(t) ==
  /\ At(t, "write")
  /\ Continue(t, Tail(script[t]))
  /\ UNCHANGED owner

Next == \E t \in Threads : Begin(t) \/ Take(t) \/ Leave(t) \/ Unwind(t) \/ Write(t)

Spec == Init /\ [][Next]_vars

-----------------------------------------------------------------------------
(* Properties. *)

Discipline == INSTANCE LockDiscipline

\* The threads keep the discipline of the locks: one takes a lock only above
\* all those it holds, so that the theorem of HandlerLocksProofs speaks of
\* them.  RoomManager.cpp:707: "No room lock is acquired while the client lock
\* is held."
DisciplineSpec == Discipline!Spec

\* MOVE "does not acquire the user persistence lock" (STATE_SAFETY.md:19), and it
\* does not wait for it through others either: no thread that holds a lock of
\* the relay writes files, or waits for the lock they are written under.
RelayNeverWaitsForStore ==
  \A t \in Threads :
    LocksOf(t) \ {"users"} # {} => awaits[t] # "users" /\ ~At(t, "write")

\* STATE_SAFETY.md:15: broadcasts are put on the queues after both the room
\* lock and the client lock are released; at the least, not while both are held.
QueueOutsideSharedLocks ==
  \A t \in Threads : "queue" \in LocksOf(t) => ~ ({"rooms", "clients"} \subseteq LocksOf(t))
=============================================================================
