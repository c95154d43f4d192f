----------------------------- MODULE SocketOutput -----------------------------
(***************************************************************************)
(* The output queues (SocketOutput) and the one thread that serves them    *)
(* all (OutputDispatcher): a handler appends a message under the queue's   *)
(* mutex and, if no operation is outstanding, posts one; the dispatcher    *)
(* takes batches off the queues, hands them to the kernel and accounts for *)
(* what the kernel reports.                                                *)
(*                                                                         *)
(* stopping_ and stopReason_ are atomics that Stop writes without the      *)
(* mutex, so every reading of them is a step of its own: Enqueue, Begin    *)
(* and Complete are split wherever they read stopping_ again.  The         *)
(* completion port and the kernel's side of a socket are external; the     *)
(* kernel may accept part of a batch, fail at any point, or keep a batch   *)
(* for as long as the peer does not read.                                  *)
(***************************************************************************)
EXTENDS Naturals, FiniteSets, SequencesExt

CONSTANTS
  Conns,              \* connections, each with its SocketOutput
  Callers,            \* threads that call Enqueue and Stop
  Worker,             \* the dispatcher's thread
  Nobody,             \* a mutex is free
  FrameSizes,         \* lengths a message may have
  MaxPendingBytes,    \* limit on the bytes queued and in flight
  MaxPendingFrames,   \* limit on the frames queued and in flight
  BatchBytes,         \* target size of a batch
  MaxAccepted,        \* bound of the model: frames one connection accepts
  Readers             \* connections whose peer keeps reading (fairness only)

ASSUME SocketOutputAssumption ==
  /\ Worker \notin Callers
  /\ Nobody \notin Callers \union {Worker} \union Conns
  /\ FrameSizes \subseteq Nat \ {0}
  /\ {MaxPendingBytes, MaxPendingFrames, BatchBytes, MaxAccepted} \subseteq Nat
  /\ Readers \subseteq Conns

VARIABLES
  queue,          \* queue_, frames not yet in a batch
  pendingBytes,   \* pendingBytes_
  pendingFrames,  \* pendingFrames_
  active,         \* active_, an operation is outstanding
  completed,      \* stats_.completedFrames
  mutex,          \* who holds mutex_ from one step to the next
  stopping,       \* stopping_
  stopReason,     \* stopReason_
  shut,           \* the socket is shut down and its requests cancelled
  stop,           \* where a thread is in Stop
  port,           \* packets in the completion port, oldest first
  kernel,         \* operations passed to WSASend and not completed
  worker,         \* where the dispatcher is, and with what
  accepted,       \* history: the frames put on each queue
  wire,           \* history: the bytes the kernel sent
  broken          \* history: connections the kernel or the port failed

queueVars == <<queue, pendingBytes, pendingFrames, active, completed, mutex>>
stopVars  == <<stopping, stopReason, shut, stop>>
vars == <<queueVars, stopVars, port, kernel, worker, accepted, wire, broken>>

Threads == Callers \union {Worker}

-----------------------------------------------------------------------------
(* Operations, packets and steps of a thread. *)

\* OutputOperation: the bytes of its batch, how many are sent, how many frames.
NewOperation == [bytes |-> <<>>, offset |-> 0, frames |-> 0]

Left(o) == Len(o.bytes) - o.offset

\* A packet of the port, and the dispatcher while it handles one.  "begin" and
\* "submit" are the keys 1 and 3, "complete" is a completion of the kernel,
\* which carries the number of bytes sent and whether the request succeeded.
Packet(c, key, o, n, ok) == [at |-> key, conn |-> c, op |-> o, sent |-> n, ok |-> ok]

Waiting == Packet(Nobody, "wait", NewOperation, 0, FALSE)

Stopping(at, c, reason) == [at |-> at, conn |-> c, reason |-> reason]

NotStopping == Stopping("none", Nobody, 0)

Frame(n, size) == [k \in 1..size |-> <<n, k>>]

\* Begin takes one frame, then more while the batch stays within BatchBytes.
BatchLength(q) ==
  Max({1} \union
      {k \in 1..Len(q) : Len(FlattenSeq(SubSeq(q, 1, k))) <= BatchBytes})

-----------------------------------------------------------------------------
Init ==
  /\ queue = [c \in Conns |-> <<>>]
  /\ pendingBytes = [c \in Conns |-> 0]
  /\ pendingFrames = [c \in Conns |-> 0]
  /\ active = [c \in Conns |-> FALSE]
  /\ completed = [c \in Conns |-> 0]
  /\ mutex = [c \in Conns |-> Nobody]
  /\ stopping = [c \in Conns |-> FALSE]
  /\ stopReason = [c \in Conns |-> 0]
  /\ shut = [c \in Conns |-> FALSE]
  /\ stop = [t \in Threads |-> NotStopping]
  /\ port = <<>>
  /\ kernel = [c \in Conns |-> {}]
  /\ worker = Waiting
  /\ accepted = [c \in Conns |-> <<>>]
  /\ wire = [c \in Conns |-> <<>>]
  /\ broken = {}

-----------------------------------------------------------------------------
(* Stop: the first reason stays, and the first caller shuts the socket.     *)

StopReason(t) ==
  LET c == stop[t].conn IN
  /\ stop[t].at = "reason"
  /\ stopReason' = [stopReason EXCEPT ![c] = IF @ = 0 THEN stop[t].reason ELSE @]
  /\ stop' = [stop EXCEPT ![t].at = "flag"]
  /\ UNCHANGED <<queueVars, stopping, shut, port, kernel, worker, accepted, wire, broken>>

StopFlag(t) ==
  LET c == stop[t].conn IN
  /\ stop[t].at = "flag"
  /\ stopping' = [stopping EXCEPT ![c] = TRUE]
  /\ stop' = [stop EXCEPT ![t].at = IF stopping[c] THEN "return" ELSE "shut"]
  /\ UNCHANGED <<queueVars, stopReason, shut, port, kernel, worker, accepted, wire, broken>>

\* Mutant: the requests of a stopped connection are not cancelled.
StopWithoutCancel(t) ==
  /\ stop[t].at = "shut"
  /\ stop' = [stop EXCEPT ![t].at = "return"]
  /\ UNCHANGED <<queueVars, stopping, stopReason, shut, port, kernel, worker,
                 accepted, wire, broken>>

StopShut(t) ==
  LET c == stop[t].conn IN
  /\ stop[t].at = "shut"
  /\ shut' = [shut EXCEPT ![c] = TRUE]
  /\ stop' = [stop EXCEPT ![t].at = "return"]
  /\ UNCHANGED <<queueVars, stopping, stopReason, port, kernel, worker, accepted, wire, broken>>

\* A caller that stopped the connection inside Enqueue's critical section
\* leaves that section; the dispatcher is still inside Complete's.
StopReturn(t) ==
  LET c == stop[t].conn IN
  /\ stop[t].at = "return"
  /\ stop' = [stop EXCEPT ![t] = NotStopping]
  /\ mutex' = IF t \in Callers /\ mutex[c] = t THEN [mutex EXCEPT ![c] = Nobody] ELSE mutex
  /\ UNCHANGED <<queue, pendingBytes, pendingFrames, active, completed,
                 stopping, stopReason, shut, port, kernel, worker, accepted, wire, broken>>

StopStep(t) == StopReason(t) \/ StopFlag(t) \/ StopShut(t) \/ StopReturn(t)

-----------------------------------------------------------------------------
(* The callers: handlers that queue messages, and the connection's owner.   *)

\* The owner disconnects, or gives the connection up.
Disconnect(t, c) ==
  /\ stop[t] = NotStopping
  /\ stop' = [stop EXCEPT ![t] = Stopping("reason", c, 1)]
  /\ UNCHANGED <<queueVars, stopping, stopReason, shut, port, kernel, worker,
                 accepted, wire, broken>>

\* Mutant: the limit on frames is off by one.
HasRoomForOneMore(c, size) ==
  /\ size <= MaxPendingBytes - pendingBytes[c]
  /\ pendingFrames[c] <= MaxPendingFrames

\* The limits count the batch in flight as well as the queue.
HasRoom(c, size) ==
  /\ size <= MaxPendingBytes - pendingBytes[c]
  /\ pendingFrames[c] < MaxPendingFrames

\* Mutant: every message starts an operation.
AcceptAndStart(t, c, size) ==
  LET frame == Frame(Len(accepted[c]) + 1, size) IN
  /\ HasRoom(c, size)
  /\ Len(accepted[c]) < MaxAccepted
  /\ queue' = [queue EXCEPT ![c] = Append(@, frame)]
  /\ accepted' = [accepted EXCEPT ![c] = Append(@, frame)]
  /\ pendingBytes' = [pendingBytes EXCEPT ![c] = @ + size]
  /\ pendingFrames' = [pendingFrames EXCEPT ![c] = @ + 1]
  /\ active' = [active EXCEPT ![c] = TRUE]
  /\ port' = Append(port, Packet(c, "begin", NewOperation, 0, FALSE))
  /\ UNCHANGED <<stop, mutex, broken>>

\* The message goes on the queue; an idle connection gets an operation, and is
\* stopped, still under the mutex, if the port does not take it.
Accept(t, c, size) ==
  LET frame == Frame(Len(accepted[c]) + 1, size)
      start == ~active[c] IN
  /\ HasRoom(c, size)
  /\ Len(accepted[c]) < MaxAccepted
  /\ queue' = [queue EXCEPT ![c] = Append(@, frame)]
  /\ accepted' = [accepted EXCEPT ![c] = Append(@, frame)]
  /\ pendingBytes' = [pendingBytes EXCEPT ![c] = @ + size]
  /\ pendingFrames' = [pendingFrames EXCEPT ![c] = @ + 1]
  /\ \/ /\ ~start
        /\ UNCHANGED <<active, port, stop, mutex, broken>>
     \/ /\ start
        /\ active' = [active EXCEPT ![c] = TRUE]
        /\ port' = Append(port, Packet(c, "begin", NewOperation, 0, FALSE))
        /\ UNCHANGED <<stop, mutex, broken>>
     \/ /\ start
        /\ stop' = [stop EXCEPT ![t] = Stopping("reason", c, 2)]
        /\ mutex' = [mutex EXCEPT ![c] = t]
        /\ broken' = broken \union {c}
        /\ UNCHANGED <<active, port>>

\* Over a limit the connection is stopped, after the mutex is released.
Overflow(t, c, size) ==
  /\ ~HasRoom(c, size)
  /\ stop' = [stop EXCEPT ![t] = Stopping("reason", c, 3)]
  /\ UNCHANGED <<queue, pendingBytes, pendingFrames, active, mutex, port, accepted, broken>>

Enqueue(t, c) ==
  /\ stop[t] = NotStopping
  /\ mutex[c] = Nobody
  /\ ~stopping[c]
  /\ \E size \in FrameSizes : Accept(t, c, size) \/ Overflow(t, c, size)
  /\ UNCHANGED <<completed, stopping, stopReason, shut, kernel, worker, wire>>

-----------------------------------------------------------------------------
(* The dispatcher. *)

At(step) == worker.at = step /\ stop[Worker] = NotStopping

GoTo(step) == worker' = [worker EXCEPT !.at = step]

\* Complete(operation, 0, false), called by the dispatcher itself.
GiveUp == worker' = [worker EXCEPT !.at = "complete", !.sent = 0, !.ok = FALSE]

\* Mutant: the dispatcher waits for the request it has just passed to the
\* kernel, as a blocking send did.
TakeWhenSent ==
  /\ At("wait")
  /\ port # <<>>
  /\ \A c \in Conns : kernel[c] = {}
  /\ worker' = Head(port)
  /\ port' = Tail(port)
  /\ UNCHANGED <<queueVars, stopVars, kernel, accepted, wire, broken>>

Take ==
  /\ At("wait")
  /\ port # <<>>
  /\ worker' = Head(port)
  /\ port' = Tail(port)
  /\ UNCHANGED <<queueVars, stopVars, kernel, accepted, wire, broken>>

Begin ==
  LET c == worker.conn
      q == queue[c]
      n == BatchLength(q) IN
  /\ At("begin")
  /\ mutex[c] = Nobody
  /\ IF stopping[c] \/ q = <<>>
     THEN UNCHANGED queue /\ GoTo("begun")
     ELSE /\ queue' = [queue EXCEPT ![c] = SubSeq(q, n + 1, Len(q))]
          /\ worker' = [worker EXCEPT !.at = "begun",
                          !.op.bytes = FlattenSeq(SubSeq(q, 1, n)), !.op.frames = n]
  /\ UNCHANGED <<pendingBytes, pendingFrames, active, completed, mutex,
                 stopVars, port, kernel, accepted, wire, broken>>

\* Begin looks at stopping_ once more after it has left the mutex.
Begun ==
  /\ At("begun")
  /\ IF worker.op.bytes = <<>> \/ stopping[worker.conn] THEN GiveUp ELSE GoTo("submit")
  /\ UNCHANGED <<queueVars, stopVars, port, kernel, accepted, wire, broken>>

Submit ==
  /\ At("submit")
  /\ IF stopping[worker.conn] THEN GiveUp ELSE GoTo("send")
  /\ UNCHANGED <<queueVars, stopVars, port, kernel, accepted, wire, broken>>

\* WSASend takes the operation, or refuses it at once: always on a socket
\* that is shut down.
Send ==
  LET c == worker.conn IN
  /\ At("send")
  /\ \/ /\ ~shut[c]
        /\ kernel' = [kernel EXCEPT ![c] = @ \union {worker.op}]
        /\ worker' = Waiting
        /\ UNCHANGED broken
     \/ /\ GiveUp
        /\ broken' = IF shut[c] THEN broken ELSE broken \union {c}
        /\ UNCHANGED kernel
  /\ UNCHANGED <<queueVars, stopVars, port, accepted, wire>>

\* Mutant: the offset is set to what was sent last, not advanced by it.
CompleteFromStart ==
  LET c == worker.conn IN
  /\ At("complete")
  /\ mutex[c] = Nobody
  /\ IF worker.ok /\ ~stopping[c] /\ worker.sent < Len(worker.op.bytes)
     THEN /\ worker' = [worker EXCEPT !.at = "post", !.op.offset = worker.sent]
          /\ UNCHANGED mutex
     ELSE /\ worker' = [worker EXCEPT !.at = "settle", !.op.offset = worker.sent]
          /\ mutex' = [mutex EXCEPT ![c] = Worker]
  /\ stop' = IF worker.ok \/ stopping[c] THEN stop
             ELSE [stop EXCEPT ![Worker] = Stopping("reason", c, 2)]
  /\ UNCHANGED <<queue, pendingBytes, pendingFrames, active, completed,
                 stopping, stopReason, shut, port, kernel, accepted, wire, broken>>

\* Complete takes the mutex.  A failure stops a connection that is not
\* stopping; a partial send is tried again.
Complete ==
  LET c == worker.conn
      offset == worker.op.offset + worker.sent IN
  /\ At("complete")
  /\ mutex[c] = Nobody
  /\ \/ /\ worker.ok
        /\ IF ~stopping[c] /\ offset < Len(worker.op.bytes)
           THEN /\ worker' = [worker EXCEPT !.at = "post", !.op.offset = offset]
                /\ UNCHANGED mutex
           ELSE /\ worker' = [worker EXCEPT !.at = "settle", !.op.offset = offset]
                /\ mutex' = [mutex EXCEPT ![c] = Worker]
        /\ UNCHANGED stop
     \/ /\ ~worker.ok
        /\ GoTo("settle")
        /\ mutex' = [mutex EXCEPT ![c] = Worker]
        /\ stop' = IF stopping[c] THEN stop
                   ELSE [stop EXCEPT ![Worker] = Stopping("reason", c, 2)]
  /\ UNCHANGED <<queue, pendingBytes, pendingFrames, active, completed,
                 stopping, stopReason, shut, port, kernel, accepted, wire, broken>>

\* The batch is done with: it leaves the counters, and a stopped connection
\* drops its queue.
Settle ==
  LET c == worker.conn
      o == worker.op IN
  /\ At("settle")
  /\ completed' = [completed EXCEPT ![c] = IF Left(o) = 0 THEN @ + o.frames ELSE @]
  /\ IF stopping[c]
     THEN /\ queue' = [queue EXCEPT ![c] = <<>>]
          /\ pendingBytes' = [pendingBytes EXCEPT ![c] = 0]
          /\ pendingFrames' = [pendingFrames EXCEPT ![c] = 0]
     ELSE /\ pendingBytes' = [pendingBytes EXCEPT ![c] = @ - Len(o.bytes)]
          /\ pendingFrames' = [pendingFrames EXCEPT ![c] = @ - o.frames]
          /\ UNCHANGED queue
  /\ GoTo("next")
  /\ UNCHANGED <<active, mutex, stopVars, port, kernel, accepted, wire, broken>>

\* More on the queue: the operation is used again.  Otherwise it is released
\* and the connection has none.
NextBatch ==
  LET c == worker.conn IN
  /\ At("next")
  /\ mutex' = [mutex EXCEPT ![c] = Nobody]
  /\ IF ~stopping[c] /\ queue[c] # <<>>
     THEN /\ worker' = [worker EXCEPT !.at = "post", !.op = NewOperation]
          /\ UNCHANGED active
     ELSE /\ worker' = Waiting
          /\ active' = [active EXCEPT ![c] = FALSE]
  /\ UNCHANGED <<queue, pendingBytes, pendingFrames, completed,
                 stopVars, port, kernel, accepted, wire, broken>>

\* One batch per turn: the rest of a batch and the next one go to the end of
\* the port.  If the port does not take the packet the connection is stopped.
Post ==
  LET c == worker.conn
      key == IF worker.op.bytes = <<>> THEN "begin" ELSE "submit" IN
  /\ At("post")
  /\ \/ /\ port' = Append(port, Packet(c, key, worker.op, 0, FALSE))
        /\ worker' = Waiting
        /\ UNCHANGED <<stop, broken>>
     \/ /\ stop' = [stop EXCEPT ![Worker] = Stopping("reason", c, 2)]
        /\ GiveUp
        /\ broken' = broken \union {c}
        /\ UNCHANGED port
  /\ UNCHANGED <<queueVars, stopping, stopReason, shut, kernel, accepted, wire>>

Dispatch ==
  Take \/ Begin \/ Begun \/ Submit \/ Send \/ Complete \/ Settle \/ NextBatch \/ Post

-----------------------------------------------------------------------------
(* The kernel. *)

Deliver(c, o, k) == wire' = [wire EXCEPT ![c] = @ \o SubSeq(o.bytes, o.offset + 1, o.offset + k)]

\* The request is done: sent, in whole or in part, or failed.  A request that
\* fails may have sent some of its bytes and reports none.
Finish(c, o) ==
  /\ kernel' = [kernel EXCEPT ![c] = @ \ {o}]
  /\ \/ \E n \in 1..Left(o) :
          /\ Deliver(c, o, n)
          /\ port' = Append(port, Packet(c, "complete", o, n, TRUE))
          /\ UNCHANGED broken
     \/ \E n \in 0..Left(o) :
          /\ Deliver(c, o, n)
          /\ port' = Append(port, Packet(c, "complete", o, 0, FALSE))
          /\ broken' = IF shut[c] THEN broken ELSE broken \union {c}
  /\ UNCHANGED <<queueVars, stopVars, worker, accepted>>

Kernel(c) == \E o \in kernel[c] : Finish(c, o)

-----------------------------------------------------------------------------
Next ==
  \/ \E t \in Callers, c \in Conns : Enqueue(t, c) \/ Disconnect(t, c)
  \/ \E t \in Threads : StopStep(t)
  \/ Dispatch
  \/ \E c \in Conns : Kernel(c)

Spec == Init /\ [][Next]_vars

\* Threads run, and the kernel completes a request that was cancelled or whose
\* peer reads.  A peer that does not read may hold its request for ever, and
\* nobody has to queue a message or to disconnect.
Fairness ==
  /\ WF_vars(Dispatch)
  /\ \A t \in Threads : WF_vars(StopStep(t))
  /\ \A c \in Conns : WF_vars((c \in Readers \/ shut[c]) /\ Kernel(c))

FairSpec == Spec /\ Fairness

-----------------------------------------------------------------------------
(* What must hold. *)

Ops == [bytes : Seq(Nat \X Nat), offset : Nat, frames : Nat]

TypeOK ==
  /\ queue \in [Conns -> Seq(Seq(Nat \X Nat))]
  /\ {pendingBytes, pendingFrames, completed} \subseteq [Conns -> Nat]
  /\ {active, stopping, shut} \subseteq [Conns -> BOOLEAN]
  /\ mutex \in [Conns -> Threads \union {Nobody}]
  /\ stopReason \in [Conns -> 0..3]
  /\ stop \in [Threads -> [at : {"none", "reason", "flag", "shut", "return"},
                           conn : Conns \union {Nobody}, reason : 0..3]]
  /\ \A p \in ToSet(port) :
       /\ p.at \in {"begin", "submit", "complete"}
       /\ p.conn \in Conns /\ p.op \in Ops /\ p.ok \in BOOLEAN
       /\ p.sent \in 0..Left(p.op)
  /\ \A c \in Conns : kernel[c] \subseteq Ops
  /\ worker.at \in {"wait", "begin", "begun", "submit", "send", "complete",
                    "settle", "next", "post"}
  /\ worker.conn \in Conns \union {Nobody}
  /\ worker.op \in Ops
  /\ broken \subseteq Conns

Stream(c) == FlattenSeq(accepted[c])

\* The operations outstanding for c: packets of the port, requests the kernel
\* holds, and the one the dispatcher is handling.
Outstanding(c) ==
  Cardinality({i \in DOMAIN port : port[i].conn = c})
    + Cardinality(kernel[c])
    + (IF worker.conn = c THEN 1 ELSE 0)

\* A connection has one operation when active_ says so and none otherwise:
\* two would interleave their bytes on the stream, and active_ without an
\* operation would leave the queue without a writer.
OneOperation == \A c \in Conns : Outstanding(c) = IF active[c] THEN 1 ELSE 0

\* The batch that is in memory for c; Settle has taken it off the counters.
InFlight(c) ==
  {port[i].op : i \in {j \in DOMAIN port : port[j].conn = c}}
    \union kernel[c]
    \union (IF worker.conn = c /\ worker.at # "next" THEN {worker.op} ELSE {})

\* pendingBytes_ and pendingFrames_ are what is really queued and in flight,
\* and within the limits: a counter that runs ahead cuts a healthy connection,
\* one that falls behind lets a peer that does not read take memory.
CountersMatch ==
  \A c \in Conns :
    /\ pendingBytes[c] = Len(FlattenSeq(queue[c]))
         + MapThenSumSet(LAMBDA o : Len(o.bytes), InFlight(c))
    /\ pendingFrames[c] = Len(queue[c]) + MapThenSumSet(LAMBDA o : o.frames, InFlight(c))
    /\ pendingBytes[c] <= MaxPendingBytes
    /\ pendingFrames[c] <= MaxPendingFrames

\* Some thread is on its way to stop c.
BeingStopped(c) == stopping[c] \/ \E t \in Threads : stop[t].conn = c

\* An idle connection that nobody stops has sent and counted everything it
\* accepted: no wakeup is lost between a handler that appends to the queue and
\* a completion that finds the queue empty.
IdleMeansSent ==
  \A c \in Conns :
    ~active[c] /\ ~BeingStopped(c) =>
      /\ queue[c] = <<>>
      /\ wire[c] = Stream(c)
      /\ completed[c] = Len(accepted[c])

\* A connection is reported as failed only if the kernel or the port failed
\* it, and a stopped one always has a reason: an operation that finds nothing
\* to send, or that Stop cancelled, is not taken for a failure.
ReasonIsTrue ==
  \A c \in Conns :
    /\ stopReason[c] = 2 => c \in broken
    /\ stopping[c] => stopReason[c] # 0

\* The counters, the wakeups and the reasons of all connections.
OutputInv == TypeOK /\ CountersMatch /\ IdleMeansSent /\ ReasonIsTrue

\* The queues implement the bounded byte streams of OutputChannel.
Channel == INSTANCE OutputChannel WITH cut <- stopping

ChannelSpec == Channel!Spec

\* A message accepted for a peer that reads is sent, unless the connection is
\* stopped, whatever the peers of the other connections do.
AcceptedIsSent ==
  \A c \in Readers, n \in 1..MaxAccepted :
    Len(accepted[c]) >= n ~> (stopping[c] \/ completed[c] >= n)

\* The operation of a stopped connection comes back and is released, even one
\* the kernel would keep for a peer that does not read.
StoppedRetires == \A c \in Conns : stopping[c] ~> ~active[c]
=============================================================================
