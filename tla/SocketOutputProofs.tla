-------------------------- MODULE SocketOutputProofs --------------------------
(***************************************************************************)
(* One operation per connection, counters that match, no lost wakeup, true *)
(* stop reasons, and the streams of OutputChannel: proofs for any number   *)
(* of connections and callers and any limits.                              *)
(*                                                                         *)
(* The operation of a connection is followed from place to place: in the   *)
(* completion port, in the kernel, with the dispatcher, or nowhere.  What   *)
(* is known of it at each place is JobInv; that it is in one place at a     *)
(* time is OnePlace.                                                        *)
(***************************************************************************)
EXTENDS SocketOutput, SequenceLemmas, FiniteSetTheorems

-----------------------------------------------------------------------------
(* The strengthening. *)

Byte == Nat \X Nat

Frames == Seq(Byte) \ {<<>>}

Packets == [at : {"begin", "submit", "complete"}, conn : Conns,
            op : Ops, sent : Nat, ok : BOOLEAN]

WorkerSteps == {"wait", "begin", "begun", "submit", "send", "complete",
                "settle", "next", "post"}

\* The types, as functions and sequences.
Types ==
  /\ queue \in [Conns -> Seq(Frames)]
  /\ accepted \in [Conns -> Seq(Frames)]
  /\ wire \in [Conns -> Seq(Byte)]
  /\ pendingBytes \in [Conns -> Nat]
  /\ pendingFrames \in [Conns -> Nat]
  /\ completed \in [Conns -> Nat]
  /\ active \in [Conns -> BOOLEAN]
  /\ mutex \in [Conns -> Threads \union {Nobody}]
  /\ port \in Seq(Packets)
  /\ kernel \in [Conns -> SUBSET Ops]
  /\ worker \in [at : WorkerSteps, conn : Conns \union {Nobody},
                 op : Ops, sent : Nat, ok : BOOLEAN]
  /\ worker.conn = Nobody <=> worker.at = "wait"

\* The stops under way: each has a reason, and a stop for a failure has one
\* that is true; past its first steps the connection has a reason and is stopping.
StopInv ==
  /\ stopping \in [Conns -> BOOLEAN]
  /\ shut \in [Conns -> BOOLEAN]
  /\ stopReason \in [Conns -> 0..3]
  /\ stop \in [Threads -> [at : {"none", "reason", "flag", "shut", "return"},
                           conn : Conns \union {Nobody}, reason : 0..3]]
  /\ broken \subseteq Conns
  /\ \A t \in Threads :
       IF stop[t].at = "none"
       THEN stop[t] = NotStopping
       ELSE /\ stop[t].conn \in Conns
            /\ stop[t].reason # 0
            /\ stop[t].reason = 2 => stop[t].conn \in broken
            /\ stop[t].at # "reason" => stopReason[stop[t].conn] # 0
            /\ stop[t].at \in {"shut", "return"} => stopping[stop[t].conn]
  /\ \A c \in Conns :
       /\ shut[c] => stopping[c]
       /\ stopping[c] => stopReason[c] # 0
       /\ stopReason[c] = 2 => c \in broken

\* An operation is in one place, and active_ says whether there is one.
OnePlace ==
  /\ \A i, j \in 1..Len(port) : port[i].conn = port[j].conn => i = j
  /\ \A i \in 1..Len(port) :
       active[port[i].conn] /\ kernel[port[i].conn] = {} /\ worker.conn # port[i].conn
  /\ \A c \in Conns :
       /\ \A o1, o2 \in kernel[c] : o1 = o2
       /\ kernel[c] # {} => active[c] /\ worker.conn # c
       /\ worker.conn = c => active[c]
       /\ active[c] => \/ worker.conn = c
                       \/ kernel[c] # {}
                       \/ \E i \in 1..Len(port) : port[i].conn = c

\* The operation of c, wherever it is, in the shape of a packet.
Jobs(c) ==
  {port[i] : i \in {j \in 1..Len(port) : port[j].conn = c}}
    \union {Packet(c, "kernel", o, 0, FALSE) : o \in kernel[c]}
    \union (IF worker.conn = c THEN {worker} ELSE {})
    \union (IF active[c] THEN {} ELSE {Packet(c, "idle", NewOperation, 0, FALSE)})

\* The operation failed, and its connection is about to be stopped for it.
Failed(p) == ~p.ok /\ p.at \in {"complete", "settle"}

\* What of a batch is still counted, and what of it is still to be sent.
Batch(p) == IF p.at = "next" THEN NewOperation ELSE p.op

Sent(p) == IF p.at = "complete" THEN p.op.offset + p.sent ELSE p.op.offset

Rest(p) == IF Failed(p) \/ p.at \in {"settle", "next", "idle"}
           THEN <<>>
           ELSE SubSeq(p.op.bytes, Sent(p) + 1, Len(p.op.bytes))

\* What is known of an operation at each of its places.
PlaceInv(c, p) ==
  /\ p.op \in Ops /\ p.sent \in Nat /\ p.ok \in BOOLEAN
  /\ p.op.offset <= Len(p.op.bytes) /\ Sent(p) <= Len(p.op.bytes)
  /\ p.at \in {"begin", "begun", "submit", "send", "kernel", "idle"} => p.sent = 0
  /\ p.at = "begin" => p.op = NewOperation
  /\ p.at = "post" /\ p.op.bytes = <<>> => p.op = NewOperation
  /\ p.at \in {"begin", "post"} /\ p.op.bytes = <<>> => queue[c] # <<>> \/ stopping[c]
  /\ p.at = "begun" => p.op.bytes # <<>> \/ stopping[c]
  /\ p.at = "submit" => p.op.bytes # <<>>
  /\ p.at = "complete" /\ ~p.ok => c \in broken \/ stopping[c]
  /\ p.at = "settle" /\ ~p.ok => stopping[c] \/ stop[Worker].conn = c
  /\ p.at = "settle" /\ p.ok /\ ~stopping[c] => Left(p.op) = 0
  /\ p.at = "idle" => queue[c] = <<>> \/ BeingStopped(c)

\* The counters are the queue and the batch.
CountInv(c, p) ==
  /\ pendingBytes[c] = Len(FlattenSeq(queue[c])) + Len(Batch(p).bytes)
  /\ pendingFrames[c] = Len(queue[c]) + Batch(p).frames

\* The bytes sent, the rest of the batch and the queue are the stream; after a
\* stop or a failure the sent bytes are still a prefix of it.
WireInv(c, p) ==
  \E u \in Seq(Byte) :
    /\ Stream(c) = (wire[c] \o Rest(p)) \o u
    /\ ~stopping[c] /\ ~Failed(p) =>
         /\ u = FlattenSeq(queue[c])
         /\ completed[c] + Batch(p).frames + Len(queue[c]) = Len(accepted[c])

\* What is accepted and not sent is counted, even when the operation failed.
RoomInv(c, p) ==
  ~stopping[c] =>
    Len(Stream(c)) <= Len(wire[c]) + Len(FlattenSeq(queue[c])) + Len(Batch(p).bytes)

JobInv(c, p) == PlaceInv(c, p) /\ CountInv(c, p) /\ WireInv(c, p) /\ RoomInv(c, p)

LimitInv(c) == pendingBytes[c] <= MaxPendingBytes /\ pendingFrames[c] <= MaxPendingFrames

OutputCore ==
  /\ Types
  /\ StopInv
  /\ OnePlace
  /\ \A c \in Conns : LimitInv(c) /\ \A p \in Jobs(c) : JobInv(c, p)

-----------------------------------------------------------------------------
(* Sequences of bytes and of frames. *)

\* A queue of frames is a sequence of byte sequences, and so are its bytes.
LEMMA FramesAreSequences ==
  ASSUME NEW q \in Seq(Frames)
  PROVE  q \in Seq(Seq(Byte)) /\ FlattenSeq(q) \in Seq(Byte) /\ Len(FlattenSeq(q)) \in Nat
<1>1. q \in Seq(Seq(Byte))
  BY SeqMonotonic DEF Frames
<1> QED
  BY <1>1, FlattenType

\* The batch and what is left of the queue are the queue.
LEMMA SplitQueue ==
  ASSUME NEW q \in Seq(Frames), NEW n \in 0..Len(q)
  PROVE  /\ SubSeq(q, 1, n) \in Seq(Frames) /\ SubSeq(q, n + 1, Len(q)) \in Seq(Frames)
         /\ Len(SubSeq(q, 1, n)) = n /\ Len(SubSeq(q, n + 1, Len(q))) = Len(q) - n
         /\ FlattenSeq(q) = FlattenSeq(SubSeq(q, 1, n))
                              \o FlattenSeq(SubSeq(q, n + 1, Len(q)))
<1>1. Len(q) \in Nat /\ \A i \in 1..Len(q) : q[i] \in Frames
  BY LenProperties, ElementOfSeq
<1>2. SubSeq(q, 1, n) \in Seq(Frames) /\ Len(SubSeq(q, 1, n)) = n
  BY <1>1, SubSeqProperties
<1>3. SubSeq(q, n + 1, Len(q)) \in Seq(Frames) /\ Len(SubSeq(q, n + 1, Len(q))) = Len(q) - n
  BY <1>1, SubSeqProperties
<1>4. SubSeq(q, 1, n) \o SubSeq(q, n + 1, Len(q)) = SubSeq(q, 1, Len(q))
  <2>1. 1 \in 1..Len(q)+1 /\ n \in (1-1)..Len(q) /\ Len(q) \in n..Len(q)
    BY <1>1
  <2> QED
    BY <2>1, ConcatAdjacentSubSeq
<1>5. SubSeq(q, 1, Len(q)) = q
  BY SubSeqFull
<1>6. FlattenSeq(SubSeq(q, 1, n) \o SubSeq(q, n + 1, Len(q)))
        = FlattenSeq(SubSeq(q, 1, n)) \o FlattenSeq(SubSeq(q, n + 1, Len(q)))
  <2>1. SubSeq(q, 1, n) \in Seq(Seq(Byte)) /\ SubSeq(q, n + 1, Len(q)) \in Seq(Seq(Byte))
    BY <1>2, <1>3, FramesAreSequences
  <2> QED
    BY <2>1, FlattenConcat
<1>7. FlattenSeq(q) = FlattenSeq(SubSeq(q, 1, n)) \o FlattenSeq(SubSeq(q, n + 1, Len(q)))
  BY <1>4, <1>5, <1>6
<1> QED
  BY <1>2, <1>3, <1>7

\* Begin takes at least one frame and no more than there are.
LEMMA BatchLengthRange ==
  ASSUME NEW q \in Seq(Frames), q # <<>>
  PROVE  BatchLength(q) \in 1..Len(q)
<1> DEFINE T == {1} \union {k \in 1..Len(q) : Len(FlattenSeq(SubSeq(q, 1, k))) <= BatchBytes}
<1>1. Len(q) \in Nat \ {0}
  BY EmptySeq
<1>2. T \in SUBSET (0..Len(q)) /\ T \in SUBSET (1..Len(q)) /\ T # {}
  BY <1>1
<1> HIDE DEF T
<1>3. \E x \in T : \A y \in T : y <= x
  BY <1>1, <1>2, GreatestNumber
<1>4. \A x \in T, y \in T : y <= x => x >= y
  BY <1>1, <1>2
<1>5. Max(T) \in T
  BY <1>3, <1>4 DEF Max
<1>6. BatchLength(q) = Max(T)
  BY DEF BatchLength, T
<1> QED
  BY <1>2, <1>5, <1>6

\* What is sent of the rest of a batch leaves the rest of it.
LEMMA SendSome ==
  ASSUME NEW b \in Seq(Byte), NEW m \in 0..Len(b), NEW k \in 0..(Len(b) - m)
  PROVE  /\ SubSeq(b, m + 1, m + k) \in Seq(Byte)
         /\ Len(SubSeq(b, m + 1, m + k)) = k
         /\ SubSeq(b, m + k + 1, Len(b)) \in Seq(Byte)
         /\ SubSeq(b, m + 1, Len(b))
              = SubSeq(b, m + 1, m + k) \o SubSeq(b, m + k + 1, Len(b))
<1>1. Len(b) \in Nat /\ \A i \in 1..Len(b) : b[i] \in Byte
  BY LenProperties, ElementOfSeq
<1>2. \A i \in (m + 1)..(m + k) : b[i] \in Byte
  BY <1>1
<1>3. SubSeq(b, m + 1, m + k) \in Seq(Byte) /\ Len(SubSeq(b, m + 1, m + k)) = k
  BY <1>1, <1>2, SubSeqProperties
<1>4. \A i \in (m + k + 1)..Len(b) : b[i] \in Byte
  BY <1>1
<1>5. SubSeq(b, m + k + 1, Len(b)) \in Seq(Byte)
  BY <1>1, <1>4, SubSeqProperties
<1>6. SubSeq(b, m + 1, Len(b))
        = SubSeq(b, m + 1, m + k) \o SubSeq(b, m + k + 1, Len(b))
  <2>1. /\ m + 1 \in 1..Len(b)+1 /\ m + k \in ((m + 1)-1)..Len(b)
        /\ Len(b) \in (m + k)..Len(b)
    BY <1>1
  <2> QED
    BY <2>1, ConcatAdjacentSubSeq
<1> QED
  BY <1>3, <1>5, <1>6

\* The bytes left of a batch.
LEMMA RestOfBatch ==
  ASSUME NEW b \in Seq(Byte), NEW m \in 0..Len(b)
  PROVE  /\ SubSeq(b, m + 1, Len(b)) \in Seq(Byte)
         /\ Len(SubSeq(b, m + 1, Len(b))) = Len(b) - m
         /\ m = Len(b) => SubSeq(b, m + 1, Len(b)) = <<>>
         /\ m = 0 => SubSeq(b, m + 1, Len(b)) = b
<1>1. Len(b) \in Nat /\ \A i \in 1..Len(b) : b[i] \in Byte
  BY LenProperties, ElementOfSeq
<1>2. \A i \in (m + 1)..Len(b) : b[i] \in Byte
  BY <1>1
<1>3. SubSeq(b, m + 1, Len(b)) \in Seq(Byte) /\ Len(SubSeq(b, m + 1, Len(b))) = Len(b) - m
  BY <1>1, <1>2, SubSeqProperties
<1>4. m = Len(b) => SubSeq(b, m + 1, Len(b)) = <<>>
  BY <1>1, SubSeqEmpty
<1>5. m = 0 => SubSeq(b, m + 1, Len(b)) = b
  <2>1. SubSeq(b, 1, Len(b)) = b
    BY SubSeqFull
  <2>2. SUFFICES ASSUME m = 0 PROVE SubSeq(b, m + 1, Len(b)) = b
    OBVIOUS
  <2>3. m + 1 = 1
    BY <2>2
  <2> QED
    BY <2>1, <2>3
<1> QED
  BY <1>3, <1>4, <1>5

\* Concatenation of byte sequences, with its rules as facts about sequences.
LEMMA Concatenation ==
  ASSUME NEW x \in Seq(Byte), NEW y \in Seq(Byte), NEW z \in Seq(Byte)
  PROVE  /\ x \o y \in Seq(Byte)
         /\ (x \o y) \o z = x \o (y \o z)
         /\ Len(x \o y) = Len(x) + Len(y)
         /\ x \o <<>> = x /\ <<>> \o x = x
         /\ Len(x) \in Nat /\ Len(y) \in Nat
BY ConcatProperties, ConcatAssociative, ConcatEmptySeq, LenProperties

\* Bytes of the rest that are sent, before the bytes that are not.
SameBytes(w, s, r, u) ==
  /\ w \o (s \o r) = (w \o s) \o r
  /\ ((w \o s) \o r) \o u = (w \o s) \o (r \o u) /\ r \o u \in Seq(Byte)
  /\ (w \o s) \o <<>> = w \o s

\* Sending s of the rest s and r.
LEMMA SentBytes ==
  ASSUME NEW w \in Seq(Byte), NEW s \in Seq(Byte), NEW r \in Seq(Byte), NEW u \in Seq(Byte)
  PROVE  SameBytes(w, s, r, u)
<1>1. w \o (s \o r) = (w \o s) \o r /\ w \o s \in Seq(Byte)
  BY Concatenation
<1>2. PICK v \in Seq(Byte) : v = w \o s
  BY <1>1
<1>3. (v \o r) \o u = v \o (r \o u) /\ v \o <<>> = v
  BY Concatenation
<1>4. r \o u \in Seq(Byte)
  BY Concatenation
<1> QED
  BY <1>1, <1>2, <1>3, <1>4 DEF SameBytes

\* A fresh operation is empty.
LEMMA NewOperationType ==
  /\ NewOperation \in Ops
  /\ NewOperation.bytes = <<>> /\ NewOperation.offset = 0 /\ NewOperation.frames = 0
  /\ Len(NewOperation.bytes) = 0
BY EmptySeq DEF NewOperation, Ops
-----------------------------------------------------------------------------
(* What a step leaves alone. *)

\* The data of d is unchanged.
Steady(d) ==
  /\ queue'[d] = queue[d] /\ accepted'[d] = accepted[d] /\ wire'[d] = wire[d]
  /\ pendingBytes'[d] = pendingBytes[d] /\ pendingFrames'[d] = pendingFrames[d]
  /\ completed'[d] = completed[d]

\* A stop of d goes on.
StopGoesOn(d) ==
  /\ stopping[d] => stopping'[d]
  /\ broken \subseteq broken'
  /\ BeingStopped(d) => BeingStopped(d)'
  /\ stop[Worker].conn = d => stop'[Worker].conn = d \/ stopping'[d]

\* The operation of d is where it was.
SamePlace(d) ==
  /\ active'[d] = active[d] /\ kernel'[d] = kernel[d]
  /\ worker'.conn = d \/ worker.conn = d => worker' = worker
  /\ \A p : (\E i \in 1..Len(port') : port'[i] = p /\ p.conn = d)
              => \E i \in 1..Len(port) : port[i] = p /\ p.conn = d

\* What is known of an operation whose connection a step leaves alone stays known.
LEMMA JobStays ==
  ASSUME NEW d \in Conns, NEW p, Steady(d), StopGoesOn(d), JobInv(d, p)
  PROVE  JobInv(d, p)'
<1>1. PlaceInv(d, p)'
  BY DEF JobInv, PlaceInv, Steady, StopGoesOn
<1>2. CountInv(d, p)'
  BY DEF JobInv, CountInv, Steady
<1>3. WireInv(d, p)'
  <2>1. PICK u \in Seq(Byte) :
          /\ Stream(d) = (wire[d] \o Rest(p)) \o u
          /\ ~stopping[d] /\ ~Failed(p) =>
               /\ u = FlattenSeq(queue[d])
               /\ completed[d] + Batch(p).frames + Len(queue[d]) = Len(accepted[d])
    BY DEF JobInv, WireInv
  <2>2. Stream(d)' = Stream(d)
    BY DEF Stream, Steady
  <2> QED
    BY <2>1, <2>2 DEF WireInv, Steady, StopGoesOn
<1>4. RoomInv(d, p)'
  BY DEF JobInv, RoomInv, Steady, StopGoesOn, Stream
<1> QED
  BY <1>1, <1>2, <1>3, <1>4 DEF JobInv

\* An operation that does not move is the one it was.
LEMMA JobsStay ==
  ASSUME NEW d \in Conns, SamePlace(d), NEW p \in Jobs(d)'
  PROVE  p \in Jobs(d)
<1>1. CASE p \in {port[i] : i \in {j \in 1..Len(port) : port[j].conn = d}}'
  <2>1. \E i \in 1..Len(port') : port'[i] = p /\ p.conn = d
    BY <1>1
  <2>2. \E i \in 1..Len(port) : port[i] = p /\ p.conn = d
    BY <2>1 DEF SamePlace
  <2> QED
    BY <2>2 DEF Jobs
<1>2. CASE p \in {Packet(d, "kernel", o, 0, FALSE) : o \in kernel'[d]}
  BY <1>2 DEF Jobs, SamePlace
<1>3. CASE p \in (IF worker'.conn = d THEN {worker'} ELSE {})
  BY <1>3 DEF Jobs, SamePlace
<1>4. CASE p \in (IF active'[d] THEN {} ELSE {Packet(d, "idle", NewOperation, 0, FALSE)})
  BY <1>4 DEF Jobs, SamePlace
<1> QED
  BY <1>1, <1>2, <1>3, <1>4 DEF Jobs

\* A connection whose operation, data and stops a step does not disturb.
LEMMA Bystander ==
  ASSUME OutputCore, NEW d \in Conns, SamePlace(d), Steady(d), StopGoesOn(d)
  PROVE  LimitInv(d)' /\ \A p \in Jobs(d)' : JobInv(d, p)'
<1>1. LimitInv(d)'
  BY DEF OutputCore, LimitInv, Steady
<1>2. ASSUME NEW p \in Jobs(d)' PROVE JobInv(d, p)'
  <2>1. p \in Jobs(d)
    BY <1>2, JobsStay
  <2>2. JobInv(d, p)
    BY <2>1 DEF OutputCore
  <2> QED
    BY <2>2, JobStays
<1> QED
  BY <1>1, <1>2

\* A step that does not touch stops, or sets broken only.
LEMMA StopsUntouched ==
  ASSUME UNCHANGED stopVars, broken \subseteq broken', NEW d \in Conns
  PROVE  StopGoesOn(d)
BY DEF StopGoesOn, BeingStopped, stopVars

\* No operation moves.
LEMMA SamePlaces ==
  ASSUME OnePlace, UNCHANGED <<port, kernel, worker, active>>
  PROVE  OnePlace'
BY DEF OnePlace

-----------------------------------------------------------------------------
(* Stop. *)

\* The steps of Stop keep the invariant.
LEMMA StopStepKeeps ==
  ASSUME OutputCore, NEW t \in Threads, StopStep(t)
  PROVE  OutputCore'
<1> DEFINE c == stop[t].conn
<1>1. /\ UNCHANGED <<queue, pendingBytes, pendingFrames, active, completed, port, kernel,
                     worker, accepted, wire, broken>>
      /\ mutex' \in [Conns -> Threads \union {Nobody}]
  BY DEF StopStep, StopReason, StopFlag, StopShut, StopReturn, queueVars, OutputCore, Types
<1>2. Types' /\ OnePlace'
  <2>1. Types'
    BY <1>1 DEF OutputCore, Types
  <2>2. OnePlace'
    BY <1>1, SamePlaces DEF OutputCore
  <2> QED
    BY <2>1, <2>2
<1>3. c \in Conns /\ stop[t].at # "none"
  BY DEF StopStep, StopReason, StopFlag, StopShut, StopReturn, OutputCore, StopInv
<1>4. StopInv'
  <2>1. CASE StopReason(t)
    BY <1>3, <2>1 DEF StopReason, OutputCore, StopInv, NotStopping, Stopping
  <2>2. CASE StopFlag(t)
    BY <1>3, <2>2 DEF StopFlag, OutputCore, StopInv, NotStopping, Stopping
  <2>3. CASE StopShut(t)
    BY <1>3, <2>3 DEF StopShut, OutputCore, StopInv, NotStopping, Stopping
  <2>4. CASE StopReturn(t)
    BY <1>3, <2>4 DEF StopReturn, OutputCore, StopInv, NotStopping, Stopping
  <2> QED
    BY <2>1, <2>2, <2>3, <2>4 DEF StopStep
<1>5. ASSUME NEW d \in Conns PROVE LimitInv(d)' /\ \A p \in Jobs(d)' : JobInv(d, p)'
  <2>1. SamePlace(d) /\ Steady(d)
    BY <1>1 DEF SamePlace, Steady
  <2>2. StopGoesOn(d)
    <3>1. stopping[d] => stopping'[d]
      BY DEF StopStep, StopReason, StopFlag, StopShut, StopReturn, OutputCore, StopInv
    <3>2. ASSUME NEW s \in Threads, stop[s].conn = d PROVE stop'[s].conn = d \/ stopping'[d]
      <4>1. CASE StopReturn(t)
        BY <3>1, <3>2, <4>1 DEF StopReturn, OutputCore, StopInv, NotStopping, Stopping
      <4>2. CASE ~StopReturn(t)
        BY <3>2, <4>2 DEF StopStep, StopReason, StopFlag, StopShut, OutputCore, StopInv
      <4> QED
        BY <4>1, <4>2
    <3> QED
      BY <1>1, <3>1, <3>2 DEF StopGoesOn, BeingStopped, Threads
  <2> QED
    BY <2>1, <2>2, Bystander
<1> QED
  BY <1>2, <1>4, <1>5 DEF OutputCore
-----------------------------------------------------------------------------
(* The callers. *)

\* A caller that begins to stop c: its stop is new, and true if it is for a failure.
LEMMA NewStop ==
  ASSUME StopInv, NEW t \in Threads, NEW c \in Conns, NEW r \in 1..3,
         stop[t] = NotStopping, stop' = [stop EXCEPT ![t] = Stopping("reason", c, r)],
         UNCHANGED <<stopping, stopReason, shut>>,
         broken \subseteq broken', broken' \subseteq Conns, r = 2 => c \in broken'
  PROVE  /\ StopInv' /\ BeingStopped(c)'
         /\ \A d \in Conns : StopGoesOn(d)
<1>1. StopInv'
  <2>1. stop' \in [Threads -> [at : {"none", "reason", "flag", "shut", "return"},
                           conn : Conns \union {Nobody}, reason : 0..3]]
    BY DEF StopInv, Stopping
  <2>2. ASSUME NEW s \in Threads
        PROVE  IF stop'[s].at = "none"
               THEN stop'[s] = NotStopping
               ELSE /\ stop'[s].conn \in Conns
                    /\ stop'[s].reason # 0
                    /\ stop'[s].reason = 2 => stop'[s].conn \in broken'
                    /\ stop'[s].at # "reason" => stopReason'[stop'[s].conn] # 0
                    /\ stop'[s].at \in {"shut", "return"} => stopping'[stop'[s].conn]
    <3>1. CASE s = t
      BY <3>1 DEF StopInv, Stopping
    <3>2. CASE s # t
      BY <3>2 DEF StopInv
    <3> QED
      BY <3>1, <3>2
  <2> QED
    BY <2>1, <2>2 DEF StopInv
<1>2. stop'[t].conn = c
  BY DEF StopInv, Stopping
<1>3. ASSUME NEW d \in Conns, NEW s \in Threads, stop[s].conn = d PROVE stop'[s].conn = d
  BY <1>3, SocketOutputAssumption DEF StopInv, NotStopping, Stopping
<1>4. BeingStopped(c)'
  BY <1>2 DEF BeingStopped
<1>5. ASSUME NEW d \in Conns PROVE StopGoesOn(d)
  <2>1. Worker \in Threads
    BY DEF Threads
  <2>2. BeingStopped(d) => BeingStopped(d)'
    BY <1>3 DEF BeingStopped
  <2> QED
    BY <1>3, <2>1, <2>2 DEF StopGoesOn
<1> QED
  BY <1>1, <1>4, <1>5

\* The dispatcher is no caller.
LEMMA CallerIsThread ==
  ASSUME NEW t \in Callers
  PROVE  t \in Threads /\ t # Worker
BY SocketOutputAssumption DEF Threads

\* A connection is given up.
LEMMA DisconnectKeeps ==
  ASSUME OutputCore, NEW t \in Callers, NEW c \in Conns, Disconnect(t, c)
  PROVE  OutputCore'
<1>1. UNCHANGED <<queue, pendingBytes, pendingFrames, active, completed, port, kernel,
                  worker, accepted, wire, mutex, broken>>
  BY DEF Disconnect, queueVars
<1>2. Types'
  BY <1>1 DEF OutputCore, Types
<1>3. OnePlace'
  BY <1>1, SamePlaces DEF OutputCore
<1>4. StopInv' /\ \A d \in Conns : StopGoesOn(d)
  <2>1. /\ StopInv /\ t \in Threads /\ stop[t] = NotStopping /\ 1 \in 1..3 /\ 1 # 2
        /\ stop' = [stop EXCEPT ![t] = Stopping("reason", c, 1)]
        /\ UNCHANGED <<stopping, stopReason, shut>>
        /\ broken \subseteq broken' /\ broken' \subseteq Conns
    BY <1>1, CallerIsThread DEF Disconnect, OutputCore, StopInv
  <2> QED
    BY <2>1, NewStop
<1>5. ASSUME NEW d \in Conns PROVE LimitInv(d)' /\ \A p \in Jobs(d)' : JobInv(d, p)'
  <2>1. SamePlace(d) /\ Steady(d)
    BY <1>1 DEF SamePlace, Steady
  <2> QED
    BY <2>1, <1>4, Bystander
<1> QED
  BY <1>2, <1>3, <1>4, <1>5 DEF OutputCore

\* A message over a limit stops the connection.
LEMMA OverflowKeeps ==
  ASSUME OutputCore, NEW t \in Callers, NEW c \in Conns, NEW size \in FrameSizes,
         stop[t] = NotStopping, Overflow(t, c, size),
         UNCHANGED <<completed, stopping, stopReason, shut, kernel, worker, wire>>
  PROVE  OutputCore'
<1>1. UNCHANGED <<queue, pendingBytes, pendingFrames, active, completed, port, kernel,
                  worker, accepted, wire, mutex, broken>>
  BY DEF Overflow
<1>2. Types'
  BY <1>1 DEF OutputCore, Types
<1>3. OnePlace'
  BY <1>1, SamePlaces DEF OutputCore
<1>4. StopInv' /\ \A d \in Conns : StopGoesOn(d)
  <2>1. /\ StopInv /\ t \in Threads /\ stop[t] = NotStopping /\ 3 \in 1..3 /\ 3 # 2
        /\ stop' = [stop EXCEPT ![t] = Stopping("reason", c, 3)]
        /\ UNCHANGED <<stopping, stopReason, shut>>
        /\ broken \subseteq broken' /\ broken' \subseteq Conns
    BY <1>1, CallerIsThread DEF Overflow, OutputCore, StopInv
  <2> QED
    BY <2>1, NewStop
<1>5. ASSUME NEW d \in Conns PROVE LimitInv(d)' /\ \A p \in Jobs(d)' : JobInv(d, p)'
  <2>1. SamePlace(d) /\ Steady(d)
    BY <1>1 DEF SamePlace, Steady
  <2> QED
    BY <2>1, <1>4, Bystander
<1> QED
  BY <1>2, <1>3, <1>4, <1>5 DEF OutputCore

\* The bytes of a frame.
LEMMA FrameType ==
  ASSUME NEW n \in Nat, NEW size \in Nat \ {0}
  PROVE  Frame(n, size) \in Frames /\ Len(Frame(n, size)) = size
<1>1. Frame(n, size) \in [1..size -> Byte]
  BY DEF Frame, Byte
<1>2. Frame(n, size) \in Seq(Byte)
  BY <1>1, SeqDef
<1>3. DOMAIN Frame(n, size) = 1..size
  BY DEF Frame
<1>4. Len(Frame(n, size)) = size
  BY <1>2, <1>3, LenProperties
<1> QED
  BY <1>2, <1>4, EmptySeq DEF Frames

\* What is left of a batch is a sequence of bytes.
LEMMA RestIsBytes ==
  ASSUME NEW c, NEW p, PlaceInv(c, p)
  PROVE  Rest(p) \in Seq(Byte) /\ Batch(p) \in Ops
<1>1. p.op.bytes \in Seq(Byte) /\ Sent(p) \in 0..Len(p.op.bytes)
  BY LenProperties DEF PlaceInv, Ops, Sent, Byte
<1>2. SubSeq(p.op.bytes, Sent(p) + 1, Len(p.op.bytes)) \in Seq(Byte)
  BY <1>1, RestOfBatch
<1> QED
  BY <1>2, EmptySeq, NewOperationType DEF Rest, Batch, PlaceInv

\* One more frame goes on the queue of c.
Grows(c, f) ==
  /\ queue'[c] = Append(queue[c], f) /\ accepted'[c] = Append(accepted[c], f)
  /\ pendingBytes'[c] = pendingBytes[c] + Len(f)
  /\ pendingFrames'[c] = pendingFrames[c] + 1
  /\ wire'[c] = wire[c] /\ completed'[c] = completed[c] /\ stopping'[c] = stopping[c]

\* p and q have as much counted, and as much left to send.
AsMuch(p, q) == Rest(q) = Rest(p) /\ Batch(q) = Batch(p) /\ Failed(q) = Failed(p)

\* The data of a connection, as sequences and numbers.
LEMMA DataTypes ==
  ASSUME Types, NEW c \in Conns
  PROVE  /\ queue[c] \in Seq(Frames) /\ FlattenSeq(queue[c]) \in Seq(Byte)
         /\ accepted[c] \in Seq(Frames) /\ Stream(c) \in Seq(Byte)
         /\ wire[c] \in Seq(Byte)
         /\ pendingBytes[c] \in Nat /\ pendingFrames[c] \in Nat /\ completed[c] \in Nat
         /\ Len(queue[c]) \in Nat /\ Len(FlattenSeq(queue[c])) \in Nat
         /\ Len(accepted[c]) \in Nat /\ Len(Stream(c)) \in Nat /\ Len(wire[c]) \in Nat
<1>1. /\ queue[c] \in Seq(Frames) /\ accepted[c] \in Seq(Frames) /\ wire[c] \in Seq(Byte)
      /\ pendingBytes[c] \in Nat /\ pendingFrames[c] \in Nat /\ completed[c] \in Nat
  BY DEF Types
<1>2. FlattenSeq(queue[c]) \in Seq(Byte) /\ Len(FlattenSeq(queue[c])) \in Nat
  BY <1>1, FramesAreSequences
<1>3. Stream(c) \in Seq(Byte) /\ Len(Stream(c)) \in Nat
  BY <1>1, FramesAreSequences DEF Stream
<1>4. Len(queue[c]) \in Nat /\ Len(accepted[c]) \in Nat /\ Len(wire[c]) \in Nat
  BY <1>1, LenProperties
<1> QED
  BY <1>1, <1>2, <1>3, <1>4

\* The queue and the stream get the same bytes.
LEMMA GrownData ==
  ASSUME Types, NEW c \in Conns, NEW f \in Frames, Grows(c, f)
  PROVE  /\ FlattenSeq(queue'[c]) = FlattenSeq(queue[c]) \o f
         /\ Stream(c)' = Stream(c) \o f
         /\ Len(queue'[c]) = Len(queue[c]) + 1 /\ Len(accepted'[c]) = Len(accepted[c]) + 1
         /\ Len(FlattenSeq(queue'[c])) = Len(FlattenSeq(queue[c])) + Len(f)
         /\ Len(Stream(c)') = Len(Stream(c)) + Len(f)
         /\ f \in Seq(Byte) /\ Len(f) \in Nat
<1>1. f \in Seq(Byte) /\ Len(f) \in Nat
  BY LenProperties DEF Frames
<1>2. queue[c] \in Seq(Frames) /\ accepted[c] \in Seq(Frames)
  BY DEF Types
<1>3. queue[c] \in Seq(Seq(Byte)) /\ accepted[c] \in Seq(Seq(Byte))
  BY <1>2, FramesAreSequences
<1>4. FlattenSeq(Append(queue[c], f)) = FlattenSeq(queue[c]) \o f
  BY <1>1, <1>3, FlattenAppend
<1>5. FlattenSeq(Append(accepted[c], f)) = FlattenSeq(accepted[c]) \o f
  BY <1>1, <1>3, FlattenAppend
<1>6. Len(Append(queue[c], f)) = Len(queue[c]) + 1
  BY <1>2, AppendProperties
<1>7. Len(Append(accepted[c], f)) = Len(accepted[c]) + 1
  BY <1>2, AppendProperties
<1>8. Len(FlattenSeq(queue[c]) \o f) = Len(FlattenSeq(queue[c])) + Len(f)
  BY <1>1, DataTypes, ConcatProperties
<1>9. Len(Stream(c) \o f) = Len(Stream(c)) + Len(f)
  BY <1>1, DataTypes, ConcatProperties
<1> QED
  BY <1>1, <1>4, <1>5, <1>6, <1>7, <1>8, <1>9 DEF Grows, Stream

\* The operation of c has as much left to send, and one more frame behind it.
LEMMA QueueGrows ==
  ASSUME Types, NEW c \in Conns, NEW f \in Frames, Grows(c, f), NEW p, NEW q,
         AsMuch(p, q), JobInv(c, p)
  PROVE  CountInv(c, q)' /\ WireInv(c, q)' /\ RoomInv(c, q)'
<1> DEFINE bytes == Len(Batch(p).bytes)
           frames == Batch(p).frames
           lq == Len(queue[c])
           la == Len(accepted[c])
           bq == Len(FlattenSeq(queue[c]))
           bs == Len(Stream(c))
           w == Len(wire[c])
           n == completed[c]
           lf == Len(f)
<1>1. PlaceInv(c, p) /\ CountInv(c, p) /\ WireInv(c, p) /\ RoomInv(c, p)
  BY DEF JobInv
<1>2. Rest(p) \in Seq(Byte) /\ Batch(p) \in Ops
  BY <1>1, RestIsBytes
<1>3. /\ bytes \in Nat /\ frames \in Nat /\ lq \in Nat /\ la \in Nat /\ bq \in Nat
      /\ bs \in Nat /\ w \in Nat /\ n \in Nat /\ lf \in Nat
  BY <1>2, LenProperties, DataTypes, GrownData DEF Ops
<1>4. /\ Len(queue'[c]) = lq + 1 /\ Len(accepted'[c]) = la + 1
      /\ Len(FlattenSeq(queue'[c])) = bq + lf /\ Len(Stream(c)') = bs + lf
      /\ Len(wire'[c]) = w /\ completed'[c] = n /\ stopping'[c] = stopping[c]
      /\ Batch(q) = Batch(p)
  BY GrownData DEF Grows, AsMuch
<1>5. CountInv(c, q)'
  <2>1. /\ pendingBytes'[c] = (bq + bytes) + lf
        /\ pendingFrames'[c] = (lq + frames) + 1
    BY <1>1 DEF Grows, CountInv
  <2> HIDE DEF bytes, frames, lq, la, bq, bs, w, n, lf
  <2>2. pendingBytes'[c] = (bq + lf) + bytes /\ pendingFrames'[c] = (lq + 1) + frames
    BY <2>1, <1>3
  <2> QED
    BY <2>2, <1>4 DEF CountInv, bytes, frames
<1>6. RoomInv(c, q)'
  <2>1. ~stopping[c] => bs <= w + bq + bytes
    BY <1>1 DEF RoomInv
  <2> HIDE DEF bytes, frames, lq, la, bq, bs, w, n, lf
  <2>2. ~stopping[c] => bs + lf <= w + (bq + lf) + bytes
    BY <2>1, <1>3
  <2> QED
    BY <2>2, <1>4 DEF RoomInv, bytes
<1>7. WireInv(c, q)'
  <2>1. PICK u \in Seq(Byte) :
          /\ Stream(c) = (wire[c] \o Rest(p)) \o u
          /\ ~stopping[c] /\ ~Failed(p) =>
               /\ u = FlattenSeq(queue[c])
               /\ n + frames + lq = la
    BY <1>1 DEF WireInv
  <2>2. PICK v : v = wire[c] \o Rest(p)
    OBVIOUS
  <2>3. v \in Seq(Byte) /\ f \in Seq(Byte)
    BY <1>2, <2>2, DataTypes, GrownData, Concatenation
  <2>4. (v \o u) \o f = v \o (u \o f) /\ u \o f \in Seq(Byte)
    BY <2>3, Concatenation
  <2>5. Stream(c)' = (wire'[c] \o Rest(q)) \o (u \o f)
    BY <2>1, <2>2, <2>4, GrownData DEF AsMuch, Grows
  <2>6. ASSUME ~stopping[c], ~Failed(p)
        PROVE  /\ u \o f = FlattenSeq(queue'[c])
               /\ n + frames + (lq + 1) = la + 1
    <3>1. u = FlattenSeq(queue[c]) /\ n + frames + lq = la
      BY <2>1, <2>6
    <3>2. u \o f = FlattenSeq(queue'[c])
      BY <3>1, GrownData
    <3> HIDE DEF bytes, frames, lq, la, bq, bs, w, n, lf
    <3>3. n + frames + (lq + 1) = la + 1
      BY <3>1, <1>3
    <3> QED
      BY <3>2, <3>3
  <2> HIDE DEF lq, la, n
  <2>7. ~stopping'[c] /\ ~Failed(q) =>
               /\ u \o f = FlattenSeq(queue'[c])
               /\ completed'[c] + Batch(q).frames + Len(queue'[c]) = Len(accepted'[c])
    BY <2>6, <1>4 DEF AsMuch, frames
  <2> QED
    BY <2>4, <2>5, <2>7 DEF WireInv
<1> QED
  BY <1>5, <1>6, <1>7

-----------------------------------------------------------------------------
(* The place of the operation. *)

Idle(c) == Packet(c, "idle", NewOperation, 0, FALSE)

\* Without active_ the operation is nowhere.
LEMMA IdleJob ==
  ASSUME OnePlace, NEW c \in Conns, ~active[c]
  PROVE  Jobs(c) = {Idle(c)}
<1>1. kernel[c] = {} /\ worker.conn # c /\ \A i \in 1..Len(port) : port[i].conn # c
  BY DEF OnePlace
<1> QED
  BY <1>1 DEF Jobs, Idle

\* With active_ it is somewhere.
LEMMA ActiveNotIdle ==
  ASSUME Types, NEW c \in Conns, active[c], NEW p \in Jobs(c)
  PROVE  p.at # "idle"
<1>1. \A i \in 1..Len(port) : port[i] \in Packets
  BY ElementOfSeq DEF Types
<1>2. \A i \in 1..Len(port) : port[i].at # "idle"
  BY <1>1 DEF Packets
<1>3. worker.at # "idle"
  BY DEF Types, WorkerSteps
<1>4. \A o : Packet(c, "kernel", o, 0, FALSE).at # "idle"
  BY DEF Packet
<1> QED
  BY <1>2, <1>3, <1>4 DEF Jobs

\* With the dispatcher it is in no other place.
LEMMA WorkerJob ==
  ASSUME OnePlace, NEW c \in Conns, worker.conn = c
  PROVE  /\ Jobs(c) = {worker}
         /\ active[c] /\ kernel[c] = {} /\ \A i \in 1..Len(port) : port[i].conn # c
<1>1. active[c] /\ kernel[c] = {} /\ \A i \in 1..Len(port) : port[i].conn # c
  BY DEF OnePlace
<1> QED
  BY <1>1 DEF Jobs

\* In the kernel it is in no other place.
LEMMA KernelJob ==
  ASSUME OnePlace, NEW c \in Conns, NEW o \in kernel[c]
  PROVE  /\ Jobs(c) = {Packet(c, "kernel", o, 0, FALSE)} /\ kernel[c] = {o}
         /\ active[c] /\ worker.conn # c /\ \A i \in 1..Len(port) : port[i].conn # c
<1>1. /\ active[c] /\ kernel[c] = {o} /\ worker.conn # c
      /\ \A i \in 1..Len(port) : port[i].conn # c
  BY DEF OnePlace
<1> QED
  BY <1>1 DEF Jobs

\* A packet is put in the port.
LEMMA PortGrows ==
  ASSUME port \in Seq(Packets), NEW p \in Packets, port' = Append(port, p)
  PROVE  /\ port' \in Seq(Packets) /\ Len(port) \in Nat /\ Len(port') = Len(port) + 1
         /\ \A i \in 1..Len(port) : port'[i] = port[i]
         /\ port'[Len(port) + 1] = p
         /\ \A i \in 1..Len(port') : port'[i] = p \/ (i \in 1..Len(port) /\ port'[i] = port[i])
<1>1. /\ port' \in Seq(Packets) /\ Len(port') = Len(port) + 1 /\ Len(port) \in Nat
      /\ \A i \in 1..Len(port) : port'[i] = port[i]
      /\ port'[Len(port) + 1] = p
  BY AppendProperties, LenProperties
<1>2. \A i \in 1..Len(port') : i \in 1..Len(port) \/ i = Len(port) + 1
  BY <1>1
<1> QED
  BY <1>1, <1>2

\* The operation of c goes to the port: its place is there, and others stay.
LEMMA ToPort ==
  ASSUME Types, OnePlace, NEW c \in Conns, NEW p \in Packets, p.conn = c,
         port' = Append(port, p), \A i \in 1..Len(port) : port[i].conn # c,
         active'[c], kernel'[c] = {}, worker'.conn # c,
         \A d \in Conns \ {c} : /\ active'[d] = active[d] /\ kernel'[d] = kernel[d]
                                /\ worker'.conn = d \/ worker.conn = d => worker' = worker
  PROVE  /\ OnePlace' /\ Jobs(c)' = {p}
         /\ \A d \in Conns \ {c} : SamePlace(d)
<1>1. port \in Seq(Packets)
  BY DEF Types
<1>2. /\ port' \in Seq(Packets) /\ Len(port) \in Nat /\ Len(port') = Len(port) + 1
      /\ \A i \in 1..Len(port) : port'[i] = port[i]
      /\ port'[Len(port) + 1] = p
      /\ \A i \in 1..Len(port') : port'[i] = p \/ (i \in 1..Len(port) /\ port'[i] = port[i])
  BY <1>1, PortGrows
<1>3. \A i \in 1..Len(port') : (port'[i].conn = c => i = Len(port) + 1 /\ port'[i] = p)
  <2>1. \A i \in 1..Len(port') : i \in 1..Len(port) \/ i = Len(port) + 1
    BY <1>2
  <2> QED
    BY <1>2, <2>1
<1>4. \A i \in 1..Len(port) : port[i].conn \in Conns \ {c}
  <2>1. \A i \in 1..Len(port) : port[i] \in Packets
    BY <1>1, ElementOfSeq
  <2>2. \A i \in 1..Len(port) : port[i].conn \in Conns
    BY <2>1 DEF Packets
  <2> QED
    BY <2>2
<1>5. ASSUME NEW d \in Conns \ {c} PROVE SamePlace(d)
  <2>1. ASSUME NEW q, NEW i \in 1..Len(port'), port'[i] = q, q.conn = d
        PROVE  \E j \in 1..Len(port) : port[j] = q /\ q.conn = d
    BY <1>2, <2>1
  <2> QED
    BY <2>1 DEF SamePlace
<1>6. Len(port) + 1 \in 1..Len(port')
  BY <1>2
<1>7. Jobs(c)' = {p}
  <2>1. {port'[i] : i \in {j \in 1..Len(port') : port'[j].conn = c}} = {p}
    BY <1>2, <1>3, <1>6
  <2> QED
    BY <2>1 DEF Jobs
<1>8. OnePlace'
  <2>1. ASSUME NEW i \in 1..Len(port'), NEW j \in 1..Len(port'), port'[i].conn = port'[j].conn
        PROVE  i = j
    <3>1. CASE port'[i].conn = c
      BY <1>3, <2>1, <3>1
    <3>2. CASE port'[i].conn # c
      <4>1. i \in 1..Len(port) /\ j \in 1..Len(port)
        BY <1>2, <2>1, <3>2
      <4> QED
        BY <4>1, <1>2, <2>1 DEF OnePlace
    <3> QED
      BY <3>1, <3>2
  <2>2. ASSUME NEW i \in 1..Len(port')
        PROVE  /\ active'[port'[i].conn] /\ kernel'[port'[i].conn] = {}
               /\ worker'.conn # port'[i].conn
    <3>1. CASE port'[i] = p
      BY <3>1
    <3>2. CASE i \in 1..Len(port) /\ port'[i] = port[i]
      <4>1. port[i].conn \in Conns \ {c}
        BY <1>4, <3>2
      <4>2. /\ active[port[i].conn] /\ kernel[port[i].conn] = {}
            /\ worker.conn # port[i].conn
        BY <3>2 DEF OnePlace
      <4> QED
        BY <3>2, <4>1, <4>2
    <3> QED
      BY <1>2, <3>1, <3>2
  <2>3. ASSUME NEW d \in Conns
        PROVE  /\ \A o1, o2 \in kernel'[d] : o1 = o2
               /\ kernel'[d] # {} => active'[d] /\ worker'.conn # d
               /\ worker'.conn = d => active'[d]
               /\ active'[d] => \/ worker'.conn = d
                                \/ kernel'[d] # {}
                                \/ \E i \in 1..Len(port') : port'[i].conn = d
    <3>1. CASE d = c
      BY <1>2, <1>6, <3>1
    <3>2. CASE d # c
      <4>1. (\E i \in 1..Len(port) : port[i].conn = d)
              => \E i \in 1..Len(port') : port'[i].conn = d
        BY <1>2
      <4> QED
        BY <3>2, <4>1 DEF OnePlace
    <3> QED
      BY <3>1, <3>2
  <2> QED
    BY <2>1, <2>2, <2>3 DEF OnePlace
<1> QED
  BY <1>5, <1>7, <1>8
-----------------------------------------------------------------------------
(* Enqueue. *)

\* A message goes on the queue: into the batch-to-be of an operation under way, of a
\* new one, or of none when the port fails.
LEMMA AcceptKeeps ==
  ASSUME OutputCore, NEW t \in Callers, NEW c \in Conns, NEW size \in FrameSizes,
         stop[t] = NotStopping, Accept(t, c, size),
         UNCHANGED <<completed, stopping, stopReason, shut, kernel, worker, wire>>
  PROVE  OutputCore'
<1>1. Types /\ StopInv /\ OnePlace
  BY DEF OutputCore
<1>2. PICK f : f = Frame(Len(accepted[c]) + 1, size)
  OBVIOUS
<1>3. f \in Frames /\ Len(f) = size /\ size \in Nat
  <2>1. Len(accepted[c]) + 1 \in Nat /\ size \in Nat \ {0}
    BY <1>1, DataTypes, SocketOutputAssumption
  <2> QED
    BY <1>2, <2>1, FrameType
<1>4. /\ queue' = [queue EXCEPT ![c] = Append(@, f)]
      /\ accepted' = [accepted EXCEPT ![c] = Append(@, f)]
      /\ pendingBytes' = [pendingBytes EXCEPT ![c] = @ + size]
      /\ pendingFrames' = [pendingFrames EXCEPT ![c] = @ + 1]
      /\ HasRoom(c, size)
  BY <1>2 DEF Accept
<1>5. Grows(c, f) /\ \A d \in Conns \ {c} : Steady(d)
  BY <1>1, <1>3, <1>4 DEF Grows, Steady, Types
<1>6. LimitInv(c)'
  <2>1. pendingBytes[c] \in Nat /\ pendingFrames[c] \in Nat
        /\ MaxPendingBytes \in Nat /\ MaxPendingFrames \in Nat
    BY <1>1, SocketOutputAssumption DEF Types
  <2>2. pendingBytes'[c] = pendingBytes[c] + size /\ pendingFrames'[c] = pendingFrames[c] + 1
    BY <1>1, <1>4 DEF Types
  <2> DEFINE b == pendingBytes[c]
             n == pendingFrames[c]
  <2>3. size <= MaxPendingBytes - b /\ n < MaxPendingFrames
    BY <1>4 DEF HasRoom
  <2> HIDE DEF b, n
  <2>4. b + size <= MaxPendingBytes /\ n + 1 <= MaxPendingFrames
    BY <1>3, <2>1, <2>3 DEF b, n
  <2> QED
    BY <2>2, <2>4 DEF LimitInv, b, n
<1>7. /\ queue' \in [Conns -> Seq(Frames)] /\ accepted' \in [Conns -> Seq(Frames)]
      /\ pendingBytes' \in [Conns -> Nat] /\ pendingFrames' \in [Conns -> Nat]
  <2>1. Append(queue[c], f) \in Seq(Frames) /\ Append(accepted[c], f) \in Seq(Frames)
    BY <1>1, <1>3, DataTypes, AppendProperties
  <2>2. queue' \in [Conns -> Seq(Frames)] /\ accepted' \in [Conns -> Seq(Frames)]
    BY <1>1, <1>4, <2>1 DEF Types
  <2>3. pendingBytes \in [Conns -> Nat] /\ pendingFrames \in [Conns -> Nat]
    BY <1>1 DEF Types
  <2>4. pendingBytes[c] + size \in Nat /\ pendingFrames[c] + 1 \in Nat
    BY <1>3, <2>3
  <2>5. pendingBytes' \in [Conns -> Nat]
    BY <1>4, <2>3, <2>4
  <2>6. pendingFrames' \in [Conns -> Nat]
    BY <1>4, <2>3, <2>4
  <2> QED
    BY <2>2, <2>5, <2>6
<1>8. queue'[c] # <<>>
  <2>1. queue'[c] = Append(queue[c], f)
    BY <1>5 DEF Grows
  <2>2. queue[c] \in Seq(Frames)
    BY <1>1, DataTypes
  <2> QED
    BY <1>3, <2>1, <2>2, AppendProperties
<1>9. CASE active[c] /\ UNCHANGED <<active, port, stop, mutex, broken>>
  <2>1. Types'
    BY <1>1, <1>7, <1>9 DEF Types
  <2>2. OnePlace'
    BY <1>1, <1>9, SamePlaces
  <2>3. StopInv'
    BY <1>1, <1>9 DEF StopInv
  <2>4. \A d \in Conns : SamePlace(d) /\ StopGoesOn(d)
    BY <1>9, StopsUntouched DEF SamePlace, stopVars
  <2>5. ASSUME NEW d \in Conns PROVE LimitInv(d)' /\ \A p \in Jobs(d)' : JobInv(d, p)'
    <3>1. CASE d # c
      BY <1>5, <2>4, <3>1, Bystander
    <3>2. CASE d = c
      <4>1. ASSUME NEW p \in Jobs(c)' PROVE JobInv(c, p)'
        <5>1. p \in Jobs(c) /\ JobInv(c, p)
          BY <2>4, JobsStay DEF OutputCore
        <5>2. CountInv(c, p)' /\ WireInv(c, p)' /\ RoomInv(c, p)'
          BY <1>1, <1>3, <1>5, <5>1, QueueGrows DEF AsMuch
        <5>3. p.at # "idle"
          BY <1>1, <1>9, <5>1, ActiveNotIdle
        <5>4. PlaceInv(c, p)'
          BY <1>8, <1>9, <5>1, <5>3 DEF JobInv, PlaceInv
        <5> QED
          BY <5>2, <5>4 DEF JobInv
      <4> QED
        BY <1>6, <3>2, <4>1
    <3> QED
      BY <3>1, <3>2
  <2> QED
    BY <2>1, <2>2, <2>3, <2>5 DEF OutputCore
<1>10. CASE /\ ~active[c]
            /\ active' = [active EXCEPT ![c] = TRUE]
            /\ port' = Append(port, Packet(c, "begin", NewOperation, 0, FALSE))
            /\ UNCHANGED <<stop, mutex, broken>>
  <2>1. PICK p : p = Packet(c, "begin", NewOperation, 0, FALSE)
    OBVIOUS
  <2>2. p \in Packets /\ p.conn = c /\ p.at = "begin" /\ p.op = NewOperation /\ p.sent = 0
    BY <2>1, NewOperationType DEF Packet, Packets
  <2>3. Types'
    BY <1>1, <1>7, <1>10, <2>1, <2>2, PortGrows DEF Types
  <2>4. Jobs(c) = {Idle(c)} /\ kernel[c] = {} /\ worker.conn # c
        /\ \A i \in 1..Len(port) : port[i].conn # c
    BY <1>1, <1>10, IdleJob DEF OnePlace
  <2>5. OnePlace' /\ Jobs(c)' = {p} /\ \A d \in Conns \ {c} : SamePlace(d)
    <3>1. active'[c] /\ \A d \in Conns \ {c} : active'[d] = active[d]
      BY <1>1, <1>10 DEF Types
    <3> QED
      BY <1>1, <1>10, <2>1, <2>2, <2>4, <3>1, ToPort
  <2>6. StopInv'
    BY <1>1, <1>10 DEF StopInv
  <2>7. \A d \in Conns : StopGoesOn(d)
    BY <1>10, StopsUntouched DEF stopVars
  <2>8. ASSUME NEW d \in Conns PROVE LimitInv(d)' /\ \A q \in Jobs(d)' : JobInv(d, q)'
    <3>1. CASE d # c
      BY <1>5, <2>5, <2>7, <3>1, Bystander
    <3>2. CASE d = c
      <4>1. JobInv(c, Idle(c))
        BY <2>4 DEF OutputCore
      <4>2. AsMuch(Idle(c), p)
        <5>1. SubSeq(<<>>, 0 + 1, 0) = <<>>
          BY SubSeqEmpty
        <5> QED
          BY <2>2, <5>1, NewOperationType
             DEF AsMuch, Idle, Packet, Rest, Batch, Failed, Sent
      <4>3. CountInv(c, p)' /\ WireInv(c, p)' /\ RoomInv(c, p)'
        BY <1>1, <1>3, <1>5, <4>1, <4>2, QueueGrows
      <4>4. PlaceInv(c, p)'
        BY <1>8, <2>2, NewOperationType DEF PlaceInv, Packets, Sent
      <4> QED
        BY <1>6, <2>5, <3>2, <4>3, <4>4 DEF JobInv
    <3> QED
      BY <3>1, <3>2
  <2> QED
    BY <2>3, <2>5, <2>6, <2>8 DEF OutputCore
<1>11. CASE /\ ~active[c]
            /\ stop' = [stop EXCEPT ![t] = Stopping("reason", c, 2)]
            /\ mutex' = [mutex EXCEPT ![c] = t]
            /\ broken' = broken \union {c}
            /\ UNCHANGED <<active, port>>
  <2>1. t \in Threads
    BY CallerIsThread
  <2>2. Types'
    BY <1>1, <1>7, <1>11, <2>1 DEF Types
  <2>3. OnePlace'
    BY <1>1, <1>11, SamePlaces
  <2>4. StopInv' /\ BeingStopped(c)' /\ \A d \in Conns : StopGoesOn(d)
    <3>1. broken \subseteq broken' /\ broken' \subseteq Conns /\ c \in broken'
      BY <1>1, <1>11 DEF StopInv
    <3>2. 2 \in 1..3
      OBVIOUS
    <3> QED
      BY <1>1, <1>11, <2>1, <3>1, <3>2, NewStop
  <2>5. \A d \in Conns : SamePlace(d)
    BY <1>11 DEF SamePlace
  <2>6. ASSUME NEW d \in Conns PROVE LimitInv(d)' /\ \A p \in Jobs(d)' : JobInv(d, p)'
    <3>1. CASE d # c
      BY <1>5, <2>4, <2>5, <3>1, Bystander
    <3>2. CASE d = c
      <4>1. Jobs(c) = {Idle(c)} /\ JobInv(c, Idle(c))
        BY <1>1, <1>11, IdleJob DEF OutputCore
      <4>2. CountInv(c, Idle(c))' /\ WireInv(c, Idle(c))' /\ RoomInv(c, Idle(c))'
        BY <1>1, <1>3, <1>5, <4>1, QueueGrows DEF AsMuch
      <4>3. PlaceInv(c, Idle(c))'
        BY <2>4, <4>1 DEF JobInv, PlaceInv, Idle, Packet
      <4>4. \A p \in Jobs(c)' : p = Idle(c)
        BY <2>5, <4>1, JobsStay
      <4> QED
        BY <1>6, <3>2, <4>2, <4>3, <4>4 DEF JobInv
    <3> QED
      BY <3>1, <3>2
  <2> QED
    BY <2>2, <2>3, <2>4, <2>6 DEF OutputCore
<1> QED
  BY <1>9, <1>10, <1>11 DEF Accept

\* Enqueue keeps the invariant.
LEMMA EnqueueKeeps ==
  ASSUME OutputCore, NEW t \in Callers, NEW c \in Conns, Enqueue(t, c)
  PROVE  OutputCore'
BY AcceptKeeps, OverflowKeeps DEF Enqueue
-----------------------------------------------------------------------------
(* The dispatcher: how the operation moves. *)

\* A step that moves the operation of c and keeps what is known of it.
LEMMA Assemble ==
  ASSUME OutputCore, NEW c \in Conns, Types', StopInv', OnePlace',
         \A d \in Conns \ {c} : SamePlace(d) /\ Steady(d),
         \A d \in Conns : StopGoesOn(d),
         LimitInv(c)', \A p \in Jobs(c)' : JobInv(c, p)'
  PROVE  OutputCore'
<1>1. ASSUME NEW d \in Conns PROVE LimitInv(d)' /\ \A p \in Jobs(d)' : JobInv(d, p)'
  BY Bystander
<1> QED
  BY <1>1 DEF OutputCore

\* The dispatcher goes on with it.
LEMMA StaysWithWorker ==
  ASSUME OnePlace, NEW c \in Conns, worker.conn = c, worker'.conn = c,
         UNCHANGED <<port, kernel, active>>
  PROVE  /\ OnePlace' /\ Jobs(c)' = {worker'}
         /\ \A d \in Conns \ {c} : SamePlace(d)
<1>1. OnePlace'
  BY DEF OnePlace
<1>2. kernel'[c] = {} /\ active'[c] /\ \A i \in 1..Len(port') : port'[i].conn # c
  BY WorkerJob
<1> QED
  BY <1>1, <1>2 DEF Jobs, SamePlace

\* It is passed to the kernel.
LEMMA ToKernel ==
  ASSUME Types, OnePlace, NEW c \in Conns, worker.conn = c,
         kernel' = [kernel EXCEPT ![c] = @ \union {worker.op}],
         worker' = Waiting, UNCHANGED <<port, active>>
  PROVE  /\ OnePlace' /\ Jobs(c)' = {Packet(c, "kernel", worker.op, 0, FALSE)}
         /\ \A d \in Conns \ {c} : SamePlace(d)
<1>1. active[c] /\ kernel[c] = {} /\ \A i \in 1..Len(port) : port[i].conn # c
  BY WorkerJob
<1>2. kernel'[c] = {worker.op} /\ \A d \in Conns \ {c} : kernel'[d] = kernel[d]
  BY <1>1 DEF Types
<1>3. \A d \in Conns : worker'.conn # d
  BY SocketOutputAssumption DEF Waiting, Packet
<1>4. \A i \in 1..Len(port) : port[i].conn \in Conns \ {c}
  <2>1. \A i \in 1..Len(port) : port[i] \in Packets
    BY ElementOfSeq DEF Types
  <2> QED
    BY <1>1, <2>1 DEF Packets
<1>5. OnePlace'
  <2>1. ASSUME NEW d \in Conns
        PROVE  /\ \A o1, o2 \in kernel'[d] : o1 = o2
               /\ kernel'[d] # {} => active'[d] /\ worker'.conn # d
               /\ active'[d] => \/ kernel'[d] # {}
                                \/ \E i \in 1..Len(port) : port[i].conn = d
    <3>1. CASE d = c
      BY <1>1, <1>2, <1>3, <3>1
    <3>2. CASE d # c
      BY <1>2, <1>3, <3>2 DEF OnePlace
    <3> QED
      BY <3>1, <3>2
  <2>2. ASSUME NEW i \in 1..Len(port)
        PROVE  active'[port[i].conn] /\ kernel'[port[i].conn] = {}
               /\ worker'.conn # port[i].conn
    <3>1. port[i].conn \in Conns \ {c}
      BY <1>4
    <3>2. active[port[i].conn] /\ kernel[port[i].conn] = {}
      BY DEF OnePlace
    <3> QED
      BY <1>2, <1>3, <3>1, <3>2
  <2>3. \A i, j \in 1..Len(port) : port[i].conn = port[j].conn => i = j
    BY DEF OnePlace
  <2> QED
    BY <1>3, <2>1, <2>2, <2>3 DEF OnePlace
<1>6. \A d \in Conns \ {c} : SamePlace(d)
  BY <1>2, <1>3 DEF SamePlace
<1>7. Jobs(c)' = {Packet(c, "kernel", worker.op, 0, FALSE)}
  <2>1. {port'[i] : i \in {j \in 1..Len(port') : port'[j].conn = c}} = {}
    BY <1>1
  <2>2. {Packet(c, "kernel", o, 0, FALSE) : o \in kernel'[c]}
          = {Packet(c, "kernel", worker.op, 0, FALSE)}
    BY <1>2
  <2>3. worker'.conn # c /\ active'[c]
    BY <1>1, <1>3
  <2> QED
    BY <2>1, <2>2, <2>3 DEF Jobs
<1> QED
  BY <1>5, <1>6, <1>7

\* It is released.
LEMMA ToNowhere ==
  ASSUME Types, OnePlace, NEW c \in Conns, worker.conn = c,
         active' = [active EXCEPT ![c] = FALSE],
         worker' = Waiting, UNCHANGED <<port, kernel>>
  PROVE  /\ OnePlace' /\ Jobs(c)' = {Idle(c)}
         /\ \A d \in Conns \ {c} : SamePlace(d)
<1>1. active[c] /\ kernel[c] = {} /\ \A i \in 1..Len(port) : port[i].conn # c
  BY WorkerJob
<1>2. ~active'[c] /\ \A d \in Conns \ {c} : active'[d] = active[d]
  BY DEF Types
<1>3. \A d \in Conns : worker'.conn # d
  BY SocketOutputAssumption DEF Waiting, Packet
<1>4. \A i \in 1..Len(port) : port[i].conn \in Conns \ {c}
  <2>1. \A i \in 1..Len(port) : port[i] \in Packets
    BY ElementOfSeq DEF Types
  <2> QED
    BY <1>1, <2>1 DEF Packets
<1>5. OnePlace'
  BY <1>1, <1>2, <1>3, <1>4 DEF OnePlace
<1>6. \A d \in Conns \ {c} : SamePlace(d)
  BY <1>2, <1>3 DEF SamePlace
<1>7. Jobs(c)' = {Idle(c)}
  BY <1>1, <1>2, <1>3 DEF Jobs, Idle
<1> QED
  BY <1>5, <1>6, <1>7

\* The data of c is what it was, and its operation has the same batch: as much
\* of it is left to send, or it failed or is stopped, and nothing more is sent.
LEMMA SameBatch ==
  ASSUME Types, NEW c \in Conns, Steady(c), StopGoesOn(c),
         NEW p, NEW q, JobInv(c, p),
         Batch(q).bytes = Batch(p).bytes, Batch(q).frames = Batch(p).frames,
         \/ Rest(q) = Rest(p) /\ (Failed(p) => Failed(q))
         \/ Rest(q) = <<>> /\ (stopping'[c] \/ Failed(q))
  PROVE  CountInv(c, q)' /\ WireInv(c, q)' /\ RoomInv(c, q)'
<1>1. PlaceInv(c, p) /\ CountInv(c, p) /\ WireInv(c, p) /\ RoomInv(c, p)
  BY DEF JobInv
<1>2. Stream(c)' = Stream(c)
  BY DEF Steady, Stream
<1>3. CountInv(c, q)'
  BY <1>1 DEF CountInv, Steady
<1>4. RoomInv(c, q)'
  BY <1>1, <1>2 DEF RoomInv, Steady, StopGoesOn
<1>5. WireInv(c, q)'
  <2>1. PICK u \in Seq(Byte) :
          /\ Stream(c) = (wire[c] \o Rest(p)) \o u
          /\ ~stopping[c] /\ ~Failed(p) =>
               /\ u = FlattenSeq(queue[c])
               /\ completed[c] + Batch(p).frames + Len(queue[c]) = Len(accepted[c])
    BY <1>1 DEF WireInv
  <2>2. CASE Rest(q) = Rest(p) /\ (Failed(p) => Failed(q))
    BY <1>2, <2>1, <2>2 DEF WireInv, Steady, StopGoesOn
  <2>3. CASE Rest(q) = <<>> /\ (stopping'[c] \/ Failed(q))
    <3>1. PICK r \in Seq(Byte) : r = Rest(p)
      BY <1>1, RestIsBytes
    <3>2. PICK w \in Seq(Byte) : w = wire[c]
      BY DataTypes
    <3>3. (w \o r) \o u = (w \o <<>>) \o (r \o u) /\ r \o u \in Seq(Byte)
      <4>1. (w \o r) \o u = w \o (r \o u) /\ r \o u \in Seq(Byte) /\ w \o <<>> = w
        BY Concatenation
      <4> QED
        BY <4>1
    <3>4. Stream(c)' = (wire'[c] \o Rest(q)) \o (r \o u)
      BY <1>2, <2>1, <2>3, <3>1, <3>2, <3>3 DEF Steady
    <3> QED
      BY <2>3, <3>3, <3>4 DEF WireInv
  <2> QED
    BY <2>2, <2>3
<1> QED
  BY <1>3, <1>4, <1>5
-----------------------------------------------------------------------------
(* The dispatcher takes the oldest packet. *)

\* The operation of its connection is with the dispatcher, and others stay.
LEMMA FromPort ==
  ASSUME Types, OnePlace, worker.conn = Nobody, port # <<>>,
         worker' = Head(port), port' = Tail(port), UNCHANGED <<kernel, active>>
  PROVE  /\ OnePlace' /\ port' \in Seq(Packets) /\ worker' \in Packets
         /\ \A d \in Conns : \A p \in Jobs(d)' : p \in Jobs(d)
<1>1. /\ port' \in Seq(Packets) /\ worker' \in Packets /\ worker' = port[1]
      /\ Len(port) \in Nat \ {0} /\ Len(port') = Len(port) - 1
      /\ \A i \in 1..Len(port') : port'[i] = port[i + 1]
  <2>1. port \in Seq(Packets)
    BY DEF Types
  <2> QED
    BY <2>1, EmptySeq, HeadTailProperties, LenProperties, ElementOfSeq
<1>2. \A i \in 1..Len(port') : i + 1 \in 1..Len(port) /\ i + 1 # 1
  BY <1>1
<1>3. 1 \in 1..Len(port)
  BY <1>1
<1>4. \A i \in 1..Len(port) : i = 1 \/ (i - 1 \in 1..Len(port') /\ port'[i - 1] = port[i])
  <2>1. ASSUME NEW i \in 1..Len(port), i # 1
        PROVE  i - 1 \in 1..Len(port') /\ (i - 1) + 1 = i
    BY <1>1, <2>1
  <2> QED
    BY <1>1, <2>1
<1>5. worker'.conn \in Conns /\ \A i \in 1..Len(port) : port[i].conn \in Conns
  <2>1. \A i \in 1..Len(port) : port[i] \in Packets
    BY ElementOfSeq DEF Types
  <2> QED
    BY <1>1, <2>1 DEF Packets
<1>6. ASSUME NEW d \in Conns, NEW p \in Jobs(d)' PROVE p \in Jobs(d)
  <2>1. CASE p \in {port[i] : i \in {j \in 1..Len(port) : port[j].conn = d}}'
    <3>1. PICK i \in 1..Len(port') : port'[i].conn = d /\ p = port'[i]
      BY <2>1
    <3>2. i + 1 \in 1..Len(port) /\ port[i + 1].conn = d /\ p = port[i + 1]
      BY <1>1, <1>2, <3>1
    <3> QED
      BY <3>2 DEF Jobs
  <2>2. CASE p \in {Packet(d, "kernel", o, 0, FALSE) : o \in kernel'[d]}
    BY <2>2 DEF Jobs
  <2>3. CASE p \in (IF worker'.conn = d THEN {worker'} ELSE {})
    BY <1>1, <1>3, <2>3 DEF Jobs
  <2>4. CASE p \in (IF active'[d] THEN {} ELSE {Packet(d, "idle", NewOperation, 0, FALSE)})
    BY <2>4 DEF Jobs
  <2> QED
    BY <2>1, <2>2, <2>3, <2>4 DEF Jobs
<1>7. OnePlace'
  <2>1. ASSUME NEW i \in 1..Len(port'), NEW j \in 1..Len(port'), port'[i].conn = port'[j].conn
        PROVE  i = j
    <3>1. i + 1 \in 1..Len(port) /\ j + 1 \in 1..Len(port) /\ port[i + 1].conn = port[j + 1].conn
      BY <1>1, <1>2, <2>1
    <3>2. i + 1 = j + 1
      BY <3>1 DEF OnePlace
    <3> QED
      BY <1>1, <3>2
  <2>2. ASSUME NEW i \in 1..Len(port')
        PROVE  /\ active'[port'[i].conn] /\ kernel'[port'[i].conn] = {}
               /\ worker'.conn # port'[i].conn
    <3>1. port'[i] = port[i + 1] /\ i + 1 \in 1..Len(port) /\ i + 1 # 1
      BY <1>1, <1>2
    <3>2. port[i + 1].conn # port[1].conn
      BY <1>3, <3>1 DEF OnePlace
    <3>3. active[port[i + 1].conn] /\ kernel[port[i + 1].conn] = {}
      BY <3>1 DEF OnePlace
    <3> QED
      BY <1>1, <3>1, <3>2, <3>3
  <2>3. ASSUME NEW d \in Conns
        PROVE  /\ \A o1, o2 \in kernel'[d] : o1 = o2
               /\ kernel'[d] # {} => active'[d] /\ worker'.conn # d
               /\ worker'.conn = d => active'[d]
               /\ active'[d] => \/ worker'.conn = d
                                \/ kernel'[d] # {}
                                \/ \E i \in 1..Len(port') : port'[i].conn = d
    <3>1. worker.conn # d
      BY SocketOutputAssumption
    <3>2. worker'.conn = d => active[d] /\ kernel[d] = {}
      <4>1. active[port[1].conn] /\ kernel[port[1].conn] = {}
        BY <1>3 DEF OnePlace
      <4> QED
        BY <1>1, <4>1
    <3>3. ASSUME NEW i \in 1..Len(port), port[i].conn = d
          PROVE  worker'.conn = d \/ \E j \in 1..Len(port') : port'[j].conn = d
      BY <1>1, <1>4, <3>3
    <3> QED
      BY <3>1, <3>2, <3>3 DEF OnePlace
  <2> QED
    BY <2>1, <2>2, <2>3 DEF OnePlace
<1> QED
  BY <1>1, <1>6, <1>7

\* Taking a packet keeps the invariant.
LEMMA TakeKeeps ==
  ASSUME OutputCore, Take
  PROVE  OutputCore'
<1>1. Types /\ StopInv /\ OnePlace
  BY DEF OutputCore
<1>2. /\ worker.conn = Nobody /\ port # <<>> /\ worker' = Head(port) /\ port' = Tail(port)
      /\ UNCHANGED <<queue, pendingBytes, pendingFrames, active, completed, mutex,
                     stopping, stopReason, shut, stop, kernel, accepted, wire, broken>>
  BY <1>1 DEF Take, At, Types, queueVars, stopVars
<1>3. /\ OnePlace' /\ port' \in Seq(Packets) /\ worker' \in Packets
      /\ \A d \in Conns : \A p \in Jobs(d)' : p \in Jobs(d)
  BY <1>1, <1>2, FromPort
<1>4. Types'
  <2>1. /\ worker' \in [at : WorkerSteps, conn : Conns \union {Nobody},
                        op : Ops, sent : Nat, ok : BOOLEAN]
        /\ worker'.conn # Nobody /\ worker'.at # "wait"
    BY <1>3, SocketOutputAssumption DEF Packets, WorkerSteps
  <2> QED
    BY <1>1, <1>2, <1>3, <2>1 DEF Types
<1>5. StopInv'
  BY <1>1, <1>2 DEF StopInv
<1>6. ASSUME NEW d \in Conns PROVE LimitInv(d)' /\ \A p \in Jobs(d)' : JobInv(d, p)'
  <2>1. Steady(d) /\ StopGoesOn(d)
    BY <1>2, StopsUntouched DEF Steady, stopVars
  <2>2. LimitInv(d)'
    BY <2>1 DEF OutputCore, LimitInv, Steady
  <2>3. ASSUME NEW p \in Jobs(d)' PROVE JobInv(d, p)'
    <3>1. JobInv(d, p)
      BY <1>3, <2>3 DEF OutputCore
    <3> QED
      BY <2>1, <3>1, JobStays
  <2> QED
    BY <2>2, <2>3
<1> QED
  BY <1>3, <1>4, <1>5, <1>6 DEF OutputCore
-----------------------------------------------------------------------------
(* The dispatcher at work on the operation of a connection. *)

AtWork == [at : WorkerSteps \ {"wait"}, conn : Conns, op : Ops, sent : Nat, ok : BOOLEAN]

\* What is known of the operation the dispatcher works on.
LEMMA Handled ==
  ASSUME OutputCore, worker.at # "wait"
  PROVE  /\ worker \in AtWork /\ worker.conn \in Conns
         /\ JobInv(worker.conn, worker) /\ Types /\ StopInv /\ OnePlace
<1>1. worker.conn \in Conns
  BY DEF OutputCore, Types
<1>2. JobInv(worker.conn, worker)
  BY <1>1, WorkerJob DEF OutputCore
<1>3. worker \in AtWork
  BY <1>1 DEF OutputCore, Types, AtWork
<1> QED
  BY <1>1, <1>2, <1>3 DEF OutputCore

\* The operation stays with the dispatcher and the data of c is what it was.
LEMMA Move ==
  ASSUME OutputCore, worker.at # "wait", NEW c \in Conns, worker.conn = c,
         NEW q \in AtWork, worker' = q, q.conn = c,
         UNCHANGED <<queue, accepted, wire, pendingBytes, pendingFrames, completed>>,
         UNCHANGED <<port, kernel, active>>, mutex' \in [Conns -> Threads \union {Nobody}],
         StopInv', \A d \in Conns : StopGoesOn(d),
         Batch(q).bytes = Batch(worker).bytes, Batch(q).frames = Batch(worker).frames,
         \/ Rest(q) = Rest(worker) /\ (Failed(worker) => Failed(q))
         \/ Rest(q) = <<>> /\ (stopping'[c] \/ Failed(q)),
         PlaceInv(c, q)'
  PROVE  OutputCore'
<1>1. JobInv(c, worker) /\ Types /\ OnePlace
  BY Handled
<1>2. Types'
  <2>1. /\ worker' \in [at : WorkerSteps, conn : Conns \union {Nobody},
                        op : Ops, sent : Nat, ok : BOOLEAN]
        /\ worker'.conn # Nobody /\ worker'.at # "wait"
    BY SocketOutputAssumption DEF AtWork
  <2> QED
    BY <1>1, <2>1 DEF Types
<1>3. OnePlace' /\ Jobs(c)' = {q} /\ \A d \in Conns \ {c} : SamePlace(d)
  BY <1>1, StaysWithWorker
<1>4. \A d \in Conns : Steady(d)
  BY DEF Steady
<1>5. PICK p : p = worker
  OBVIOUS
<1>6. CountInv(c, q)' /\ WireInv(c, q)' /\ RoomInv(c, q)'
  <2>1. /\ JobInv(c, p) /\ Steady(c) /\ StopGoesOn(c)
        /\ Batch(q).bytes = Batch(p).bytes /\ Batch(q).frames = Batch(p).frames
    BY <1>1, <1>4, <1>5
  <2>2. \/ Rest(q) = Rest(p) /\ (Failed(p) => Failed(q))
        \/ Rest(q) = <<>> /\ (stopping'[c] \/ Failed(q))
    BY <1>5
  <2> QED
    BY <1>1, <2>1, <2>2, SameBatch
<1>7. LimitInv(c)' /\ \A p1 \in Jobs(c)' : JobInv(c, p1)'
  BY <1>3, <1>6 DEF OutputCore, LimitInv, JobInv
<1> QED
  BY <1>2, <1>3, <1>4, <1>7, Assemble

\* The operation fails before it is with the kernel.
LEMMA GiveUpKeeps ==
  ASSUME OutputCore, worker.at \in {"begun", "submit", "send", "post"}, GiveUp,
         UNCHANGED <<queue, accepted, wire, pendingBytes, pendingFrames, completed>>,
         UNCHANGED <<port, kernel, active, mutex>>,
         StopInv', \A d \in Conns : StopGoesOn(d),
         worker.conn \in broken' \/ stopping'[worker.conn]
  PROVE  OutputCore'
<1>1. worker \in AtWork /\ worker.conn \in Conns /\ JobInv(worker.conn, worker) /\ Types
  BY Handled
<1>2. PICK c \in Conns : c = worker.conn
  BY <1>1
<1>3. PICK q : q = [worker EXCEPT !.at = "complete", !.sent = 0, !.ok = FALSE]
  OBVIOUS
<1>4. /\ q \in AtWork /\ worker' = q
      /\ q.conn = c /\ q.op = worker.op /\ q.at = "complete" /\ q.sent = 0 /\ ~q.ok
  BY <1>1, <1>2, <1>3 DEF AtWork, WorkerSteps, GiveUp
<1>5. Rest(q) = <<>> /\ Failed(q) /\ Batch(q) = Batch(worker)
  BY <1>4 DEF Rest, Failed, Batch
<1>6. PlaceInv(c, q)'
  <2>1. q.op \in Ops /\ q.op.offset <= Len(q.op.bytes) /\ q.op.offset \in Nat
    BY <1>1, <1>4 DEF JobInv, PlaceInv, AtWork, Ops
  <2>2. Sent(q) <= Len(q.op.bytes)
    BY <1>4, <2>1 DEF Sent
  <2> QED
    BY <1>2, <1>4, <2>1, <2>2 DEF PlaceInv, AtWork
<1>7. mutex' \in [Conns -> Threads \union {Nobody}]
  BY <1>1 DEF Types
<1> QED
  BY <1>2, <1>4, <1>5, <1>6, <1>7, Move

\* Begin, after the mutex.
LEMMA BegunKeeps ==
  ASSUME OutputCore, Begun
  PROVE  OutputCore'
<1>1. /\ worker.at = "begun" /\ worker.at # "wait"
      /\ UNCHANGED <<queue, accepted, wire, pendingBytes, pendingFrames, completed>>
      /\ UNCHANGED <<port, kernel, active, mutex, stopVars, broken>>
  BY DEF Begun, At, queueVars, stopVars
<1>2. /\ worker \in AtWork /\ worker.conn \in Conns /\ JobInv(worker.conn, worker)
      /\ Types /\ StopInv
  BY <1>1, Handled
<1>3. StopInv' /\ \A d \in Conns : StopGoesOn(d)
  BY <1>1, <1>2, StopsUntouched DEF StopInv, stopVars
<1>4. PICK c \in Conns : c = worker.conn
  BY <1>2
<1>5. CASE worker.op.bytes = <<>> \/ stopping[c]
  <2>1. GiveUp
    BY <1>4, <1>5 DEF Begun
  <2>2. stopping'[c]
    BY <1>1, <1>2, <1>4, <1>5 DEF stopVars, JobInv, PlaceInv
  <2> QED
    BY <1>1, <1>3, <1>4, <2>1, <2>2, GiveUpKeeps
<1>6. CASE ~(worker.op.bytes = <<>> \/ stopping[c])
  <2>1. PICK q : q = [worker EXCEPT !.at = "submit"]
    OBVIOUS
  <2>2. /\ q \in AtWork /\ worker' = q /\ q.conn = c /\ q.op = worker.op
        /\ q.at = "submit" /\ q.sent = worker.sent
    BY <1>2, <1>4, <1>6, <2>1 DEF AtWork, WorkerSteps, Begun, GoTo
  <2>3. PlaceInv(c, worker)
    BY <1>2, <1>4 DEF JobInv
  <2>4. Sent(q) = Sent(worker) /\ ~Failed(q) /\ ~Failed(worker)
    BY <1>1, <2>2 DEF Sent, Failed
  <2>5. Rest(q) = Rest(worker) /\ Batch(q) = Batch(worker)
    BY <1>1, <2>2, <2>4 DEF Rest, Batch
  <2>6. PlaceInv(c, q)'
    BY <1>1, <1>6, <2>2, <2>3, <2>4 DEF PlaceInv, AtWork
  <2>7. mutex' \in [Conns -> Threads \union {Nobody}]
    BY <1>1, <1>2 DEF Types
  <2> QED
    BY <1>1, <1>3, <1>4, <2>2, <2>4, <2>5, <2>6, <2>7, Move
<1> QED
  BY <1>5, <1>6

\* Submit, before the request.
LEMMA SubmitKeeps ==
  ASSUME OutputCore, Submit
  PROVE  OutputCore'
<1>1. /\ worker.at = "submit" /\ worker.at # "wait"
      /\ UNCHANGED <<queue, accepted, wire, pendingBytes, pendingFrames, completed>>
      /\ UNCHANGED <<port, kernel, active, mutex, stopVars, broken>>
  BY DEF Submit, At, queueVars, stopVars
<1>2. /\ worker \in AtWork /\ worker.conn \in Conns /\ JobInv(worker.conn, worker)
      /\ Types /\ StopInv
  BY <1>1, Handled
<1>3. StopInv' /\ \A d \in Conns : StopGoesOn(d)
  BY <1>1, <1>2, StopsUntouched DEF StopInv, stopVars
<1>4. PICK c \in Conns : c = worker.conn
  BY <1>2
<1>5. CASE stopping[c]
  <2>1. GiveUp /\ stopping'[c]
    BY <1>1, <1>4, <1>5 DEF Submit, stopVars
  <2> QED
    BY <1>1, <1>3, <1>4, <2>1, GiveUpKeeps
<1>6. CASE ~stopping[c]
  <2>1. PICK q : q = [worker EXCEPT !.at = "send"]
    OBVIOUS
  <2>2. /\ q \in AtWork /\ worker' = q /\ q.conn = c /\ q.op = worker.op
        /\ q.at = "send" /\ q.sent = worker.sent
    BY <1>2, <1>4, <1>6, <2>1 DEF AtWork, WorkerSteps, Submit, GoTo
  <2>3. PlaceInv(c, worker)
    BY <1>2, <1>4 DEF JobInv
  <2>4. Sent(q) = Sent(worker) /\ ~Failed(q) /\ ~Failed(worker)
    BY <1>1, <2>2 DEF Sent, Failed
  <2>5. Rest(q) = Rest(worker) /\ Batch(q) = Batch(worker)
    BY <1>1, <2>2, <2>4 DEF Rest, Batch
  <2>6. PlaceInv(c, q)'
    BY <1>1, <2>2, <2>3, <2>4 DEF PlaceInv, AtWork
  <2>7. mutex' \in [Conns -> Threads \union {Nobody}]
    BY <1>1, <1>2 DEF Types
  <2> QED
    BY <1>1, <1>3, <1>4, <2>2, <2>4, <2>5, <2>6, <2>7, Move
<1> QED
  BY <1>5, <1>6

\* The operation leaves the dispatcher and the data of c is what it was.
LEMMA Passed ==
  ASSUME OutputCore, worker.at # "wait", NEW c \in Conns, worker.conn = c,
         UNCHANGED <<queue, accepted, wire, pendingBytes, pendingFrames, completed>>,
         Types', StopInv', \A d \in Conns : StopGoesOn(d),
         NEW q, OnePlace', Jobs(c)' = {q}, \A d \in Conns \ {c} : SamePlace(d),
         Batch(q).bytes = Batch(worker).bytes, Batch(q).frames = Batch(worker).frames,
         Rest(q) = Rest(worker), ~Failed(worker),
         PlaceInv(c, q)'
  PROVE  OutputCore'
<1>1. JobInv(c, worker) /\ Types
  BY Handled
<1>2. \A d \in Conns : Steady(d)
  BY DEF Steady
<1>3. PICK p : p = worker
  OBVIOUS
<1>4. CountInv(c, q)' /\ WireInv(c, q)' /\ RoomInv(c, q)'
  <2>1. /\ JobInv(c, p) /\ Steady(c) /\ StopGoesOn(c) /\ ~Failed(p) /\ Rest(q) = Rest(p)
        /\ Batch(q).bytes = Batch(p).bytes /\ Batch(q).frames = Batch(p).frames
    BY <1>1, <1>2, <1>3
  <2> QED
    BY <1>1, <2>1, SameBatch
<1>5. LimitInv(c)' /\ \A p1 \in Jobs(c)' : JobInv(c, p1)'
  BY <1>4 DEF OutputCore, LimitInv, JobInv
<1> QED
  BY <1>2, <1>5, Assemble

\* The request is made or refused.
LEMMA SendKeeps ==
  ASSUME OutputCore, Send
  PROVE  OutputCore'
<1>1. /\ worker.at = "send" /\ worker.at # "wait"
      /\ UNCHANGED <<queue, accepted, wire, pendingBytes, pendingFrames, completed>>
      /\ UNCHANGED <<port, active, mutex, stopVars>>
  BY DEF Send, At, queueVars, stopVars
<1>2. /\ worker \in AtWork /\ worker.conn \in Conns /\ JobInv(worker.conn, worker)
      /\ Types /\ StopInv /\ OnePlace
  BY <1>1, Handled
<1>3. broken \subseteq broken' /\ broken' \subseteq Conns
  BY <1>2 DEF Send, StopInv
<1>4. StopInv' /\ \A d \in Conns : StopGoesOn(d)
  <2>1. StopInv'
    BY <1>1, <1>2, <1>3 DEF StopInv, stopVars
  <2> QED
    BY <1>1, <1>3, <2>1, StopsUntouched
<1>5. PICK c \in Conns : c = worker.conn
  BY <1>2
<1>6. CASE GiveUp /\ broken' = (IF shut[c] THEN broken ELSE broken \union {c})
           /\ UNCHANGED kernel
  <2>1. c \in broken' \/ stopping'[c]
    BY <1>1, <1>2, <1>6 DEF StopInv, stopVars
  <2> QED
    BY <1>1, <1>4, <1>5, <1>6, <2>1, GiveUpKeeps
<1>7. CASE /\ kernel' = [kernel EXCEPT ![c] = @ \union {worker.op}]
           /\ worker' = Waiting
  <2>1. PICK q : q = Packet(c, "kernel", worker.op, 0, FALSE)
    OBVIOUS
  <2>2. /\ OnePlace' /\ Jobs(c)' = {q} /\ \A d \in Conns \ {c} : SamePlace(d)
    BY <1>1, <1>2, <1>5, <1>7, <2>1, ToKernel
  <2>3. worker.op \in Ops
    BY <1>2 DEF AtWork
  <2>4. Types'
    <3>1. kernel' \in [Conns -> SUBSET Ops]
      BY <1>2, <1>7, <2>3 DEF Types
    <3>2. worker' \in [at : WorkerSteps, conn : Conns \union {Nobody},
                       op : Ops, sent : Nat, ok : BOOLEAN]
          /\ worker'.conn = Nobody /\ worker'.at = "wait"
      BY <1>7, NewOperationType DEF Waiting, Packet, WorkerSteps
    <3> QED
      BY <1>1, <1>2, <3>1, <3>2 DEF Types
  <2>5. /\ q.at = "kernel" /\ q.op = worker.op /\ q.sent = 0 /\ q.ok = FALSE
        /\ q.ok \in BOOLEAN
    BY <2>1 DEF Packet
  <2>6. PlaceInv(c, worker)
    BY <1>2, <1>5 DEF JobInv
  <2>7. Sent(q) = Sent(worker) /\ ~Failed(q) /\ ~Failed(worker)
    BY <1>1, <2>5 DEF Sent, Failed
  <2>8. Rest(q) = Rest(worker) /\ Batch(q) = Batch(worker)
    BY <1>1, <2>5, <2>7 DEF Rest, Batch
  <2>9. PlaceInv(c, q)'
    BY <2>5, <2>6, <2>7 DEF PlaceInv
  <2> QED
    BY <1>1, <1>4, <1>5, <2>2, <2>4, <2>7, <2>8, <2>9, Passed
<1> QED
  BY <1>5, <1>6, <1>7 DEF Send

\* The rest of a batch, or the next one, goes to the port.
LEMMA PostKeeps ==
  ASSUME OutputCore, Post
  PROVE  OutputCore'
<1>1. /\ worker.at = "post" /\ worker.at # "wait" /\ stop[Worker] = NotStopping
      /\ UNCHANGED <<queue, accepted, wire, pendingBytes, pendingFrames, completed>>
      /\ UNCHANGED <<kernel, active, mutex, stopping, stopReason, shut>>
  BY DEF Post, At, queueVars
<1>2. /\ worker \in AtWork /\ worker.conn \in Conns /\ JobInv(worker.conn, worker)
      /\ Types /\ StopInv /\ OnePlace
  BY <1>1, Handled
<1>3. PICK c \in Conns : c = worker.conn
  BY <1>2
<1>4. CASE /\ stop' = [stop EXCEPT ![Worker] = Stopping("reason", c, 2)]
           /\ GiveUp /\ broken' = broken \union {c} /\ UNCHANGED port
  <2>1. broken \subseteq broken' /\ broken' \subseteq Conns /\ c \in broken'
    BY <1>2, <1>4 DEF StopInv
  <2>2. StopInv' /\ \A d \in Conns : StopGoesOn(d)
    <3>1. Worker \in Threads /\ 2 \in 1..3
      BY DEF Threads
    <3> QED
      BY <1>1, <1>2, <1>4, <2>1, <3>1, NewStop
  <2> QED
    BY <1>1, <1>3, <1>4, <2>1, <2>2, GiveUpKeeps
<1>5. ASSUME NEW key, key = (IF worker.op.bytes = <<>> THEN "begin" ELSE "submit"),
             port' = Append(port, Packet(c, key, worker.op, 0, FALSE)),
             worker' = Waiting, UNCHANGED <<stop, broken>>
      PROVE  OutputCore'
  <2>1. StopInv' /\ \A d \in Conns : StopGoesOn(d)
    <3>1. UNCHANGED stopVars /\ broken \subseteq broken'
      BY <1>1, <1>5 DEF stopVars
    <3>2. StopInv'
      BY <1>1, <1>2, <1>5 DEF StopInv
    <3> QED
      BY <3>1, <3>2, StopsUntouched
  <2>2. PICK q : q = Packet(c, key, worker.op, 0, FALSE)
    OBVIOUS
  <2>3. /\ q.at = key /\ q.op = worker.op /\ q.sent = 0 /\ q.ok = FALSE /\ q.conn = c
        /\ q.ok \in BOOLEAN
        /\ q \in Packets /\ key \in {"begin", "submit"}
    BY <1>2, <1>5, <2>2 DEF Packet, Packets, AtWork
  <2>4. worker'.conn \notin Conns
    BY <1>5, SocketOutputAssumption DEF Waiting, Packet
  <2>5. OnePlace' /\ Jobs(c)' = {q} /\ \A d \in Conns \ {c} : SamePlace(d)
    <3>1. active[c] /\ kernel[c] = {} /\ \A i \in 1..Len(port) : port[i].conn # c
      BY <1>2, <1>3, WorkerJob
    <3> QED
      BY <1>1, <1>2, <1>3, <1>5, <2>2, <2>3, <2>4, <3>1, ToPort
  <2>6. Types'
    <3>1. port' \in Seq(Packets)
      BY <1>2, <1>5, <2>2, <2>3, PortGrows DEF Types
    <3>2. worker' \in [at : WorkerSteps, conn : Conns \union {Nobody},
                       op : Ops, sent : Nat, ok : BOOLEAN]
          /\ worker'.conn = Nobody /\ worker'.at = "wait"
      BY <1>5, NewOperationType DEF Waiting, Packet, WorkerSteps
    <3> QED
      BY <1>1, <1>2, <3>1, <3>2 DEF Types
  <2>7. PlaceInv(c, worker)
    BY <1>2, <1>3 DEF JobInv
  <2>8. Sent(q) = Sent(worker) /\ ~Failed(q) /\ ~Failed(worker)
    BY <1>1, <2>3 DEF Sent, Failed
  <2>9. Rest(q) = Rest(worker) /\ Batch(q) = Batch(worker)
    BY <1>1, <2>3, <2>8 DEF Rest, Batch
  <2>10. PlaceInv(c, q)'
    BY <1>1, <1>5, <2>3, <2>7, <2>8 DEF PlaceInv
  <2> QED
    BY <1>1, <1>3, <2>1, <2>5, <2>6, <2>8, <2>9, <2>10, Passed
<1> QED
  BY <1>3, <1>4, <1>5 DEF Post

\* Another batch, or none.
LEMMA NextBatchKeeps ==
  ASSUME OutputCore, NextBatch
  PROVE  OutputCore'
<1>1. /\ worker.at = "next" /\ worker.at # "wait"
      /\ UNCHANGED <<queue, accepted, wire, pendingBytes, pendingFrames, completed>>
      /\ UNCHANGED <<port, kernel, stopVars, broken>>
  BY DEF NextBatch, At, stopVars
<1>2. /\ worker \in AtWork /\ worker.conn \in Conns /\ JobInv(worker.conn, worker)
      /\ Types /\ StopInv /\ OnePlace
  BY <1>1, Handled
<1>3. StopInv' /\ \A d \in Conns : StopGoesOn(d)
  BY <1>1, <1>2, StopsUntouched DEF StopInv, stopVars
<1>4. PICK c \in Conns : c = worker.conn
  BY <1>2
<1>5. mutex' \in [Conns -> Threads \union {Nobody}]
  BY <1>2, <1>4 DEF Types, NextBatch
<1>6. ~Failed(worker) /\ Rest(worker) = <<>> /\ Batch(worker) = NewOperation
  BY <1>1 DEF Failed, Rest, Batch
<1>7. NewOperation \in Ops /\ SubSeq(<<>>, 0 + 1, 0) = <<>>
  BY NewOperationType, SubSeqEmpty
<1>8. CASE ~stopping[c] /\ queue[c] # <<>>
  <2>1. PICK q : q = [worker EXCEPT !.at = "post", !.op = NewOperation]
    OBVIOUS
  <2>2. /\ q \in AtWork /\ worker' = q /\ q.conn = c /\ q.op = NewOperation /\ q.at = "post"
        /\ UNCHANGED active
    BY <1>2, <1>4, <1>7, <1>8, <2>1 DEF AtWork, WorkerSteps, NextBatch
  <2>3. Rest(q) = <<>> /\ Batch(q) = NewOperation
    BY <1>7, <2>2, NewOperationType DEF Rest, Batch, Failed, Sent
  <2>4. PlaceInv(c, q)'
    BY <1>1, <1>8, <2>2, NewOperationType DEF PlaceInv, AtWork, Sent
  <2> QED
    BY <1>1, <1>3, <1>4, <1>5, <1>6, <2>2, <2>3, <2>4, Move
<1>9. CASE ~(~stopping[c] /\ queue[c] # <<>>)
  <2>1. worker' = Waiting /\ active' = [active EXCEPT ![c] = FALSE]
    BY <1>4, <1>9 DEF NextBatch
  <2>2. OnePlace' /\ Jobs(c)' = {Idle(c)} /\ \A d \in Conns \ {c} : SamePlace(d)
    BY <1>1, <1>2, <1>4, <2>1, ToNowhere
  <2>3. Types'
    <3>1. active' \in [Conns -> BOOLEAN]
      BY <1>2, <2>1 DEF Types
    <3>2. worker' \in [at : WorkerSteps, conn : Conns \union {Nobody},
                       op : Ops, sent : Nat, ok : BOOLEAN]
          /\ worker'.conn = Nobody /\ worker'.at = "wait"
      BY <2>1, NewOperationType DEF Waiting, Packet, WorkerSteps
    <3> QED
      BY <1>1, <1>2, <1>5, <3>1, <3>2 DEF Types
  <2>4. PICK q : q = Idle(c)
    OBVIOUS
  <2>5. q.at = "idle" /\ q.op = NewOperation /\ q.sent = 0 /\ q.ok = FALSE /\ q.ok \in BOOLEAN
    BY <2>4 DEF Idle, Packet
  <2>6. Rest(q) = <<>> /\ Batch(q) = NewOperation
    BY <2>5 DEF Rest, Batch
  <2>7. PlaceInv(c, q)'
    BY <1>1, <1>7, <1>9, <2>5, NewOperationType DEF PlaceInv, Sent, BeingStopped, stopVars
  <2> QED
    BY <1>1, <1>3, <1>4, <1>6, <2>2, <2>3, <2>4, <2>6, <2>7, Passed
<1> QED
  BY <1>8, <1>9

\* A completion is taken in.
LEMMA CompleteKeeps ==
  ASSUME OutputCore, Complete
  PROVE  OutputCore'
<1>1. /\ worker.at = "complete" /\ worker.at # "wait" /\ stop[Worker] = NotStopping
      /\ UNCHANGED <<queue, accepted, wire, pendingBytes, pendingFrames, completed>>
      /\ UNCHANGED <<port, kernel, active, stopping, stopReason, shut, broken>>
  BY DEF Complete, At
<1>2. /\ worker \in AtWork /\ worker.conn \in Conns /\ JobInv(worker.conn, worker)
      /\ Types /\ StopInv /\ OnePlace
  BY <1>1, Handled
<1>3. PICK c \in Conns : c = worker.conn
  BY <1>2
<1>4. Worker \in Threads
  BY DEF Threads
<1>5. mutex' \in [Conns -> Threads \union {Nobody}]
  BY <1>2, <1>3, <1>4 DEF Types, Complete
<1>6. PlaceInv(c, worker)
  BY <1>2, <1>3 DEF JobInv
<1>7. PICK m : m = worker.op.offset + worker.sent
  OBVIOUS
<1>8. /\ worker.op \in Ops /\ worker.op.bytes \in Seq(Byte) /\ worker.op.frames \in Nat
      /\ m \in 0..Len(worker.op.bytes) /\ Sent(worker) = m /\ Len(worker.op.bytes) \in Nat
  BY <1>1, <1>6, <1>7, LenProperties DEF PlaceInv, Ops, Byte, Sent
<1>9. CASE worker.ok
  <2>1. ~Failed(worker) /\ Rest(worker) = SubSeq(worker.op.bytes, m + 1, Len(worker.op.bytes))
    BY <1>1, <1>8, <1>9 DEF Failed, Rest
  <2>2. UNCHANGED stop
    BY <1>9 DEF Complete
  <2>3. StopInv' /\ \A d \in Conns : StopGoesOn(d)
    BY <1>1, <1>2, <2>2, StopsUntouched DEF StopInv, stopVars
  <2>4. ASSUME NEW step \in {"post", "settle"},
               worker' = [worker EXCEPT !.at = step, !.op.offset = m],
               step = "post" => m < Len(worker.op.bytes),
               step = "settle" => stopping[c] \/ m = Len(worker.op.bytes)
        PROVE  OutputCore'
    <3>1. PICK q : q = [worker EXCEPT !.at = step, !.op.offset = m]
      OBVIOUS
    <3>2. [worker.op EXCEPT !.offset = m] \in Ops
      <4>1. m \in Nat
        BY <1>8
      <4> QED
        BY <1>8, <4>1 DEF Ops
    <3>3. /\ q \in AtWork /\ worker' = q /\ q.conn = c /\ q.at = step
          /\ q.op.bytes = worker.op.bytes /\ q.op.frames = worker.op.frames /\ q.op.offset = m
          /\ q.op \in Ops /\ q.ok = worker.ok
      BY <1>2, <1>3, <2>4, <3>1, <3>2 DEF AtWork, WorkerSteps, Ops
    <3>4. Batch(q).bytes = Batch(worker).bytes /\ Batch(q).frames = Batch(worker).frames
      BY <1>1, <3>3 DEF Batch
    <3>5. Sent(q) = m /\ ~Failed(q)
      BY <1>9, <3>3 DEF Sent, Failed
    <3>6. Rest(q) = Rest(worker) \/ (Rest(q) = <<>> /\ stopping'[c])
      <4>1. CASE step = "post"
        BY <2>1, <3>3, <3>5, <4>1 DEF Rest
      <4>2. CASE step = "settle"
        <5>1. Rest(q) = <<>>
          BY <3>3, <4>2 DEF Rest
        <5>2. m = Len(worker.op.bytes) => Rest(worker) = <<>>
          BY <1>8, <2>1, RestOfBatch
        <5> QED
          BY <1>1, <2>4, <4>2, <5>1, <5>2
      <4> QED
        BY <4>1, <4>2
    <3>7. q.at = "settle" /\ ~stopping'[c] => Left(q.op) = 0
      <4>1. q.at = "settle" /\ ~stopping'[c] => m = Len(worker.op.bytes)
        BY <1>1, <2>4, <3>3
      <4>2. Left(q.op) = Len(worker.op.bytes) - m
        BY <3>3 DEF Left
      <4> QED
        BY <1>8, <4>1, <4>2
    <3>8. q.at = "post" => q.op.bytes # <<>>
      BY <1>8, <2>4, <3>3, EmptySeq
    <3>9. q.op.offset <= Len(q.op.bytes) /\ Sent(q) <= Len(q.op.bytes) /\ q.sent \in Nat
      BY <1>8, <3>3, <3>5 DEF AtWork
    <3>10. PlaceInv(c, q)'
      BY <1>9, <2>4, <3>3, <3>7, <3>8, <3>9 DEF PlaceInv
    <3> QED
      BY <1>1, <1>3, <1>5, <2>1, <2>3, <3>3, <3>4, <3>6, <3>10, Move
  <2>5. CASE ~stopping[c] /\ m < Len(worker.op.bytes)
    BY <1>3, <1>7, <1>9, <2>4, <2>5 DEF Complete
  <2>6. CASE ~(~stopping[c] /\ m < Len(worker.op.bytes))
    <3>1. worker' = [worker EXCEPT !.at = "settle", !.op.offset = m]
      BY <1>3, <1>7, <1>9, <2>6 DEF Complete
    <3>2. stopping[c] \/ m = Len(worker.op.bytes)
      BY <1>8, <2>6
    <3> QED
      BY <2>4, <3>1, <3>2
  <2> QED
    BY <2>5, <2>6
<1>10. CASE ~worker.ok
  <2>1. PICK q : q = [worker EXCEPT !.at = "settle"]
    OBVIOUS
  <2>2. /\ q \in AtWork /\ worker' = q /\ q.conn = c /\ q.at = "settle"
        /\ q.op = worker.op /\ ~q.ok /\ q.sent = worker.sent
    BY <1>2, <1>3, <1>10, <2>1 DEF AtWork, WorkerSteps, Complete, GoTo
  <2>3. Failed(q) /\ Rest(q) = <<>> /\ Batch(q) = Batch(worker)
    BY <1>1, <2>2 DEF Failed, Rest, Batch
  <2>4. Sent(q) <= Len(q.op.bytes)
    BY <1>6, <2>2 DEF Sent, PlaceInv
  <2>5. CASE stopping[c]
    <3>1. UNCHANGED stopVars
      BY <1>1, <1>3, <1>10, <2>5 DEF Complete, stopVars
    <3>2. StopInv' /\ \A d \in Conns : StopGoesOn(d)
      BY <1>1, <1>2, <3>1, StopsUntouched DEF StopInv, stopVars
    <3>3. PlaceInv(c, q)'
      BY <1>1, <1>6, <2>2, <2>4, <2>5 DEF PlaceInv, AtWork
    <3> QED
      BY <1>1, <1>3, <1>5, <2>2, <2>3, <3>2, <3>3, Move
  <2>6. CASE ~stopping[c]
    <3>1. stop' = [stop EXCEPT ![Worker] = Stopping("reason", c, 2)]
      BY <1>3, <1>10, <2>6 DEF Complete
    <3>2. c \in broken
      BY <1>1, <1>6, <1>10, <2>6 DEF PlaceInv
    <3>3. StopInv' /\ \A d \in Conns : StopGoesOn(d)
      <4>1. broken \subseteq broken' /\ broken' \subseteq Conns /\ c \in broken' /\ 2 \in 1..3
        BY <1>1, <1>2, <3>2 DEF StopInv
      <4> QED
        BY <1>1, <1>2, <1>4, <3>1, <4>1, NewStop
    <3>4. stop'[Worker].conn = c
      BY <1>2, <1>4, <3>1 DEF StopInv, Stopping
    <3>5. PlaceInv(c, q)'
      BY <1>6, <2>2, <2>4, <3>4 DEF PlaceInv, AtWork
    <3> QED
      BY <1>1, <1>3, <1>5, <2>2, <2>3, <3>3, <3>5, Move
  <2> QED
    BY <2>5, <2>6
<1> QED
  BY <1>9, <1>10

\* Begin takes n frames with the bytes b off a queue and leaves r.
TakesOff(q, n, b, r) ==
  /\ n = BatchLength(q)
  /\ b = FlattenSeq(SubSeq(q, 1, n))
  /\ r = SubSeq(q, n + 1, Len(q))

\* The frames taken and the frames left are those of q, and there is a batch.
Splits(q, n, b, r) ==
  /\ n \in 1..Len(q) /\ n \in Nat
  /\ b \in Seq(Byte) /\ b # <<>> /\ Len(b) \in Nat
  /\ r \in Seq(Frames) /\ Len(r) = Len(q) - n
  /\ FlattenSeq(r) \in Seq(Byte) /\ Len(FlattenSeq(r)) \in Nat
  /\ FlattenSeq(q) = b \o FlattenSeq(r)
  /\ Len(FlattenSeq(q)) = Len(b) + Len(FlattenSeq(r))

\* A batch goes off the queue and into the operation.
LEMMA BatchData ==
  ASSUME Types, NEW c \in Conns, queue[c] # <<>>,
         NEW n, NEW b, NEW r, TakesOff(queue[c], n, b, r)
  PROVE  Splits(queue[c], n, b, r)
<1>1. queue[c] \in Seq(Frames) /\ Len(queue[c]) \in Nat
  BY DataTypes
<1>2. n \in 1..Len(queue[c]) /\ n \in 0..Len(queue[c]) /\ n \in Nat
  BY <1>1, BatchLengthRange DEF TakesOff
<1>3. /\ SubSeq(queue[c], 1, n) \in Seq(Frames) /\ Len(SubSeq(queue[c], 1, n)) = n
      /\ r \in Seq(Frames) /\ Len(r) = Len(queue[c]) - n
      /\ FlattenSeq(queue[c]) = b \o FlattenSeq(r)
  BY <1>1, <1>2, SplitQueue DEF TakesOff
<1>4. b \in Seq(Byte) /\ Len(b) \in Nat
  BY <1>3, FramesAreSequences DEF TakesOff
<1>5. FlattenSeq(r) \in Seq(Byte) /\ Len(FlattenSeq(r)) \in Nat
  BY <1>3, FramesAreSequences
<1>6. b # <<>>
  <2>1. SubSeq(queue[c], 1, n) # <<>>
    <3>1. Len(SubSeq(queue[c], 1, n)) # 0
      BY <1>2, <1>3
    <3> QED
      BY <3>1, EmptySeq
  <2> QED
    BY <1>3, <2>1, FlattenNonEmpty DEF Frames, TakesOff
<1>7. Len(b \o FlattenSeq(r)) = Len(b) + Len(FlattenSeq(r))
  BY <1>4, <1>5, Concatenation
<1> QED
  BY <1>2, <1>3, <1>4, <1>5, <1>6, <1>7 DEF Splits

\* A batch is taken off the queue.
LEMMA BeginKeeps ==
  ASSUME OutputCore, Begin
  PROVE  OutputCore'
<1>1. /\ worker.at = "begin" /\ worker.at # "wait"
      /\ UNCHANGED <<accepted, wire, pendingBytes, pendingFrames, completed>>
      /\ UNCHANGED <<port, kernel, active, mutex, stopVars, broken>>
  BY DEF Begin, At, stopVars
<1>2. /\ worker \in AtWork /\ worker.conn \in Conns /\ JobInv(worker.conn, worker)
      /\ Types /\ StopInv /\ OnePlace
  BY <1>1, Handled
<1>3. StopInv' /\ \A d \in Conns : StopGoesOn(d)
  BY <1>1, <1>2, StopsUntouched DEF StopInv, stopVars
<1>4. PICK c \in Conns : c = worker.conn
  BY <1>2
<1>5. /\ JobInv(c, worker) /\ PlaceInv(c, worker)
      /\ worker.op = NewOperation /\ worker.sent = 0 /\ (queue[c] # <<>> \/ stopping[c])
  BY <1>1, <1>2, <1>4, NewOperationType DEF JobInv, PlaceInv
<1>6. ~Failed(worker) /\ Rest(worker) = <<>> /\ Batch(worker) = NewOperation
  <2>1. SubSeq(<<>>, 0 + 1, 0) = <<>>
    BY SubSeqEmpty
  <2> QED
    BY <1>1, <1>5, <2>1, NewOperationType DEF Failed, Rest, Batch, Sent
<1>7. CASE stopping[c] \/ queue[c] = <<>>
  <2>1. PICK q : q = [worker EXCEPT !.at = "begun"]
    OBVIOUS
  <2>2. /\ q \in AtWork /\ worker' = q /\ q.conn = c /\ q.op = worker.op /\ q.at = "begun"
        /\ q.sent = worker.sent /\ UNCHANGED queue
    BY <1>2, <1>4, <1>7, <2>1 DEF AtWork, WorkerSteps, Begin, GoTo
  <2>3. Sent(q) = Sent(worker) /\ ~Failed(q)
    BY <1>1, <2>2 DEF Sent, Failed
  <2>4. Rest(q) = Rest(worker) /\ Batch(q) = Batch(worker)
    BY <1>1, <1>6, <2>2, <2>3 DEF Rest, Batch
  <2>5. PlaceInv(c, q)'
    BY <1>1, <1>5, <1>7, <2>2, <2>3 DEF PlaceInv, AtWork, stopVars
  <2>6. mutex' \in [Conns -> Threads \union {Nobody}]
    BY <1>1, <1>2 DEF Types
  <2> QED
    BY <1>1, <1>3, <1>4, <1>6, <2>2, <2>4, <2>5, <2>6, Move
<1>8. CASE ~(stopping[c] \/ queue[c] = <<>>)
  <2>1. PICK n : n = BatchLength(queue[c])
    OBVIOUS
  <2>2. PICK b : b = FlattenSeq(SubSeq(queue[c], 1, n))
    OBVIOUS
  <2>3. PICK r : r = SubSeq(queue[c], n + 1, Len(queue[c]))
    OBVIOUS
  <2>4. /\ n \in 1..Len(queue[c]) /\ n \in Nat
        /\ b \in Seq(Byte) /\ b # <<>> /\ Len(b) \in Nat
        /\ r \in Seq(Frames) /\ Len(r) = Len(queue[c]) - n
        /\ FlattenSeq(r) \in Seq(Byte) /\ Len(FlattenSeq(r)) \in Nat
        /\ FlattenSeq(queue[c]) = b \o FlattenSeq(r)
        /\ Len(FlattenSeq(queue[c])) = Len(b) + Len(FlattenSeq(r))
    <3>1. Types /\ queue[c] # <<>>
      BY <1>2, <1>8
    <3>2. TakesOff(queue[c], n, b, r)
      BY <2>1, <2>2, <2>3 DEF TakesOff
    <3>3. Splits(queue[c], n, b, r)
      BY <3>1, <3>2, BatchData
    <3> QED
      BY <3>3 DEF Splits
  <2>5. PICK q : q = [worker EXCEPT !.at = "begun", !.op.bytes = b, !.op.frames = n]
    OBVIOUS
  <2>6. worker' = q /\ queue' = [queue EXCEPT ![c] = r]
    BY <1>4, <1>8, <2>1, <2>2, <2>3, <2>5 DEF Begin
  <2>7. /\ q.conn = c /\ q.at = "begun" /\ q.sent = 0 /\ q.ok = worker.ok
        /\ q.op.bytes = b /\ q.op.frames = n /\ q.op.offset = 0
        /\ q.op \in Ops /\ q \in AtWork
    <3>1. worker.op \in Ops /\ worker.op.offset = 0
      BY <1>5, NewOperationType
    <3>2. [worker.op EXCEPT !.bytes = b, !.frames = n] \in Ops
      BY <2>4, <3>1 DEF Ops, Byte
    <3> QED
      BY <1>2, <1>4, <1>5, <2>4, <2>5, <3>1, <3>2 DEF AtWork, WorkerSteps, Ops
  <2>8. queue'[c] = r /\ queue' \in [Conns -> Seq(Frames)]
        /\ \A d \in Conns \ {c} : queue'[d] = queue[d]
    BY <1>2, <2>4, <2>6 DEF Types
  <2>9. Types'
    <3>1. /\ worker' \in [at : WorkerSteps, conn : Conns \union {Nobody},
                          op : Ops, sent : Nat, ok : BOOLEAN]
          /\ worker'.conn # Nobody /\ worker'.at # "wait"
      BY <2>6, <2>7, SocketOutputAssumption DEF AtWork
    <3> QED
      BY <1>1, <1>2, <2>8, <3>1 DEF Types
  <2>10. OnePlace' /\ Jobs(c)' = {q} /\ \A d \in Conns \ {c} : SamePlace(d)
    BY <1>1, <1>2, <1>4, <2>6, <2>7, StaysWithWorker
  <2>11. \A d \in Conns \ {c} : Steady(d)
    BY <1>1, <2>8 DEF Steady
  <2>12. ~Failed(q) /\ Batch(q) = q.op /\ Sent(q) = 0 /\ Rest(q) = b
    <3>1. SubSeq(b, 0 + 1, Len(b)) = b
      BY <2>4, RestOfBatch
    <3> QED
      BY <2>7, <3>1 DEF Failed, Batch, Sent, Rest
  <2>13. PlaceInv(c, q)'
    BY <2>4, <2>7, <2>12 DEF PlaceInv, AtWork
  <2>14. CountInv(c, worker) /\ WireInv(c, worker) /\ RoomInv(c, worker)
    BY <1>5 DEF JobInv
  <2> DEFINE lb == Len(b)
             lr == Len(FlattenSeq(r))
             fq == Len(FlattenSeq(queue[c]))
             lq == Len(queue[c])
             la == Len(accepted[c])
             ls == Len(Stream(c))
             lw == Len(wire[c])
             done == completed[c]
  <2>15. /\ lb \in Nat /\ lr \in Nat /\ fq \in Nat /\ lq \in Nat /\ la \in Nat
         /\ ls \in Nat /\ lw \in Nat /\ done \in Nat /\ n \in Nat
         /\ fq = lb + lr /\ Len(r) = lq - n
    BY <1>2, <2>4, DataTypes
  <2>16. CountInv(c, q)'
    <3>1. pendingBytes[c] = fq + 0 /\ pendingFrames[c] = lq + 0
      BY <1>6, <2>14, NewOperationType DEF CountInv
    <3> HIDE DEF lb, lr, fq, lq
    <3>2. pendingBytes[c] = lr + lb /\ pendingFrames[c] = (lq - n) + n
      BY <2>15, <3>1
    <3> QED
      BY <1>1, <2>7, <2>8, <2>12, <2>15, <3>2 DEF CountInv, lb, lr
  <2>17. Stream(c)' = Stream(c) /\ UNCHANGED stopping
    BY <1>1 DEF Stream, stopVars
  <2>18. RoomInv(c, q)'
    <3>1. ls <= lw + fq + 0
      BY <1>6, <1>8, <2>14, NewOperationType DEF RoomInv
    <3> HIDE DEF lb, lr, fq, ls, lw
    <3>2. ls <= lw + lr + lb
      BY <2>15, <3>1
    <3> QED
      BY <1>1, <2>7, <2>8, <2>12, <2>17, <3>2 DEF RoomInv, lb, lr, ls, lw
  <2>19. WireInv(c, q)'
    <3>1. /\ Stream(c) = (wire[c] \o <<>>) \o FlattenSeq(queue[c])
          /\ done + 0 + lq = la
      BY <1>6, <1>8, <2>14, NewOperationType DEF WireInv
    <3>2. PICK w \in Seq(Byte) : w = wire[c]
      BY <1>2, DataTypes
    <3>3. (w \o b) \o FlattenSeq(r) = w \o (b \o FlattenSeq(r)) /\ w \o <<>> = w
      BY <2>4, Concatenation
    <3>4. Stream(c)' = (wire'[c] \o Rest(q)) \o FlattenSeq(queue'[c])
      BY <1>1, <2>4, <2>8, <2>12, <2>17, <3>1, <3>2, <3>3
    <3>5. completed'[c] + Batch(q).frames + Len(queue'[c]) = Len(accepted'[c])
      <4> HIDE DEF lq, la, done
      <4>1. done + n + (lq - n) = la
        BY <2>15, <3>1
      <4> QED
        BY <1>1, <2>7, <2>8, <2>12, <2>15, <4>1 DEF la, done
    <3>6. FlattenSeq(queue'[c]) \in Seq(Byte)
      BY <2>4, <2>8
    <3> QED
      BY <3>4, <3>5, <3>6 DEF WireInv
  <2>20. LimitInv(c)' /\ \A p \in Jobs(c)' : JobInv(c, p)'
    <3>1. LimitInv(c)'
      BY <1>1 DEF OutputCore, LimitInv
    <3> QED
      BY <2>10, <2>13, <2>16, <2>18, <2>19, <3>1 DEF JobInv
  <2> QED
    BY <1>3, <2>9, <2>10, <2>11, <2>20, Assemble
<1> QED
  BY <1>7, <1>8

\* A batch leaves the counters.
LEMMA SettleKeeps ==
  ASSUME OutputCore, Settle
  PROVE  OutputCore'
<1>1. /\ worker.at = "settle" /\ worker.at # "wait" /\ stop[Worker] = NotStopping
      /\ UNCHANGED <<accepted, wire, port, kernel, active, mutex, stopVars, broken>>
  BY DEF Settle, At, stopVars
<1>2. /\ worker \in AtWork /\ worker.conn \in Conns /\ JobInv(worker.conn, worker)
      /\ Types /\ StopInv /\ OnePlace
  BY <1>1, Handled
<1>3. StopInv' /\ \A d \in Conns : StopGoesOn(d)
  BY <1>1, <1>2, StopsUntouched DEF StopInv, stopVars
<1>4. PICK c \in Conns : c = worker.conn
  BY <1>2
<1>5. PICK o \in Ops : o = worker.op
  BY <1>2 DEF AtWork
<1>6. /\ PlaceInv(c, worker) /\ CountInv(c, worker) /\ WireInv(c, worker)
      /\ Batch(worker) = o /\ Rest(worker) = <<>>
  BY <1>1, <1>2, <1>4, <1>5 DEF JobInv, Batch, Rest
<1>7. PICK q : q = [worker EXCEPT !.at = "next"]
  OBVIOUS
<1>8. /\ q \in AtWork /\ worker' = q /\ q.conn = c /\ q.at = "next" /\ q.op = o
      /\ q.sent = worker.sent
  BY <1>2, <1>4, <1>5, <1>7 DEF AtWork, WorkerSteps, Settle, GoTo
<1>9. ~Failed(q) /\ Rest(q) = <<>> /\ Batch(q) = NewOperation /\ Sent(q) = Sent(worker)
  BY <1>1, <1>5, <1>8 DEF Failed, Rest, Batch, Sent
<1>10. OnePlace' /\ Jobs(c)' = {q} /\ \A d \in Conns \ {c} : SamePlace(d)
  BY <1>1, <1>2, <1>4, <1>8, StaysWithWorker
<1>11. PlaceInv(c, q)'
  BY <1>1, <1>6, <1>8, <1>9, <1>5 DEF PlaceInv, AtWork
<1> DEFINE lb == Len(o.bytes)
           fq == Len(FlattenSeq(queue[c]))
           lq == Len(queue[c])
           la == Len(accepted[c])
           ls == Len(Stream(c))
           lw == Len(wire[c])
           done == completed[c]
           fr == o.frames
<1>12. /\ lb \in Nat /\ fq \in Nat /\ lq \in Nat /\ la \in Nat
       /\ ls \in Nat /\ lw \in Nat /\ done \in Nat /\ fr \in Nat
  BY <1>2, <1>5, DataTypes, LenProperties DEF Ops
<1>13. pendingBytes[c] = fq + lb /\ pendingFrames[c] = lq + fr
  BY <1>6 DEF CountInv
<1>14. completed' = [completed EXCEPT ![c] = IF Left(o) = 0 THEN done + fr ELSE done]
  BY <1>4, <1>5 DEF Settle
<1>15. completed' \in [Conns -> Nat] /\ \A d \in Conns \ {c} : completed'[d] = completed[d]
  <2>1. completed \in [Conns -> Nat]
    BY <1>2 DEF Types
  <2> HIDE DEF done, fr
  <2>2. done + fr \in Nat /\ done \in Nat
    BY <1>12
  <2> QED
    BY <1>14, <2>1, <2>2
<1>16. /\ worker' \in [at : WorkerSteps, conn : Conns \union {Nobody},
                       op : Ops, sent : Nat, ok : BOOLEAN]
       /\ worker'.conn # Nobody /\ worker'.at # "wait"
  BY <1>8, SocketOutputAssumption DEF AtWork
<1>17. Stream(c)' = Stream(c) /\ wire'[c] = wire[c] /\ stopping'[c] = stopping[c]
  BY <1>1 DEF Stream, stopVars
<1>18. PICK u \in Seq(Byte) :
         /\ Stream(c) = (wire[c] \o <<>>) \o u
         /\ ~stopping[c] /\ ~Failed(worker) =>
              /\ u = FlattenSeq(queue[c])
              /\ done + fr + lq = la
  BY <1>6 DEF WireInv
<1>19. CASE stopping[c]
  <2>1. /\ queue' = [queue EXCEPT ![c] = <<>>]
        /\ pendingBytes' = [pendingBytes EXCEPT ![c] = 0]
        /\ pendingFrames' = [pendingFrames EXCEPT ![c] = 0]
    BY <1>4, <1>19 DEF Settle
  <2>2. /\ queue'[c] = <<>> /\ pendingBytes'[c] = 0 /\ pendingFrames'[c] = 0
        /\ queue' \in [Conns -> Seq(Frames)]
        /\ pendingBytes' \in [Conns -> Nat] /\ pendingFrames' \in [Conns -> Nat]
        /\ \A d \in Conns \ {c} : /\ queue'[d] = queue[d]
                                  /\ pendingBytes'[d] = pendingBytes[d]
                                  /\ pendingFrames'[d] = pendingFrames[d]
    BY <1>2, <2>1, EmptySeq DEF Types
  <2>3. Types'
    BY <1>1, <1>2, <1>15, <1>16, <2>2 DEF Types
  <2>4. \A d \in Conns \ {c} : Steady(d)
    BY <1>1, <1>15, <2>2 DEF Steady
  <2>5. LimitInv(c)'
    BY <2>2, SocketOutputAssumption DEF LimitInv
  <2>6. CountInv(c, q)'
    BY <1>9, <2>2, NewOperationType, FlattenEmpty, EmptySeq DEF CountInv
  <2>7. WireInv(c, q)' /\ RoomInv(c, q)'
    BY <1>9, <1>17, <1>18, <1>19 DEF WireInv, RoomInv
  <2> QED
    BY <1>3, <1>10, <1>11, <2>3, <2>4, <2>5, <2>6, <2>7, Assemble DEF JobInv
<1>20. CASE ~stopping[c]
  <2>1. /\ pendingBytes' = [pendingBytes EXCEPT ![c] = @ - lb]
        /\ pendingFrames' = [pendingFrames EXCEPT ![c] = @ - fr]
        /\ UNCHANGED queue
    BY <1>4, <1>5, <1>20 DEF Settle
  <2>2. stop[Worker].conn # c
    BY <1>1, SocketOutputAssumption DEF NotStopping, Stopping
  <2>3. worker.ok /\ ~Failed(worker) /\ Left(o) = 0
    BY <1>1, <1>5, <1>6, <1>20, <2>2 DEF PlaceInv, Failed
  <2>4. completed'[c] = done + fr
    BY <1>2, <1>14, <2>3 DEF Types
  <2>5. /\ pendingBytes'[c] = fq /\ pendingFrames'[c] = lq
        /\ pendingBytes' \in [Conns -> Nat] /\ pendingFrames' \in [Conns -> Nat]
        /\ \A d \in Conns \ {c} : /\ pendingBytes'[d] = pendingBytes[d]
                                  /\ pendingFrames'[d] = pendingFrames[d]
    <3>1. pendingBytes \in [Conns -> Nat] /\ pendingFrames \in [Conns -> Nat]
      BY <1>2 DEF Types
    <3> HIDE DEF lb, fq, lq, fr
    <3>2. pendingBytes[c] - lb = fq /\ pendingFrames[c] - fr = lq
      BY <1>12, <1>13
    <3> QED
      BY <1>12, <2>1, <3>1, <3>2
  <2>6. Types'
    BY <1>1, <1>2, <1>15, <1>16, <2>1, <2>5 DEF Types
  <2>7. \A d \in Conns \ {c} : Steady(d)
    BY <1>1, <1>15, <2>1, <2>5 DEF Steady
  <2>8. LimitInv(c)'
    <3>1. pendingBytes[c] <= MaxPendingBytes /\ pendingFrames[c] <= MaxPendingFrames
      BY DEF OutputCore, LimitInv
    <3>2. MaxPendingBytes \in Nat /\ MaxPendingFrames \in Nat
      BY SocketOutputAssumption
    <3> HIDE DEF lb, fq, lq, fr
    <3>3. fq <= MaxPendingBytes /\ lq <= MaxPendingFrames
      BY <1>12, <1>13, <3>1, <3>2
    <3> QED
      BY <2>5, <3>3 DEF LimitInv
  <2>9. CountInv(c, q)'
    <3> HIDE DEF fq, lq
    <3>1. pendingBytes'[c] = fq + 0 /\ pendingFrames'[c] = lq + 0
      BY <1>12, <2>5
    <3> QED
      BY <1>9, <2>1, <3>1, NewOperationType DEF CountInv, fq, lq
  <2>10. u = FlattenSeq(queue[c]) /\ done + fr + lq = la
    BY <1>18, <1>20, <2>3
  <2>11. WireInv(c, q)'
    <3>1. completed'[c] + NewOperation.frames + Len(queue'[c]) = Len(accepted'[c])
      <4> HIDE DEF done, fr, lq, la
      <4>1. (done + fr) + 0 + lq = la
        BY <1>12, <2>10
      <4> QED
        BY <1>1, <2>1, <2>4, <4>1, NewOperationType DEF lq, la
    <3> QED
      BY <1>9, <1>17, <1>18, <2>1, <2>10, <3>1 DEF WireInv
  <2>12. RoomInv(c, q)'
    <3>1. ls = lw + fq
      <4>1. PICK w \in Seq(Byte) : w = wire[c]
        BY <1>2, DataTypes
      <4>2. w \o <<>> = w /\ Len(w \o u) = Len(w) + Len(u)
        BY Concatenation
      <4> QED
        BY <1>18, <2>10, <4>1, <4>2
    <3> HIDE DEF ls, lw, fq
    <3>2. ls <= lw + fq + 0
      BY <1>12, <3>1
    <3> QED
      BY <1>9, <1>17, <2>1, <3>2, NewOperationType DEF RoomInv, ls, lw, fq
  <2> QED
    BY <1>3, <1>10, <1>11, <2>6, <2>7, <2>8, <2>9, <2>11, <2>12, Assemble DEF JobInv
<1> QED
  BY <1>19, <1>20
-----------------------------------------------------------------------------
(* The kernel. *)

\* The kernel sends n bytes of the operation o of c and reports the request as
\* done or failed; a request fails only if the connection is stopped or broken.
LEMMA ReportKeeps ==
  ASSUME OutputCore, NEW c \in Conns, NEW o \in kernel[c], NEW n \in 0..Left(o),
         NEW m \in Nat, NEW ok \in BOOLEAN, ok => m = n, ~ok => m = 0,
         kernel' = [kernel EXCEPT ![c] = @ \ {o}], Deliver(c, o, n),
         port' = Append(port, Packet(c, "complete", o, m, ok)),
         broken \subseteq broken', broken' \subseteq Conns, ~ok => c \in broken' \/ stopping[c],
         UNCHANGED <<queueVars, stopVars, worker, accepted>>
  PROVE  OutputCore'
<1>1. Types /\ StopInv /\ OnePlace
  BY DEF OutputCore
<1>2. UNCHANGED <<queue, pendingBytes, pendingFrames, active, completed, mutex>>
  BY DEF queueVars
<1>3. StopInv' /\ \A d \in Conns : StopGoesOn(d)
  BY <1>1, StopsUntouched DEF StopInv, stopVars
<1>4. PICK p : p = Packet(c, "kernel", o, 0, FALSE)
  OBVIOUS
<1>5. /\ Jobs(c) = {p} /\ kernel[c] = {o} /\ active[c] /\ worker.conn # c
      /\ \A i \in 1..Len(port) : port[i].conn # c
  BY <1>1, <1>4, KernelJob
<1>6. /\ PlaceInv(c, p) /\ CountInv(c, p) /\ WireInv(c, p) /\ RoomInv(c, p)
      /\ p.op = o /\ p.at = "kernel" /\ p.sent = 0
  BY <1>4, <1>5 DEF OutputCore, JobInv, Packet
<1>7. /\ o \in Ops /\ o.bytes \in Seq(Byte) /\ Len(o.bytes) \in Nat
      /\ o.offset \in 0..Len(o.bytes) /\ o.offset \in Nat /\ o.frames \in Nat
      /\ n \in Nat /\ n \in 0..(Len(o.bytes) - o.offset) /\ o.offset + n \in 0..Len(o.bytes)
  BY <1>6, LenProperties DEF PlaceInv, Ops, Left, Byte
<1>8. PICK s : s = SubSeq(o.bytes, o.offset + 1, o.offset + n)
  OBVIOUS
<1>9. PICK r : r = SubSeq(o.bytes, o.offset + n + 1, Len(o.bytes))
  OBVIOUS
<1>10. /\ s \in Seq(Byte) /\ Len(s) = n /\ r \in Seq(Byte)
       /\ SubSeq(o.bytes, o.offset + 1, Len(o.bytes)) = s \o r
  BY <1>7, <1>8, <1>9, SendSome
<1>11. wire' = [wire EXCEPT ![c] = wire[c] \o s]
  BY <1>8 DEF Deliver
<1>12. PICK w \in Seq(Byte) : w = wire[c]
  BY <1>1, DataTypes
<1>13. w \o s \in Seq(Byte) /\ Len(w \o s) = Len(w) + n /\ Len(w) \in Nat
  BY <1>10, Concatenation
<1>14. /\ wire' \in [Conns -> Seq(Byte)] /\ wire'[c] = w \o s
       /\ \A d \in Conns \ {c} : wire'[d] = wire[d]
  BY <1>1, <1>11, <1>12, <1>13 DEF Types
<1>15. PICK q : q = Packet(c, "complete", o, m, ok)
  OBVIOUS
<1>16. /\ q \in Packets /\ q.conn = c /\ q.at = "complete" /\ q.op = o /\ q.sent = m /\ q.ok = ok
  BY <1>7, <1>15 DEF Packet, Packets
<1>17. /\ kernel' \in [Conns -> SUBSET Ops] /\ kernel'[c] = {}
       /\ \A d \in Conns \ {c} : kernel'[d] = kernel[d]
  BY <1>1, <1>5 DEF Types
<1>18. Types'
  <2>1. port' \in Seq(Packets)
    BY <1>1, <1>15, <1>16, PortGrows DEF Types
  <2> QED
    BY <1>1, <1>2, <1>14, <1>17, <2>1 DEF Types
<1>19. OnePlace' /\ Jobs(c)' = {q} /\ \A d \in Conns \ {c} : SamePlace(d)
  <2>1. /\ active'[c] /\ worker'.conn # c /\ worker' = worker
        /\ \A d \in Conns \ {c} : active'[d] = active[d]
    BY <1>2, <1>5
  <2> QED
    BY <1>1, <1>5, <1>15, <1>16, <1>17, <2>1, ToPort
<1>20. \A d \in Conns \ {c} : Steady(d)
  BY <1>2, <1>14 DEF Steady
<1>21. Stream(c)' = Stream(c) /\ Batch(q) = o /\ Batch(p) = o /\ UNCHANGED stopping
  BY <1>6, <1>16 DEF Stream, Batch, stopVars
<1>22. PlaceInv(c, q)'
  <2>1. Sent(q) <= Len(o.bytes)
    <3>1. o.offset + m \in 0..Len(o.bytes)
      BY <1>7
    <3> QED
      BY <1>7, <1>16, <3>1 DEF Sent
  <2> QED
    BY <1>7, <1>16, <1>21, <2>1 DEF PlaceInv
<1>23. CountInv(c, q)'
  BY <1>2, <1>6, <1>21 DEF CountInv
<1>24. RoomInv(c, q)'
  <2> DEFINE ls == Len(Stream(c))
             lw == Len(w)
             fq == Len(FlattenSeq(queue[c]))
             lb == Len(o.bytes)
  <2>1. ls \in Nat /\ lw \in Nat /\ fq \in Nat /\ lb \in Nat
    BY <1>1, <1>7, <1>13, DataTypes
  <2>2. ~stopping[c] => ls <= lw + fq + lb
    BY <1>6, <1>12, <1>21 DEF RoomInv
  <2>3. Len(wire'[c]) = lw + n
    BY <1>13, <1>14
  <2> HIDE DEF ls, lw, fq, lb
  <2>4. ~stopping[c] => ls <= (lw + n) + fq + lb
    BY <1>7, <2>1, <2>2
  <2> QED
    BY <1>2, <1>21, <2>3, <2>4 DEF RoomInv, ls, fq, lb
<1>25. WireInv(c, q)'
  <2>1. PICK u \in Seq(Byte) :
          /\ Stream(c) = (wire[c] \o Rest(p)) \o u
          /\ ~stopping[c] /\ ~Failed(p) =>
               /\ u = FlattenSeq(queue[c])
               /\ completed[c] + Batch(p).frames + Len(queue[c]) = Len(accepted[c])
    BY <1>6 DEF WireInv
  <2>2. ~Failed(p) /\ Rest(p) = s \o r
    BY <1>6, <1>10 DEF Failed, Rest, Sent
  <2>3. /\ w \o (s \o r) = (w \o s) \o r
        /\ ((w \o s) \o r) \o u = (w \o s) \o (r \o u) /\ r \o u \in Seq(Byte)
        /\ (w \o s) \o <<>> = w \o s
    <3>1. s \in Seq(Byte) /\ r \in Seq(Byte)
      BY <1>10
    <3>2. SameBytes(w, s, r, u)
      BY <3>1, SentBytes
    <3> QED
      BY <3>2 DEF SameBytes
  <2>4. CASE ok
    <3>1. Rest(q) = r
      BY <1>9, <1>16, <2>4 DEF Rest, Failed, Sent
    <3>2. Stream(c)' = (wire'[c] \o Rest(q)) \o u
      BY <1>12, <1>14, <1>21, <2>1, <2>2, <2>3, <3>1
    <3> QED
      BY <1>2, <1>21, <2>1, <2>2, <3>2 DEF WireInv
  <2>5. CASE ~ok
    <3>1. Rest(q) = <<>> /\ Failed(q)
      BY <1>16, <2>5 DEF Rest, Failed
    <3>2. Stream(c)' = (wire'[c] \o Rest(q)) \o (r \o u)
      BY <1>12, <1>14, <1>21, <2>1, <2>2, <2>3, <3>1
    <3> QED
      BY <2>3, <3>1, <3>2 DEF WireInv
  <2> QED
    BY <2>4, <2>5
<1>26. LimitInv(c)'
  BY <1>2 DEF OutputCore, LimitInv
<1> QED
  BY <1>3, <1>18, <1>19, <1>20, <1>22, <1>23, <1>24, <1>25, <1>26, Assemble DEF JobInv

\* The kernel finishes a request.
LEMMA KernelKeeps ==
  ASSUME OutputCore, NEW c \in Conns, Kernel(c)
  PROVE  OutputCore'
<1>1. PICK o \in kernel[c] : Finish(c, o)
  BY DEF Kernel
<1>2. /\ kernel' = [kernel EXCEPT ![c] = @ \ {o}]
      /\ UNCHANGED <<queueVars, stopVars, worker, accepted>>
  BY <1>1 DEF Finish
<1>3. broken \subseteq Conns /\ (shut[c] => stopping[c]) /\ o \in Ops
  BY DEF OutputCore, StopInv, Types
<1>4. ASSUME NEW n \in 1..Left(o), Deliver(c, o, n), UNCHANGED broken,
             port' = Append(port, Packet(c, "complete", o, n, TRUE))
      PROVE  OutputCore'
  <2>1. Left(o) \in Int
    BY <1>3, LenProperties DEF Left, Ops
  <2>2. n \in 0..Left(o) /\ n \in Nat
    BY <2>1
  <2>3. broken \subseteq broken' /\ broken' \subseteq Conns
    BY <1>3, <1>4
  <2> QED
    BY <1>2, <1>4, <2>2, <2>3, ReportKeeps
<1>5. ASSUME NEW n \in 0..Left(o), Deliver(c, o, n),
             broken' = (IF shut[c] THEN broken ELSE broken \union {c}),
             port' = Append(port, Packet(c, "complete", o, 0, FALSE))
      PROVE  OutputCore'
  <2>1. broken \subseteq broken' /\ broken' \subseteq Conns /\ (c \in broken' \/ stopping[c])
    BY <1>3, <1>5
  <2> QED
    BY <1>2, <1>5, <2>1, ReportKeeps
<1> QED
  BY <1>1, <1>4, <1>5 DEF Finish

-----------------------------------------------------------------------------
(* The invariant. *)

\* Before the first message every connection is idle.
LEMMA OutputInitially ==
  ASSUME Init
  PROVE  OutputCore
<1>1. \A i \in 1..Len(port) : FALSE
  BY EmptySeq DEF Init
<1>2. Types
  BY NewOperationType, EmptySeq, SocketOutputAssumption
     DEF Init, Types, Waiting, Packet, WorkerSteps
<1>3. StopInv
  BY DEF Init, StopInv, NotStopping, Stopping
<1>4. \A c \in Conns : ~active[c] /\ kernel[c] = {} /\ worker.conn # c
  BY SocketOutputAssumption DEF Init, Waiting, Packet
<1>5. OnePlace
  BY <1>1, <1>4 DEF OnePlace
<1>6. ASSUME NEW c \in Conns PROVE LimitInv(c) /\ \A p \in Jobs(c) : JobInv(c, p)
  <2>1. Jobs(c) = {Idle(c)}
    BY <1>4, <1>5, IdleJob
  <2>2. PICK p : p = Idle(c)
    OBVIOUS
  <2>3. /\ p.at = "idle" /\ p.op = NewOperation /\ p.sent = 0 /\ p.ok = FALSE /\ p.ok \in BOOLEAN
        /\ Rest(p) = <<>> /\ Batch(p) = NewOperation /\ Sent(p) = 0
    BY <2>2, NewOperationType DEF Idle, Packet, Rest, Batch, Sent
  <2>4. /\ queue[c] = <<>> /\ accepted[c] = <<>> /\ wire[c] = <<>> /\ completed[c] = 0
        /\ pendingBytes[c] = 0 /\ pendingFrames[c] = 0
    BY DEF Init
  <2>5. Stream(c) = <<>> /\ FlattenSeq(queue[c]) = <<>> /\ <<>> \in Seq(Byte)
        /\ Len(<<>>) = 0 /\ (<<>> \o <<>>) \o <<>> = <<>>
    BY <2>4, FlattenEmpty, EmptySeq, ConcatEmptySeq DEF Stream
  <2>6. LimitInv(c)
    BY <2>4, SocketOutputAssumption DEF LimitInv
  <2>7. PlaceInv(c, p)
    BY <2>3, <2>4, NewOperationType DEF PlaceInv
  <2>8. CountInv(c, p) /\ RoomInv(c, p)
    BY <2>3, <2>4, <2>5, NewOperationType DEF CountInv, RoomInv
  <2>9. WireInv(c, p)
    <3>1. Stream(c) = (wire[c] \o Rest(p)) \o <<>>
      BY <2>3, <2>4, <2>5
    <3>2. completed[c] + Batch(p).frames + Len(queue[c]) = Len(accepted[c])
      BY <2>3, <2>4, <2>5, NewOperationType
    <3> QED
      BY <2>5, <3>1, <3>2 DEF WireInv
  <2> QED
    BY <2>1, <2>2, <2>6, <2>7, <2>8, <2>9 DEF JobInv
<1> QED
  BY <1>2, <1>3, <1>5, <1>6 DEF OutputCore

\* Every step keeps the invariant.
LEMMA OutputStep ==
  ASSUME OutputCore, [Next]_vars
  PROVE  OutputCore'
<1>1. ASSUME NEW t \in Callers, NEW c \in Conns, Enqueue(t, c) PROVE OutputCore'
  BY <1>1, EnqueueKeeps
<1>2. ASSUME NEW t \in Callers, NEW c \in Conns, Disconnect(t, c) PROVE OutputCore'
  BY <1>2, DisconnectKeeps
<1>3. ASSUME NEW t \in Threads, StopStep(t) PROVE OutputCore'
  BY <1>3, StopStepKeeps
<1>4. CASE Dispatch
  BY <1>4, TakeKeeps, BeginKeeps, BegunKeeps, SubmitKeeps, SendKeeps, CompleteKeeps,
     SettleKeeps, NextBatchKeeps, PostKeeps DEF Dispatch
<1>5. ASSUME NEW c \in Conns, Kernel(c) PROVE OutputCore'
  BY <1>5, KernelKeeps
<1>6. CASE UNCHANGED vars
  <2>1. UNCHANGED <<queueVars, queue, pendingBytes, pendingFrames, active, completed, mutex,
                    stopVars, stopping, stopReason, shut, stop,
                    port, kernel, worker, accepted, wire, broken>>
    BY <1>6 DEF vars, queueVars, stopVars
  <2>2. Types' /\ StopInv' /\ OnePlace'
    <3>1. Types'
      BY <2>1 DEF OutputCore, Types
    <3>2. StopInv'
      BY <2>1 DEF OutputCore, StopInv
    <3>3. OnePlace'
      BY <2>1, SamePlaces DEF OutputCore
    <3> QED
      BY <3>1, <3>2, <3>3
  <2>3. ASSUME NEW d \in Conns PROVE LimitInv(d)' /\ \A p \in Jobs(d)' : JobInv(d, p)'
    <3>1. StopGoesOn(d)
      BY <2>1, StopsUntouched
    <3>2. SamePlace(d) /\ Steady(d)
      BY <2>1 DEF SamePlace, Steady
    <3> QED
      BY <3>1, <3>2, Bystander
  <2> QED
    BY <2>2, <2>3 DEF OutputCore
<1> QED
  BY <1>1, <1>2, <1>3, <1>4, <1>5, <1>6 DEF Next

\* The operation of every connection is in one place, and the counters, the
\* bytes sent and the stops agree with it (SocketOutput.cpp, OutputDispatcher).
THEOREM OutputCoreInvariant == Spec => []OutputCore
<1>1. Init => OutputCore
  BY OutputInitially
<1>2. OutputCore /\ [Next]_vars => OutputCore'
  BY OutputStep
<1> QED
  BY <1>1, <1>2, PTL DEF Spec
-----------------------------------------------------------------------------
(* Sums over the batches in flight: there is at most one. *)

\* Nothing in flight.
LEMMA SumOfNone ==
  /\ MapThenSumSet(LAMBDA o : Len(o.bytes), {}) = 0
  /\ MapThenSumSet(LAMBDA o : o.frames, {}) = 0
<1> DEFINE iter[s \in SUBSET {}] ==
             IF s = {} THEN 0
             ELSE LET x == CHOOSE y \in s : TRUE IN Len(x.bytes) + iter[s \ {x}]
           count[s \in SUBSET {}] ==
             IF s = {} THEN 0
             ELSE LET x == CHOOSE y \in s : TRUE IN x.frames + count[s \ {x}]
<1>1. iter = [s \in SUBSET {} |->
             IF s = {} THEN 0
             ELSE LET x == CHOOSE y \in s : TRUE IN Len(x.bytes) + iter[s \ {x}]]
  <2>1. \E g : g = [s \in SUBSET {} |->
             IF s = {} THEN 0
             ELSE LET x == CHOOSE y \in s : TRUE IN Len(x.bytes) + g[s \ {x}]]
    <3> DEFINE h == [s \in SUBSET {} |-> 0]
    <3>1. h = [s \in SUBSET {} |->
             IF s = {} THEN 0
             ELSE LET x == CHOOSE y \in s : TRUE IN Len(x.bytes) + h[s \ {x}]]
      OBVIOUS
    <3> QED
      BY <3>1
  <2> QED
    BY <2>1
<1>2. count = [s \in SUBSET {} |->
             IF s = {} THEN 0
             ELSE LET x == CHOOSE y \in s : TRUE IN x.frames + count[s \ {x}]]
  <2>1. \E g : g = [s \in SUBSET {} |->
             IF s = {} THEN 0
             ELSE LET x == CHOOSE y \in s : TRUE IN x.frames + g[s \ {x}]]
    <3> DEFINE h == [s \in SUBSET {} |-> 0]
    <3>1. h = [s \in SUBSET {} |->
             IF s = {} THEN 0
             ELSE LET x == CHOOSE y \in s : TRUE IN x.frames + h[s \ {x}]]
      OBVIOUS
    <3> QED
      BY <3>1
  <2> QED
    BY <2>1
<1>3. MapThenSumSet(LAMBDA o : Len(o.bytes), {}) = iter[{}]
  BY DEF MapThenSumSet, MapThenFoldSet
<1>4. MapThenSumSet(LAMBDA o : o.frames, {}) = count[{}]
  BY DEF MapThenSumSet, MapThenFoldSet
<1> HIDE DEF iter, count
<1> QED
  BY <1>1, <1>2, <1>3, <1>4

\* One batch in flight.
LEMMA SumOfOne ==
  ASSUME NEW o, Len(o.bytes) \in Nat, o.frames \in Nat
  PROVE  /\ MapThenSumSet(LAMBDA p : Len(p.bytes), {o}) = Len(o.bytes)
         /\ MapThenSumSet(LAMBDA p : p.frames, {o}) = o.frames
<1> DEFINE iter[s \in SUBSET {o}] ==
             IF s = {} THEN 0
             ELSE LET x == CHOOSE y \in s : TRUE IN Len(x.bytes) + iter[s \ {x}]
           count[s \in SUBSET {o}] ==
             IF s = {} THEN 0
             ELSE LET x == CHOOSE y \in s : TRUE IN x.frames + count[s \ {x}]
<1>0. \A s \in SUBSET {o} : s # {} => s = {o} /\ s \ {o} = {} /\ (CHOOSE y \in s : TRUE) = o
  OBVIOUS
<1>1. iter = [s \in SUBSET {o} |->
             IF s = {} THEN 0
             ELSE LET x == CHOOSE y \in s : TRUE IN Len(x.bytes) + iter[s \ {x}]]
  <2>1. \E g : g = [s \in SUBSET {o} |->
             IF s = {} THEN 0
             ELSE LET x == CHOOSE y \in s : TRUE IN Len(x.bytes) + g[s \ {x}]]
    <3> DEFINE h == [s \in SUBSET {o} |-> IF s = {} THEN 0 ELSE Len(o.bytes) + 0]
    <3>1. h = [s \in SUBSET {o} |->
             IF s = {} THEN 0
             ELSE LET x == CHOOSE y \in s : TRUE IN Len(x.bytes) + h[s \ {x}]]
      BY <1>0
    <3> QED
      BY <3>1
  <2> QED
    BY <2>1
<1>2. count = [s \in SUBSET {o} |->
             IF s = {} THEN 0
             ELSE LET x == CHOOSE y \in s : TRUE IN x.frames + count[s \ {x}]]
  <2>1. \E g : g = [s \in SUBSET {o} |->
             IF s = {} THEN 0
             ELSE LET x == CHOOSE y \in s : TRUE IN x.frames + g[s \ {x}]]
    <3> DEFINE h == [s \in SUBSET {o} |-> IF s = {} THEN 0 ELSE o.frames + 0]
    <3>1. h = [s \in SUBSET {o} |->
             IF s = {} THEN 0
             ELSE LET x == CHOOSE y \in s : TRUE IN x.frames + h[s \ {x}]]
      BY <1>0
    <3> QED
      BY <3>1
  <2> QED
    BY <2>1
<1>3. MapThenSumSet(LAMBDA p : Len(p.bytes), {o}) = iter[{o}]
  BY DEF MapThenSumSet, MapThenFoldSet
<1>4. MapThenSumSet(LAMBDA p : p.frames, {o}) = count[{o}]
  BY DEF MapThenSumSet, MapThenFoldSet
<1> HIDE DEF iter, count
<1>5. iter[{}] = 0 /\ count[{}] = 0
  BY <1>1, <1>2
<1>6. iter[{o}] = Len(o.bytes) + 0 /\ count[{o}] = o.frames + 0
  BY <1>0, <1>1, <1>2, <1>5
<1>7. iter[{o}] = Len(o.bytes) /\ count[{o}] = o.frames
  BY <1>6
<1> QED
  BY <1>3, <1>4, <1>7

\* The only job of c, its packet or request or the dispatcher, and its batch.
LEMMA OnlyJob ==
  ASSUME Types, OnePlace, NEW c \in Conns
  PROVE  \E p \in Jobs(c) :
           /\ InFlight(c) = IF p.at \in {"idle", "next"} THEN {} ELSE {p.op}
           /\ Outstanding(c) = IF active[c] THEN 1 ELSE 0
<1>1. port \in Seq(Packets) /\ Len(port) \in Nat /\ DOMAIN port = 1..Len(port)
  BY LenProperties DEF Types
<1> DEFINE inPort == Cardinality({i \in 1..Len(port) : port[i].conn = c})
           inKernel == Cardinality(kernel[c])
           atWork == IF worker.conn = c THEN 1 ELSE 0
<1>2. Outstanding(c) = inPort + inKernel + atWork
  BY <1>1 DEF Outstanding
<1>3. InFlight(c) =
        {port[i].op : i \in {j \in 1..Len(port) : port[j].conn = c}}
          \union kernel[c]
          \union (IF worker.conn = c /\ worker.at # "next" THEN {worker.op} ELSE {})
  BY <1>1 DEF InFlight
<1>4. Cardinality({}) = 0 /\ \A x : Cardinality({x}) = 1
  BY FS_EmptySet, FS_Singleton
<1>5. ASSUME \A i \in 1..Len(port) : port[i].conn # c
      PROVE  /\ {i \in 1..Len(port) : port[i].conn = c} = {}
             /\ {port[i].op : i \in {j \in 1..Len(port) : port[j].conn = c}} = {}
  BY <1>5
<1>6. CASE ~active[c]
  <2>1. kernel[c] = {} /\ worker.conn # c /\ \A i \in 1..Len(port) : port[i].conn # c
    BY <1>6 DEF OnePlace
  <2>2. InFlight(c) = {}
    BY <1>3, <1>5, <2>1
  <2>3. Outstanding(c) = 0
    <3>1. inPort = 0 /\ inKernel = 0 /\ atWork = 0
      BY <1>4, <1>5, <2>1
    <3> HIDE DEF inPort, inKernel, atWork
    <3> QED
      BY <1>2, <3>1
  <2>4. Idle(c) \in Jobs(c) /\ Idle(c).at = "idle"
    BY <1>6, IdleJob DEF Idle, Packet
  <2> QED
    BY <1>6, <2>2, <2>3, <2>4
<1>7. CASE worker.conn = c
  <2>1. /\ Jobs(c) = {worker}
        /\ active[c] /\ kernel[c] = {} /\ \A i \in 1..Len(port) : port[i].conn # c
    BY <1>7, WorkerJob
  <2>2. InFlight(c) = IF worker.at = "next" THEN {} ELSE {worker.op}
    BY <1>3, <1>5, <1>7, <2>1
  <2>3. Outstanding(c) = 1
    <3>1. inPort = 0 /\ inKernel = 0 /\ atWork = 1
      BY <1>4, <1>5, <1>7, <2>1
    <3> HIDE DEF inPort, inKernel, atWork
    <3> QED
      BY <1>2, <3>1
  <2>4. worker.at # "idle"
    BY DEF Types, WorkerSteps
  <2> QED
    BY <2>1, <2>2, <2>3, <2>4
<1>8. CASE kernel[c] # {}
  <2>1. PICK o : o \in kernel[c]
    BY <1>8
  <2>2. /\ Jobs(c) = {Packet(c, "kernel", o, 0, FALSE)} /\ kernel[c] = {o}
        /\ active[c] /\ worker.conn # c /\ \A i \in 1..Len(port) : port[i].conn # c
    BY <2>1, KernelJob
  <2>3. PICK p : p = Packet(c, "kernel", o, 0, FALSE)
    OBVIOUS
  <2>4. p \in Jobs(c) /\ p.at = "kernel" /\ p.op = o
    BY <2>2, <2>3 DEF Packet
  <2>5. InFlight(c) = {o}
    BY <1>3, <1>5, <2>2
  <2>6. Outstanding(c) = 1
    <3>1. inPort = 0 /\ inKernel = 1 /\ atWork = 0
      BY <1>4, <1>5, <2>2
    <3> HIDE DEF inPort, inKernel, atWork
    <3> QED
      BY <1>2, <3>1
  <2> QED
    BY <2>2, <2>4, <2>5, <2>6
<1>9. ASSUME NEW i \in 1..Len(port), port[i].conn = c
      PROVE  \E p \in Jobs(c) :
               /\ InFlight(c) = IF p.at \in {"idle", "next"} THEN {} ELSE {p.op}
               /\ Outstanding(c) = IF active[c] THEN 1 ELSE 0
  <2>1. {j \in 1..Len(port) : port[j].conn = c} = {i}
    BY <1>9 DEF OnePlace
  <2>2. active[c] /\ kernel[c] = {} /\ worker.conn # c
    BY <1>9 DEF OnePlace
  <2>3. {port[j].op : j \in {j \in 1..Len(port) : port[j].conn = c}} = {port[i].op}
    BY <2>1
  <2>4. InFlight(c) = {port[i].op}
    BY <1>3, <2>2, <2>3
  <2>5. Outstanding(c) = 1
    <3>1. inPort = 1 /\ inKernel = 0 /\ atWork = 0
      BY <1>4, <2>1, <2>2
    <3> HIDE DEF inPort, inKernel, atWork
    <3> QED
      BY <1>2, <3>1
  <2>6. port[i] \in Jobs(c)
    BY <1>9 DEF Jobs
  <2>7. port[i].at \in {"begin", "submit", "complete"}
    <3>1. port[i] \in Packets
      BY <1>1, ElementOfSeq
    <3> QED
      BY <3>1 DEF Packets
  <2> QED
    BY <2>2, <2>4, <2>5, <2>6, <2>7
<1>10. active[c] => \/ worker.conn = c
                   \/ kernel[c] # {}
                   \/ \E i \in 1..Len(port) : port[i].conn = c
  BY DEF OnePlace
<1> QED
  BY <1>6, <1>7, <1>8, <1>9, <1>10

\* A connection never has two operations under way, and has one whenever
\* active_ is set (SocketOutput::Enqueue, Complete).
THEOREM OneOperationAtATime == Spec => []OneOperation
<1>1. OutputCore => OneOperation
  BY OnlyJob DEF OutputCore, OneOperation
<1> QED
  BY <1>1, OutputCoreInvariant, PTL

\* The counters of a connection are its queue and its batch.
LEMMA CountersFollow ==
  ASSUME OutputCore
  PROVE  CountersMatch
<1>1. SUFFICES ASSUME NEW c \in Conns
      PROVE  /\ pendingBytes[c] = Len(FlattenSeq(queue[c]))
                  + MapThenSumSet(LAMBDA o : Len(o.bytes), InFlight(c))
             /\ pendingFrames[c] = Len(queue[c]) + MapThenSumSet(LAMBDA o : o.frames, InFlight(c))
             /\ pendingBytes[c] <= MaxPendingBytes
             /\ pendingFrames[c] <= MaxPendingFrames
  BY DEF CountersMatch
<1>2. pendingBytes[c] <= MaxPendingBytes /\ pendingFrames[c] <= MaxPendingFrames
  BY DEF OutputCore, LimitInv
<1>3. PICK p \in Jobs(c) : InFlight(c) = IF p.at \in {"idle", "next"} THEN {} ELSE {p.op}
  BY OnlyJob DEF OutputCore
<1>4. PlaceInv(c, p) /\ CountInv(c, p)
  BY <1>3 DEF OutputCore, JobInv
<1>5. p.op \in Ops /\ (p.at = "idle" => Batch(p).bytes = <<>> /\ Batch(p).frames = 0)
  <2>1. p \in Jobs(c) /\ p.at = "idle" => p = Idle(c)
    <3>1. \A i \in 1..Len(port) : port[i].at # "idle"
      <4>1. \A i \in 1..Len(port) : port[i] \in Packets
        BY ElementOfSeq DEF OutputCore, Types
      <4> QED
        BY <4>1 DEF Packets
    <3>2. worker.at # "idle"
      BY DEF OutputCore, Types, WorkerSteps
    <3>3. \A o : Packet(c, "kernel", o, 0, FALSE).at # "idle"
      BY DEF Packet
    <3> QED
      BY <3>1, <3>2, <3>3 DEF Jobs, Idle
  <2>2. Idle(c).op = NewOperation /\ Idle(c).at = "idle"
    BY DEF Idle, Packet
  <2> QED
    BY <1>3, <1>4, <2>1, <2>2, NewOperationType DEF Batch, PlaceInv
<1>6. /\ MapThenSumSet(LAMBDA o : Len(o.bytes), InFlight(c)) = Len(Batch(p).bytes)
      /\ MapThenSumSet(LAMBDA o : o.frames, InFlight(c)) = Batch(p).frames
  <2>1. CASE p.at \in {"idle", "next"}
    <3>1. Batch(p).bytes = <<>> /\ Batch(p).frames = 0 /\ Len(Batch(p).bytes) = 0
      BY <1>5, <2>1, NewOperationType DEF Batch
    <3> QED
      BY <1>3, <2>1, <3>1, SumOfNone
  <2>2. CASE ~(p.at \in {"idle", "next"})
    <3>1. InFlight(c) = {p.op} /\ Batch(p) = p.op
      BY <1>3, <2>2 DEF Batch
    <3>2. Len(p.op.bytes) \in Nat /\ p.op.frames \in Nat
      BY <1>5, LenProperties DEF Ops
    <3> QED
      BY <3>1, <3>2, SumOfOne
  <2> QED
    BY <2>1, <2>2
<1> QED
  BY <1>2, <1>4, <1>6 DEF CountInv

\* The types, as the runs state them.
LEMMA TypesFollow ==
  ASSUME OutputCore
  PROVE  TypeOK
<1>1. Types /\ StopInv
  BY DEF OutputCore
<1>2. queue \in [Conns -> Seq(Seq(Nat \X Nat))]
  <2>1. \A c \in Conns : queue[c] \in Seq(Seq(Byte))
    BY <1>1, DataTypes, FramesAreSequences
  <2> QED
    BY <1>1, <2>1 DEF Types, Byte
<1>3. ASSUME NEW p \in ToSet(port)
      PROVE  /\ p.at \in {"begin", "submit", "complete"}
             /\ p.conn \in Conns /\ p.op \in Ops /\ p.ok \in BOOLEAN
             /\ p.sent \in 0..Left(p.op)
  <2>1. PICK i \in 1..Len(port) : p = port[i]
    BY <1>1, LenProperties DEF ToSet, Types
  <2>2. p \in Packets
    BY <1>1, <2>1, ElementOfSeq DEF Types
  <2>3. p \in Jobs(p.conn) /\ p.conn \in Conns
    BY <2>1, <2>2 DEF Jobs, Packets
  <2>4. PlaceInv(p.conn, p)
    BY <2>3 DEF OutputCore, JobInv
  <2>5. /\ p.at \in {"begin", "submit", "complete"} /\ p.op \in Ops /\ p.ok \in BOOLEAN
        /\ p.sent \in Nat /\ Len(p.op.bytes) \in Nat /\ p.op.offset \in Nat
    BY <2>2, LenProperties DEF Packets, Ops
  <2>6. p.op.offset + p.sent <= Len(p.op.bytes)
    <3>1. CASE p.at = "complete"
      BY <2>4, <3>1 DEF PlaceInv, Sent
    <3>2. CASE p.at \in {"begin", "submit"}
      BY <2>4, <2>5, <3>2 DEF PlaceInv
    <3> QED
      BY <2>5, <3>1, <3>2
  <2> DEFINE len == Len(p.op.bytes)
             off == p.op.offset
             sent == p.sent
  <2> HIDE DEF len, off, sent
  <2>7. sent \in 0..(len - off)
    BY <2>5, <2>6 DEF len, off, sent
  <2> QED
    BY <2>3, <2>5, <2>7 DEF Left, len, off, sent
<1>4. \A c \in Conns : kernel[c] \subseteq Ops
  BY <1>1 DEF Types
<1>5. {pendingBytes, pendingFrames, completed} \subseteq [Conns -> Nat]
      /\ {active, stopping, shut} \subseteq [Conns -> BOOLEAN]
  BY <1>1 DEF Types, StopInv
<1>6. worker.at \in WorkerSteps /\ worker.conn \in Conns \union {Nobody} /\ worker.op \in Ops
  BY <1>1 DEF Types
<1> QED
  BY <1>1, <1>2, <1>3, <1>4, <1>5, <1>6 DEF TypeOK, Types, StopInv, WorkerSteps

\* An idle connection nobody stops has sent the stream.
LEMMA IdleFollows ==
  ASSUME OutputCore
  PROVE  IdleMeansSent
<1>1. SUFFICES ASSUME NEW c \in Conns, ~active[c], ~BeingStopped(c)
      PROVE  queue[c] = <<>> /\ wire[c] = Stream(c) /\ completed[c] = Len(accepted[c])
  BY DEF IdleMeansSent
<1>2. PICK p : p = Idle(c)
  OBVIOUS
<1>3. PlaceInv(c, p) /\ WireInv(c, p)
  BY <1>1, <1>2, IdleJob DEF OutputCore, JobInv
<1>4. /\ p.at = "idle" /\ p.op = NewOperation /\ Rest(p) = <<>> /\ ~Failed(p)
      /\ Batch(p).frames = 0
  BY <1>2, NewOperationType DEF Idle, Packet, Rest, Failed, Batch
<1>5. queue[c] = <<>> /\ ~stopping[c]
  BY <1>1, <1>3, <1>4 DEF PlaceInv, BeingStopped
<1>6. /\ Stream(c) = (wire[c] \o <<>>) \o FlattenSeq(queue[c])
      /\ completed[c] + 0 + Len(queue[c]) = Len(accepted[c])
  BY <1>3, <1>4, <1>5 DEF WireInv
<1>7. FlattenSeq(queue[c]) = <<>> /\ Len(queue[c]) = 0
  BY <1>5, FlattenEmpty, EmptySeq
<1>8. wire[c] \o <<>> = wire[c] /\ completed[c] \in Nat
  BY DataTypes, ConcatEmptySeq DEF OutputCore
<1>9. completed[c] = Len(accepted[c])
  <2>1. PICK n \in Nat : n = completed[c]
    BY <1>8
  <2> QED
    BY <1>6, <1>7, <2>1
<1> QED
  BY <1>5, <1>6, <1>7, <1>8, <1>9

\* The counters match, no wakeup is lost and the reasons are true
\* (SocketOutput::Enqueue, Begin, Complete and Stop, OutputDispatcher).
THEOREM OutputCorrect == Spec => []OutputInv
<1>1. OutputCore => ReasonIsTrue
  BY DEF OutputCore, StopInv, ReasonIsTrue
<1>2. OutputCore => OutputInv
  BY <1>1, TypesFollow, CountersFollow, IdleFollows DEF OutputInv
<1> QED
  BY <1>2, OutputCoreInvariant, PTL
-----------------------------------------------------------------------------
(* The streams of OutputChannel. *)

\* The first of three parts is the beginning.
LEMMA PrefixOfStream ==
  ASSUME NEW x \in Seq(Byte), NEW y \in Seq(Byte), NEW z \in Seq(Byte),
         NEW s, s = (x \o y) \o z
  PROVE  Len(x) \in 0..Len(s) /\ Len(s) \in Nat /\ SubSeq(s, 1, Len(x)) = x
<1>1. s = x \o (y \o z) /\ y \o z \in Seq(Byte)
  BY Concatenation
<1>2. PICK v \in Seq(Byte) : v = y \o z
  BY <1>1
<1>3. /\ s \in Seq(Byte) /\ Len(s) = Len(x) + Len(v) /\ Len(x) \in Nat /\ Len(v) \in Nat
      /\ \A i \in 1..Len(x) : s[i] = x[i]
  BY <1>1, <1>2, ConcatProperties, LenProperties
<1>4. 1 \in 1..Len(s)+1 /\ Len(x) \in 0..Len(s)
  BY <1>3
<1>5. \A i \in 1..Len(x) : s[i] \in Byte
  BY <1>3, ElementOfSeq
<1>6. /\ SubSeq(s, 1, Len(x)) \in Seq(Byte) /\ Len(SubSeq(s, 1, Len(x))) = Len(x)
      /\ \A i \in 1..Len(x) : SubSeq(s, 1, Len(x))[i] = s[i]
  BY <1>3, <1>5, SubSeqProperties
<1>7. \A i \in 1..Len(x) : SubSeq(s, 1, Len(x))[i] = x[i]
  BY <1>3, <1>6
<1>8. SubSeq(s, 1, Len(x)) = x
  BY <1>6, <1>7, SeqEqual
<1> QED
  BY <1>3, <1>4, <1>8

\* The bytes sent are the beginning of the stream.
SentIsPrefix ==
  \A c \in Conns :
    /\ Len(wire[c]) \in 0..Len(Stream(c)) /\ Len(Stream(c)) \in Nat
    /\ SubSeq(Stream(c), 1, Len(wire[c])) = wire[c]

\* WireInv says so.
LEMMA WireIsPrefix ==
  ASSUME OutputCore
  PROVE  SentIsPrefix
<1>0. SUFFICES ASSUME NEW c \in Conns
      PROVE  /\ Len(wire[c]) \in 0..Len(Stream(c)) /\ Len(Stream(c)) \in Nat
             /\ SubSeq(Stream(c), 1, Len(wire[c])) = wire[c]
  BY DEF SentIsPrefix
<1>1. PICK p \in Jobs(c) : TRUE
  BY OnlyJob DEF OutputCore
<1>2. PlaceInv(c, p) /\ WireInv(c, p)
  BY DEF OutputCore, JobInv
<1>3. PICK u \in Seq(Byte) : Stream(c) = (wire[c] \o Rest(p)) \o u
  BY <1>2 DEF WireInv
<1>4. wire[c] \in Seq(Byte) /\ Rest(p) \in Seq(Byte)
  BY <1>2, RestIsBytes, DataTypes DEF OutputCore
<1> QED
  BY <1>3, <1>4, PrefixOfStream

\* OutputChannel and SocketOutput mean the same bytes.
LEMMA SameStream ==
  ASSUME NEW c \in Conns
  PROVE  Channel!Stream(c) = Stream(c)
BY DEF Stream, Channel!Stream, FlattenSeq, Channel!FlattenSeq

\* An accepted message fits in the bytes not yet sent.
LEMMA AcceptRefines ==
  ASSUME OutputCore, NEW t \in Callers, NEW c \in Conns, NEW size \in FrameSizes,
         ~stopping[c], Accept(t, c, size), UNCHANGED <<stopping, wire>>
  PROVE  Channel!Accept(c)
<1>1. PICK p \in Jobs(c) : TRUE
  BY OnlyJob DEF OutputCore
<1>2. PlaceInv(c, p) /\ CountInv(c, p) /\ RoomInv(c, p) /\ Types
  BY DEF OutputCore, JobInv
<1>3. Batch(p) \in Ops
  BY <1>2, RestIsBytes
<1> DEFINE bytes == Len(Batch(p).bytes)
           queued == Len(FlattenSeq(queue[c]))
           stream == Len(Stream(c))
           sent == Len(wire[c])
           pending == pendingBytes[c]
<1>4. /\ bytes \in Nat /\ queued \in Nat /\ stream \in Nat /\ sent \in Nat /\ pending \in Nat
      /\ MaxPendingBytes \in Nat /\ size \in Nat
  BY <1>2, <1>3, LenProperties, DataTypes, SocketOutputAssumption DEF Ops
<1>5. pending = queued + bytes /\ stream <= sent + queued + bytes
  BY <1>2 DEF CountInv, RoomInv
<1>6. size <= MaxPendingBytes - pending
  BY DEF Accept, HasRoom
<1>7. stream - sent + size <= MaxPendingBytes
  <2> HIDE DEF bytes, queued, stream, sent, pending
  <2> QED
    BY <1>4, <1>5, <1>6
<1>8. accepted' = [accepted EXCEPT ![c] = Append(@, Frame(Len(@) + 1, size))]
  BY DEF Accept
<1>9. Len(Channel!Stream(c)) - Len(wire[c]) + size <= MaxPendingBytes
  BY <1>7, SameStream
<1>10. accepted' = [accepted EXCEPT ![c] = Append(@, Channel!Frame(Len(@) + 1, size))]
  BY <1>8 DEF Frame, Channel!Frame
<1> QED
  BY <1>9, <1>10 DEF Channel!Accept

\* Sending goes on where it was, and what is sent is the beginning of the stream.
LEMMA FinishRefines ==
  ASSUME OutputCore, SentIsPrefix', NEW c \in Conns, NEW o \in kernel[c], Finish(c, o)
  PROVE  Channel!Transmit(c)
<1>1. PICK p \in Jobs(c) : p = Packet(c, "kernel", o, 0, FALSE)
  <2>1. Jobs(c) = {Packet(c, "kernel", o, 0, FALSE)}
    BY KernelJob DEF OutputCore
  <2> QED
    BY <2>1
<1>2. PlaceInv(c, p) /\ p.op = o
  BY <1>1 DEF OutputCore, JobInv, Packet
<1>3. /\ o.bytes \in Seq(Byte) /\ o.offset \in 0..Len(o.bytes) /\ o.offset \in Nat
      /\ Len(o.bytes) \in Nat /\ Left(o) = Len(o.bytes) - o.offset
  BY <1>2, LenProperties DEF PlaceInv, Ops, Byte, Left
<1>4. PICK k \in 0..Left(o) : Deliver(c, o, k)
  <2>1. \A n \in 1..Left(o) : n \in 0..Left(o)
    OBVIOUS
  <2> QED
    BY <2>1 DEF Finish
<1>5. PICK s : s = SubSeq(o.bytes, o.offset + 1, o.offset + k)
  OBVIOUS
<1>6. s \in Seq(Byte) /\ Len(s) = k /\ k \in Nat
  <2>1. k \in 0..(Len(o.bytes) - o.offset) /\ k \in Nat
    BY <1>3
  <2> QED
    BY <1>3, <1>5, <2>1, SendSome
<1>7. PICK w \in Seq(Byte) : w = wire[c]
  BY DataTypes DEF OutputCore
<1>8. wire' = [wire EXCEPT ![c] = w \o s]
  BY <1>4, <1>5, <1>7 DEF Deliver
<1>9. wire'[c] = w \o s
  BY <1>8 DEF OutputCore, Types
<1>10. Len(wire'[c]) = Len(w) + k /\ Len(w) \in Nat
  BY <1>6, <1>9, Concatenation
<1>11. UNCHANGED <<accepted, stopping>> /\ Stream(c)' = Stream(c)
  BY DEF Finish, stopVars, Stream
<1>12. /\ Len(wire'[c]) \in 0..Len(Stream(c)) /\ Len(Stream(c)) \in Nat
       /\ SubSeq(Stream(c), 1, Len(wire'[c])) = wire'[c]
  BY <1>11 DEF SentIsPrefix
<1>13. Len(wire'[c]) \in Len(wire[c])..Len(Stream(c))
  <2>1. PICK n : n = Len(wire'[c])
    OBVIOUS
  <2>2. PICK m : m = Len(w)
    OBVIOUS
  <2>3. n = m + k /\ m \in Nat /\ n \in 0..Len(Stream(c)) /\ Len(Stream(c)) \in Nat
    BY <1>10, <1>12, <2>1, <2>2
  <2>4. n \in m..Len(Stream(c))
    BY <1>6, <2>3
  <2> QED
    BY <1>7, <2>1, <2>2, <2>4
<1>14. wire' = [wire EXCEPT ![c] = SubSeq(Stream(c), 1, Len(wire'[c]))]
  BY <1>8, <1>9, <1>12
<1> QED
  BY <1>11, <1>13, <1>14, SameStream DEF Channel!Transmit

\* A step of the queues is a step of the channels or of none.
LEMMA StepRefines ==
  ASSUME OutputCore, SentIsPrefix', [Next]_vars
  PROVE  [Channel!Next]_(Channel!vars)
<1>1. ASSUME NEW t \in Callers, NEW c \in Conns, Enqueue(t, c)
      PROVE  [Channel!Next]_(Channel!vars)
  <2>1. ~stopping[c] /\ UNCHANGED <<stopping, wire>>
    BY <1>1 DEF Enqueue
  <2>2. PICK size \in FrameSizes : Accept(t, c, size) \/ Overflow(t, c, size)
    BY <1>1 DEF Enqueue
  <2>3. CASE Accept(t, c, size)
    BY <2>1, <2>2, <2>3, AcceptRefines DEF Channel!Next
  <2>4. CASE Overflow(t, c, size)
    BY <2>1, <2>4 DEF Overflow, Channel!vars
  <2> QED
    BY <2>2, <2>3, <2>4
<1>2. ASSUME NEW t \in Callers, NEW c \in Conns, Disconnect(t, c)
      PROVE  [Channel!Next]_(Channel!vars)
  BY <1>2 DEF Disconnect, Channel!vars
<1>3. ASSUME NEW t \in Threads, StopStep(t)
      PROVE  [Channel!Next]_(Channel!vars)
  <2>1. CASE StopFlag(t)
    <3>1. stop[t].conn \in Conns
      BY <2>1 DEF StopFlag, OutputCore, StopInv
    <3>2. Channel!Cut(stop[t].conn)
      BY <2>1 DEF StopFlag, Channel!Cut
    <3> QED
      BY <3>1, <3>2 DEF Channel!Next
  <2>2. CASE ~StopFlag(t)
    BY <1>3, <2>2 DEF StopStep, StopReason, StopShut, StopReturn, Channel!vars
  <2> QED
    BY <2>1, <2>2
<1>4. CASE Dispatch
  BY <1>4 DEF Dispatch, Take, Begin, Begun, Submit, Send, Complete, Settle, NextBatch, Post,
              stopVars, Channel!vars
<1>5. ASSUME NEW c \in Conns, Kernel(c)
      PROVE  [Channel!Next]_(Channel!vars)
  BY <1>5, FinishRefines DEF Kernel, Channel!Next
<1>6. CASE UNCHANGED vars
  BY <1>6 DEF vars, stopVars, Channel!vars
<1> QED
  BY <1>1, <1>2, <1>3, <1>4, <1>5, <1>6 DEF Next

\* The queues implement bounded byte streams: what the peer of a connection
\* gets is the accepted bytes in their order, each once, and a message is
\* accepted only within the limit (SocketOutput and OutputDispatcher).
THEOREM OutputImplementsChannel == Spec => ChannelSpec
<1>1. Init => Channel!Init
  BY DEF Init, Channel!Init
<1>2. OutputCore => SentIsPrefix
  BY WireIsPrefix
<1>3. OutputCore /\ SentIsPrefix' /\ [Next]_vars => [Channel!Next]_(Channel!vars)
  BY StepRefines
<1> QED
  BY <1>1, <1>2, <1>3, OutputCoreInvariant, PTL DEF Spec, ChannelSpec, Channel!Spec
==============================================================================
