---------------------------- MODULE FramingProofs ----------------------------
(***************************************************************************)
(* The receive loop cuts the stream at its newlines wherever TCP has cut   *)
(* it: proofs about Framing for every limit on lines, every size of a recv *)
(* and every bound on the stream.                                          *)
(***************************************************************************)
EXTENDS Framing, SequenceLemmas

-----------------------------------------------------------------------------
(* The strengthening *)

Bytes == (1..MaxStream) \X BOOLEAN

\* The bytes of the stream that have left pending.
Dropped == Len(received) - Len(pending)

Line(s) ==
  /\ Len(s) <= MaxLineBytes + 1
  /\ \A k \in 1..Len(s) : IsNewline(s[k]) <=> k = Len(s)

\* Nothing but the rest of one line is pending from the place p on.
NoLineFrom(p) == \A k \in p + 1 .. Len(pending) : ~ IsNewline(pending[k])

\* pending is the end of what has been received, and the lines handled are its
\* beginning.
InStream ==
  /\ Len(pending) <= Len(received)
  /\ \A k \in 1..Len(pending) : pending[k] = received[Dropped + k]
  /\ HandledBytes <= Len(received)
  /\ \A k \in 1..HandledBytes : FlattenSeq(handled)[k] = received[k]
  /\ \A i \in 1..Len(handled) : Line(handled[i])

\* What has been handled ends where the loop goes on: at consumed, or at the end
\* of the line it has in hand.
InPlace ==
  /\ at \in {"top", "recv", "lines"} => HandledBytes = Dropped + consumed
  /\ at \in {"top", "recv"} => /\ consumed = 0
                               /\ NoLineFrom(0)
                               /\ Len(pending) <= MaxLineBytes
  /\ at = "handled" => NextEnd # 0 /\ HandledBytes = Dropped + NextEnd

\* A connection that a line has closed is closing, and the loop is on its way out.
OnTheWayOut == quit => closing /\ at \in {"handled", "ended"}

FramingCore ==
  /\ received \in Seq(Bytes)
  /\ Len(received) <= MaxStream
  /\ pending \in Seq(Bytes)
  /\ handled \in Seq(Seq(Bytes))
  /\ consumed \in 0..Len(pending)
  /\ at \in {"top", "recv", "lines", "handled", "ended"}
  /\ {closing, quit} \subseteq BOOLEAN
  /\ BufferBounded
  /\ InStream
  /\ InPlace
  /\ OnTheWayOut

-----------------------------------------------------------------------------
(* Lemmas *)

\* A nonempty set of numbers contains its minimum.
LEMMA MinOfNumbers ==
  ASSUME NEW S \in SUBSET Nat, NEW m \in S, \A y \in S : m <= y
  PROVE  Min(S) = m
<1>1. Min(S) \in S /\ \A y \in S : Min(S) <= y
  BY DEF Min
<1>2. Min(S) \in Nat /\ m \in Nat
  BY <1>1
<1>3. Min(S) <= m /\ m <= Min(S)
  BY <1>1
<1> QED
  BY <1>2, <1>3

\* The two parts of a concatenation.
LEMMA Parts ==
  ASSUME NEW S, NEW s \in Seq(S), NEW t \in Seq(S)
  PROVE  /\ s \o t \in Seq(S)
         /\ Len(s \o t) = Len(s) + Len(t)
         /\ \A k \in 1..Len(s) : (s \o t)[k] = s[k]
         /\ \A k \in 1..Len(t) : (s \o t)[Len(s) + k] = t[k]
<1>1. Len(s) \in Nat /\ Len(t) \in Nat
  BY LenProperties
<1>2. s \o t \in Seq(S) /\ Len(s \o t) = Len(s) + Len(t)
  BY ConcatProperties
<1>3. \A k \in 1..Len(s) : (s \o t)[k] = s[k]
  BY <1>1, ConcatProperties
<1>4. ASSUME NEW k \in 1..Len(t) PROVE (s \o t)[Len(s) + k] = t[k]
  BY <1>1, ConcatProperties
<1> QED
  BY <1>2, <1>3, <1>4

\* What find finds.
LEMMA FindsNewline ==
  ASSUME pending \in Seq(Bytes), consumed \in 0..Len(pending)
  PROVE  /\ NextEnd \in 0..Len(pending)
         /\ NextEnd = 0 => NoLineFrom(consumed)
         /\ NextEnd # 0 => /\ NextEnd > consumed
                           /\ IsNewline(pending[NextEnd])
                           /\ \A k \in consumed + 1 .. NextEnd - 1 : ~ IsNewline(pending[k])
<1> DEFINE I == {i \in consumed + 1 .. Len(pending) : IsNewline(pending[i])}
<1>1. NextEnd = IF I # {} THEN Min(I) ELSE 0
  BY DEF NextEnd, SelectInSubSeq
<1>2. Len(pending) \in Nat /\ consumed \in Nat
  BY LenProperties
<1>3. CASE I = {}
  BY <1>1, <1>2, <1>3 DEF NoLineFrom
<1>4. CASE I # {}
  <2>1. I \in SUBSET Nat
    BY <1>2
  <2> HIDE DEF I
  <2>2. PICK m \in I : \A y \in I : m <= y
    BY <1>4, <2>1, LeastNumber
  <2>3. NextEnd = m
    BY <1>1, <1>4, <2>1, <2>2, MinOfNumbers
  <2> QED
    BY <1>2, <2>2, <2>3 DEF I
<1> QED
  BY <1>3, <1>4

\* The bytes of the lines handled.
LEMMA HandledIsBytes ==
  ASSUME handled \in Seq(Seq(Bytes))
  PROVE  FlattenSeq(handled) \in Seq(Bytes) /\ HandledBytes \in Nat
BY FlattenType DEF HandledBytes

-----------------------------------------------------------------------------
(* The invariant *)

\* The loop begins with nothing.
LEMMA CoreInit == Init => FramingCore
<1> SUFFICES ASSUME Init PROVE FramingCore
  OBVIOUS
<1>1. /\ received = <<>> /\ pending = <<>> /\ handled = <<>> /\ consumed = 0
      /\ at = "top" /\ closing = FALSE /\ quit = FALSE
  BY DEF Init
<1>2. HandledBytes = 0
  BY <1>1, FlattenEmpty DEF HandledBytes
<1>3. MaxLineBytes \in Nat /\ MaxStream \in Nat /\ RecvBytes \in Nat
  BY FramingAssumption
<1>4. BufferBounded
  BY <1>1, <1>3 DEF BufferBounded
<1>5. InStream
  BY <1>1, <1>2 DEF InStream
<1>6. InPlace
  BY <1>1, <1>2, <1>3 DEF InPlace, Dropped, NoLineFrom
<1>7. /\ received \in Seq(Bytes) /\ pending \in Seq(Bytes) /\ handled \in Seq(Seq(Bytes))
      /\ Len(received) <= MaxStream /\ consumed \in 0..Len(pending)
  BY <1>1, <1>3, EmptySeq
<1> QED
  BY <1>1, <1>4, <1>5, <1>6, <1>7 DEF FramingCore, OnTheWayOut

\* A recv appends to the stream and to pending alike.
LEMMA CoreReceive ==
  ASSUME FramingCore, Receive
  PROVE  FramingCore'
<1>1. PICK n \in 1..RecvBytes : \E newline \in [1..n -> BOOLEAN] :
        LET bytes == [k \in 1..n |-> <<Len(received) + k, newline[k]>>]
        IN  /\ Len(received) + n <= MaxStream
            /\ received' = received \o bytes
            /\ pending' = pending \o bytes
  BY DEF Receive
<1>2. PICK newline \in [1..n -> BOOLEAN] :
        LET bytes == [k \in 1..n |-> <<Len(received) + k, newline[k]>>]
        IN  /\ Len(received) + n <= MaxStream
            /\ received' = received \o bytes
            /\ pending' = pending \o bytes
  BY <1>1
<1> DEFINE bytes == [k \in 1..n |-> <<Len(received) + k, newline[k]>>]
<1>3. /\ Len(received) + n <= MaxStream
      /\ received' = received \o bytes
      /\ pending' = pending \o bytes
  BY <1>2
<1>4. /\ at = "recv" /\ consumed' = 0 /\ at' = "lines"
      /\ UNCHANGED <<handled, closing, quit>>
  BY DEF Receive
<1>5. /\ received \in Seq(Bytes) /\ pending \in Seq(Bytes) /\ handled \in Seq(Seq(Bytes))
      /\ Len(received) \in Nat /\ Len(pending) \in Nat /\ n \in Nat
      /\ MaxLineBytes \in Nat /\ RecvBytes \in Nat /\ MaxStream \in Nat
  BY LenProperties, FramingAssumption DEF FramingCore
<1>6. bytes \in Seq(Bytes) /\ Len(bytes) = n
  <2>1. \A k \in 1..n : bytes[k] \in Bytes
    BY <1>3, <1>5 DEF Bytes
  <2> QED
    BY <1>5, <2>1
<1> HIDE DEF bytes
<1>7. /\ received' \in Seq(Bytes) /\ pending' \in Seq(Bytes)
      /\ Len(received') = Len(received) + n /\ Len(pending') = Len(pending) + n
      /\ \A k \in 1..Len(received) : received'[k] = received[k]
      /\ \A k \in 1..n : received'[Len(received) + k] = bytes[k]
      /\ \A k \in 1..Len(pending) : pending'[k] = pending[k]
      /\ \A k \in 1..n : pending'[Len(pending) + k] = bytes[k]
  <2>1. ASSUME NEW s \in Seq(Bytes)
        PROVE  /\ s \o bytes \in Seq(Bytes)
               /\ Len(s \o bytes) = Len(s) + Len(bytes)
               /\ \A k \in 1..Len(s) : (s \o bytes)[k] = s[k]
               /\ \A k \in 1..Len(bytes) : (s \o bytes)[Len(s) + k] = bytes[k]
    <3>1. bytes \in Seq(Bytes)
      BY <1>6
    <3> QED
      BY <3>1, Parts
  <2> QED
    BY <1>3, <1>5, <1>6, <2>1
<1>8. HandledBytes' = HandledBytes /\ FlattenSeq(handled') = FlattenSeq(handled)
      /\ HandledBytes \in Nat
  BY <1>4, <1>5, HandledIsBytes DEF HandledBytes
<1>9. Len(pending) <= Len(received) /\ HandledBytes = Len(received) - Len(pending)
      /\ Len(pending) <= MaxLineBytes
  BY <1>4 DEF FramingCore, InStream, InPlace, Dropped
<1>10. Dropped' = Dropped /\ Dropped = Len(received) - Len(pending)
  BY <1>5, <1>7 DEF Dropped
<1>11. InStream'
  <2>1. ASSUME NEW k \in 1..Len(pending') PROVE pending'[k] = received'[Dropped' + k]
    <3>1. CASE k <= Len(pending)
      <4>1. k \in 1..Len(pending)
        BY <1>5, <1>7, <3>1
      <4>2. pending[k] = received[Dropped + k]
        BY <4>1 DEF FramingCore, InStream
      <4>3. Dropped + k \in 1..Len(received)
        BY <1>5, <1>9, <1>10, <4>1
      <4> QED
        BY <1>7, <1>10, <4>1, <4>2, <4>3
    <3>2. CASE k > Len(pending)
      <4> DEFINE j == k - Len(pending)
      <4>1. j \in 1..n /\ k = Len(pending) + j
        BY <1>5, <1>7, <3>2
      <4> HIDE DEF j
      <4>2. Dropped' + k = Len(received) + j
        BY <1>5, <1>10, <4>1
      <4> QED
        BY <1>7, <4>1, <4>2
    <3> QED
      BY <1>5, <1>7, <3>1, <3>2
  <2>2. HandledBytes' <= Len(received')
    BY <1>5, <1>7, <1>8, <1>9
  <2>3. ASSUME NEW k \in 1..HandledBytes' PROVE FlattenSeq(handled')[k] = received'[k]
    <3>1. k \in 1..HandledBytes /\ k \in 1..Len(received)
      BY <1>5, <1>8, <1>9
    <3> QED
      BY <1>7, <1>8, <3>1 DEF FramingCore, InStream
  <2>4. \A i \in 1..Len(handled') : Line(handled'[i])
    BY <1>4 DEF FramingCore, InStream
  <2>5. Len(pending') <= Len(received')
    BY <1>5, <1>7, <1>9
  <2> QED
    BY <2>1, <2>2, <2>3, <2>4, <2>5 DEF InStream
<1>12. InPlace'
  BY <1>4, <1>5, <1>8, <1>9, <1>10 DEF InPlace
<1>13. BufferBounded'
  BY <1>5, <1>7, <1>9 DEF BufferBounded
<1>14. OnTheWayOut'
  BY <1>4 DEF FramingCore, OnTheWayOut
<1>15. consumed' \in 0..Len(pending') /\ Len(received') <= MaxStream
  BY <1>3, <1>4, <1>5, <1>7
<1> QED
  BY <1>4, <1>5, <1>7, <1>11, <1>12, <1>13, <1>14, <1>15 DEF FramingCore

\* The line handled is the next one of the stream.
LEMMA CoreHandleLine ==
  ASSUME FramingCore, HandleLine
  PROVE  FramingCore'
<1> DEFINE line == SubSeq(pending, consumed + 1, NextEnd)
           F == FlattenSeq(handled)
           e == NextEnd
<1>1. /\ at = "lines" /\ e # 0 /\ e - consumed - 1 <= MaxLineBytes
      /\ handled' = Append(handled, line)
      /\ at' = "handled"
      /\ UNCHANGED <<received, pending, consumed>>
      /\ \E closes \in BOOLEAN : closing' = (closing \/ closes) /\ quit' = (quit \/ closes)
  BY DEF HandleLine, Fits
<1>2. /\ received \in Seq(Bytes) /\ pending \in Seq(Bytes) /\ handled \in Seq(Seq(Bytes))
      /\ Len(received) \in Nat /\ Len(pending) \in Nat /\ consumed \in 0..Len(pending)
      /\ MaxLineBytes \in Nat
  BY LenProperties, FramingAssumption DEF FramingCore
<1>3. /\ e \in 1..Len(pending) /\ e > consumed
      /\ IsNewline(pending[e])
      /\ \A k \in consumed + 1 .. e - 1 : ~ IsNewline(pending[k])
  BY <1>1, <1>2, FindsNewline
<1>4. F \in Seq(Bytes) /\ HandledBytes = Len(F) /\ HandledBytes \in Nat
  BY <1>2, HandledIsBytes DEF HandledBytes
<1>5. /\ Len(pending) <= Len(received)
      /\ \A k \in 1..Len(pending) : pending[k] = received[Dropped + k]
      /\ HandledBytes <= Len(received)
      /\ \A k \in 1..HandledBytes : F[k] = received[k]
      /\ \A i \in 1..Len(handled) : Line(handled[i])
      /\ HandledBytes = Dropped + consumed
  BY <1>1 DEF FramingCore, InStream, InPlace
<1>6. NextEnd' = e
  BY <1>1 DEF NextEnd
<1> HIDE DEF e, F
<1>7. /\ line \in Seq(Bytes) /\ Len(line) = e - consumed
      /\ \A k \in 1..e - consumed : line[k] = pending[consumed + k]
  BY <1>2, <1>3 DEF e
<1> HIDE DEF line
<1>8. /\ FlattenSeq(handled') = F \o line
      /\ handled' \in Seq(Seq(Bytes))
  <2>1. FlattenSeq(Append(handled, line)) = FlattenSeq(handled) \o line
    BY <1>2, <1>7, FlattenAppend
  <2>2. Append(handled, line) \in Seq(Seq(Bytes))
    BY <1>2, <1>7, AppendProperties
  <2> QED
    BY <1>1, <2>1, <2>2 DEF F
<1>9. /\ HandledBytes' = HandledBytes + (e - consumed)
      /\ \A k \in 1..HandledBytes : FlattenSeq(handled')[k] = F[k]
      /\ \A k \in 1..e - consumed : FlattenSeq(handled')[HandledBytes + k] = line[k]
  <2>1. /\ Len(F \o line) = Len(F) + Len(line)
        /\ \A k \in 1..Len(F) : (F \o line)[k] = F[k]
        /\ \A k \in 1..Len(line) : (F \o line)[Len(F) + k] = line[k]
    BY <1>4, <1>7, Parts
  <2>2. HandledBytes' = Len(F \o line)
    BY <1>8 DEF HandledBytes
  <2> QED
    BY <1>4, <1>7, <1>8, <2>1, <2>2
<1>10. Dropped' = Dropped /\ Dropped = Len(received) - Len(pending) /\ Dropped \in Nat
  BY <1>1, <1>2, <1>5 DEF Dropped
<1>11. HandledBytes' = Dropped + e /\ HandledBytes' <= Len(received)
  BY <1>2, <1>3, <1>5, <1>9, <1>10
<1>12. ASSUME NEW k \in 1..HandledBytes' PROVE FlattenSeq(handled')[k] = received[k]
  <2>1. CASE k <= HandledBytes
    BY <1>4, <1>5, <1>9, <2>1
  <2>2. CASE k > HandledBytes
    <3> DEFINE j == k - HandledBytes
    <3>1. j \in 1..e - consumed /\ k = HandledBytes + j
      BY <1>2, <1>3, <1>4, <1>9, <2>2
    <3> HIDE DEF j
    <3>2. consumed + j \in 1..Len(pending) /\ Dropped + (consumed + j) = k
      <4>1. j \in 1..e - consumed /\ k = Dropped + consumed + j
        BY <1>5, <3>1
      <4>2. consumed \in Nat /\ e \in Nat /\ e <= Len(pending) /\ Len(pending) \in Nat
            /\ Dropped \in Nat
        BY <1>2, <1>3, <1>10
      <4> QED
        BY <4>1, <4>2
    <3> QED
      BY <1>5, <1>7, <1>9, <3>1, <3>2
  <2> QED
    BY <1>4, <1>11, <2>1, <2>2
<1>13. Line(line)
  <2>1. Len(line) <= MaxLineBytes + 1
    BY <1>1, <1>2, <1>3, <1>7
  <2>2. ASSUME NEW k \in 1..Len(line) PROVE IsNewline(line[k]) <=> k = Len(line)
    <3>1. line[k] = pending[consumed + k]
      BY <1>7
    <3>2. CASE k = Len(line)
      <4>1. consumed + k = e
        BY <1>2, <1>3, <1>7, <3>2
      <4> QED
        BY <1>3, <3>1, <3>2, <4>1
    <3>3. CASE k # Len(line)
      <4>1. consumed + k \in consumed + 1 .. e - 1
        BY <1>2, <1>3, <1>7, <3>3
      <4> QED
        BY <1>3, <3>1, <3>3, <4>1
    <3> QED
      BY <3>2, <3>3
  <2> QED
    BY <2>1, <2>2 DEF Line
<1>14. \A i \in 1..Len(handled') : Line(handled'[i])
  <2>1. Len(handled') = Len(handled) + 1 /\ Len(handled) \in Nat
        /\ handled'[Len(handled) + 1] = line
        /\ \A i \in 1..Len(handled) : handled'[i] = handled[i]
    BY <1>1, <1>2, <1>7
  <2> QED
    BY <1>5, <1>13, <2>1
<1>15. InStream'
  BY <1>1, <1>5, <1>10, <1>11, <1>12, <1>14 DEF InStream
<1>16. InPlace'
  BY <1>1, <1>3, <1>6, <1>10, <1>11 DEF InPlace
<1>17. {closing', quit'} \subseteq BOOLEAN /\ OnTheWayOut'
  BY <1>1 DEF FramingCore, OnTheWayOut
<1>18. BufferBounded'
  BY <1>1 DEF FramingCore, BufferBounded
<1>19. received' \in Seq(Bytes) /\ Len(received') <= MaxStream /\ pending' \in Seq(Bytes)
       /\ consumed' \in 0..Len(pending')
  BY <1>1 DEF FramingCore
<1> QED
  BY <1>1, <1>8, <1>15, <1>16, <1>17, <1>18, <1>19 DEF FramingCore

\* What is consumed leaves pending, and the rest holds no newline.
LEMMA CoreKeepRest ==
  ASSUME FramingCore, KeepRest
  PROVE  FramingCore'
<1> DEFINE rest == SubSeq(pending, consumed + 1, Len(pending))
<1>1. /\ at = "lines" /\ NextEnd = 0
      /\ pending' = rest /\ consumed' = 0
      /\ at' = (IF Len(pending') <= MaxLineBytes THEN "top" ELSE "ended")
      /\ UNCHANGED <<received, handled, closing, quit>>
  BY DEF KeepRest, Fits
<1>2. /\ received \in Seq(Bytes) /\ pending \in Seq(Bytes) /\ handled \in Seq(Seq(Bytes))
      /\ Len(received) \in Nat /\ Len(pending) \in Nat /\ consumed \in 0..Len(pending)
      /\ MaxLineBytes \in Nat /\ RecvBytes \in Nat
  BY LenProperties, FramingAssumption DEF FramingCore
<1>3. \A k \in consumed + 1 .. Len(pending) : ~ IsNewline(pending[k])
  BY <1>1, <1>2, FindsNewline DEF NoLineFrom
<1>4. /\ rest \in Seq(Bytes) /\ Len(rest) = Len(pending) - consumed
      /\ \A k \in 1 .. Len(pending) - consumed : rest[k] = pending[consumed + k]
  BY <1>2
<1> HIDE DEF rest
<1>5. /\ Len(pending) <= Len(received)
      /\ \A k \in 1..Len(pending) : pending[k] = received[Dropped + k]
      /\ HandledBytes <= Len(received)
      /\ \A k \in 1..HandledBytes : FlattenSeq(handled)[k] = received[k]
      /\ \A i \in 1..Len(handled) : Line(handled[i])
      /\ HandledBytes = Dropped + consumed
  BY <1>1 DEF FramingCore, InStream, InPlace
<1>6. /\ Len(pending') = Len(pending) - consumed
      /\ Dropped = Len(received) - Len(pending)
      /\ Dropped' = Dropped + consumed
  BY <1>1, <1>2, <1>4 DEF Dropped
<1>7. FlattenSeq(handled') = FlattenSeq(handled) /\ HandledBytes' = HandledBytes
  BY <1>1 DEF HandledBytes
<1>8. InStream'
  <2>1. ASSUME NEW k \in 1..Len(pending') PROVE pending'[k] = received'[Dropped' + k]
    <3>1. consumed + k \in 1..Len(pending) /\ Dropped' + k = Dropped + (consumed + k)
      BY <1>2, <1>6
    <3>2. k \in 1 .. Len(pending) - consumed
      BY <1>6
    <3> QED
      BY <1>1, <1>4, <1>5, <3>1, <3>2
  <2>2. Len(pending') <= Len(received')
    BY <1>1, <1>2, <1>5, <1>6
  <2> QED
    BY <1>1, <1>5, <1>7, <2>1, <2>2 DEF InStream
<1>9. NoLineFrom(0)'
  <2>1. ASSUME NEW k \in 0 + 1 .. Len(pending') PROVE ~ IsNewline(pending'[k])
    <3>1. consumed + k \in consumed + 1 .. Len(pending) /\ k \in 1 .. Len(pending) - consumed
      BY <1>2, <1>6
    <3> QED
      BY <1>1, <1>3, <1>4, <3>1
  <2> QED
    BY <2>1 DEF NoLineFrom
<1>10. InPlace'
  <2>1. HandledBytes' = Dropped' + consumed'
    BY <1>1, <1>2, <1>5, <1>6, <1>7
  <2>2. at' \in {"top", "ended"} /\ (at' = "top" => Len(pending') <= MaxLineBytes)
    BY <1>1
  <2> QED
    BY <1>1, <1>9, <2>1, <2>2 DEF InPlace
<1>11. BufferBounded'
  BY <1>2, <1>6 DEF FramingCore, BufferBounded
<1>12. OnTheWayOut'
  BY <1>1 DEF FramingCore, OnTheWayOut
<1>13. /\ pending' \in Seq(Bytes) /\ consumed' \in 0..Len(pending')
       /\ at' \in {"top", "recv", "lines", "handled", "ended"}
  BY <1>1, <1>2, <1>4, <1>6
<1> QED
  BY <1>1, <1>8, <1>10, <1>11, <1>12, <1>13 DEF FramingCore

\* The loop goes on after the line it has handled.
LEMMA CoreAfterLine ==
  ASSUME FramingCore, AfterLine
  PROVE  FramingCore'
<1>1. /\ at = "handled"
      /\ IF closing
         THEN at' = "ended" /\ consumed' = consumed
         ELSE at' = "lines" /\ consumed' = NextEnd
      /\ UNCHANGED <<received, pending, handled, closing, quit>>
  BY DEF AfterLine
<1>2. NextEnd \in 0..Len(pending)
  BY FindsNewline DEF FramingCore
<1>3. Dropped' = Dropped /\ HandledBytes' = HandledBytes
  BY <1>1 DEF Dropped, HandledBytes
<1>4. InStream'
  BY <1>1, <1>3 DEF FramingCore, InStream
<1>5. InPlace'
  BY <1>1, <1>3 DEF FramingCore, InPlace
<1>6. BufferBounded' /\ OnTheWayOut'
  BY <1>1 DEF FramingCore, BufferBounded, OnTheWayOut
<1> QED
  BY <1>1, <1>2, <1>4, <1>5, <1>6 DEF FramingCore

\* The other steps leave the bytes alone.
LEMMA CoreOtherSteps ==
  ASSUME FramingCore, Top \/ ReceiveNothing \/ RejectLine \/ StopByOthers \/ UNCHANGED vars
  PROVE  FramingCore'
<1>1. /\ UNCHANGED <<received, pending, consumed, handled, quit>>
      /\ closing' \in BOOLEAN /\ (closing => closing')
      /\ \/ at' = at
         \/ at = "top" /\ (closing => at' = "ended") /\ at' \in {"ended", "recv"}
         \/ at \in {"recv", "lines"} /\ at' = "ended"
  <2>0. closing \in BOOLEAN
    BY DEF FramingCore
  <2>1. CASE Top
    BY <2>0, <2>1 DEF Top
  <2>2. CASE ReceiveNothing
    BY <2>0, <2>2 DEF ReceiveNothing
  <2>3. CASE RejectLine
    BY <2>0, <2>3 DEF RejectLine
  <2>4. CASE StopByOthers
    BY <2>4 DEF StopByOthers
  <2>5. CASE UNCHANGED vars
    BY <2>0, <2>5 DEF vars
  <2> QED
    BY <2>1, <2>2, <2>3, <2>4, <2>5
<1>2. /\ Dropped' = Dropped /\ HandledBytes' = HandledBytes /\ NextEnd' = NextEnd
      /\ NoLineFrom(0)' <=> NoLineFrom(0)
  BY <1>1 DEF Dropped, HandledBytes, NextEnd, NoLineFrom
<1>3. InStream'
  BY <1>1, <1>2 DEF FramingCore, InStream
<1>4. InPlace'
  BY <1>1, <1>2 DEF FramingCore, InPlace
<1>5. BufferBounded' /\ OnTheWayOut'
  BY <1>1 DEF FramingCore, BufferBounded, OnTheWayOut
<1> QED
  BY <1>1, <1>3, <1>4, <1>5 DEF FramingCore

\* Every step keeps the invariant.
LEMMA CoreStep == FramingCore /\ [Next]_vars => FramingCore'
<1> SUFFICES ASSUME FramingCore, [Next]_vars PROVE FramingCore'
  OBVIOUS
<1>1. CASE Receive
  BY <1>1, CoreReceive
<1>2. CASE HandleLine
  BY <1>2, CoreHandleLine
<1>3. CASE KeepRest
  BY <1>3, CoreKeepRest
<1>4. CASE AfterLine
  BY <1>4, CoreAfterLine
<1>5. CASE Top \/ ReceiveNothing \/ RejectLine \/ StopByOthers \/ UNCHANGED vars
  BY <1>5, CoreOtherSteps
<1> QED
  BY <1>1, <1>2, <1>3, <1>4, <1>5 DEF Next, Loop

\* The inductive invariant of the receive loop.
THEOREM FramingCoreInvariant == Spec => []FramingCore
<1>1. Init => FramingCore
  BY CoreInit
<1>2. FramingCore /\ [Next]_vars => FramingCore'
  BY CoreStep
<1> QED
  BY <1>1, <1>2, PTL DEF Spec

-----------------------------------------------------------------------------
(* What follows from it *)

\* A sequence that another one begins with, element by element.
LEMMA PrefixByElements ==
  ASSUME NEW S, NEW s \in Seq(S), NEW t \in Seq(S),
         Len(s) <= Len(t), \A k \in 1..Len(s) : s[k] = t[k]
  PROVE  IsPrefix(s, t)
<1>1. Len(s) \in Nat /\ Len(t) \in Nat
  BY LenProperties
<1>2. SubSeq(s, 1, Len(s)) = SubSeq(t, 1, Len(s))
  BY <1>1
<1> QED
  BY <1>2 DEF IsPrefix

\* A sequence that another one ends with, element by element.
LEMMA SuffixByElements ==
  ASSUME NEW S, NEW s \in Seq(S), NEW t \in Seq(S),
         Len(s) <= Len(t), \A k \in 1..Len(s) : s[k] = t[Len(t) - Len(s) + k]
  PROVE  IsSuffix(s, t)
<1>1. Len(s) \in Nat /\ Len(t) \in Nat
  BY LenProperties
<1>2. /\ Reverse(s) \in Seq(S) /\ Len(Reverse(s)) = Len(s)
      /\ \A k \in 1..Len(s) : Reverse(s)[k] = s[Len(s) - k + 1]
  BY <1>1 DEF Reverse
<1>3. /\ Reverse(t) \in Seq(S) /\ Len(Reverse(t)) = Len(t)
      /\ \A k \in 1..Len(t) : Reverse(t)[k] = t[Len(t) - k + 1]
  BY <1>1 DEF Reverse
<1>4. ASSUME NEW k \in 1..Len(s) PROVE Reverse(s)[k] = Reverse(t)[k]
  <2>1. /\ Len(s) - k + 1 \in 1..Len(s)
        /\ Len(t) - Len(s) + (Len(s) - k + 1) = Len(t) - k + 1
        /\ k \in 1..Len(t)
    BY <1>1
  <2>2. s[Len(s) - k + 1] = t[Len(t) - k + 1]
    BY <2>1
  <2> QED
    BY <1>2, <1>3, <2>1, <2>2
<1>5. IsPrefix(Reverse(s), Reverse(t))
  BY <1>2, <1>3, <1>4, PrefixByElements
<1> QED
  BY <1>5 DEF IsSuffix

\* The length of the line at hand is what the loop compares with its limit:
\* what there is up to the newline found, or all that is pending.
LEMMA LengthAtHand ==
  ASSUME FramingCore, at \in {"top", "recv", "lines"}
  PROVE  /\ NextEnd # 0 => NextLength = NextEnd - consumed - 1
         /\ NextEnd = 0 => NextLength = Len(pending) - consumed
         /\ NextEnd = 0 => \A k \in Newlines : k <= HandledBytes
<1> DEFINE B == {k \in Newlines : k > HandledBytes} \union {Len(received) + 1}
           e == NextEnd
<1>1. /\ received \in Seq(Bytes) /\ pending \in Seq(Bytes)
      /\ Len(received) \in Nat /\ Len(pending) \in Nat /\ consumed \in 0..Len(pending)
      /\ HandledBytes \in Nat
  BY LenProperties, HandledIsBytes DEF FramingCore
<1>2. /\ Len(pending) <= Len(received)
      /\ \A k \in 1..Len(pending) : pending[k] = received[Dropped + k]
      /\ HandledBytes = Dropped + consumed
      /\ Dropped = Len(received) - Len(pending)
  BY DEF FramingCore, InStream, InPlace, Dropped
<1>3. /\ e \in 0..Len(pending)
      /\ e = 0 => NoLineFrom(consumed)
      /\ e # 0 => /\ e > consumed
                  /\ IsNewline(pending[e])
                  /\ \A k \in consumed + 1 .. e - 1 : ~ IsNewline(pending[k])
  BY <1>1, FindsNewline
<1> HIDE DEF e
<1>4. Dropped \in Nat
  BY <1>1, <1>2
<1>5. ASSUME NEW k \in Newlines, k > HandledBytes
      PROVE  /\ k - Dropped \in consumed + 1 .. Len(pending)
             /\ IsNewline(pending[k - Dropped])
  <2>1. k \in 1..Len(received) /\ IsNewline(received[k])
    BY DEF Newlines
  <2> DEFINE j == k - Dropped
  <2>2. j \in consumed + 1 .. Len(pending) /\ k = Dropped + j
    <3>1. k > Dropped + consumed /\ k <= Dropped + Len(pending) /\ k \in Nat
      BY <1>1, <1>2, <1>5, <2>1
    <3> QED
      BY <1>1, <1>4, <3>1
  <2> HIDE DEF j
  <2>3. j \in 1..Len(pending)
    BY <1>1, <2>2
  <2>4. IsNewline(pending[j])
    BY <1>2, <2>1, <2>2, <2>3
  <2> QED
    BY <2>2, <2>4 DEF j
<1>6. B \in SUBSET Nat
  BY <1>1 DEF Newlines
<1>7. NextLength = Min(B) - HandledBytes - 1
  BY DEF NextLength
<1>8. CASE e = 0
  <2>1. \A k \in Newlines : ~ (k > HandledBytes)
    BY <1>3, <1>5, <1>8 DEF NoLineFrom
  <2>2. B = {Len(received) + 1}
    BY <2>1
  <2>3. Min(B) = Len(received) + 1
    <3>1. Len(received) + 1 \in B /\ \A y \in B : Len(received) + 1 <= y
      BY <1>1, <2>2
    <3> HIDE DEF B
    <3> QED
      BY <1>6, <3>1, MinOfNumbers
  <2>4. NextLength = Len(pending) - consumed
    <3>1. NextLength = (Len(received) + 1) - HandledBytes - 1
      BY <1>7, <2>3
    <3>2. consumed \in Nat /\ Len(received) \in Nat /\ Len(pending) \in Nat
      BY <1>1
    <3> HIDE DEF B
    <3> QED
      BY <1>2, <3>1, <3>2
  <2>5. \A k \in Newlines : k <= HandledBytes
    BY <1>1, <2>1 DEF Newlines
  <2> QED
    BY <1>8, <2>4, <2>5 DEF e
<1>9. CASE e # 0
  <2> DEFINE m == Dropped + e
  <2>1. /\ m \in 1..Len(received) /\ m > HandledBytes
        /\ e \in 1..Len(pending)
    BY <1>1, <1>2, <1>3, <1>4, <1>9
  <2>2. m \in Newlines
    BY <1>2, <1>3, <1>9, <2>1 DEF Newlines
  <2>3. ASSUME NEW k \in Newlines, k > HandledBytes PROVE m <= k
    <3>1. SUFFICES ASSUME ~ (m <= k) PROVE FALSE
      OBVIOUS
    <3>2. k \in Nat
      BY DEF Newlines
    <3>3. k - Dropped \in consumed + 1 .. e - 1
      BY <1>1, <1>3, <1>4, <1>5, <2>3, <3>1, <3>2
    <3> QED
      BY <1>3, <1>5, <1>9, <2>3, <3>3
  <2>4. Min(B) = m
    <3>1. m <= Len(received) + 1
      BY <1>1, <2>1
    <3>2. m \in B /\ \A y \in B : m <= y
      BY <2>1, <2>2, <2>3, <3>1
    <3> HIDE DEF B, m
    <3> QED
      BY <1>6, <3>2, MinOfNumbers
  <2>5. NextLength = e - consumed - 1
    <3>1. NextLength = m - HandledBytes - 1
      BY <1>7, <2>4
    <3>2. consumed \in Nat /\ e \in Nat
      BY <1>1, <1>3
    <3>3. HandledBytes = Dropped + consumed
      BY <1>2
    <3>4. NextLength = (Dropped + e) - (Dropped + consumed) - 1
      BY <3>1, <3>3
    <3> QED
      BY <1>4, <3>2, <3>4
  <2> QED
    BY <1>9, <2>5 DEF e
<1> QED
  BY <1>8, <1>9

\* Every line handed to ProcessMessages is the next line of the stream, whole,
\* with one newline at its end and at most the limit before it, however TCP has
\* cut the stream into packets.
THEOREM LinesInvariant == Spec => []LinesOfTheStream
<1>1. FramingCore => LinesOfTheStream
  <2> SUFFICES ASSUME FramingCore PROVE LinesOfTheStream
    OBVIOUS
  <2>1. FlattenSeq(handled) \in Seq(Bytes) /\ received \in Seq(Bytes)
    BY HandledIsBytes DEF FramingCore
  <2>2. /\ Len(FlattenSeq(handled)) <= Len(received)
        /\ \A k \in 1..Len(FlattenSeq(handled)) : FlattenSeq(handled)[k] = received[k]
        /\ \A i \in 1..Len(handled) : Line(handled[i])
    BY DEF FramingCore, InStream, HandledBytes
  <2>3. IsPrefix(FlattenSeq(handled), received)
    BY <2>1, <2>2, PrefixByElements
  <2> QED
    BY <2>2, <2>3 DEF LinesOfTheStream, Line
<1> QED
  BY <1>1, FramingCoreInvariant, PTL

\* What the loop has in hand is the end of the stream, within its bound, and it
\* waits in recv only when every complete line is handled and the rest may
\* still become one.
THEOREM FramingInvariant == Spec => []FramingInv
<1>1. FramingCore => FramingInv
  <2> SUFFICES ASSUME FramingCore PROVE FramingInv
    OBVIOUS
  <2>1. /\ received \in Seq(Bytes) /\ pending \in Seq(Bytes)
        /\ Len(received) \in Nat /\ Len(pending) \in Nat
    BY LenProperties DEF FramingCore
  <2>2. /\ Len(pending) <= Len(received)
        /\ \A k \in 1..Len(pending) : pending[k] = received[Len(received) - Len(pending) + k]
    BY DEF FramingCore, InStream, Dropped
  <2>3. IsSuffix(pending, received)
    BY <2>1, <2>2, SuffixByElements
  <2>4. TypeOK
    BY <2>3 DEF FramingCore, TypeOK, Bytes
  <2>5. ASSUME at \in {"top", "recv"}
        PROVE  (\A k \in Newlines : k <= HandledBytes) /\ NextLength <= MaxLineBytes
    <3>1. consumed = 0 /\ NoLineFrom(0) /\ Len(pending) <= MaxLineBytes
      BY <2>5 DEF FramingCore, InPlace
    <3>2. NextEnd = 0
      <4>1. NextEnd # 0 => NextEnd \in 1..Len(pending) /\ IsNewline(pending[NextEnd])
        BY <2>1, FindsNewline DEF FramingCore
      <4> QED
        BY <3>1, <4>1 DEF NoLineFrom
    <3> QED
      BY <2>1, <2>5, <3>1, <3>2, LengthAtHand
  <2>6. HandledWhenWaiting
    BY <2>5 DEF HandledWhenWaiting
  <2> QED
    BY <2>4, <2>6 DEF FramingInv, FramingCore
<1> QED
  BY <1>1, FramingCoreInvariant, PTL

\* The loop gives a client up for a line only if that line, or what has come of
\* it, is longer than the limit.
THEOREM LimitRespected == Spec => GivesUpOnlyLongLines
<1>1. FramingCore /\ [Next]_vars => (at = "lines" /\ at' = "ended" => NextLength > MaxLineBytes)
  <2> SUFFICES ASSUME FramingCore, [Next]_vars, at = "lines", at' = "ended"
               PROVE  NextLength > MaxLineBytes
    OBVIOUS
  <2>0. /\ MaxLineBytes \in Nat /\ consumed \in Nat /\ Len(pending) \in Nat /\ NextEnd \in Nat
        /\ consumed <= Len(pending)
    BY FramingAssumption, FindsNewline, LenProperties DEF FramingCore
  <2>1. RejectLine \/ KeepRest
    BY DEF Next, Loop, Top, HandleLine, AfterLine, Receive, ReceiveNothing, StopByOthers, vars
  <2>2. CASE RejectLine
    <3>1. NextEnd # 0 /\ ~ (NextEnd - consumed - 1 <= MaxLineBytes)
      BY <2>2 DEF RejectLine, Fits
    <3>2. NextLength = NextEnd - consumed - 1
      BY <3>1, LengthAtHand
    <3> QED
      BY <2>0, <3>1, <3>2
  <2>3. CASE KeepRest
    <3>1. NextEnd = 0 /\ ~ (Len(pending') <= MaxLineBytes)
          /\ pending' = SubSeq(pending, consumed + 1, Len(pending))
      BY <2>3 DEF KeepRest, Fits
    <3>2. Len(pending') = Len(pending) - consumed
      BY <2>0, <3>1 DEF FramingCore
    <3>3. NextLength = Len(pending) - consumed
      BY <3>1, LengthAtHand
    <3> QED
      BY <2>0, <3>1, <3>2, <3>3
  <2> QED
    BY <2>1, <2>2, <2>3
<1> QED
  BY <1>1, FramingCoreInvariant, PTL DEF Spec, GivesUpOnlyLongLines

\* No line is handled after the one that has closed the connection, though more
\* lines may be pending.
THEOREM QuitIsLast == Spec => NothingAfterQuit
<1>1. FramingCore /\ [Next]_vars => (quit => handled' = handled)
  BY DEF FramingCore, OnTheWayOut, Next, Loop, Top, HandleLine, RejectLine, AfterLine,
         KeepRest, Receive, ReceiveNothing, StopByOthers, vars
<1> QED
  BY <1>1, FramingCoreInvariant, PTL DEF Spec, NothingAfterQuit
==============================================================================
