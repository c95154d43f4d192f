------------------------------- MODULE Framing -------------------------------
(***************************************************************************)
(* The receive loop of a connection, ClientHandler::HandleClient: it       *)
(* appends what recv returns to the bytes pending, hands every complete    *)
(* line to ProcessMessages and keeps the rest.  TCP cuts the stream        *)
(* anywhere, so a line may arrive in pieces and a packet may hold many.    *)
(*                                                                         *)
(* A byte is its position in the stream and whether it is a newline.  What *)
(* ProcessMessages does with a line is the subject of the other modules;   *)
(* here it returns, throws a runtime_error, or leaves the connection       *)
(* closing (QUIT, or an argument that cannot be parsed).                   *)
(***************************************************************************)
EXTENDS Naturals, SequencesExt

CONSTANTS
  MaxLineBytes,   \* maxLineBytes, without the newline
  RecvBytes,      \* what one recv can return
  MaxStream       \* bound of the model: bytes a client sends

ASSUME FramingAssumption == {MaxLineBytes, RecvBytes, MaxStream} \subseteq Nat \ {0}

VARIABLES
  received,   \* history: the bytes recv has returned
  pending,    \* pending
  consumed,   \* consumed, while the lines of pending are handled
  handled,    \* history: the lines handed to ProcessMessages
  at,         \* where the loop is
  closing,    \* IsClosing() of the client
  quit        \* history: a line of the client itself has closed the connection

vars == <<received, pending, consumed, handled, at, closing, quit>>

-----------------------------------------------------------------------------
IsNewline(b) == b[2]

\* find: the first newline of pending from consumed on, or 0.
NextEnd ==
  SelectInSubSeq(pending, consumed + 1, Len(pending), IsNewline)

Init ==
  /\ received = <<>>
  /\ pending = <<>>
  /\ consumed = 0
  /\ handled = <<>>
  /\ at = "top"
  /\ closing = FALSE
  /\ quit = FALSE

\* The top of the loop looks whether the connection is closing.
Top ==
  /\ at = "top"
  /\ at' = IF closing THEN "ended" ELSE "recv"
  /\ UNCHANGED <<received, pending, consumed, handled, closing, quit>>

\* recv returns some bytes of the stream, wherever TCP has cut it.
Receive ==
  /\ at = "recv"
  /\ \E n \in 1..RecvBytes : \E newline \in [1..n -> BOOLEAN] :
       LET bytes == [k \in 1..n |-> <<Len(received) + k, newline[k]>>] IN
       /\ Len(received) + n <= MaxStream
       /\ received' = received \o bytes
       /\ pending' = pending \o bytes
  /\ consumed' = 0
  /\ at' = "lines"
  /\ UNCHANGED <<handled, closing, quit>>

\* recv returns 0 or fails: the client is gone, or the socket is shut down.
ReceiveNothing ==
  /\ at = "recv"
  /\ at' = "ended"
  /\ UNCHANGED <<received, pending, consumed, handled, closing, quit>>

\* Mutant: the limit includes the newline.
FitsWithNewline(length) == length < MaxLineBytes

Fits(length) == length <= MaxLineBytes

HandleLine ==
  /\ at = "lines"
  /\ NextEnd # 0
  /\ Fits(NextEnd - consumed - 1)
  /\ handled' = Append(handled, SubSeq(pending, consumed + 1, NextEnd))
  /\ \E closes \in BOOLEAN :
       /\ closing' = (closing \/ closes)
       /\ quit' = (quit \/ closes)
  /\ at' = "handled"
  /\ UNCHANGED <<received, pending, consumed>>

RejectLine ==
  /\ at = "lines"
  /\ NextEnd # 0
  /\ ~ Fits(NextEnd - consumed - 1)
  /\ at' = "ended"
  /\ UNCHANGED <<received, pending, consumed, handled, closing, quit>>

\* Mutant: the loop goes on without looking whether the line has closed it.
GoOn ==
  /\ at = "handled"
  /\ consumed' = NextEnd
  /\ at' = "lines"
  /\ UNCHANGED <<received, pending, handled, closing, quit>>

\* Mutant: one line is handled for each recv.
OneLineOnly ==
  /\ at = "handled"
  /\ IF closing
     THEN at' = "ended" /\ UNCHANGED <<pending, consumed>>
     ELSE /\ pending' = SubSeq(pending, NextEnd + 1, Len(pending))
          /\ consumed' = 0
          /\ at' = "top"
  /\ UNCHANGED <<received, handled, closing, quit>>

\* After a line the loop ends if the connection is closing by now.
AfterLine ==
  /\ at = "handled"
  /\ IF closing
     THEN at' = "ended" /\ UNCHANGED consumed
     ELSE at' = "lines" /\ consumed' = NextEnd
  /\ UNCHANGED <<received, pending, handled, closing, quit>>

\* Mutant: what was consumed is not removed.
KeepAll ==
  /\ at = "lines"
  /\ NextEnd = 0
  /\ at' = IF Fits(Len(pending) - consumed) THEN "top" ELSE "ended"
  /\ consumed' = 0
  /\ UNCHANGED <<received, pending, handled, closing, quit>>

\* No line left: what is consumed leaves pending, and the rest must fit.
KeepRest ==
  /\ at = "lines"
  /\ NextEnd = 0
  /\ pending' = SubSeq(pending, consumed + 1, Len(pending))
  /\ consumed' = 0
  /\ at' = IF Fits(Len(pending')) THEN "top" ELSE "ended"
  /\ UNCHANGED <<received, handled, closing, quit>>

\* The queue's limit, a send that fails or another thread stops the connection.
StopByOthers ==
  /\ ~closing
  /\ closing' = TRUE
  /\ UNCHANGED <<received, pending, consumed, handled, at, quit>>

Loop == Top \/ HandleLine \/ RejectLine \/ AfterLine \/ KeepRest

Next == Loop \/ Receive \/ ReceiveNothing \/ StopByOthers

Spec == Init /\ [][Next]_vars

\* The thread runs: between two calls of recv it waits for nobody.
FairSpec == Spec /\ WF_vars(Loop)

-----------------------------------------------------------------------------
(* Properties. *)

\* The stream as lines, whatever its cuts: the definition the loop is held to.
Newlines == {k \in 1..Len(received) : IsNewline(received[k])}

HandledBytes == Len(FlattenSeq(handled))

\* The length of the line that follows the lines handled, or of as much of it
\* as has been received.
NextLength ==
  Min({k \in Newlines : k > HandledBytes} \union {Len(received) + 1}) - HandledBytes - 1

TypeOK ==
  /\ received \in Seq((1..MaxStream) \X BOOLEAN)
  /\ Len(received) <= MaxStream
  /\ IsSuffix(pending, received)
  /\ consumed \in 0..Len(pending)
  /\ at \in {"top", "recv", "lines", "handled", "ended"}
  /\ {closing, quit} \subseteq BOOLEAN

\* The lines handled are the stream from its start, cut at its newlines: none
\* is lost, repeated, joined or split, and none is longer than the limit.
LinesOfTheStream ==
  /\ IsPrefix(FlattenSeq(handled), received)
  /\ \A i \in 1..Len(handled) :
       /\ Len(handled[i]) <= MaxLineBytes + 1
       /\ \A k \in 1..Len(handled[i]) : IsNewline(handled[i][k]) <=> k = Len(handled[i])

\* The loop waits for more only when it has handled every line it has, and
\* what remains may still become a line.
HandledWhenWaiting ==
  at \in {"top", "recv"} => /\ \A k \in Newlines : k <= HandledBytes
                            /\ NextLength <= MaxLineBytes

\* Memory for one client is bounded, whatever he sends.
BufferBounded == Len(pending) <= MaxLineBytes + RecvBytes

\* What the loop has in hand, whenever it is looked at.
FramingInv == TypeOK /\ HandledWhenWaiting /\ BufferBounded

\* The loop gives a client up only if the client has left or is closing, or
\* has sent a line longer than the limit: a line of exactly the limit is
\* served wherever it is cut.
GivesUpOnlyLongLines ==
  [][at = "lines" /\ at' = "ended" => NextLength > MaxLineBytes]_vars

\* No request is served after the one that closed the connection.
NothingAfterQuit == [][quit => handled' = handled]_vars

\* A complete line is handled, or the connection is closed.
LinesAreHandled ==
  \A k \in 1..MaxStream :
    k <= Len(received) /\ k \in Newlines ~> HandledBytes >= k \/ at = "ended"
=============================================================================
