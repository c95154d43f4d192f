---------------------------- MODULE OutputChannel ----------------------------
(***************************************************************************)
(* What SocketOutput promises to the handlers that queue messages: one     *)
(* bounded byte stream per connection.  A message is accepted whole or     *)
(* refused; the peer receives the accepted bytes in the order they were    *)
(* accepted, each once; a connection may be cut, and then nothing more is  *)
(* accepted and the rest may stay unsent.                                  *)
(***************************************************************************)
EXTENDS Naturals, SequencesExt

CONSTANTS
  Conns,            \* the connections
  FrameSizes,       \* lengths a message may have
  MaxPendingBytes   \* most bytes accepted and not yet sent

VARIABLES
  accepted,   \* the frames accepted so far, each the sequence of its bytes
  wire,       \* the bytes handed to the peer
  cut         \* the connection takes no more messages

vars == <<accepted, wire, cut>>

\* The n-th frame of a connection: its bytes are told apart by their places.
Frame(n, size) == [k \in 1..size |-> <<n, k>>]

Stream(c) == FlattenSeq(accepted[c])

Init ==
  /\ accepted = [c \in Conns |-> <<>>]
  /\ wire = [c \in Conns |-> <<>>]
  /\ cut = [c \in Conns |-> FALSE]

Accept(c) ==
  /\ ~cut[c]
  /\ \E size \in FrameSizes :
       /\ Len(Stream(c)) - Len(wire[c]) + size <= MaxPendingBytes
       /\ accepted' = [accepted EXCEPT ![c] = Append(@, Frame(Len(@) + 1, size))]
  /\ UNCHANGED <<wire, cut>>

Transmit(c) ==
  /\ \E n \in Len(wire[c])..Len(Stream(c)) :
       wire' = [wire EXCEPT ![c] = SubSeq(Stream(c), 1, n)]
  /\ UNCHANGED <<accepted, cut>>

Cut(c) ==
  /\ cut' = [cut EXCEPT ![c] = TRUE]
  /\ UNCHANGED <<accepted, wire>>

Next == \E c \in Conns : Accept(c) \/ Transmit(c) \/ Cut(c)

Spec == Init /\ [][Next]_vars
=============================================================================
