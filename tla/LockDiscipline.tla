---------------------------- MODULE LockDiscipline ----------------------------
(***************************************************************************)
(* What the server's locks need in order never to stop it: locks have      *)
(* ranks, and a thread asks for a lock only when every lock it holds has a  *)
(* lower rank.  HandlerLocks shows that the handlers of the server are      *)
(* threads of this kind; HandlerLocksProofs shows that such threads, how    *)
(* many there may be, never wait for one another in a circle.               *)
(***************************************************************************)
EXTENDS ServerLocks

vars == <<owner, awaits>>

\* What a thread that holds the locks in held may ask for next.
Allowed(held) == {Nothing} \union {l \in Locks : \A h \in held : Rank[h] < Rank[l]}

Init ==
  /\ owner = [l \in Locks |-> NoOne]
  /\ awaits \in [Threads -> {Nothing} \union Locks]

Take(t) ==
  LET l == awaits[t] IN
  /\ l # Nothing
  /\ owner[l] = NoOne
  /\ owner' = [owner EXCEPT ![l] = t]
  /\ \E next \in Allowed(LocksOf(t) \union {l}) : awaits' = [awaits EXCEPT ![t] = next]

Leave(t) ==
  /\ awaits[t] = Nothing
  /\ \E l \in LocksOf(t) :
       /\ owner' = [owner EXCEPT ![l] = NoOne]
       /\ \E next \in Allowed(LocksOf(t) \ {l}) : awaits' = [awaits EXCEPT ![t] = next]

Ask(t) ==
  /\ awaits[t] = Nothing
  /\ \E next \in Allowed(LocksOf(t)) : awaits' = [awaits EXCEPT ![t] = next]
  /\ UNCHANGED owner

Next == \E t \in Threads : Take(t) \/ Leave(t) \/ Ask(t)

Spec == Init /\ [][Next]_vars

=============================================================================
