---------------------------- MODULE SequenceLemmas ----------------------------
(***************************************************************************)
(* Facts about FlattenSeq, the concatenation of a sequence of sequences,   *)
(* for sequences of every length: the bytes of queued messages and the     *)
(* stream they make are defined with it.                                   *)
(*                                                                         *)
(* FlattenSeq is a recursive function on 1..Len(s).  The induction comes    *)
(* from the well-foundedness of < on Nat: a set of numbers that has 0 and   *)
(* is closed under successor leaves out no number, because it would have a  *)
(* least one.                                                               *)
(***************************************************************************)
EXTENDS Integers, SequencesExt, SequenceTheorems, WellFoundedInduction, TLAPS

-----------------------------------------------------------------------------
(* Numbers. *)

\* A nonempty set of numbers has a least one.
LEMMA LeastNumber ==
  ASSUME NEW T \in SUBSET Nat, T # {}
  PROVE  \E x \in T : \A y \in T : x <= y
<1> DEFINE Below == {p \in Nat \X Nat : p[1] < p[2]}
<1>1. IsWellFoundedOn(Below, Nat)
  BY NatLessThanWellFounded DEF OpToRel
<1>2. PICK x \in T : \A y \in T : ~ (<<y, x>> \in Below)
  BY <1>1, WFMin
<1>3. \A y \in T : ~ (y < x)
  BY <1>2
<1> QED
  BY <1>3

\* Induction: a set with 0 that is closed under successor has every number.
LEMMA InductionOnNat ==
  ASSUME NEW S, 0 \in S, \A n \in S \cap Nat : n + 1 \in S
  PROVE  Nat \subseteq S
<1>1. SUFFICES ASSUME Nat \ S # {} PROVE FALSE
  OBVIOUS
<1>2. PICK x \in Nat \ S : \A y \in Nat \ S : x <= y
  BY <1>1, LeastNumber
<1> QED
  BY <1>2

\* A nonempty set of numbers up to n has a greatest one.
LEMMA GreatestNumber ==
  ASSUME NEW n \in Nat, NEW T \in SUBSET (0..n), T # {}
  PROVE  \E x \in T : \A y \in T : y <= x
<1> DEFINE D == {n - x : x \in T}
<1>1. D \in SUBSET Nat /\ D # {}
  <2>1. \A x \in T : x \in Int /\ n - x \in Nat
    OBVIOUS
  <2> QED
    BY <2>1
<1>2. PICK d \in D : \A e \in D : d <= e
  BY <1>1, LeastNumber
<1>3. PICK x \in T : d = n - x
  BY <1>2
<1>4. \A y \in T : n - x <= n - y
  BY <1>2, <1>3
<1> QED
  BY <1>4

-----------------------------------------------------------------------------
(* The recursion of FlattenSeq. *)

\* g is the function that FlattenSeq defines on 1..n.
Unrolls(g, s, n) == g = [i \in 1..n |-> IF i = 1 THEN s[i] ELSE g[i-1] \o s[i]]

\* There is such a function for every n.
LEMMA UnrollExists ==
  ASSUME NEW s
  PROVE  \A n \in Nat : \E g : Unrolls(g, s, n)
<1> DEFINE S == {n \in Nat : \E g : Unrolls(g, s, n)}
<1>1. 0 \in S
  <2>1. Unrolls([i \in 1..0 |-> 0], s, 0)
    BY DEF Unrolls
  <2> QED
    BY <2>1
<1>2. ASSUME NEW n \in S \cap Nat PROVE n + 1 \in S
  <2>1. PICK g : Unrolls(g, s, n)
    BY <1>2
  <2> DEFINE h == [i \in 1..(n+1) |-> IF i = n + 1
                     THEN (IF i = 1 THEN s[i] ELSE g[n] \o s[i]) ELSE g[i]]
  <2>2. ASSUME NEW i \in 1..(n+1)
        PROVE  h[i] = IF i = 1 THEN s[i] ELSE h[i-1] \o s[i]
    <3>1. CASE i = n + 1
      BY <3>1
    <3>2. CASE i # n + 1
      <4>1. i \in 1..n /\ (i # 1 => i - 1 \in 1..n)
        BY <3>2
      <4>2. g[i] = IF i = 1 THEN s[i] ELSE g[i-1] \o s[i]
        BY <4>1, <2>1 DEF Unrolls
      <4>3. h[i] = g[i] /\ (i # 1 => h[i-1] = g[i-1])
        BY <4>1, <3>2
      <4> QED
        BY <4>2, <4>3
    <3> QED
      BY <3>1, <3>2
  <2>3. Unrolls(h, s, n + 1)
    BY <2>2 DEF Unrolls
  <2> QED
    BY <2>3
<1>3. Nat \subseteq S
  BY <1>1, <1>2, InductionOnNat
<1> QED
  BY <1>3

\* FlattenSeq is the last value of one.
LEMMA FlattenUnrolls ==
  ASSUME NEW s, Len(s) \in Nat \ {0}
  PROVE  \E g : Unrolls(g, s, Len(s)) /\ FlattenSeq(s) = g[Len(s)]
<1> DEFINE flatten[i \in 1..Len(s)] == IF i = 1 THEN s[i] ELSE flatten[i-1] \o s[i]
<1>1. \E g : Unrolls(g, s, Len(s))
  BY UnrollExists
<1>2. Unrolls(flatten, s, Len(s))
  BY <1>1 DEF Unrolls
<1>3. FlattenSeq(s) = flatten[Len(s)]
  BY DEF FlattenSeq
<1> QED
  BY <1>2, <1>3

\* s is the beginning of t; g and h are alike on 1..n.
Begins(s, t) == Len(s) <= Len(t) /\ \A i \in 1..Len(s) : s[i] = t[i]

Alike(g, h, n, S) == \A i \in 1..n : g[i] \in Seq(S) /\ g[i] = h[i]

\* Its values are sequences, and depend on the first elements of s only.
LEMMA UnrollValues ==
  ASSUME NEW S, NEW s \in Seq(Seq(S)), NEW t \in Seq(Seq(S)),
         Begins(s, t),
         NEW g, Unrolls(g, s, Len(s)), NEW h, Unrolls(h, t, Len(t))
  PROVE  Alike(g, h, Len(s), S)
<1> DEFINE N == {k \in Nat : k \in 1..Len(s) => g[k] \in Seq(S) /\ g[k] = h[k]}
<1>1. 0 \in N
  OBVIOUS
<1>2. ASSUME NEW k \in N \cap Nat PROVE k + 1 \in N
  <2>1. SUFFICES ASSUME k + 1 \in 1..Len(s)
                 PROVE  g[k+1] \in Seq(S) /\ g[k+1] = h[k+1]
    OBVIOUS
  <2>2. k + 1 \in 1..Len(s) /\ k + 1 \in 1..Len(t) /\ s[k+1] \in Seq(S)
    BY <2>1, LenProperties, ElementOfSeq DEF Begins
  <2>3. /\ g[k+1] = IF k + 1 = 1 THEN s[k+1] ELSE g[(k+1)-1] \o s[k+1]
        /\ h[k+1] = IF k + 1 = 1 THEN t[k+1] ELSE h[(k+1)-1] \o t[k+1]
    BY <2>2 DEF Unrolls
  <2>4. s[k+1] = t[k+1]
    BY <2>1 DEF Begins
  <2>5. CASE k = 0
    BY <2>2, <2>3, <2>4, <2>5
  <2>6. CASE k # 0
    <3>1. g[k] \in Seq(S) /\ g[k] = h[k] /\ (k+1)-1 = k /\ k + 1 # 1
      BY <2>6, <2>1
    <3>2. g[k] \o s[k+1] \in Seq(S)
      BY <3>1, <2>2, ConcatProperties
    <3> QED
      BY <3>1, <3>2, <2>3, <2>4
  <2> QED
    BY <2>5, <2>6
<1>3. Nat \subseteq N
  BY <1>1, <1>2, InductionOnNat
<1> QED
  BY <1>3 DEF Alike

-----------------------------------------------------------------------------
(* What FlattenSeq returns. *)

LEMMA FlattenEmpty == FlattenSeq(<<>>) = <<>>
BY DEF FlattenSeq

\* One more sequence goes to the end.
LEMMA FlattenAppend ==
  ASSUME NEW S, NEW s \in Seq(Seq(S)), NEW e \in Seq(S)
  PROVE  /\ FlattenSeq(s) \in Seq(S)
         /\ FlattenSeq(Append(s, e)) = FlattenSeq(s) \o e
<1>0. PICK t : t = Append(s, e)
  OBVIOUS
<1>1. /\ t \in Seq(Seq(S)) /\ Len(t) = Len(s) + 1 /\ t[Len(s) + 1] = e
      /\ \A i \in 1..Len(s) : t[i] = s[i]
      /\ Len(s) \in Nat
  BY <1>0, AppendProperties, LenProperties
<1>2. PICK h : Unrolls(h, t, Len(t)) /\ FlattenSeq(t) = h[Len(t)]
  BY <1>1, FlattenUnrolls
<1>3. CASE s = <<>>
  <2>1. FlattenSeq(s) = <<>> /\ Len(s) = 0
    BY <1>3, FlattenEmpty
  <2>2. h[1] = e
    BY <1>1, <1>2, <2>1 DEF Unrolls
  <2>3. <<>> \o e = e /\ <<>> \in Seq(S)
    BY ConcatEmptySeq, EmptySeq
  <2> QED
    BY <1>0, <1>1, <1>2, <2>1, <2>2, <2>3
<1>4. CASE s # <<>>
  <2>1. Len(s) \in Nat \ {0}
    BY <1>4, EmptySeq
  <2>2. PICK g : Unrolls(g, s, Len(s)) /\ FlattenSeq(s) = g[Len(s)]
    BY <2>1, FlattenUnrolls
  <2>3. g[Len(s)] \in Seq(S) /\ g[Len(s)] = h[Len(s)]
    <3>1. Begins(s, t)
      BY <1>1 DEF Begins
    <3>2. t \in Seq(Seq(S)) /\ Unrolls(g, s, Len(s)) /\ Unrolls(h, t, Len(t))
      BY <1>1, <1>2, <2>2
    <3>3. Alike(g, h, Len(s), S)
      BY <3>1, <3>2, UnrollValues
    <3> QED
      BY <3>3, <2>1 DEF Alike
  <2>4. h[Len(s) + 1] = h[(Len(s) + 1) - 1] \o t[Len(s) + 1]
    <3>1. Len(s) + 1 \in 1..Len(t) /\ Len(s) + 1 # 1
      BY <1>1, <2>1
    <3> QED
      BY <3>1, <1>2 DEF Unrolls
  <2>5. (Len(s) + 1) - 1 = Len(s)
    BY <1>1
  <2> QED
    BY <1>0, <1>1, <1>2, <2>2, <2>3, <2>4, <2>5
<1> QED
  BY <1>3, <1>4

LEMMA FlattenType ==
  ASSUME NEW S, NEW s \in Seq(Seq(S))
  PROVE  FlattenSeq(s) \in Seq(S) /\ Len(FlattenSeq(s)) \in Nat
<1>1. <<>> \in Seq(S)
  BY EmptySeq
<1>2. FlattenSeq(s) \in Seq(S)
  BY <1>1, FlattenAppend
<1> QED
  BY <1>2, LenProperties

\* The flattening of a concatenation.
LEMMA FlattenConcat ==
  ASSUME NEW S, NEW s \in Seq(Seq(S)), NEW t \in Seq(Seq(S))
  PROVE  FlattenSeq(s \o t) = FlattenSeq(s) \o FlattenSeq(t)
<1> DEFINE P(n) == FlattenSeq(s \o SubSeq(t, 1, n)) = FlattenSeq(s) \o FlattenSeq(SubSeq(t, 1, n))
           N == {n \in Nat : n <= Len(t) => P(n)}
<1>0. Len(t) \in Nat /\ FlattenSeq(s) \in Seq(S)
  BY LenProperties, FlattenType
<1>1. 0 \in N
  <2>1. SubSeq(t, 1, 0) = <<>>
    BY SubSeqEmpty
  <2>2. s \o <<>> = s /\ FlattenSeq(s) \o <<>> = FlattenSeq(s)
    BY <1>0, ConcatEmptySeq
  <2> QED
    BY <2>1, <2>2, FlattenEmpty
<1>2. ASSUME NEW n \in N \cap Nat PROVE n + 1 \in N
  <2>1. SUFFICES ASSUME n + 1 <= Len(t) PROVE P(n + 1)
    OBVIOUS
  <2> DEFINE a == SubSeq(t, 1, n)
             e == t[n + 1]
  <2>2. n \in 0..Len(t) /\ n + 1 \in 1..Len(t) /\ e \in Seq(S)
    BY <2>1, <1>0, ElementOfSeq
  <2>3. a \in Seq(Seq(S))
    <3>1. \A i \in 1..n : t[i] \in Seq(S)
      BY <2>2, <1>0, ElementOfSeq
    <3> QED
      BY <3>1, SubSeqProperties
  <2>4. SubSeq(t, 1, n + 1) = Append(a, e)
    <3>1. SubSeq(t, 1, n + 1) = SubSeq(t, 1, (n + 1) - 1) \o <<t[n + 1]>>
      BY <2>2, <1>0, SubSeqRecursiveSecond
    <3>2. (n + 1) - 1 = n
      OBVIOUS
    <3>3. Append(a, e) = a \o <<e>>
      BY <2>2, <2>3, AppendIsConcat
    <3> QED
      BY <3>1, <3>2, <3>3
  <2> HIDE DEF a, e
  <2>5. s \o Append(a, e) = Append(s \o a, e) /\ s \o a \in Seq(Seq(S))
    <3>1. <<e>> \in Seq(Seq(S)) /\ s \o a \in Seq(Seq(S))
      BY <2>2, <2>3, ConcatProperties
    <3>2. Append(a, e) = a \o <<e>> /\ Append(s \o a, e) = (s \o a) \o <<e>>
      BY <2>2, <2>3, <3>1, AppendIsConcat
    <3>3. (s \o a) \o <<e>> = s \o (a \o <<e>>)
      BY <2>3, <3>1, ConcatAssociative
    <3> QED
      BY <3>1, <3>2, <3>3
  <2>6. FlattenSeq(Append(s \o a, e)) = FlattenSeq(s \o a) \o e
    BY <2>2, <2>5, FlattenAppend
  <2>7. FlattenSeq(s \o a) = FlattenSeq(s) \o FlattenSeq(a)
    BY <2>2 DEF a
  <2>8. FlattenSeq(Append(a, e)) = FlattenSeq(a) \o e /\ FlattenSeq(a) \in Seq(S)
    BY <2>2, <2>3, FlattenAppend
  <2>9. (FlattenSeq(s) \o FlattenSeq(a)) \o e = FlattenSeq(s) \o (FlattenSeq(a) \o e)
    <3>1. ASSUME NEW x \in Seq(S), NEW y \in Seq(S), NEW z \in Seq(S)
          PROVE  (x \o y) \o z = x \o (y \o z)
      BY ConcatAssociative
    <3> QED
      BY <3>1, <1>0, <2>2, <2>8
  <2> QED
    BY <2>4, <2>5, <2>6, <2>7, <2>8, <2>9
<1>3. Len(t) \in N
  BY <1>0, <1>1, <1>2, InductionOnNat
<1>4. P(Len(t))
  BY <1>0, <1>3
<1>5. SubSeq(t, 1, Len(t)) = t
  BY SubSeqFull
<1> QED
  BY <1>4, <1>5

\* A sequence of nonempty sequences is flattened to a nonempty one.
LEMMA FlattenNonEmpty ==
  ASSUME NEW S, NEW s \in Seq(Seq(S) \ {<<>>}), s # <<>>
  PROVE  FlattenSeq(s) # <<>>
<1>1. PICK r \in Seq(Seq(S) \ {<<>>}), e \in Seq(S) \ {<<>>} : s = Append(r, e)
  BY SequenceEmptyOrAppend
<1>2. r \in Seq(Seq(S))
  BY SeqMonotonic
<1>3. FlattenSeq(s) = FlattenSeq(r) \o e /\ FlattenSeq(r) \in Seq(S)
  BY <1>1, <1>2, FlattenAppend
<1> QED
  BY <1>1, <1>3, ConcatEqualIffEmpty
===============================================================================
