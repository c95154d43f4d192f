-------------------------- MODULE UserStoreProofs --------------------------
(***************************************************************************)
(* Proofs about UserStore and the CsvStore it extends.                     *)
(*                                                                         *)
(* CsvStore, for any connections, files and contents: StoreInv is          *)
(* inductive, so memory and disk agree whenever the server answers; and    *)
(* files, journal and memory together implement AtomicStore.               *)
(*                                                                         *)
(* UserStore, for any users, prices, matches and number of matches: what   *)
(* the handlers do is a transaction of CsvStore, and what a restart would  *)
(* serve is complete, paid for and owned.                                  *)
(*                                                                         *)
(* The properties are about Durable.  A handler changes the rows in memory *)
(* and, separately, the images it saves; that these are the same rows      *)
(* (SavedIsChanged) turns what it does into a Change of CsvStore, whose    *)
(* invariant then says that memory is what the journal will make durable.  *)
(***************************************************************************)
EXTENDS UserStore, SequenceLemmas, FiniteSetTheorems

-----------------------------------------------------------------------------
(* Over *)

\* The empty journal is a journal and replaces nothing.
LEMMA NothingIsRedo == Nothing \in Redo /\ DOMAIN Nothing = {}
<1>1. Nothing \in [{} -> Image]  BY DEF Nothing
<1>2. {} \in SUBSET Files  OBVIOUS
<1> QED  BY <1>1, <1>2 DEF Redo, Nothing

\* A journal maps files to images.
LEMMA RedoShape ==
  ASSUME NEW redo \in Redo
  PROVE  /\ DOMAIN redo \subseteq Files
         /\ redo \in [DOMAIN redo -> Image]
<1>1. PICK F \in SUBSET Files : redo \in [F -> Image]  BY DEF Redo
<1> QED  BY <1>1

\* A journal for no file is the empty one.
LEMMA EmptyRedo ==
  ASSUME NEW redo \in Redo, DOMAIN redo = {}
  PROVE  redo = Nothing
<1>1. redo = [f \in {} |-> redo[f]]  BY RedoShape
<1> QED  BY <1>1 DEF Nothing

\* What Over returns is again an image for every file.
LEMMA OverType ==
  ASSUME NEW S, Image \subseteq S, NEW base \in [Files -> S], NEW redo \in Redo
  PROVE  Over(base, redo) \in [Files -> S]
BY RedoShape DEF Over

\* Replaying nothing changes nothing.
LEMMA OverNothing ==
  ASSUME NEW S, NEW base \in [Files -> S]
  PROVE  Over(base, Nothing) = base
BY NothingIsRedo DEF Over

\* Replaying images that are in place changes nothing.
LEMMA OverInPlace ==
  ASSUME NEW S, NEW base \in [Files -> S], NEW redo,
         \A f \in DOMAIN redo : base[f] = redo[f]
  PROVE  Over(base, redo) = base
BY DEF Over

\* Replaying absorbs the images already in place: this is why a recovery that
\* is cut short can start over.
LEMMA OverAgain ==
  ASSUME NEW S, NEW base \in [Files -> S], NEW redo, NEW f \in DOMAIN redo
  PROVE  Over([base EXCEPT ![f] = redo[f]], redo) = Over(base, redo)
BY DEF Over

-----------------------------------------------------------------------------
(* The invariant *)

\* The invariant holds at the start,
LEMMA StoreInvInit == Init => StoreInv
<1> SUFFICES ASSUME Init PROVE StoreInv  OBVIOUS
<1> USE NothingIsRedo DEF Init
<1>1. TypeOK  BY DEF TypeOK, Stages, Gone
<1>2. MemoryMatchesDisk /\ BothWaysOpen  BY DEF MemoryMatchesDisk, BothWaysOpen
<1>3. PassInPlace /\ LockHeld  BY DEF PassInPlace, LockHeld, Busy
<1> QED  BY <1>1, <1>2, <1>3 DEF StoreInv

\* and every step of a transaction, a recovery or the process keeps it.
LEMMA StoreInvStep == StoreInv /\ [Next]_vars => StoreInv'
<1> SUFFICES ASSUME StoreInv, [Next]_vars PROVE StoreInv'  OBVIOUS
<1> USE CsvStoreAssumption, NothingIsRedo
<1> USE DEF StoreInv, TypeOK, MemoryMatchesDisk, BothWaysOpen, PassInPlace,
            LockHeld, Stages, Busy
<1>0. Gone \in [Files -> Image \union {NoImage}]  BY DEF Gone
<1>1. ASSUME NEW c \in Conns, Begin(c) PROVE StoreInv'
  BY <1>1 DEF Begin
<1>2. ASSUME NEW c \in Conns, Change(c) PROVE StoreInv'
  <2>0. pending' \in Redo  BY <1>2 DEF Change, Redo
  <2>1. mem' \in [Files -> Image \union {NoImage}]  BY <1>2, <2>0, OverType DEF Change
  <2>2. mem' = Over(disk, pending')  BY <1>2 DEF Change
  <2> QED  BY <1>2, <2>0, <2>1, <2>2 DEF Change
<1>3. ASSUME NEW c \in Conns, Refuse(c) PROVE StoreInv'
  BY <1>0, <1>3 DEF Refuse, Finish, RestoreMemory
<1>4. ASSUME NEW c \in Conns, CommitNothing(c) PROVE StoreInv'
  <2>1. mem = disk  BY <1>4, OverNothing DEF CommitNothing
  <2> QED  BY <1>4, <2>1 DEF CommitNothing
<1>5. ASSUME NEW c \in Conns, Publish(c) PROVE StoreInv'
  BY <1>5 DEF Publish, Durable
<1>6. ASSUME NEW c \in Conns, Succeed(c) PROVE StoreInv'
  BY <1>0, <1>6 DEF Succeed, Finish, RestoreMemory
<1>7. CASE Apply
  <2>1. PICK f \in DOMAIN journal \ applied :
          /\ disk' = [disk EXCEPT ![f] = journal[f]]
          /\ applied' = applied \union {f}
    BY <1>7 DEF Apply
  <2>2. f \in Files /\ journal[f] \in Image  BY <2>1, RedoShape
  <2>3. UNCHANGED Durable  BY <1>7, <2>1, OverAgain DEF Apply, Durable
  <2>4. TypeOK' /\ LockHeld'  BY <1>7, <2>1, <2>2 DEF Apply
  <2>5. MemoryMatchesDisk' /\ BothWaysOpen'  BY <1>7, <2>3 DEF Apply
  <2>6. PassInPlace'  BY <1>7, <2>1, <2>2 DEF Apply
  <2> QED  BY <2>4, <2>5, <2>6
<1>8. CASE Retire
  <2>1. Over(disk, journal) = disk
    BY <1>8, OverInPlace DEF Retire, AllApplied
  <2> QED  BY <1>8, <2>1 DEF Retire, AllApplied, Durable
<1>9. CASE Die \/ Reject
  BY <1>0, <1>9 DEF Die, Reject, Exit
<1>10. CASE Restart
  BY <1>10 DEF Restart
<1>11. CASE Load
  BY <1>11 DEF Load, Recovered
<1>12. CASE UNCHANGED vars
  BY <1>12 DEF vars, Durable
<1> QED
  BY <1>1, <1>2, <1>3, <1>4, <1>5, <1>6, <1>7, <1>8, <1>9, <1>10, <1>11, <1>12
  DEF Next, Step, Replay

\* Every reachable state of files, journal and memory satisfies the invariant:
\* rollback, a commit cut short and a recovery cut short included.
THEOREM StoreInvariant == Spec => []StoreInv
<1> QED  BY StoreInvInit, StoreInvStep, PTL DEF Spec

\* Whenever the server answers from memory, memory is what is on disk and no
\* journal is left over.
THEOREM MemoryIsDurable == Spec => []MemoryMatchesDisk
<1>1. StoreInv => MemoryMatchesDisk  BY DEF StoreInv
<1> QED  BY <1>1, StoreInvariant, PTL

-----------------------------------------------------------------------------
(* The refinement *)

\* The first state is a first state of the abstract store,
LEMMA RefinesInit == Init => Store!Init
<1> SUFFICES ASSUME Init PROVE Store!Init  OBVIOUS
<1>1. Durable = disk  BY OverNothing DEF Init, Durable
<1>2. /\ [c \in Conns |-> Request(c)] = [c \in Conns |-> "none"]
      /\ [c \in Conns |-> Asked(c)] = [c \in Conns |-> Gone]
  BY CsvStoreAssumption DEF Init, Request, Asked
<1> QED  BY <1>1, <1>2 DEF Init, Store!Init

\* A step that leaves the durable data, the requests and the answers alone.
LEMMA Stutter ==
  ASSUME Durable' = Durable, UNCHANGED reply,
         \A c \in Conns : Request(c)' = Request(c) /\ Asked(c)' = Asked(c)
  PROVE  UNCHANGED Store!vars
BY DEF Store!vars

\* and every step is a step of the abstract store or leaves it alone: Publish is
\* where the update of a request takes effect, Apply and Retire show nothing.
LEMMA RefinesStep == StoreInv /\ [Next]_vars => [Store!Next]_(Store!vars)
<1> SUFFICES ASSUME StoreInv, [Next]_vars PROVE [Store!Next]_(Store!vars)  OBVIOUS
<1> DEFINE request == [c \in Conns |-> Request(c)]
           seen    == [c \in Conns |-> Asked(c)]
<1> USE CsvStoreAssumption
<1> USE DEF StoreInv, TypeOK, MemoryMatchesDisk, BothWaysOpen, PassInPlace,
            LockHeld, Stages, Busy
<1>0. stage \in {"up", "work", "saved", "done"} => Durable = disk
  BY OverNothing DEF Durable
<1>1. ASSUME NEW c \in Conns, Begin(c) PROVE Store!Ask(c)
  <2>1. UNCHANGED Durable  BY <1>1 DEF Begin, Durable
  <2>2. request' = [request EXCEPT ![c] = "asked"]  BY <1>1 DEF Begin, Request
  <2>3. request[c] = "none"  BY <1>1 DEF Begin, Request
  <2>4. mem = Durable  BY <1>0, <1>1 DEF Begin
  <2>5. seen' = [seen EXCEPT ![c] = Durable]
    BY <1>1, <2>4 DEF Begin, Request, Asked
  <2> QED  BY <1>1, <2>1, <2>2, <2>3, <2>5 DEF Begin, Store!Ask
<1>2. ASSUME NEW c \in Conns, Change(c) PROVE UNCHANGED Store!vars
  BY <1>2, Stutter DEF Change, Durable, Request, Asked
<1>3. ASSUME NEW c \in Conns, Refuse(c) PROVE Store!Answer(c, "asked", "error")
  <2>1. UNCHANGED Durable  BY <1>3 DEF Refuse, Finish, Durable
  <2>2. request' = [request EXCEPT ![c] = "none"]
    BY <1>3 DEF Refuse, Finish, Request
  <2>3. seen' = [seen EXCEPT ![c] = Gone]
    BY <1>3 DEF Refuse, Finish, Request, Asked
  <2>4. request[c] = "asked"  BY <1>3 DEF Refuse, Request
  <2> QED  BY <1>3, <2>1, <2>2, <2>3, <2>4 DEF Refuse, Finish, Store!Answer
<1>4. ASSUME NEW c \in Conns, CommitNothing(c) PROVE Store!Update(c)
  <2>1. Durable' = Store!Over(Durable, pending)
    <3>1. Durable = disk  BY <1>0, <1>4 DEF CommitNothing
    <3>2. Durable' = Durable  BY <1>4 DEF CommitNothing, Durable
    <3> QED  BY <1>4, <3>1, <3>2, OverNothing DEF CommitNothing, Over, Store!Over
  <2>2. request' = [request EXCEPT ![c] = "updated"]
    BY <1>4 DEF CommitNothing, Request
  <2>3. seen' = [seen EXCEPT ![c] = Gone]  BY <1>4 DEF CommitNothing, Request, Asked
  <2>4. request[c] = "asked" /\ seen[c] = Durable
    BY <1>0, <1>4 DEF CommitNothing, Request, Asked
  <2>5. pending \in Store!Updates  BY DEF Redo, Store!Updates
  <2> QED  BY <1>4, <2>1, <2>2, <2>3, <2>4, <2>5 DEF CommitNothing, Store!Update
<1>5. ASSUME NEW c \in Conns, Publish(c) PROVE Store!Update(c)
  <2>1. Durable' = Store!Over(Durable, pending)
    BY <1>0, <1>5 DEF Publish, Durable, Over, Store!Over
  <2>2. request' = [request EXCEPT ![c] = "updated"]
    BY <1>5 DEF Publish, Request
  <2>3. seen' = [seen EXCEPT ![c] = Gone]  BY <1>5 DEF Publish, Request, Asked
  <2>4. request[c] = "asked" /\ seen[c] = Durable
    BY <1>0, <1>5 DEF Publish, Request, Asked
  <2>5. pending \in Store!Updates  BY DEF Redo, Store!Updates
  <2> QED  BY <1>5, <2>1, <2>2, <2>3, <2>4, <2>5 DEF Publish, Store!Update
<1>6. ASSUME NEW c \in Conns, Succeed(c) PROVE Store!Answer(c, "updated", "ok")
  <2>1. UNCHANGED Durable  BY <1>6 DEF Succeed, Finish, Durable
  <2>2. request' = [request EXCEPT ![c] = "none"]
    BY <1>6 DEF Succeed, Finish, Request
  <2>3. seen' = [seen EXCEPT ![c] = Gone]
    BY <1>6 DEF Succeed, Finish, Request, Asked
  <2>4. request[c] = "updated"  BY <1>6 DEF Succeed, Request
  <2> QED  BY <1>6, <2>1, <2>2, <2>3, <2>4 DEF Succeed, Finish, Store!Answer
<1>7. CASE Apply
  <2>1. PICK f \in DOMAIN journal : disk' = [disk EXCEPT ![f] = journal[f]]
    BY <1>7 DEF Apply
  <2>2. UNCHANGED Durable  BY <1>7, <2>1, OverAgain DEF Apply, Durable
  <2> QED  BY <1>7, <2>2, Stutter DEF Apply, Request, Asked
<1>8. CASE Retire
  <2>1. Over(disk, journal) = disk
    BY <1>8, OverInPlace DEF Retire, AllApplied
  <2>2. UNCHANGED Durable  BY <1>8, <2>1, OverNothing DEF Retire, Durable
  <2> QED  BY <1>8, <2>2, Stutter DEF Retire, Request, Asked
<1>9. CASE Die \/ Reject
  <2>1. UNCHANGED Durable  BY <1>9 DEF Die, Reject, Exit, Durable
  <2>2. /\ request' = [c \in Conns |-> "none"]
        /\ seen' = [c \in Conns |-> Gone]
    BY <1>9 DEF Die, Reject, Exit, Request, Asked
  <2> QED  BY <1>9, <2>1, <2>2 DEF Die, Reject, Exit, Store!Die, Store!Next
<1>10. CASE Restart
  BY <1>10, Stutter DEF Restart, Durable, Request, Asked
<1>11. CASE Load
  BY <1>11, Stutter DEF Load, Durable, Request, Asked
<1>12. CASE UNCHANGED vars
  BY <1>12, Stutter DEF vars, Durable, Request, Asked
<1> QED
  BY <1>1, <1>2, <1>3, <1>4, <1>5, <1>6, <1>7, <1>8, <1>9, <1>10, <1>11, <1>12
  DEF Next, Step, Replay, Store!Next

\* Transactions, journal and recovery together are an atomic store: an update
\* takes effect on what its request saw, at one moment, is answered for what it
\* did, and survives.
THEOREM StoreIsAtomic == Spec => AtomicSpec
<1> QED
  BY RefinesInit, RefinesStep, StoreInvariant, PTL DEF Spec, AtomicSpec, Store!Spec

-----------------------------------------------------------------------------
(* Folds over finite sets *)

Pick(s) == CHOOSE x \in s : TRUE

\* g folds F over the subsets of S, as MapThenFoldSet does.
FoldsUp(g, S, F, base) ==
  g = [s \in SUBSET S |-> IF s = {} THEN base ELSE F[<<Pick(s), g[s \ {Pick(s)}]>>]]

\* A nonempty finite set loses one element to Pick.
LEMMA PickSmaller ==
  ASSUME NEW S, IsFiniteSet(S), NEW s \in SUBSET S, s # {}
  PROVE  /\ Pick(s) \in s
         /\ s \ {Pick(s)} \in SUBSET S
         /\ IsFiniteSet(s) /\ Cardinality(s) \in Nat \ {0}
         /\ Cardinality(s \ {Pick(s)}) = Cardinality(s) - 1
<1>1. Pick(s) \in s
  BY DEF Pick
<1>2. IsFiniteSet(s)
  BY FS_Subset
<1>3. Cardinality(s) \in Nat
  BY <1>2, FS_CardinalityType
<1>4. Cardinality(s) # 0
  BY <1>2, FS_EmptySet
<1>5. Cardinality(s \ {Pick(s)}) = Cardinality(s) - 1
  BY <1>1, <1>2, FS_RemoveElement
<1> QED
  BY <1>1, <1>2, <1>3, <1>4, <1>5

\* A set without elements is empty.
LEMMA ZeroIsEmpty ==
  ASSUME NEW S, IsFiniteSet(S), NEW s \in SUBSET S, Cardinality(s) <= 0
  PROVE  s = {}
<1>1. IsFiniteSet(s)
  BY FS_Subset
<1>2. Cardinality(s) \in Nat
  BY <1>1, FS_CardinalityType
<1>3. Cardinality(s) = 0
  BY <1>2
<1> QED
  BY <1>1, <1>3, FS_EmptySet

\* Induction over the subsets of a finite set, in the order of a fold.
LEMMA SubsetInduction ==
  ASSUME NEW S, IsFiniteSet(S), NEW P, {} \in P,
         \A s \in SUBSET S : s # {} /\ s \ {Pick(s)} \in P => s \in P
  PROVE  SUBSET S \subseteq P
<1> DEFINE N == {n \in Nat : \A s \in SUBSET S : Cardinality(s) <= n => s \in P}
<1>1. 0 \in N
  <2>1. ASSUME NEW s \in SUBSET S, Cardinality(s) <= 0 PROVE s = {}
    BY <2>1, ZeroIsEmpty
  <2> QED
    BY <2>1
<1>2. ASSUME NEW n \in N \cap Nat PROVE n + 1 \in N
  <2>1. ASSUME NEW s \in SUBSET S, Cardinality(s) <= n + 1 PROVE s \in P
    <3>1. CASE s = {}
      BY <3>1
    <3>2. CASE s # {}
      <4> DEFINE t == s \ {Pick(s)}
      <4>1. t \in SUBSET S /\ Cardinality(s) \in Nat /\ Cardinality(t) = Cardinality(s) - 1
        BY <3>2, PickSmaller
      <4>2. Cardinality(t) <= n
        BY <2>1, <4>1
      <4>3. t \in P
        BY <4>1, <4>2, <1>2
      <4> QED
        BY <3>2, <4>3
    <3> QED
      BY <3>1, <3>2
  <2> QED
    BY <2>1
<1>3. Nat \subseteq N
  <2> HIDE DEF N
  <2> QED
    BY <1>1, <1>2, InductionOnNat
<1>4. ASSUME NEW s \in SUBSET S PROVE s \in P
  <2>1. IsFiniteSet(s) /\ Cardinality(s) \in Nat
    BY FS_Subset, FS_CardinalityType
  <2>2. Cardinality(s) \in N
    BY <2>1, <1>3
  <2> QED
    BY <2>1, <2>2
<1> QED
  BY <1>4

\* There is such a fold, with values in V, when F stays in V.
LEMMA FoldExists ==
  ASSUME NEW S, IsFiniteSet(S), NEW V, NEW base \in V, NEW F \in [S \X V -> V]
  PROVE  \E g \in [SUBSET S -> V] : FoldsUp(g, S, F, base)
<1> DEFINE At(h, s) == h[s] = IF s = {} THEN base ELSE F[<<Pick(s), h[s \ {Pick(s)}]>>]
           Up(h, n) == \A s \in SUBSET S : Cardinality(s) <= n => At(h, s)
           N == {n \in Nat : \E h \in [SUBSET S -> V] : Up(h, n)}
<1>1. 0 \in N
  <2> DEFINE h == [s \in SUBSET S |-> base]
  <2>1. ASSUME NEW s \in SUBSET S, Cardinality(s) <= 0 PROVE s = {}
    BY <2>1, ZeroIsEmpty
  <2>2. Up(h, 0)
    BY <2>1
  <2>3. h \in [SUBSET S -> V]
    OBVIOUS
  <2> QED
    BY <2>2, <2>3
<1>2. ASSUME NEW n \in N \cap Nat PROVE n + 1 \in N
  <2>1. PICK g \in [SUBSET S -> V] : Up(g, n)
    OBVIOUS
  <2> DEFINE h == [s \in SUBSET S |-> IF Cardinality(s) = n + 1
                                      THEN F[<<Pick(s), g[s \ {Pick(s)}]>>] ELSE g[s]]
  <2>2. ASSUME NEW s \in SUBSET S, s # {}
        PROVE  F[<<Pick(s), g[s \ {Pick(s)}]>>] \in V
    <3>1. Pick(s) \in S /\ s \ {Pick(s)} \in SUBSET S
      BY <2>2, PickSmaller
    <3>2. <<Pick(s), g[s \ {Pick(s)}]>> \in S \X V
      BY <3>1
    <3> QED
      BY <3>2
  <2>3. ASSUME NEW s \in SUBSET S, Cardinality(s) = n + 1 PROVE s # {}
    <3>1. n + 1 # 0
      OBVIOUS
    <3> QED
      BY <2>3, <3>1, FS_EmptySet
  <2>4. h \in [SUBSET S -> V]
    BY <2>2, <2>3
  <2>5. ASSUME NEW s \in SUBSET S, Cardinality(s) <= n + 1 PROVE At(h, s)
    <3>1. CASE s = {}
      <4>1. Cardinality(s) = 0
        BY <3>1, FS_EmptySet
      <4>2. h[s] = g[s]
        BY <4>1
      <4>3. At(g, s)
        BY <2>1, <4>1
      <4> QED
        BY <3>1, <4>2, <4>3
    <3>2. CASE s # {}
      <4> DEFINE t == s \ {Pick(s)}
      <4>1. t \in SUBSET S /\ Cardinality(s) \in Nat /\ Cardinality(t) = Cardinality(s) - 1
        BY <3>2, PickSmaller
      <4>2. h[t] = g[t]
        BY <2>5, <4>1
      <4>3. CASE Cardinality(s) = n + 1
        BY <3>2, <4>2, <4>3
      <4>4. CASE Cardinality(s) # n + 1
        <5>1. Cardinality(s) <= n
          BY <2>5, <4>1, <4>4
        <5>2. At(g, s)
          BY <2>1, <5>1
        <5> QED
          BY <3>2, <4>2, <4>4, <5>2
      <4> QED
        BY <4>3, <4>4
    <3> QED
      BY <3>1, <3>2
  <2>6. Up(h, n + 1)
    <3> HIDE DEF h
    <3> QED
      BY <2>5
  <2> QED
    <3> HIDE DEF h, Up
    <3> QED
      BY <2>4, <2>6
<1>3. Nat \subseteq N
  <2> HIDE DEF N
  <2> QED
    BY <1>1, <1>2, InductionOnNat
<1>4. Cardinality(S) \in Nat
  BY FS_CardinalityType
<1>5. PICK g \in [SUBSET S -> V] : Up(g, Cardinality(S))
  BY <1>3, <1>4
<1>6. ASSUME NEW s \in SUBSET S PROVE At(g, s)
  <2>1. Cardinality(s) <= Cardinality(S)
    BY FS_Subset
  <2> QED
    BY <1>5, <2>1
<1> HIDE DEF Up
<1>7. FoldsUp(g, S, F, base)
  BY <1>6 DEF FoldsUp
<1> QED
  BY <1>7

-----------------------------------------------------------------------------
(* What goods cost together *)

Total(goods, currency) == MapThenSumSet(LAMBDA good : Cost(good, currency), goods)

\* g sums the costs of the subsets of S.
SumsUp(g, S, currency) ==
  /\ g \in [SUBSET S -> Nat]
  /\ g[{}] = 0
  /\ \A s \in SUBSET S : s # {} => g[s] = Cost(Pick(s), currency) + g[s \ {Pick(s)}]

\* MapThenSumSet computes such a sum.
LEMMA TotalSumsUp ==
  ASSUME NEW S, IsFiniteSet(S), NEW currency, \A good \in S : Cost(good, currency) \in Nat
  PROVE  \E g : SumsUp(g, S, currency) /\ Total(S, currency) = g[S]
<1> DEFINE F == [p \in S \X Nat |-> Cost(p[1], currency) + p[2]]
           iter[s \in SUBSET S] ==
             IF s = {} THEN 0
             ELSE LET x == CHOOSE x \in s : TRUE IN Cost(x, currency) + iter[s \ {x}]
           Eq(g) == g = [s \in SUBSET S |->
             IF s = {} THEN 0
             ELSE LET x == CHOOSE x \in s : TRUE IN Cost(x, currency) + g[s \ {x}]]
<1>1. F \in [S \X Nat -> Nat]
  OBVIOUS
<1>2. PICK h \in [SUBSET S -> Nat] : FoldsUp(h, S, F, 0)
  <2> HIDE DEF F
  <2> QED
    BY <1>1, FoldExists
<1>3. \A s \in SUBSET S : s # {} =>
        /\ Pick(s) \in S /\ s \ {Pick(s)} \in SUBSET S
        /\ h[s \ {Pick(s)}] \in Nat
  BY PickSmaller
<1>4. \A s \in SUBSET S : s # {} =>
        F[<<Pick(s), h[s \ {Pick(s)}]>>] = Cost(Pick(s), currency) + h[s \ {Pick(s)}]
  BY <1>3
<1>5. Eq(h)
  <2> HIDE DEF F
  <2>1. h = [s \in SUBSET S |-> IF s = {} THEN 0 ELSE F[<<Pick(s), h[s \ {Pick(s)}]>>]]
    BY <1>2 DEF FoldsUp
  <2>2. \A s \in SUBSET S : h[s] = IF s = {} THEN 0
                                   ELSE Cost(Pick(s), currency) + h[s \ {Pick(s)}]
    BY <2>1, <1>4
  <2> QED
    BY <2>2 DEF Pick
<1>6. Eq(iter)
  BY <1>5
<1>7. Total(S, currency) = iter[S]
  BY DEF Total, MapThenSumSet, MapThenFoldSet
<1> HIDE DEF iter
<1>8. /\ iter[{}] = 0
      /\ \A s \in SUBSET S : s # {} =>
           iter[s] = Cost(Pick(s), currency) + iter[s \ {Pick(s)}]
  BY <1>6 DEF Pick
<1>9. \A s \in SUBSET S : iter[s] \in Nat
  <2> DEFINE P == {s \in SUBSET S : iter[s] \in Nat}
  <2>1. {} \in P
    BY <1>8
  <2>2. ASSUME NEW s \in SUBSET S, s # {}, s \ {Pick(s)} \in P PROVE s \in P
    <3>1. Cost(Pick(s), currency) \in Nat
      BY <2>2, <1>3
    <3> QED
      BY <2>2, <3>1, <1>8
  <2>3. SUBSET S \subseteq P
    <3> HIDE DEF P
    <3> QED
      BY <2>1, <2>2, SubsetInduction
  <2> QED
    BY <2>3
<1>10. SumsUp(iter, S, currency)
  BY <1>6, <1>8, <1>9 DEF SumsUp
<1> QED
  BY <1>7, <1>10

\* A sum over S has the totals of its subsets.
LEMMA TotalOfSubset ==
  ASSUME NEW S, IsFiniteSet(S), NEW currency, \A good \in S : Cost(good, currency) \in Nat,
         NEW g, SumsUp(g, S, currency), NEW T \in SUBSET S
  PROVE  Total(T, currency) = g[T]
<1>1. IsFiniteSet(T) /\ \A good \in T : Cost(good, currency) \in Nat
  BY FS_Subset
<1>2. PICK h : SumsUp(h, T, currency) /\ Total(T, currency) = h[T]
  BY <1>1, TotalSumsUp
<1> DEFINE P == {s \in SUBSET T : h[s] = g[s]}
<1>3. {} \in P
  BY <1>2 DEF SumsUp
<1>4. ASSUME NEW s \in SUBSET T, s # {}, s \ {Pick(s)} \in P PROVE s \in P
  <2>1. s \in SUBSET S
    OBVIOUS
  <2> QED
    BY <1>2, <1>4, <2>1 DEF SumsUp
<1>5. SUBSET T \subseteq P
  <2> HIDE DEF P
  <2> QED
    BY <1>1, <1>3, <1>4, SubsetInduction
<1> QED
  BY <1>2, <1>5

\* A sum does not depend on the order: any element may come last.
LEMMA SumAnyOrder ==
  ASSUME NEW S, IsFiniteSet(S), NEW currency, \A good \in S : Cost(good, currency) \in Nat,
         NEW g, SumsUp(g, S, currency)
  PROVE  \A s \in SUBSET S : \A x \in s : g[s] = Cost(x, currency) + g[s \ {x}]
<1> DEFINE AnyLast(s) == \A x \in s : g[s] = Cost(x, currency) + g[s \ {x}]
           N == {n \in Nat : \A s \in SUBSET S : Cardinality(s) <= n => AnyLast(s)}
<1>1. 0 \in N
  <2>1. ASSUME NEW s \in SUBSET S, Cardinality(s) <= 0 PROVE AnyLast(s)
    BY <2>1, ZeroIsEmpty
  <2> HIDE DEF AnyLast
  <2> QED
    BY <2>1
<1>2. ASSUME NEW n \in N \cap Nat PROVE n + 1 \in N
  <2>1. ASSUME NEW s \in SUBSET S, Cardinality(s) <= n + 1, NEW x \in s
        PROVE  g[s] = Cost(x, currency) + g[s \ {x}]
    <3> DEFINE p == Pick(s)
               t == s \ {p}
               u == s \ {x}
               v == (s \ {p}) \ {x}
    <3>1. /\ p \in s /\ t \in SUBSET S /\ u \in SUBSET S /\ v \in SUBSET S
          /\ IsFiniteSet(s) /\ Cardinality(s) \in Nat
          /\ Cardinality(t) = Cardinality(s) - 1
      BY PickSmaller
    <3>2. Cardinality(u) = Cardinality(s) - 1
      BY <3>1, FS_RemoveElement
    <3>3. AnyLast(t) /\ AnyLast(u)
      <4>1. Cardinality(t) <= n /\ Cardinality(u) <= n
        BY <2>1, <3>1, <3>2
      <4> HIDE DEF AnyLast, t, u
      <4> QED
        BY <4>1, <3>1
    <3>4. g[s] = Cost(p, currency) + g[t]
      BY <3>1 DEF SumsUp
    <3>5. CASE x = p
      BY <3>4, <3>5
    <3>6. CASE x # p
      <4>1. g[t] = Cost(x, currency) + g[v]
        BY <3>3, <3>6
      <4>2. u \ {p} = v
        OBVIOUS
      <4>3. g[u] = Cost(p, currency) + g[v]
        BY <3>1, <3>3, <3>6, <4>2
      <4>4. /\ Cost(p, currency) \in Nat /\ Cost(x, currency) \in Nat
            /\ g[v] \in Nat
        BY <3>1 DEF SumsUp
      <4> HIDE DEF p, t, u, v
      <4> QED
        BY <3>4, <4>1, <4>3, <4>4 DEF u
    <3> QED
      BY <3>5, <3>6
  <2> QED
    BY <2>1
<1>3. Nat \subseteq N
  <2> HIDE DEF N
  <2> QED
    BY <1>1, <1>2, InductionOnNat
<1>4. ASSUME NEW s \in SUBSET S PROVE AnyLast(s)
  <2>1. IsFiniteSet(s) /\ Cardinality(s) \in Nat
    BY FS_Subset, FS_CardinalityType
  <2>2. Cardinality(s) \in N
    BY <2>1, <1>3
  <2> HIDE DEF AnyLast
  <2> QED
    BY <2>1, <2>2
<1> QED
  BY <1>4

\* One more good adds its cost.
LEMMA TotalOfOneMore ==
  ASSUME NEW S, IsFiniteSet(S), NEW x, x \notin S, NEW currency,
         \A good \in S \union {x} : Cost(good, currency) \in Nat
  PROVE  /\ Total(S, currency) \in Nat
         /\ Total(S \union {x}, currency) = Total(S, currency) + Cost(x, currency)
<1> DEFINE T == S \union {x}
<1>1. IsFiniteSet(T)
  BY FS_AddElement
<1>2. PICK g : SumsUp(g, T, currency)
  <2> HIDE DEF T
  <2> QED
    BY <1>1, TotalSumsUp DEF T
<1>3. Total(T, currency) = g[T] /\ Total(S, currency) = g[S]
  <2>1. T \in SUBSET T /\ S \in SUBSET T
    OBVIOUS
  <2> QED
    BY <1>1, <1>2, <2>1, TotalOfSubset
<1>4. g[T] = Cost(x, currency) + g[T \ {x}]
  BY <1>1, <1>2, SumAnyOrder
<1>5. T \ {x} = S
  OBVIOUS
<1>6. g[S] \in Nat /\ Cost(x, currency) \in Nat
  BY <1>2 DEF SumsUp
<1>7. g[T] = Cost(x, currency) + g[S]
  BY <1>4, <1>5
<1>8. Total(S, currency) \in Nat /\ Total(T, currency) = Total(S, currency) + Cost(x, currency)
  <2> HIDE DEF T
  <2> QED
    BY <1>3, <1>6, <1>7
<1> QED
  BY <1>8

\* Nothing costs nothing.
LEMMA TotalOfNothing ==
  ASSUME NEW currency
  PROVE  Total({}, currency) = 0
<1>1. IsFiniteSet({})
  BY FS_EmptySet
<1>2. PICK g : SumsUp(g, {}, currency) /\ Total({}, currency) = g[{}]
  BY <1>1, TotalSumsUp
<1> QED
  BY <1>2 DEF SumsUp

-----------------------------------------------------------------------------
(* Climb *)

\* The levels and points passed on the way from at, as long as they suffice.
Way(p, n, at) ==
  /\ p \in [0..n -> Progress]
  /\ p[0] = at
  /\ \A i \in 0..n-1 : Suffices(p[i].level, p[i].exp) /\ p[i+1] = LevelUp(p[i])
  /\ ~ Suffices(p[n].level, p[n].exp)

Ends(at) == {r \in Progress : \E n \in Nat : \E p : Way(p, n, at) /\ r = p[n]}

TheEnd(E) == CHOOSE r : r \in E

\* Points that suffice leave points.
LEMMA LevelUpType ==
  ASSUME NEW at \in Progress, Suffices(at.level, at.exp)
  PROVE  LevelUp(at) \in Progress
BY DEF LevelUp, Progress, Suffices

\* A step of the loop leads to the same end.
LEMMA SameEnd ==
  ASSUME NEW at \in Progress, Suffices(at.level, at.exp)
  PROVE  Ends(at) = Ends(LevelUp(at))
<1>0. LevelUp(at) \in Progress
  BY LevelUpType
<1>1. ASSUME NEW n \in Nat, NEW p, Way(p, n, at)
      PROVE  \E m \in Nat : \E q : Way(q, m, LevelUp(at)) /\ q[m] = p[n]
  <2>1. n # 0
    BY <1>1 DEF Way
  <2>2. n - 1 \in Nat /\ (n - 1) + 1 = n
    BY <2>1
  <2> DEFINE q == [i \in 0..n-1 |-> p[i+1]]
  <2>3. \A i \in 0..n-1 : i + 1 \in 0..n
    OBVIOUS
  <2>4. q \in [0..n-1 -> Progress]
    BY <2>3, <1>1 DEF Way
  <2>5. q[0] = LevelUp(at)
    <3>1. 0 \in 0..n-1 /\ 0 + 1 = 1
      BY <2>1
    <3>2. p[0] = at /\ p[0+1] = LevelUp(p[0])
      BY <1>1, <3>1 DEF Way
    <3> QED
      BY <3>1, <3>2
  <2>6. ASSUME NEW i \in 0..(n-1)-1
        PROVE  Suffices(q[i].level, q[i].exp) /\ q[i+1] = LevelUp(q[i])
    <3>1. i \in 0..n-1 /\ i + 1 \in 0..n-1
      OBVIOUS
    <3>2. q[i] = p[i+1] /\ q[i+1] = p[(i+1)+1]
      BY <3>1
    <3> HIDE DEF q
    <3> QED
      BY <1>1, <3>1, <3>2 DEF Way
  <2>7. q[n-1] = p[n]
    BY <2>2
  <2>8. Way(q, n-1, LevelUp(at))
    <3> HIDE DEF q
    <3> QED
      BY <1>1, <2>4, <2>5, <2>6, <2>7 DEF Way
  <2> QED
    BY <2>2, <2>7, <2>8
<1>2. ASSUME NEW n \in Nat, NEW p, Way(p, n, LevelUp(at))
      PROVE  \E m \in Nat : \E q : Way(q, m, at) /\ q[m] = p[n]
  <2> DEFINE q == [i \in 0..n+1 |-> IF i = 0 THEN at ELSE p[i-1]]
  <2>1. \A i \in 0..n+1 : i # 0 => i - 1 \in 0..n
    OBVIOUS
  <2>2. q \in [0..n+1 -> Progress]
    BY <2>1, <1>2 DEF Way
  <2>3. q[0] = at /\ q[n+1] = p[n]
    OBVIOUS
  <2>4. ASSUME NEW i \in 0..(n+1)-1
        PROVE  Suffices(q[i].level, q[i].exp) /\ q[i+1] = LevelUp(q[i])
    <3>1. q[i+1] = p[i]
      OBVIOUS
    <3>2. CASE i = 0
      <4>1. p[i] = LevelUp(at)
        BY <3>2, <1>2 DEF Way
      <4>2. q[i] = at
        BY <3>2
      <4> HIDE DEF q
      <4> QED
        BY <3>1, <4>1, <4>2
    <3>3. CASE i # 0
      <4>1. i - 1 \in 0..n-1 /\ (i - 1) + 1 = i
        BY <3>3
      <4>2. q[i] = p[i-1]
        BY <3>3
      <4> HIDE DEF q
      <4> QED
        BY <1>2, <3>1, <4>1, <4>2 DEF Way
    <3> QED
      BY <3>2, <3>3
  <2>5. Way(q, n+1, at)
    <3> HIDE DEF q
    <3> QED
      BY <1>2, <2>2, <2>3, <2>4 DEF Way
  <2> QED
    BY <2>3, <2>5
<1>3. ASSUME NEW r \in Ends(at) PROVE r \in Ends(LevelUp(at))
  <2>1. PICK n \in Nat : \E p : Way(p, n, at) /\ r = p[n]
    BY DEF Ends
  <2> QED
    BY <1>1, <2>1 DEF Ends
<1>4. ASSUME NEW r \in Ends(LevelUp(at)) PROVE r \in Ends(at)
  <2>1. PICK n \in Nat : \E p : Way(p, n, LevelUp(at)) /\ r = p[n]
    BY DEF Ends
  <2> QED
    BY <1>2, <2>1 DEF Ends
<1> QED
  BY <1>3, <1>4

\* Where the points do not suffice the loop has ended.
LEMMA AtTheEnd ==
  ASSUME NEW at \in Progress, ~ Suffices(at.level, at.exp)
  PROVE  Ends(at) = {at}
<1> DEFINE q == [i \in 0..0 |-> at]
<1>1. Way(q, 0, at) /\ at = q[0]
  BY DEF Way
<1>2. at \in Ends(at)
  <2> HIDE DEF q
  <2> QED
    BY <1>1 DEF Ends
<1>3. ASSUME NEW s \in Ends(at) PROVE s = at
  <2>0. PICK n \in Nat : \E p : Way(p, n, at) /\ s = p[n]
    BY DEF Ends
  <2>1. PICK p : Way(p, n, at) /\ s = p[n]
    BY <2>0
  <2>2. n = 0
    <3>1. SUFFICES ASSUME n # 0 PROVE FALSE
      OBVIOUS
    <3>2. 0 \in 0..n-1
      BY <3>1
    <3> QED
      BY <2>1, <3>2 DEF Way
  <2> QED
    BY <2>1, <2>2 DEF Way
<1> QED
  BY <1>2, <1>3

\* The loop's equation has a solution, so Climb is one.
LEMMA ClimbEquation ==
  \A at \in Progress :
    Climb[at] = IF Suffices(at.level, at.exp) THEN Climb[LevelUp(at)] ELSE at
<1> DEFINE Eq(f) == f = [at \in Progress |->
                           IF Suffices(at.level, at.exp) THEN f[LevelUp(at)] ELSE at]
           g == [at \in Progress |-> TheEnd(Ends(at))]
<1>1. ASSUME NEW at \in Progress
      PROVE  g[at] = IF Suffices(at.level, at.exp) THEN g[LevelUp(at)] ELSE at
  <2>1. CASE Suffices(at.level, at.exp)
    BY <2>1, LevelUpType, SameEnd
  <2>2. CASE ~ Suffices(at.level, at.exp)
    <3>1. TheEnd({at}) = at
      BY DEF TheEnd
    <3> QED
      BY <2>2, <3>1, AtTheEnd
  <2> QED
    BY <2>1, <2>2
<1>2. Eq(g)
  BY <1>1
<1>3. Eq(Climb)
  <2> HIDE DEF g
  <2> QED
    BY <1>2 DEF Climb
<1> QED
  BY <1>3

-----------------------------------------------------------------------------
(* Saved images *)

AnyRow == AccountRow \union ProfileRow \union StatsRow \union GoodsRow \union {NoRow}

Tables == [CsvFiles -> Table]

Images == UNION {[F -> Table] : F \in SUBSET CsvFiles}

\* The image Save makes of a file.
Rewritten(images, rows, file, user) ==
  LET old == ReadCsv(images, file)
  IN  IF old[user] = NoRow THEN old ELSE [old EXCEPT ![user] = rows[file][user]]

\* images with those of some files rewritten for a user.
FilesSaved(images, rows, files, user, r) ==
  /\ r \in Images
  /\ DOMAIN r = DOMAIN images \union files
  /\ \A file \in files : r[file] = Rewritten(images, rows, file, user)
  /\ \A file \in DOMAIN images \ files : r[file] = images[file]

\* The images of the files, once their rows for some users are those of rows.
UsersSaved(rows, files, users, r) ==
  /\ r \in Images
  /\ DOMAIN r = IF users = {} THEN {} ELSE files
  /\ \A file \in DOMAIN r, user \in Users :
       r[file][user] = IF user \in users /\ disk[file][user] # NoRow
                       THEN rows[file][user] ELSE disk[file][user]

\* There are seven files.
LEMMA FilesFinite == IsFiniteSet(CsvFiles)
<1>1. CsvFiles = {"UsersAccount", "UserProfile", "UserWinLossStats"}
                   \union {"UserCharacters", "UserBalloon"}
                   \union {"UserEmotes", "UserIcon"}
  BY DEF CsvFiles, GoodsFile, Kinds
<1>2. IsFiniteSet({"UserProfile", "UserWinLossStats"} \union {"UsersAccount"})
  <2>1. IsFiniteSet({"UserProfile"} \union {"UserWinLossStats"})
    BY FS_Singleton, FS_AddElement
  <2>2. {"UserProfile", "UserWinLossStats"} = {"UserProfile"} \union {"UserWinLossStats"}
    OBVIOUS
  <2> QED
    BY <2>1, <2>2, FS_AddElement
<1>3. IsFiniteSet({"UserCharacters"} \union {"UserBalloon"})
  BY FS_Singleton, FS_AddElement
<1>4. IsFiniteSet({"UserEmotes"} \union {"UserIcon"})
  BY FS_Singleton, FS_AddElement
<1>5. /\ {"UserProfile", "UserWinLossStats"} \union {"UsersAccount"}
           = {"UsersAccount", "UserProfile", "UserWinLossStats"}
      /\ {"UserCharacters"} \union {"UserBalloon"} = {"UserCharacters", "UserBalloon"}
      /\ {"UserEmotes"} \union {"UserIcon"} = {"UserEmotes", "UserIcon"}
  OBVIOUS
<1> QED
  BY <1>1, <1>2, <1>3, <1>4, <1>5, FS_Union

\* Images map files to tables.
LEMMA ImagesShape ==
  ASSUME NEW images \in Images
  PROVE  /\ DOMAIN images \subseteq CsvFiles
         /\ images \in [DOMAIN images -> Table]
<1>1. PICK F \in SUBSET CsvFiles : images \in [F -> Table]
  BY DEF Images
<1> QED
  BY <1>1

\* What one Save does.
LEMMA SaveOne ==
  ASSUME disk \in Tables, NEW images \in Images, NEW rows \in Tables,
         NEW file \in CsvFiles, NEW user \in Users
  PROVE  FilesSaved(images, rows, {file}, user, Save(images, rows, file, user))
<1> DEFINE r == Save(images, rows, file, user)
           D == DOMAIN images \union {file}
           new == Rewritten(images, rows, file, user)
<1>1. DOMAIN images \subseteq CsvFiles /\ images \in [DOMAIN images -> Table]
  BY ImagesShape
<1>2. ReadCsv(images, file) \in Table
  BY <1>1 DEF ReadCsv, Tables
<1>3. new \in Table
  <2>1. rows[file][user] \in AnyRow
    BY DEF Tables, Table, AnyRow
  <2> QED
    BY <1>2, <2>1 DEF Rewritten, Table, AnyRow
<1>4. r = [f \in D |-> IF f = file THEN new ELSE images[f]]
  BY DEF Save, Rewritten
<1> HIDE DEF r, new
<1>5. r \in [D -> Table]
  BY <1>1, <1>3, <1>4
<1>6. r \in Images
  BY <1>1, <1>5 DEF Images
<1>7. DOMAIN r = D /\ r[file] = new /\ \A f \in DOMAIN images \ {file} : r[f] = images[f]
  BY <1>4
<1> QED
  BY <1>6, <1>7 DEF FilesSaved, r, new

\* Saving one file more.
LEMMA SaveOneMore ==
  ASSUME disk \in Tables, NEW images \in Images, NEW rows \in Tables,
         NEW files \in SUBSET CsvFiles, NEW file \in CsvFiles \ files, NEW user \in Users,
         NEW r, FilesSaved(images, rows, files, user, r)
  PROVE  FilesSaved(images, rows, files \union {file}, user, Save(r, rows, file, user))
<1> DEFINE s == Save(r, rows, file, user)
<1>1. r \in Images
  BY DEF FilesSaved
<1>2. FilesSaved(r, rows, {file}, user, s)
  BY <1>1, SaveOne
<1>3. ReadCsv(r, file) = ReadCsv(images, file)
  BY DEF FilesSaved, ReadCsv
<1>4. Rewritten(r, rows, file, user) = Rewritten(images, rows, file, user)
  BY <1>3 DEF Rewritten
<1> HIDE DEF s
<1> QED
  BY <1>2, <1>4 DEF FilesSaved, s

\* What SaveFiles makes of images.
LEMMA SaveFilesResult ==
  ASSUME disk \in Tables, NEW images \in Images, NEW rows \in Tables,
         NEW files \in SUBSET CsvFiles, NEW user \in Users
  PROVE  FilesSaved(images, rows, files, user, SaveFiles(images, rows, files, user))
<1> DEFINE F == [p \in files \X Images |-> Save(p[2], rows, p[1], user)]
           iter[s \in SUBSET files] ==
             IF s = {} THEN images
             ELSE LET x == CHOOSE x \in s : TRUE IN Save(iter[s \ {x}], rows, x, user)
           Eq(g) == g = [s \in SUBSET files |->
             IF s = {} THEN images
             ELSE LET x == CHOOSE x \in s : TRUE IN Save(g[s \ {x}], rows, x, user)]
<1>0. IsFiniteSet(files)
  BY FilesFinite, FS_Subset
<1>1. F \in [files \X Images -> Images]
  <2>1. ASSUME NEW p \in files \X Images PROVE Save(p[2], rows, p[1], user) \in Images
    <3>1. p[1] \in CsvFiles /\ p[2] \in Images
      OBVIOUS
    <3> QED
      BY <3>1, SaveOne DEF FilesSaved
  <2> QED
    BY <2>1
<1>2. PICK h \in [SUBSET files -> Images] : FoldsUp(h, files, F, images)
  <2> HIDE DEF F
  <2> QED
    BY <1>0, <1>1, FoldExists
<1>3. \A s \in SUBSET files : s # {} =>
        /\ Pick(s) \in files /\ s \ {Pick(s)} \in SUBSET files
        /\ h[s \ {Pick(s)}] \in Images
  <2>1. ASSUME NEW s \in SUBSET files, s # {}
        PROVE  Pick(s) \in files /\ s \ {Pick(s)} \in SUBSET files
    BY <1>0, <2>1, PickSmaller
  <2> QED
    BY <2>1
<1>4. \A s \in SUBSET files : s # {} =>
        F[<<Pick(s), h[s \ {Pick(s)}]>>] = Save(h[s \ {Pick(s)}], rows, Pick(s), user)
  BY <1>3
<1>5. Eq(h)
  <2> HIDE DEF F
  <2>1. h = [s \in SUBSET files |->
               IF s = {} THEN images ELSE F[<<Pick(s), h[s \ {Pick(s)}]>>]]
    BY <1>2 DEF FoldsUp
  <2>2. \A s \in SUBSET files : h[s] = IF s = {} THEN images
                                 ELSE Save(h[s \ {Pick(s)}], rows, Pick(s), user)
    BY <2>1, <1>4
  <2> QED
    BY <2>2 DEF Pick
<1>6. Eq(iter)
  BY <1>5
<1>7. SaveFiles(images, rows, files, user) = iter[files]
  BY DEF SaveFiles, FoldSet, MapThenFoldSet
<1> HIDE DEF iter
<1>8. /\ iter[{}] = images
      /\ \A s \in SUBSET files : s # {} =>
           iter[s] = Save(iter[s \ {Pick(s)}], rows, Pick(s), user)
  BY <1>6 DEF Pick
<1> DEFINE P == {s \in SUBSET files : FilesSaved(images, rows, s, user, iter[s])}
<1>9. {} \in P
  BY <1>8 DEF FilesSaved
<1>10. ASSUME NEW s \in SUBSET files, s # {}, s \ {Pick(s)} \in P PROVE s \in P
  <2> DEFINE x == Pick(s)
             t == s \ {x}
  <2>1. x \in s
    BY <1>0, <1>10, PickSmaller
  <2>2. FilesSaved(images, rows, t, user, iter[t])
    BY <1>10
  <2>3. iter[s] = Save(iter[t], rows, x, user)
    BY <1>8, <1>10
  <2>4. t \in SUBSET CsvFiles /\ x \in CsvFiles \ t /\ t \union {x} = s
    BY <2>1
  <2> HIDE DEF t, x
  <2>5. FilesSaved(images, rows, t \union {x}, user, Save(iter[t], rows, x, user))
    BY <2>2, <2>4, SaveOneMore
  <2> QED
    BY <2>3, <2>4, <2>5
<1>11. SUBSET files \subseteq P
  <2> HIDE DEF P
  <2> QED
    BY <1>0, <1>9, <1>10, SubsetInduction
<1> QED
  BY <1>7, <1>11

\* Saving the files of one user more.
LEMMA SaveUserMore ==
  ASSUME disk \in Tables, NEW rows \in Tables, NEW files \in SUBSET CsvFiles,
         NEW users \in SUBSET Users, NEW user \in Users \ users,
         NEW r, UsersSaved(rows, files, users, r)
  PROVE  UsersSaved(rows, files, users \union {user}, SaveFiles(r, rows, files, user))
<1> DEFINE s == SaveFiles(r, rows, files, user)
<1>1. r \in Images /\ DOMAIN r \subseteq files
  BY DEF UsersSaved
<1>2. FilesSaved(r, rows, files, user, s)
  BY <1>1, SaveFilesResult
<1> HIDE DEF s
<1>3. s \in Images /\ DOMAIN s = files
  BY <1>1, <1>2 DEF FilesSaved
<1>4. ASSUME NEW file \in files
      PROVE  \A u \in Users :
               s[file][u] = IF u \in users \union {user} /\ disk[file][u] # NoRow
                            THEN rows[file][u] ELSE disk[file][u]
  <2> DEFINE old == ReadCsv(r, file)
  <2>1. \A u \in Users : old[u] = IF u \in users /\ disk[file][u] # NoRow
                                  THEN rows[file][u] ELSE disk[file][u]
    <3>1. CASE file \in DOMAIN r
      BY <3>1 DEF ReadCsv, UsersSaved
    <3>2. CASE file \notin DOMAIN r
      BY <3>2 DEF ReadCsv, UsersSaved
    <3> QED
      BY <3>1, <3>2
  <2>2. old \in Table
    <3>1. file \in DOMAIN r => r[file] \in Table
      BY <1>1, ImagesShape
    <3>2. disk[file] \in Table
      BY DEF Tables
    <3> QED
      BY <3>1, <3>2 DEF ReadCsv
  <2>3. s[file] = IF old[user] = NoRow THEN old ELSE [old EXCEPT ![user] = rows[file][user]]
    BY <1>2 DEF FilesSaved, Rewritten
  <2>4. old[user] = disk[file][user]
    BY <2>1
  <2> HIDE DEF old
  <2> QED
    BY <2>1, <2>2, <2>3, <2>4 DEF Table
<1> QED
  BY <1>3, <1>4 DEF UsersSaved, s

\* SaveAll saves the rows of the users, and nothing else.
LEMMA SaveAllResult ==
  ASSUME disk \in Tables, NEW rows \in Tables, NEW files \in SUBSET CsvFiles,
         NEW users \in SUBSET Users, IsFiniteSet(users)
  PROVE  UsersSaved(rows, files, users, SaveAll(rows, files, users))
<1> DEFINE F == [p \in users \X Images |-> SaveFiles(p[2], rows, files, p[1])]
           iter[s \in SUBSET users] ==
             IF s = {} THEN Nothing
             ELSE LET x == CHOOSE x \in s : TRUE IN SaveFiles(iter[s \ {x}], rows, files, x)
           Eq(g) == g = [s \in SUBSET users |->
             IF s = {} THEN Nothing
             ELSE LET x == CHOOSE x \in s : TRUE IN SaveFiles(g[s \ {x}], rows, files, x)]
<1>0. Nothing \in Images /\ DOMAIN Nothing = {}
  <2>1. Nothing \in [{} -> Table] /\ {} \in SUBSET CsvFiles
    BY DEF Nothing
  <2> QED
    BY <2>1 DEF Images
<1>1. F \in [users \X Images -> Images]
  <2>1. ASSUME NEW p \in users \X Images PROVE SaveFiles(p[2], rows, files, p[1]) \in Images
    <3>1. p[1] \in Users /\ p[2] \in Images
      OBVIOUS
    <3> QED
      BY <3>1, SaveFilesResult DEF FilesSaved
  <2> QED
    BY <2>1
<1>2. PICK h \in [SUBSET users -> Images] : FoldsUp(h, users, F, Nothing)
  <2> HIDE DEF F
  <2> QED
    BY <1>0, <1>1, FoldExists
<1>3. \A s \in SUBSET users : s # {} =>
        /\ Pick(s) \in users /\ s \ {Pick(s)} \in SUBSET users
        /\ h[s \ {Pick(s)}] \in Images
  <2>1. ASSUME NEW s \in SUBSET users, s # {}
        PROVE  Pick(s) \in users /\ s \ {Pick(s)} \in SUBSET users
    BY <2>1, PickSmaller
  <2> QED
    BY <2>1
<1>4. \A s \in SUBSET users : s # {} =>
        F[<<Pick(s), h[s \ {Pick(s)}]>>] = SaveFiles(h[s \ {Pick(s)}], rows, files, Pick(s))
  BY <1>3
<1>5. Eq(h)
  <2> HIDE DEF F
  <2>1. h = [s \in SUBSET users |->
               IF s = {} THEN Nothing ELSE F[<<Pick(s), h[s \ {Pick(s)}]>>]]
    BY <1>2 DEF FoldsUp
  <2>2. \A s \in SUBSET users : h[s] = IF s = {} THEN Nothing
                                 ELSE SaveFiles(h[s \ {Pick(s)}], rows, files, Pick(s))
    BY <2>1, <1>4
  <2> QED
    BY <2>2 DEF Pick
<1>6. Eq(iter)
  BY <1>5
<1>7. SaveAll(rows, files, users) = iter[users]
  BY DEF SaveAll, FoldSet, MapThenFoldSet
<1> HIDE DEF iter
<1>8. /\ iter[{}] = Nothing
      /\ \A s \in SUBSET users : s # {} =>
           iter[s] = SaveFiles(iter[s \ {Pick(s)}], rows, files, Pick(s))
  BY <1>6 DEF Pick
<1> DEFINE P == {s \in SUBSET users : UsersSaved(rows, files, s, iter[s])}
<1>9. {} \in P
  BY <1>0, <1>8 DEF UsersSaved
<1>10. ASSUME NEW s \in SUBSET users, s # {}, s \ {Pick(s)} \in P PROVE s \in P
  <2> DEFINE x == Pick(s)
             t == s \ {x}
  <2>1. x \in s
    BY <1>10, PickSmaller
  <2>2. UsersSaved(rows, files, t, iter[t])
    BY <1>10
  <2>3. iter[s] = SaveFiles(iter[t], rows, files, x)
    BY <1>8, <1>10
  <2>4. t \in SUBSET Users /\ x \in Users \ t /\ t \union {x} = s
    BY <2>1
  <2> HIDE DEF t, x
  <2>5. UsersSaved(rows, files, t \union {x}, SaveFiles(iter[t], rows, files, x))
    BY <2>2, <2>4, SaveUserMore
  <2> QED
    BY <2>3, <2>4, <2>5
<1>11. SUBSET users \subseteq P
  <2> HIDE DEF P
  <2> QED
    BY <1>9, <1>10, SubsetInduction
<1> QED
  BY <1>7, <1>11

\* Saving the rows that were changed, of users who have rows, is what replay
\* would make of the files: memory and images agree.
LEMMA SavedIsChanged ==
  ASSUME disk \in Tables, NEW rows \in Tables, NEW files \in SUBSET CsvFiles,
         NEW users \in SUBSET Users, IsFiniteSet(users),
         \A file \in CsvFiles, user \in Users :
            file \notin files \/ user \notin users \/ disk[file][user] = NoRow
              => rows[file][user] = disk[file][user]
  PROVE  /\ SaveAll(rows, files, users) \in Images
         /\ Over(disk, SaveAll(rows, files, users)) = rows
<1> DEFINE r == SaveAll(rows, files, users)
<1>1. UsersSaved(rows, files, users, r)
  BY SaveAllResult
<1> HIDE DEF r
<1>2. r \in Images /\ DOMAIN r \subseteq files
  BY <1>1 DEF UsersSaved
<1>3. ASSUME NEW file \in CsvFiles
      PROVE  rows[file] = IF file \in DOMAIN r THEN r[file] ELSE disk[file]
  <2>1. rows[file] \in Table /\ disk[file] \in Table /\ (file \in DOMAIN r => r[file] \in Table)
    BY <1>2, ImagesShape DEF Tables
  <2>2. CASE file \in DOMAIN r
    <3>1. \A user \in Users : r[file][user] = rows[file][user]
      BY <1>1, <1>2, <2>2 DEF UsersSaved
    <3> QED
      BY <2>1, <2>2, <3>1 DEF Table
  <2>3. CASE file \notin DOMAIN r
    <3>1. file \notin files \/ users = {}
      BY <1>1, <2>3 DEF UsersSaved
    <3>2. \A user \in Users : disk[file][user] = rows[file][user]
      BY <3>1
    <3> QED
      BY <2>1, <2>3, <3>2 DEF Table
  <2> QED
    BY <2>2, <2>3
<1>4. Files = CsvFiles
  BY UserStoreAssumption
<1>5. Over(disk, r) = rows
  BY <1>3, <1>4 DEF Over, Tables
<1> QED
  BY <1>2, <1>5 DEF r

-----------------------------------------------------------------------------
(* The strengthening *)

\* Every file has rows of its kind.
Typed(T) ==
  /\ T \in Tables
  /\ \A user \in Users :
       /\ T["UsersAccount"][user] \in AccountRow \union {NoRow}
       /\ T["UserProfile"][user] \in ProfileRow \union {NoRow}
       /\ T["UserWinLossStats"][user] \in StatsRow \union {NoRow}
       /\ \A kind \in Kinds : T[GoodsFile[kind]][user] \in GoodsRow \union {NoRow}

\* Goods have come with the account or from the shop.
Stocked(T) ==
  \A user \in Registered(T), kind \in Kinds :
    LET items == T[GoodsFile[kind]][user].items
    IN  /\ NewGoods[kind] \subseteq items
        /\ IsFiniteSet(items)
        /\ items \ NewGoods[kind] \subseteq DOMAIN PriceList[kind]

\* Somebody without an account has played no match, and so has nobody who only
\* plays together with him.
PlayedSoFar(T, user) == IF user \in Registered(T) THEN Played(T, user) ELSE 0

Matched(T) ==
  \A user, other \in Users :
    PlayTogether(user, other) => PlayedSoFar(T, user) = PlayedSoFar(T, other)

\* Accounts are never removed, those there were at the start in particular.
Installed(T) == DOMAIN Accounts \subseteq Registered(T)

\* What the rows of all files are together.
Sound(T) ==
  /\ Typed(T)
  /\ Complete(T)
  /\ NicknamesDiffer(T)
  /\ Stocked(T)
  /\ Balanced(T)
  /\ Climbed(T)
  /\ Equipped(T)
  /\ Matched(T)
  /\ Installed(T)

\* The rows are sound on disk, and in memory before they are on their way there.
UserInv ==
  /\ StoreInv
  /\ Sound(Durable)
  /\ stage = "saved" => Sound(mem)

\* What is known of one user with an account.
Settled(T, user) ==
  LET profile == T["UserProfile"][user]
      stats   == T["UserWinLossStats"][user]
  IN  /\ \A kind \in Kinds :
           LET items == T[GoodsFile[kind]][user].items
           IN  /\ NewGoods[kind] \subseteq items
               /\ IsFiniteSet(items)
               /\ items \ NewGoods[kind] \subseteq DOMAIN PriceList[kind]
      /\ \A currency \in Currencies :
           /\ profile.money[currency] >= 0
           /\ profile.money[currency] + Spent(T, user, currency) = Earned(T, user, currency)
      /\ profile.exp < 100 * profile.level
      /\ 50 * profile.level * (profile.level - 1) + profile.exp
           = 50 * stats.win + 30 * stats.lose
      /\ \A slot \in Slots : profile.emo[slot] \in T["UserEmotes"][user].items
      /\ IsInjective(profile.emo)
      /\ profile.balloon \in T["UserBalloon"][user].items
      /\ profile.icon \in T["UserIcon"][user].items

\* The rows are sound if those of each user are.
LEMMA SoundByUser ==
  ASSUME NEW T
  PROVE  Sound(T) <=> /\ Typed(T) /\ Complete(T) /\ NicknamesDiffer(T) /\ Matched(T)
                      /\ Installed(T)
                      /\ \A user \in Registered(T) : Settled(T, user)
BY DEF Sound, Settled, Stocked, Balanced, Climbed, Equipped

\* The files of the goods are four others.
LEMMA GoodsFiles ==
  /\ {"UsersAccount", "UserProfile", "UserWinLossStats"} \subseteq CsvFiles
  /\ \A kind \in Kinds :
       /\ GoodsFile[kind] \in CsvFiles
       /\ GoodsFile[kind] \notin {"UsersAccount", "UserProfile", "UserWinLossStats"}
  /\ \A kind, other \in Kinds : GoodsFile[kind] = GoodsFile[other] => kind = other
  /\ GoodsFile["emote"] = "UserEmotes" /\ GoodsFile["balloon"] = "UserBalloon"
  /\ GoodsFile["icon"] = "UserIcon" /\ GoodsFile["char"] = "UserCharacters"
  /\ \A file \in CsvFiles : \/ file \in {"UsersAccount", "UserProfile", "UserWinLossStats"}
                            \/ \E kind \in Kinds : file = GoodsFile[kind]
  /\ {"emote", "balloon", "icon", "char"} = Kinds
BY DEF CsvFiles, GoodsFile, Kinds

\* A user whose rows stay is as settled as before.
LEMMA SettledStays ==
  ASSUME NEW T, NEW U, NEW user,
         \A file \in CsvFiles : U[file][user] = T[file][user],
         Settled(T, user)
  PROVE  Settled(U, user)
<1>1. /\ U["UserProfile"][user] = T["UserProfile"][user]
      /\ U["UserWinLossStats"][user] = T["UserWinLossStats"][user]
      /\ \A kind \in Kinds : U[GoodsFile[kind]][user] = T[GoodsFile[kind]][user]
      /\ U["UserEmotes"][user] = T["UserEmotes"][user]
      /\ U["UserBalloon"][user] = T["UserBalloon"][user]
      /\ U["UserIcon"][user] = T["UserIcon"][user]
  BY GoodsFiles
<1>2. Bought(U, user) = Bought(T, user)
  BY <1>1 DEF Bought
<1>3. \A currency : Spent(U, user, currency) = Spent(T, user, currency)
  BY <1>2 DEF Spent
<1>4. \A currency : Earned(U, user, currency) = Earned(T, user, currency)
  BY <1>1 DEF Earned
<1> QED
  BY <1>1, <1>3, <1>4 DEF Settled

\* New rows for those who have rows, and the same accounts.
LEMMA SoundAgain ==
  ASSUME NEW T, NEW U, Sound(T), Typed(U), Matched(U),
         U["UsersAccount"] = T["UsersAccount"],
         \A file \in CsvFiles, user \in Users : U[file][user] = NoRow <=> T[file][user] = NoRow,
         \A user \in Registered(U) : Settled(U, user)
  PROVE  Sound(U)
<1>1. Registered(U) = Registered(T)
  BY DEF Registered
<1>2. Complete(U)
  BY <1>1 DEF Sound, Complete
<1>3. NicknamesDiffer(U)
  BY <1>1 DEF Sound, NicknamesDiffer
<1>4. Installed(U)
  BY <1>1 DEF Sound, Installed
<1> QED
  BY <1>2, <1>3, <1>4, SoundByUser

\* Nobody has played if nobody's statistics change.
LEMMA MatchedStays ==
  ASSUME NEW T, NEW U, Matched(T), U["UsersAccount"] = T["UsersAccount"],
         U["UserWinLossStats"] = T["UserWinLossStats"]
  PROVE  Matched(U)
<1>1. \A user \in Users : PlayedSoFar(U, user) = PlayedSoFar(T, user)
  BY DEF PlayedSoFar, Played, Registered
<1> QED
  BY <1>1 DEF Matched

\* A shopper's rows change; the rows of others, accounts and statistics do not.
Shopped(T, U, user) ==
  /\ Typed(U)
  /\ U["UsersAccount"] = T["UsersAccount"]
  /\ U["UserWinLossStats"] = T["UserWinLossStats"]
  /\ \A file \in CsvFiles : \A other \in Users : other # user => U[file][other] = T[file][other]
  /\ \A file \in CsvFiles : U[file][user] = NoRow <=> T[file][user] = NoRow
  /\ Settled(U, user)

\* That keeps the rows sound.
LEMMA SoundAfterShopping ==
  ASSUME NEW T, NEW U, NEW user \in Users, Sound(T), Shopped(T, U, user)
  PROVE  Sound(U)
<1>1. Matched(U)
  BY MatchedStays DEF Sound, Shopped
<1>2. \A file \in CsvFiles, other \in Users : U[file][other] = NoRow <=> T[file][other] = NoRow
  BY DEF Shopped
<1>3. ASSUME NEW other \in Registered(U) PROVE Settled(U, other)
  <2>1. CASE other = user
    BY <2>1 DEF Shopped
  <2>2. CASE other # user
    <3>1. other \in Registered(T) /\ other \in Users
      BY DEF Registered, Shopped
    <3>2. Settled(T, other)
      BY <3>1, SoundByUser
    <3>3. \A file \in CsvFiles : U[file][other] = T[file][other]
      BY <2>2, <3>1 DEF Shopped
    <3> QED
      BY <3>2, <3>3, SettledStays
  <2> QED
    BY <2>1, <2>2
<1> QED
  BY <1>1, <1>2, <1>3, SoundAgain DEF Shopped

-----------------------------------------------------------------------------
(* Shopping keeps the rows sound *)

\* The goods of a user can be counted, and each has a price.
LEMMA BoughtIsPriced ==
  ASSUME NEW T, NEW user, Settled(T, user)
  PROVE  /\ IsFiniteSet(Bought(T, user))
         /\ \A currency : \A good \in Bought(T, user) : Cost(good, currency) \in Nat
<1> DEFINE B(kind) == {kind} \X (T[GoodsFile[kind]][user].items \ NewGoods[kind])
<1>1. ASSUME NEW kind \in Kinds PROVE IsFiniteSet(B(kind))
  <2>1. IsFiniteSet(T[GoodsFile[kind]][user].items)
    BY DEF Settled
  <2>2. IsFiniteSet(T[GoodsFile[kind]][user].items \ NewGoods[kind])
    BY <2>1, FS_Difference
  <2>3. IsFiniteSet({kind})
    BY FS_Singleton
  <2> QED
    BY <2>2, <2>3, FS_Product
<1>2. Bought(T, user) = (B("char") \union B("balloon")) \union (B("emote") \union B("icon"))
  BY DEF Bought, Kinds
<1>3. IsFiniteSet(B("char") \union B("balloon")) /\ IsFiniteSet(B("emote") \union B("icon"))
  BY <1>1, FS_Union DEF Kinds
<1>4. IsFiniteSet(Bought(T, user))
  <2> HIDE DEF B
  <2>1. IsFiniteSet((B("char") \union B("balloon")) \union (B("emote") \union B("icon")))
    BY <1>3, FS_Union
  <2> QED
    BY <1>2, <2>1
<1>5. ASSUME NEW currency, NEW good \in Bought(T, user) PROVE Cost(good, currency) \in Nat
  <2>1. PICK kind \in Kinds : good \in B(kind)
    BY DEF Bought
  <2>2. good[1] = kind /\ good[2] \in DOMAIN PriceList[kind]
    BY <2>1 DEF Settled
  <2> QED
    BY <2>2, UserStoreAssumption DEF Cost
<1> QED
  BY <1>4, <1>5

\* A user with a profile has an account, and his rows are of their kinds.
LEMMA RowsOfUser ==
  ASSUME NEW T, Sound(T), NEW user \in Users, T["UserProfile"][user] # NoRow
  PROVE  /\ user \in Registered(T)
         /\ Settled(T, user)
         /\ T["UserProfile"][user] \in ProfileRow
         /\ T["UserWinLossStats"][user] \in StatsRow
         /\ \A kind \in Kinds : T[GoodsFile[kind]][user] \in GoodsRow
<1>1. user \in Registered(T)
  BY GoodsFiles DEF Sound, Complete
<1>2. Settled(T, user)
  BY <1>1, SoundByUser
<1>3. \A file \in CsvFiles : T[file][user] # NoRow
  BY <1>1 DEF Sound, Complete
<1> QED
  BY <1>1, <1>2, <1>3, GoodsFiles DEF Sound, Typed

\* The rows of a user in two files are replaced.
TwoReplaced(T, U, file, other, user, new, newer) ==
  /\ U = [f \in CsvFiles |-> [u \in Users |-> U[f][u]]]
  /\ U[file][user] = new
  /\ U[other][user] = newer
  /\ \A f \in CsvFiles : \A u \in Users :
       u # user \/ f \notin {file, other} => U[f][u] = T[f][u]

\* Two updates of different files do that.
LEMMA ReplaceTwo ==
  ASSUME NEW T \in Tables, NEW file \in CsvFiles, NEW other \in CsvFiles, file # other,
         NEW user \in Users, NEW new, NEW newer
  PROVE  TwoReplaced(T, [T EXCEPT ![file][user] = new, ![other][user] = newer],
                     file, other, user, new, newer)
BY DEF TwoReplaced, Tables, Table

\* A new profile and new goods of one kind: what is left to show is that they
\* settle his account.
LEMMA ShoppedIfSettled ==
  ASSUME NEW T, NEW U, Sound(T), NEW user \in Users, T["UserProfile"][user] # NoRow,
         NEW kind \in Kinds, NEW q \in ProfileRow, NEW h \in GoodsRow,
         TwoReplaced(T, U, "UserProfile", GoodsFile[kind], user, q, h),
         Settled(U, user)
  PROVE  Shopped(T, U, user)
<1>1. T \in Tables /\ Typed(T)
  BY DEF Sound, Typed
<1>2. q \in AnyRow /\ h \in AnyRow /\ q # NoRow /\ h # NoRow
  BY UserStoreAssumption DEF AnyRow
<1>3. \A f \in CsvFiles : U[f] = [u \in Users |-> U[f][u]]
  BY DEF TwoReplaced
<1>4. \A f \in CsvFiles : T[f] = [u \in Users |-> T[f][u]] /\ \A u \in Users : T[f][u] \in AnyRow
  BY <1>1 DEF Tables, Table, AnyRow
<1>5. \A f \in CsvFiles, u \in Users : U[f][u] \in AnyRow
  BY <1>2, <1>4 DEF TwoReplaced
<1>6. U \in Tables
  <2>1. \A f \in CsvFiles : U[f] \in Table
    BY <1>3, <1>5 DEF Table, AnyRow
  <2>2. U = [f \in CsvFiles |-> U[f]]
    BY DEF TwoReplaced
  <2> QED
    BY <2>1, <2>2 DEF Tables
<1>7. Typed(U)
  <2>1. ASSUME NEW u \in Users
        PROVE  /\ U["UsersAccount"][u] \in AccountRow \union {NoRow}
               /\ U["UserProfile"][u] \in ProfileRow \union {NoRow}
               /\ U["UserWinLossStats"][u] \in StatsRow \union {NoRow}
    BY <1>1, GoodsFiles DEF TwoReplaced, Typed
  <2>2. ASSUME NEW u \in Users, NEW k \in Kinds
        PROVE  U[GoodsFile[k]][u] \in GoodsRow \union {NoRow}
    BY <1>1, GoodsFiles DEF TwoReplaced, Typed
  <2> QED
    BY <1>6, <2>1, <2>2 DEF Typed
<1>8. /\ U["UsersAccount"] = T["UsersAccount"]
      /\ U["UserWinLossStats"] = T["UserWinLossStats"]
  <2>1. ASSUME NEW f \in {"UsersAccount", "UserWinLossStats"} PROVE U[f] = T[f]
    <3>1. f \in CsvFiles /\ f \notin {"UserProfile", GoodsFile[kind]}
      BY GoodsFiles
    <3>2. \A u \in Users : U[f][u] = T[f][u]
      BY <3>1 DEF TwoReplaced
    <3>3. U[f] = [u \in Users |-> U[f][u]] /\ T[f] = [u \in Users |-> T[f][u]]
      BY <1>3, <1>4, <3>1
    <3> QED
      BY <3>2, <3>3
  <2> QED
    BY <2>1
<1>9. \A f \in CsvFiles : T[f][user] # NoRow
  BY RowsOfUser DEF Sound, Complete
<1>10. \A f \in CsvFiles : U[f][user] = NoRow <=> T[f][user] = NoRow
  BY <1>2, <1>9 DEF TwoReplaced
<1>11. \A f \in CsvFiles : \A u \in Users : u # user => U[f][u] = T[f][u]
  BY DEF TwoReplaced
<1> QED
  BY <1>7, <1>8, <1>10, <1>11 DEF Shopped

\* A purchase: money goes, the goods come.
LEMMA BuyShops ==
  ASSUME Sound(mem), NEW user \in Users, NEW kind \in Kinds, NEW item \in Items(kind),
         Buy(user, kind, item)
  PROVE  Shopped(mem, mem', user)
<1> DEFINE price == PriceList[kind][item]
           p == mem["UserProfile"][user]
           q == [p EXCEPT !.money[price.currency] = @ - price.amount]
           g == mem[GoodsFile[kind]][user]
           h == [g EXCEPT !.items = @ \union {item}]
<1>1. mem["UserProfile"][user] # NoRow /\ item \notin g.items
      /\ p.money[price.currency] >= price.amount
  BY DEF Buy, HasRow, Owns, Goods, CanPay, Profile
<1>2. mem' = [mem EXCEPT
                  !["UserProfile"][user].money[price.currency] = @ - price.amount,
                  ![GoodsFile[kind]][user].items = @ \union {item}]
  BY DEF Buy, Rewrite
<1>3. /\ user \in Registered(mem)
      /\ Settled(mem, user)
      /\ p \in ProfileRow
      /\ mem["UserWinLossStats"][user] \in StatsRow
      /\ \A k \in Kinds : mem[GoodsFile[k]][user] \in GoodsRow
  BY <1>1, RowsOfUser
<1>4. mem \in Tables
  BY DEF Sound, Typed
<1>5. price.amount \in Nat /\ price.currency \in Currencies /\ item \in Nat
  BY UserStoreAssumption DEF Items
<1>6. mem' = [mem EXCEPT !["UserProfile"][user] = q, ![GoodsFile[kind]][user] = h]
  BY <1>2, <1>4, GoodsFiles DEF Tables, Table
<1>7. TwoReplaced(mem, mem', "UserProfile", GoodsFile[kind], user, q, h)
  <2> HIDE DEF q, h
  <2> QED
    BY <1>4, <1>6, GoodsFiles, ReplaceTwo
<1>8. q \in ProfileRow /\ h \in GoodsRow
  BY <1>3, <1>5 DEF ProfileRow, GoodsRow
<1>9. /\ mem'["UserProfile"][user] = q
      /\ mem'["UserWinLossStats"][user] = mem["UserWinLossStats"][user]
      /\ mem'[GoodsFile[kind]][user] = h
      /\ \A k \in Kinds \ {kind} : mem'[GoodsFile[k]][user] = mem[GoodsFile[k]][user]
  <2> HIDE DEF q, h
  <2> QED
    BY <1>7, GoodsFiles DEF TwoReplaced
<1>10. /\ q.level = p.level /\ q.exp = p.exp /\ q.emo = p.emo
       /\ q.balloon = p.balloon /\ q.icon = p.icon
       /\ h.items = g.items \union {item}
       /\ \A currency \in Currencies :
            q.money[currency] = IF currency = price.currency
                                THEN p.money[currency] - price.amount ELSE p.money[currency]
  BY <1>3, <1>5 DEF ProfileRow, GoodsRow
<1>11. item \notin NewGoods[kind] /\ item \in DOMAIN PriceList[kind]
  BY <1>1, <1>3 DEF Settled, Items
<1>12. /\ Bought(mem', user) = Bought(mem, user) \union {<<kind, item>>}
       /\ <<kind, item>> \notin Bought(mem, user)
  <2> HIDE DEF h, q
  <2>1. ASSUME NEW k \in Kinds
        PROVE  {k} \X (mem'[GoodsFile[k]][user].items \ NewGoods[k])
                 = ({k} \X (mem[GoodsFile[k]][user].items \ NewGoods[k]))
                     \union (IF k = kind THEN {<<kind, item>>} ELSE {})
    <3>1. CASE k = kind
      <4>1. mem'[GoodsFile[k]][user].items \ NewGoods[k]
              = (mem[GoodsFile[k]][user].items \ NewGoods[k]) \union {item}
        BY <1>9, <1>10, <1>11, <3>1
      <4> QED
        BY <3>1, <4>1
    <3>2. CASE k # kind
      BY <1>9, <3>2
    <3> QED
      BY <3>1, <3>2
  <2>2. Bought(mem', user) = Bought(mem, user) \union {<<kind, item>>}
    BY <2>1 DEF Bought
  <2>3. <<kind, item>> \notin Bought(mem, user)
    BY <1>1 DEF Bought
  <2> QED
    BY <2>2, <2>3
<1>13. ASSUME NEW currency \in Currencies
       PROVE  /\ Spent(mem, user, currency) \in Nat
              /\ Spent(mem', user, currency)
                   = Spent(mem, user, currency) + (IF currency = price.currency THEN price.amount ELSE 0)
  <2>1. Cost(<<kind, item>>, currency) = IF currency = price.currency THEN price.amount ELSE 0
    BY DEF Cost
  <2>2. /\ IsFiniteSet(Bought(mem, user))
        /\ \A good \in Bought(mem, user) : Cost(good, currency) \in Nat
    BY <1>3, BoughtIsPriced
  <2>3. Cost(<<kind, item>>, currency) \in Nat
    BY <1>5, <2>1
  <2> DEFINE good == <<kind, item>>
             S == Bought(mem, user)
  <2>4. \A x \in S \union {good} : Cost(x, currency) \in Nat
    BY <2>2, <2>3
  <2>5. good \notin S /\ IsFiniteSet(S)
    BY <1>12, <2>2
  <2> HIDE DEF good, S
  <2>6. Total(S, currency) \in Nat
        /\ Total(S \union {good}, currency) = Total(S, currency) + Cost(good, currency)
    BY <2>4, <2>5, TotalOfOneMore
  <2>7. Spent(mem, user, currency) = Total(S, currency)
    BY DEF Spent, Total, S
  <2>8. Spent(mem', user, currency) = Total(S \union {good}, currency)
    BY <1>12 DEF Spent, Total, S, good
  <2> QED
    BY <2>1, <2>6, <2>7, <2>8 DEF good
<1>14. \A currency : Earned(mem', user, currency) = Earned(mem, user, currency)
  BY <1>9 DEF Earned
<1> HIDE DEF price, p, q, g, h
<1>15. ASSUME NEW k \in Kinds
       PROVE  LET items == mem'[GoodsFile[k]][user].items
              IN  /\ NewGoods[k] \subseteq items
                  /\ IsFiniteSet(items)
                  /\ items \ NewGoods[k] \subseteq DOMAIN PriceList[k]
                  /\ mem[GoodsFile[k]][user].items \subseteq items
  <2>1. /\ NewGoods[k] \subseteq mem[GoodsFile[k]][user].items
        /\ IsFiniteSet(mem[GoodsFile[k]][user].items)
        /\ mem[GoodsFile[k]][user].items \ NewGoods[k] \subseteq DOMAIN PriceList[k]
    BY <1>3 DEF Settled
  <2>2. CASE k = kind
    <3>1. g.items = mem[GoodsFile[k]][user].items /\ mem'[GoodsFile[k]][user].items = g.items \union {item}
      BY <1>9, <1>10, <2>2 DEF g
    <3>2. IsFiniteSet(g.items \union {item})
      BY <2>1, <3>1, FS_AddElement
    <3> QED
      BY <1>11, <2>1, <2>2, <3>1, <3>2
  <2>3. CASE k # kind
    BY <1>9, <2>1, <2>3
  <2> QED
    BY <2>2, <2>3
<1>16. ASSUME NEW currency \in Currencies
       PROVE  /\ q.money[currency] >= 0
              /\ q.money[currency] + Spent(mem', user, currency) = Earned(mem', user, currency)
  <2>1. /\ p.money[currency] >= 0
        /\ p.money[currency] + Spent(mem, user, currency) = Earned(mem, user, currency)
        /\ p.money[currency] \in Int
    BY <1>3 DEF Settled, ProfileRow, p
  <2>2. p.money[price.currency] >= price.amount
    BY <1>1
  <2>3. price.amount \in Nat
    BY <1>5
  <2>4. CASE currency = price.currency
    BY <1>10, <1>13, <1>14, <2>1, <2>2, <2>3, <2>4
  <2>5. CASE currency # price.currency
    BY <1>10, <1>13, <1>14, <2>1, <2>5
  <2> QED
    BY <2>4, <2>5
<1>17. Settled(mem', user)
  <2>1. \A slot \in Slots : p.emo[slot] \in mem'["UserEmotes"][user].items
    BY <1>3, <1>15, GoodsFiles DEF Settled, p
  <2>2. /\ p.balloon \in mem'["UserBalloon"][user].items
        /\ p.icon \in mem'["UserIcon"][user].items
    BY <1>3, <1>15, GoodsFiles DEF Settled, p
  <2>3. /\ p.exp < 100 * p.level
        /\ 50 * p.level * (p.level - 1) + p.exp
             = 50 * mem["UserWinLossStats"][user].win + 30 * mem["UserWinLossStats"][user].lose
        /\ IsInjective(p.emo)
    BY <1>3 DEF Settled, p
  <2> QED
    BY <1>9, <1>10, <1>15, <1>16, <2>1, <2>2, <2>3 DEF Settled
<1> QED
  BY <1>1, <1>7, <1>8, <1>17, ShoppedIfSettled

\* Other equipment of his own settles a user as well.
LEMMA EquipmentShops ==
  ASSUME Sound(mem), NEW user \in Users, mem["UserProfile"][user] # NoRow,
         NEW q \in ProfileRow, mem' = WithProfile(user, q),
         q.level = Profile(user).level, q.exp = Profile(user).exp,
         q.money = Profile(user).money,
         \A slot \in Slots : q.emo[slot] \in mem["UserEmotes"][user].items,
         IsInjective(q.emo),
         q.balloon \in mem["UserBalloon"][user].items,
         q.icon \in mem["UserIcon"][user].items
  PROVE  Shopped(mem, mem', user)
<1> DEFINE h == mem["UserIcon"][user]
<1>1. mem \in Tables
  BY DEF Sound, Typed
<1>2. Settled(mem, user) /\ h \in GoodsRow
  BY RowsOfUser, GoodsFiles
<1>3. mem' = [mem EXCEPT !["UserProfile"][user] = q, !["UserIcon"][user] = h]
  BY <1>1, GoodsFiles DEF WithProfile, Tables, Table
<1>4. TwoReplaced(mem, mem', "UserProfile", GoodsFile["icon"], user, q, h)
  <2> HIDE DEF h
  <2>1. "UserIcon" \in CsvFiles /\ "UserProfile" \in CsvFiles /\ "UserIcon" # "UserProfile"
    BY GoodsFiles
  <2> DEFINE f1 == "UserProfile"
             f2 == "UserIcon"
             U == [mem EXCEPT ![f1][user] = q, ![f2][user] = h]
  <2>2. f1 \in CsvFiles /\ f2 \in CsvFiles /\ f1 # f2 /\ mem' = U
    BY <1>3, <2>1
  <2>3. TwoReplaced(mem, mem', f1, f2, user, q, h)
    <3> HIDE DEF f1, f2
    <3>1. TwoReplaced(mem, [mem EXCEPT ![f1][user] = q, ![f2][user] = h], f1, f2, user, q, h)
      BY <1>1, <2>2, ReplaceTwo
    <3> QED
      BY <2>2, <3>1
  <2> QED
    BY <2>3, GoodsFiles
<1>5. /\ mem'["UserProfile"][user] = q
      /\ mem'["UserWinLossStats"][user] = mem["UserWinLossStats"][user]
      /\ \A k \in Kinds : mem'[GoodsFile[k]][user] = mem[GoodsFile[k]][user]
      /\ mem'["UserEmotes"][user] = mem["UserEmotes"][user]
      /\ mem'["UserBalloon"][user] = mem["UserBalloon"][user]
      /\ mem'["UserIcon"][user] = mem["UserIcon"][user]
  <2>1. \A f \in CsvFiles : f # "UserProfile" => mem'[f][user] = mem[f][user]
    BY <1>4, GoodsFiles DEF TwoReplaced
  <2> QED
    BY <1>4, <2>1, GoodsFiles DEF TwoReplaced
<1>6. Bought(mem', user) = Bought(mem, user)
  BY <1>5 DEF Bought
<1>7. \A currency : /\ Spent(mem', user, currency) = Spent(mem, user, currency)
                    /\ Earned(mem', user, currency) = Earned(mem, user, currency)
  BY <1>5, <1>6 DEF Spent, Earned
<1>8. Settled(mem', user)
  BY <1>2, <1>5, <1>7 DEF Settled, Profile
<1> QED
  BY <1>2, <1>4, <1>8, GoodsFiles, ShoppedIfSettled

\* A change of balloon.
LEMMA BalloonShops ==
  ASSUME Sound(mem), NEW user \in Users, NEW to \in Items("balloon"), ChangeBalloon(user, to)
  PROVE  Shopped(mem, mem', user)
<1> DEFINE p == Profile(user)
           q == [p EXCEPT !.balloon = to]
<1>1. mem["UserProfile"][user] # NoRow /\ to \in mem["UserBalloon"][user].items
  BY GoodsFiles DEF ChangeBalloon, HasRow, Owns, Goods
<1>2. p \in ProfileRow /\ Settled(mem, user)
  BY <1>1, RowsOfUser DEF Profile
<1>3. to \in Nat
  BY UserStoreAssumption, GoodsFiles DEF Items
<1>4. q \in ProfileRow
  BY <1>2, <1>3 DEF ProfileRow
<1>5. /\ q.level = p.level /\ q.exp = p.exp /\ q.money = p.money /\ q.emo = p.emo
      /\ q.balloon = to /\ q.icon = p.icon
  BY <1>2 DEF ProfileRow
<1>6. mem' = WithProfile(user, q)
  BY DEF ChangeBalloon, Rewrite
<1>7. /\ \A slot \in Slots : p.emo[slot] \in mem["UserEmotes"][user].items
      /\ IsInjective(p.emo)
      /\ p.icon \in mem["UserIcon"][user].items
  BY <1>2 DEF Settled, Profile
<1> HIDE DEF q
<1> QED
  BY <1>1, <1>4, <1>5, <1>6, <1>7, EquipmentShops

\* A change of icon.
LEMMA IconShops ==
  ASSUME Sound(mem), NEW user \in Users, NEW to \in Items("icon"), ChangeIcon(user, to)
  PROVE  Shopped(mem, mem', user)
<1> DEFINE p == Profile(user)
           q == [p EXCEPT !.icon = to]
<1>1. mem["UserProfile"][user] # NoRow /\ to \in mem["UserIcon"][user].items
  BY GoodsFiles DEF ChangeIcon, HasRow, Owns, Goods
<1>2. p \in ProfileRow /\ Settled(mem, user)
  BY <1>1, RowsOfUser DEF Profile
<1>3. to \in Nat
  BY UserStoreAssumption, GoodsFiles DEF Items
<1>4. q \in ProfileRow
  BY <1>2, <1>3 DEF ProfileRow
<1>5. /\ q.level = p.level /\ q.exp = p.exp /\ q.money = p.money /\ q.emo = p.emo
      /\ q.balloon = p.balloon /\ q.icon = to
  BY <1>2 DEF ProfileRow
<1>6. mem' = WithProfile(user, q)
  BY DEF ChangeIcon, Rewrite
<1>7. /\ \A slot \in Slots : p.emo[slot] \in mem["UserEmotes"][user].items
      /\ IsInjective(p.emo)
      /\ p.balloon \in mem["UserBalloon"][user].items
  BY <1>2 DEF Settled, Profile
<1> HIDE DEF q
<1> QED
  BY <1>1, <1>4, <1>5, <1>6, <1>7, EquipmentShops

\* An emote is in one slot at most, so the last slot found is the one.
LEMMA TheSlot ==
  ASSUME NEW user, Profile(user) \in ProfileRow, IsInjective(Profile(user).emo),
         NEW emote, SlotsOf(user, emote) # {}
  PROVE  /\ Max(SlotsOf(user, emote)) \in Slots
         /\ Profile(user).emo[Max(SlotsOf(user, emote))] = emote
<1>1. PICK slot \in SlotsOf(user, emote) : TRUE
  OBVIOUS
<1>2. Profile(user).emo \in [Slots -> Nat]
  BY DEF ProfileRow
<1>3. \A other \in SlotsOf(user, emote) : other = slot
  BY <1>2 DEF SlotsOf, IsInjective
<1>4. slot \in Nat
  BY DEF SlotsOf, Slots
<1>5. SlotsOf(user, emote) = {slot}
  BY <1>3
<1>6. Max({slot}) = slot
  <2>1. slot \in {slot} /\ \A y \in {slot} : slot >= y
    BY <1>4
  <2>2. Max({slot}) \in {slot}
    BY <2>1 DEF Max
  <2> QED
    BY <2>2
<1> QED
  BY <1>5, <1>6 DEF SlotsOf

\* A change of emotes: one that is shown already gives up its slot.
LEMMA EmoteShops ==
  ASSUME Sound(mem), NEW user \in Users, NEW b \in Items("emote"), NEW a,
         ChangeEmote(user, a, b)
  PROVE  Shopped(mem, mem', user)
<1> DEFINE p == Profile(user)
           at == Max(SlotsOf(user, a))
           bt == Max(SlotsOf(user, b))
           new == IF SlotsOf(user, b) = {} THEN [p.emo EXCEPT ![at] = b]
                  ELSE [p.emo EXCEPT ![at] = b, ![bt] = a]
           q == [p EXCEPT !.emo = new]
<1>1. /\ mem["UserProfile"][user] # NoRow /\ b \in mem["UserEmotes"][user].items
      /\ a # b /\ SlotsOf(user, a) # {}
  BY GoodsFiles DEF ChangeEmote, HasRow, Owns, Goods
<1>2. p \in ProfileRow /\ Settled(mem, user)
  BY <1>1, RowsOfUser DEF Profile
<1>3. b \in Nat
  BY UserStoreAssumption, GoodsFiles DEF Items
<1>4. p.emo \in [Slots -> Nat]
  BY <1>2 DEF ProfileRow
<1>5. /\ \A slot \in Slots : p.emo[slot] \in mem["UserEmotes"][user].items
      /\ IsInjective(p.emo)
      /\ p.balloon \in mem["UserBalloon"][user].items
      /\ p.icon \in mem["UserIcon"][user].items
  BY <1>2 DEF Settled, Profile
<1>6. at \in Slots /\ p.emo[at] = a
  BY <1>1, <1>2, <1>5, TheSlot
<1>7. SlotsOf(user, b) # {} => bt \in Slots /\ p.emo[bt] = b
  BY <1>2, <1>5, TheSlot
<1>8. SlotsOf(user, b) = {} => \A slot \in Slots : p.emo[slot] # b
  BY DEF SlotsOf
<1>9. new \in [Slots -> Nat]
  <2> HIDE DEF at, bt
  <2> QED
    BY <1>3, <1>4, <1>6
<1>10. /\ \A slot \in Slots : new[slot] \in mem["UserEmotes"][user].items
       /\ IsInjective(new)
  <2> DEFINE e == p.emo
  <2>1. /\ e \in [Slots -> Nat] /\ at \in Slots /\ e[at] = a
        /\ \A slot, other \in Slots : e[slot] = e[other] => slot = other
        /\ \A slot \in Slots : e[slot] \in mem["UserEmotes"][user].items
    BY <1>4, <1>5, <1>6 DEF IsInjective
  <2> HIDE DEF at, bt, e
  <2>2. CASE SlotsOf(user, b) = {}
    <3>1. new = [e EXCEPT ![at] = b]
      BY <2>2 DEF e
    <3>2. \A slot \in Slots : e[slot] # b
      BY <1>8, <2>2 DEF e
    <3> HIDE DEF new
    <3> QED
      BY <1>1, <2>1, <3>1, <3>2 DEF IsInjective
  <2>3. CASE SlotsOf(user, b) # {}
    <3>1. new = [e EXCEPT ![at] = b, ![bt] = a]
      BY <2>3 DEF e
    <3>2. bt \in Slots /\ e[bt] = b
      BY <1>7, <2>3 DEF e
    <3> HIDE DEF new
    <3> QED
      BY <1>1, <2>1, <3>1, <3>2 DEF IsInjective
  <2> QED
    BY <2>2, <2>3
<1>11. mem' = WithProfile(user, q)
  BY DEF ChangeEmote, Rewrite
<1> HIDE DEF new
<1>12. q \in ProfileRow
  BY <1>2, <1>9 DEF ProfileRow
<1>13. /\ q.level = p.level /\ q.exp = p.exp /\ q.money = p.money /\ q.emo = new
       /\ q.balloon = p.balloon /\ q.icon = p.icon
  BY <1>2 DEF ProfileRow
<1> HIDE DEF q
<1> QED
  BY <1>1, <1>5, <1>10, <1>11, <1>12, <1>13, EquipmentShops

-----------------------------------------------------------------------------
(* New accounts *)

\* The rows of a new account, file by file.
LEMMA NewRows ==
  ASSUME NEW nickname
  PROVE  /\ NewRow("UsersAccount", nickname) = NewAccount(nickname)
         /\ NewRow("UserProfile", nickname) = NewProfile
         /\ NewRow("UserWinLossStats", nickname) = NewStats
         /\ \A kind \in Kinds : NewRow(GoodsFile[kind], nickname) = [items |-> NewGoods[kind]]
<1>1. ASSUME NEW kind \in Kinds
      PROVE  NewRow(GoodsFile[kind], nickname) = [items |-> NewGoods[kind]]
  <2>1. (CHOOSE k \in Kinds : GoodsFile[k] = GoodsFile[kind]) = kind
    BY GoodsFiles
  <2>2. NewRow(GoodsFile[kind], nickname)
          = [items |-> NewGoods[CHOOSE k \in Kinds : GoodsFile[k] = GoodsFile[kind]]]
    BY GoodsFiles DEF NewRow
  <2> QED
    BY <2>1, <2>2
<1> QED
  BY <1>1 DEF NewRow

\* Their kinds.
LEMMA NewRowTypes ==
  /\ \A nickname \in Nicknames : NewAccount(nickname) \in AccountRow
  /\ \A money \in [Currencies -> Nat] : [NewProfile EXCEPT !.money = money] \in ProfileRow
  /\ NewProfile \in ProfileRow
  /\ NewStats \in StatsRow
  /\ \A kind \in Kinds : [items |-> NewGoods[kind]] \in GoodsRow
<1>1. \A nickname \in Nicknames : NewAccount(nickname) \in AccountRow
  BY DEF NewAccount, AccountRow
<1>2. [slot \in Slots |-> slot] \in [Slots -> Nat]
  BY DEF Slots
<1>3. NewProfile \in ProfileRow
  BY <1>2 DEF NewProfile, ProfileRow
<1>4. ASSUME NEW money \in [Currencies -> Nat]
      PROVE  [NewProfile EXCEPT !.money = money] \in ProfileRow
  <2>1. money \in [Currencies -> Int]
    OBVIOUS
  <2> QED
    BY <1>3, <2>1 DEF ProfileRow
<1>5. NewStats \in StatsRow
  BY DEF NewStats, StatsRow
<1>6. ASSUME NEW kind \in Kinds PROVE [items |-> NewGoods[kind]] \in GoodsRow
  <2>1. NewGoods[kind] \in SUBSET Nat
    BY DEF NewGoods, Kinds
  <2> QED
    BY <2>1 DEF GoodsRow
<1> QED
  BY <1>1, <1>3, <1>4, <1>5, <1>6

\* A user has the rows of a new account, and some money.
IsNew(T, user, nickname, money) ==
  /\ T["UsersAccount"][user] = NewAccount(nickname)
  /\ T["UserProfile"][user] = [NewProfile EXCEPT !.money = money]
  /\ T["UserWinLossStats"][user] = NewStats
  /\ \A kind \in Kinds : T[GoodsFile[kind]][user] = [items |-> NewGoods[kind]]

\* The money of an account at its start.
FirstMoney(user) ==
  [currency \in Currencies |-> IF user \in DOMAIN Accounts THEN StartMoney[currency] ELSE 0]

\* A new account is settled.
LEMMA NewAccountSettled ==
  ASSUME NEW T, NEW user, NEW nickname, IsNew(T, user, nickname, FirstMoney(user))
  PROVE  Settled(T, user)
<1> DEFINE money == FirstMoney(user)
           p == T["UserProfile"][user]
<1>1. money \in [Currencies -> Nat]
  BY UserStoreAssumption DEF FirstMoney
<1>2. /\ p.level = 1 /\ p.exp = 0 /\ p.money = money
      /\ p.emo = [slot \in Slots |-> slot] /\ p.balloon = 0 /\ p.icon = 0
  <2>1. p = [NewProfile EXCEPT !.money = money]
    BY DEF IsNew
  <2> HIDE DEF money, p
  <2> QED
    BY <2>1 DEF NewProfile
<1>3. ASSUME NEW kind \in Kinds PROVE T[GoodsFile[kind]][user].items = NewGoods[kind]
  <2>1. T[GoodsFile[kind]][user] = [items |-> NewGoods[kind]]
    BY DEF IsNew
  <2> QED
    BY <2>1
<1>4. \A kind \in Kinds : IsFiniteSet(NewGoods[kind])
  <2>1. IsFiniteSet({0})
    BY FS_Singleton
  <2>2. IsFiniteSet(0 .. 3)
    <3>1. 0 \in Int /\ 3 \in Int
      OBVIOUS
    <3> QED
      BY <3>1, FS_Interval
  <2> QED
    BY <2>1, <2>2 DEF Kinds, NewGoods
<1>5. Bought(T, user) = {}
  BY <1>3 DEF Bought
<1>6. ASSUME NEW currency PROVE Spent(T, user, currency) = 0
  <2>1. Total({}, currency) = 0
    BY TotalOfNothing
  <2> QED
    BY <1>5, <2>1 DEF Spent, Total
<1>7. T["UserWinLossStats"][user].win = 0 /\ T["UserWinLossStats"][user].lose = 0
  BY DEF NewStats, IsNew
<1>8. ASSUME NEW currency \in Currencies PROVE Earned(T, user, currency) = money[currency]
  <2>1. StartMoney[currency] \in Nat
    BY UserStoreAssumption
  <2> QED
    BY <1>7, <2>1 DEF Earned, FirstMoney
<1>9. /\ T["UserEmotes"][user].items = 0..3
      /\ T["UserBalloon"][user].items = {0}
      /\ T["UserIcon"][user].items = {0}
  BY <1>3, GoodsFiles DEF NewGoods
<1> HIDE DEF money, p
<1>10. ASSUME NEW currency \in Currencies
       PROVE  /\ p.money[currency] >= 0
              /\ p.money[currency] + Spent(T, user, currency) = Earned(T, user, currency)
  BY <1>1, <1>2, <1>6, <1>8
<1>11. /\ p.exp < 100 * p.level
       /\ 50 * p.level * (p.level - 1) + p.exp
            = 50 * T["UserWinLossStats"][user].win + 30 * T["UserWinLossStats"][user].lose
  BY <1>2, <1>7
<1>12. /\ \A slot \in Slots : p.emo[slot] \in T["UserEmotes"][user].items
       /\ IsInjective(p.emo)
       /\ p.balloon \in T["UserBalloon"][user].items
       /\ p.icon \in T["UserIcon"][user].items
  BY <1>2, <1>9 DEF Slots, IsInjective
<1>13. \A kind \in Kinds : T[GoodsFile[kind]][user].items \ NewGoods[kind] = {}
  BY <1>3
<1> QED
  BY <1>3, <1>4, <1>10, <1>11, <1>12, <1>13 DEF Settled, p

\* Rows in which the users of A, and nobody else, have new accounts are sound.
FreshAccounts(T, A) ==
  /\ T = [file \in CsvFiles |-> [user \in Users |-> T[file][user]]]
  /\ \A file \in CsvFiles, user \in Users : user \notin A => T[file][user] = NoRow
  /\ \A user \in A : IsNew(T, user, Accounts[user], StartMoney)

\* The rows the server is installed with are new accounts.
LEMMA FreshAtStart ==
  FreshAccounts([file \in CsvFiles |-> [user \in Users |-> StartRow(file, user)]],
                DOMAIN Accounts)
<1> DEFINE A == DOMAIN Accounts
           T == [file \in CsvFiles |-> [user \in Users |-> StartRow(file, user)]]
<1>1. \A user \in A : user \in Users
  BY UserStoreAssumption
<1>2. \A file \in CsvFiles : \A user \in Users : T[file][user] = StartRow(file, user)
  OBVIOUS
<1>3. T = [file \in CsvFiles |-> [user \in Users |-> T[file][user]]]
  OBVIOUS
<1> HIDE DEF T
<1>4. \A file \in CsvFiles : \A user \in Users : user \notin A => T[file][user] = NoRow
  BY <1>2 DEF StartRow
<1>5. ASSUME NEW user \in A PROVE IsNew(T, user, Accounts[user], StartMoney)
  <2>1. \A file \in CsvFiles :
           T[file][user] = IF file = "UserProfile" THEN [NewProfile EXCEPT !.money = StartMoney]
                           ELSE NewRow(file, Accounts[user])
    BY <1>1, <1>2 DEF StartRow
  <2>2. T["UserProfile"][user] = [NewProfile EXCEPT !.money = StartMoney]
    BY <2>1, GoodsFiles
  <2>3. T["UsersAccount"][user] = NewAccount(Accounts[user])
    BY <2>1, GoodsFiles, NewRows
  <2>4. T["UserWinLossStats"][user] = NewStats
    BY <2>1, GoodsFiles, NewRows
  <2>5. ASSUME NEW kind \in Kinds PROVE T[GoodsFile[kind]][user] = [items |-> NewGoods[kind]]
    BY <2>1, GoodsFiles, NewRows
  <2> QED
    BY <2>2, <2>3, <2>4, <2>5 DEF IsNew
<1> QED
  BY <1>3, <1>4, <1>5 DEF FreshAccounts, T

\* They are sound.
LEMMA SoundAtStart ==
  ASSUME NEW T, FreshAccounts(T, DOMAIN Accounts)
  PROVE  Sound(T)
<1> DEFINE A == DOMAIN Accounts
<1>1. \A user \in A : user \in Users /\ Accounts[user] \in Nicknames
  BY UserStoreAssumption
<1>3. \A file \in CsvFiles : \A user \in Users : user \notin A => T[file][user] = NoRow
  BY DEF FreshAccounts
<1>4. ASSUME NEW user \in A PROVE IsNew(T, user, Accounts[user], StartMoney)
  BY DEF FreshAccounts
<1>5. ASSUME NEW user \in A
      PROVE  /\ T["UsersAccount"][user] \in AccountRow
             /\ T["UserProfile"][user] \in ProfileRow
             /\ T["UserWinLossStats"][user] \in StatsRow
             /\ \A kind \in Kinds : T[GoodsFile[kind]][user] \in GoodsRow
  <2>1. Accounts[user] \in Nicknames /\ StartMoney \in [Currencies -> Nat]
    BY <1>1, UserStoreAssumption
  <2> QED
    BY <1>4, <2>1, NewRowTypes DEF IsNew
<1> HIDE DEF A
<1>6. ASSUME NEW file \in CsvFiles, NEW user \in Users
      PROVE  T[file][user] \in AnyRow /\ (T[file][user] # NoRow <=> user \in A)
  <2>1. CASE user \notin A
    BY <1>3, <2>1 DEF AnyRow
  <2>2. CASE user \in A
    <3>1. T[file][user] \in AccountRow \union ProfileRow \union StatsRow \union GoodsRow
      BY <1>5, <2>2, GoodsFiles
    <3> QED
      BY <2>2, <3>1, UserStoreAssumption DEF AnyRow
  <2> QED
    BY <2>1, <2>2
<1>7. Registered(T) = A
  BY <1>1, <1>6, GoodsFiles DEF Registered
<1>8. Typed(T)
  <2>1. T \in Tables
    <3>1. T = [file \in CsvFiles |-> [user \in Users |-> T[file][user]]]
      BY DEF FreshAccounts
    <3>2. \A file \in CsvFiles : [user \in Users |-> T[file][user]] \in Table
      BY <1>6 DEF Table, AnyRow
    <3> QED
      BY <3>1, <3>2 DEF Tables
  <2>2. ASSUME NEW user \in Users
        PROVE  /\ T["UsersAccount"][user] \in AccountRow \union {NoRow}
               /\ T["UserProfile"][user] \in ProfileRow \union {NoRow}
               /\ T["UserWinLossStats"][user] \in StatsRow \union {NoRow}
               /\ \A kind \in Kinds : T[GoodsFile[kind]][user] \in GoodsRow \union {NoRow}
    BY <1>3, <1>5, GoodsFiles
  <2> QED
    BY <2>1, <2>2 DEF Typed
<1>9. Complete(T) /\ Installed(T)
  BY <1>6, <1>7 DEF Complete, Installed, A
<1>10. NicknamesDiffer(T)
  <2>1. ASSUME NEW user \in A PROVE T["UsersAccount"][user].nickname = Accounts[user]
    <3>1. T["UsersAccount"][user] = [nickname |-> Accounts[user]]
      BY <1>4 DEF NewAccount, IsNew
    <3> QED
      BY <3>1
  <2>2. \A user, other \in A : Accounts[user] = Accounts[other] => user = other
    BY UserStoreAssumption DEF IsInjective, A
  <2> QED
    BY <1>7, <2>1, <2>2 DEF NicknamesDiffer
<1>11. Matched(T)
  <2>1. ASSUME NEW user \in Users PROVE PlayedSoFar(T, user) = 0
    <3>1. CASE user \in A
      <4>1. T["UserWinLossStats"][user].win = 0 /\ T["UserWinLossStats"][user].lose = 0
        BY <1>4, <3>1 DEF IsNew, NewStats
      <4> QED
        BY <1>7, <3>1, <4>1 DEF PlayedSoFar, Played
    <3>2. CASE user \notin A
      BY <1>7, <3>2 DEF PlayedSoFar
    <3> QED
      BY <3>1, <3>2
  <2> QED
    BY <2>1 DEF Matched
<1>12. ASSUME NEW user \in Registered(T) PROVE Settled(T, user)
  <2>1. user \in A
    BY <1>7
  <2>2. StartMoney = FirstMoney(user)
    BY <2>1, UserStoreAssumption DEF FirstMoney, A
  <2>3. IsNew(T, user, Accounts[user], FirstMoney(user))
    BY <1>4, <2>1, <2>2
  <2> QED
    BY <2>3, NewAccountSettled
<1> QED
  BY <1>8, <1>9, <1>10, <1>11, <1>12, SoundByUser

\* What a registration does to the rows: one user more.
Joined(T, U, user, nickname) ==
  /\ U = [file \in CsvFiles |-> [u \in Users |-> U[file][u]]]
  /\ \A file \in CsvFiles : U[file][user] = NewRow(file, nickname)
  /\ \A file \in CsvFiles : \A u \in Users : u # user => U[file][u] = T[file][u]

\* A new account with a nickname of its own keeps the rows sound.
LEMMA SoundAfterJoining ==
  ASSUME NEW T, NEW U, NEW user \in Users, NEW nickname \in Nicknames, Sound(T),
         user \notin Registered(T),
         \A other \in Registered(T) : T["UsersAccount"][other].nickname # nickname,
         Joined(T, U, user, nickname)
  PROVE  Sound(U)
<1>1. Typed(T) /\ Complete(T) /\ NicknamesDiffer(T) /\ Matched(T) /\ Installed(T)
      /\ \A other \in Registered(T) : Settled(T, other)
  BY SoundByUser
<1>2. user \notin DOMAIN Accounts
  BY <1>1 DEF Installed
<1>3. IsNew(U, user, nickname, FirstMoney(user))
  <2>1. FirstMoney(user) = [currency \in Currencies |-> 0]
    BY <1>2 DEF FirstMoney
  <2>2. [NewProfile EXCEPT !.money = FirstMoney(user)] = NewProfile
    BY <2>1 DEF NewProfile
  <2>3. /\ U["UsersAccount"][user] = NewAccount(nickname)
        /\ U["UserProfile"][user] = NewProfile
        /\ U["UserWinLossStats"][user] = NewStats
    BY GoodsFiles, NewRows DEF Joined
  <2>4. ASSUME NEW kind \in Kinds PROVE U[GoodsFile[kind]][user] = [items |-> NewGoods[kind]]
    <3>1. U[GoodsFile[kind]][user] = NewRow(GoodsFile[kind], nickname)
      BY GoodsFiles DEF Joined
    <3> QED
      BY <3>1, NewRows
  <2> QED
    BY <2>2, <2>3, <2>4 DEF IsNew
<1>4. /\ U["UsersAccount"][user] \in AccountRow
      /\ U["UserProfile"][user] \in ProfileRow
      /\ U["UserWinLossStats"][user] \in StatsRow
      /\ \A kind \in Kinds : U[GoodsFile[kind]][user] \in GoodsRow
  <2>1. FirstMoney(user) \in [Currencies -> Nat]
    BY UserStoreAssumption DEF FirstMoney
  <2> QED
    BY <1>3, <2>1, NewRowTypes DEF IsNew
<1>5. \A file \in CsvFiles : U[file][user] \in AnyRow /\ U[file][user] # NoRow
  <2>1. \A file \in CsvFiles :
          U[file][user] \in AccountRow \union ProfileRow \union StatsRow \union GoodsRow
    BY <1>4, GoodsFiles
  <2> QED
    BY <2>1, UserStoreAssumption DEF AnyRow
<1>6. \A file \in CsvFiles : \A other \in Users : other # user => U[file][other] = T[file][other]
  BY DEF Joined
<1>7. Registered(U) = Registered(T) \union {user}
  BY <1>5, <1>6, GoodsFiles DEF Registered
<1>8. Typed(U)
  <2>1. U \in Tables
    <3>1. \A file \in CsvFiles : \A other \in Users : T[file][other] \in AnyRow
      BY <1>1 DEF Typed, Tables, Table, AnyRow
    <3>2. \A file \in CsvFiles : [other \in Users |-> U[file][other]] \in Table
      BY <1>5, <1>6, <3>1 DEF Table, AnyRow
    <3>3. U = [file \in CsvFiles |-> [other \in Users |-> U[file][other]]]
      BY DEF Joined
    <3> QED
      BY <3>2, <3>3 DEF Tables
  <2>2. ASSUME NEW other \in Users
        PROVE  /\ U["UsersAccount"][other] \in AccountRow \union {NoRow}
               /\ U["UserProfile"][other] \in ProfileRow \union {NoRow}
               /\ U["UserWinLossStats"][other] \in StatsRow \union {NoRow}
               /\ \A kind \in Kinds : U[GoodsFile[kind]][other] \in GoodsRow \union {NoRow}
    <3>1. CASE other = user
      BY <1>4, <3>1
    <3>2. CASE other # user
      BY <1>1, <1>6, <3>2, GoodsFiles DEF Typed
    <3> QED
      BY <3>1, <3>2
  <2> QED
    BY <2>1, <2>2 DEF Typed
<1>9. Complete(U)
  <2>1. ASSUME NEW other \in Users, NEW file \in CsvFiles
        PROVE  U[file][other] # NoRow <=> other \in Registered(U)
    BY <1>1, <1>5, <1>6, <1>7 DEF Complete
  <2> QED
    BY <2>1 DEF Complete
<1>10. Installed(U)
  BY <1>1, <1>7 DEF Installed
<1>11. NicknamesDiffer(U)
  <2>1. U["UsersAccount"][user].nickname = nickname
    BY <1>3 DEF IsNew, NewAccount
  <2>2. ASSUME NEW other \in Registered(T)
        PROVE  /\ U["UsersAccount"][other] = T["UsersAccount"][other]
               /\ U["UsersAccount"][other].nickname # nickname
    BY <1>6, GoodsFiles DEF Registered
  <2> QED
    BY <1>1, <1>7, <2>1, <2>2 DEF NicknamesDiffer
<1>12. Matched(U)
  <2>1. ASSUME NEW other \in Users PROVE PlayedSoFar(U, other) = PlayedSoFar(T, other)
    <3>1. CASE other = user
      <4>1. U["UserWinLossStats"][user].win = 0 /\ U["UserWinLossStats"][user].lose = 0
        BY <1>3 DEF IsNew, NewStats
      <4> QED
        BY <1>7, <3>1, <4>1 DEF PlayedSoFar, Played
    <3>2. CASE other # user
      <4>1. U["UserWinLossStats"][other] = T["UserWinLossStats"][other]
        BY <1>6, <3>2, GoodsFiles
      <4> QED
        BY <1>7, <3>2, <4>1 DEF PlayedSoFar, Played
    <3> QED
      BY <3>1, <3>2
  <2> QED
    BY <1>1, <2>1 DEF Matched
<1>13. ASSUME NEW other \in Registered(U) PROVE Settled(U, other)
  <2>1. CASE other = user
    BY <1>3, <2>1, NewAccountSettled
  <2>2. CASE other # user
    <3>1. other \in Registered(T) /\ other \in Users
      BY <1>7, <2>2 DEF Registered
    <3>2. Settled(T, other)
      BY <1>1, <3>1
    <3>3. \A file \in CsvFiles : U[file][other] = T[file][other]
      BY <1>6, <2>2, <3>1
    <3> QED
      BY <3>2, <3>3, SettledStays
  <2> QED
    BY <2>1, <2>2
<1> QED
  BY <1>8, <1>9, <1>10, <1>11, <1>12, <1>13, SoundByUser

\* Register finds id and nickname free.
LEMMA RegisterSound ==
  ASSUME Sound(mem), NEW user \in Users, NEW nickname \in Nicknames, Register(user, nickname)
  PROVE  Sound(mem')
<1>1. user \notin Registered(mem)
  BY DEF Register, Fresh, HasRow, Registered
<1>2. \A other \in Registered(mem) : mem["UsersAccount"][other].nickname # nickname
  BY DEF Register, Fresh, HasRow, Registered
<1>3. Joined(mem, mem', user, nickname)
  <2>1. mem \in Tables
    BY DEF Sound, Typed
  <2>2. mem' = [file \in CsvFiles |-> [mem[file] EXCEPT ![user] = NewRow(file, nickname)]]
    BY DEF Register
  <2>3. ASSUME NEW file \in CsvFiles
        PROVE  /\ mem'[file] = [u \in Users |-> mem'[file][u]]
               /\ mem'[file][user] = NewRow(file, nickname)
               /\ \A u \in Users : u # user => mem'[file][u] = mem[file][u]
    BY <2>1, <2>2 DEF Tables, Table
  <2>4. mem' = [file \in CsvFiles |-> mem'[file]]
    BY <2>2
  <2> QED
    BY <2>3, <2>4 DEF Joined
<1> QED
  BY <1>1, <1>2, <1>3, SoundAfterJoining

-----------------------------------------------------------------------------
(* Match rewards *)

\* The points of a match.
Gain(won) == IF won THEN 50 ELSE 30

\* What a reward makes of the points: at most one level is climbed.
Paid(p, q, won) ==
  /\ q \in ProfileRow
  /\ q.exp < 100 * q.level
  /\ 50 * q.level * (q.level - 1) + q.exp = 50 * p.level * (p.level - 1) + p.exp + Gain(won)
  /\ q.money["COIN"] = p.money["COIN"] + (IF won THEN 500 ELSE 200)
  /\ q.money["CASH"] = p.money["CASH"] + (IF won THEN 5 ELSE 0)
  /\ q.emo = p.emo /\ q.balloon = p.balloon /\ q.icon = p.icon

\* Climb stops where the points are short of the next level.
LEMMA ClimbToNext ==
  ASSUME NEW level \in Nat, NEW exp \in Nat, exp < 100 * level + 100
  PROVE  LET r == Climb[[level |-> level, exp |-> exp]]
         IN  /\ r \in Progress
             /\ r.exp < 100 * r.level
             /\ 50 * r.level * (r.level - 1) + r.exp = 50 * level * (level - 1) + exp
<1> DEFINE at == [level |-> level, exp |-> exp]
           up == [level |-> level + 1, exp |-> exp - level * 100]
<1>1. at \in Progress /\ at.level = level /\ at.exp = exp
  BY DEF Progress
<1>2. CASE exp < level * 100
  <2>1. ~Suffices(at.level, at.exp)
    BY <1>1, <1>2 DEF Suffices
  <2>2. Climb[at] = at
    BY <1>1, <2>1, ClimbEquation
  <2> HIDE DEF at
  <2>3. at.exp < 100 * at.level
    BY <1>1, <1>2
  <2> QED
    BY <1>1, <2>2, <2>3 DEF at
<1>3. CASE exp >= level * 100
  <2>1. Suffices(at.level, at.exp)
    BY <1>1, <1>3 DEF Suffices
  <2>2. LevelUp(at) = up
    BY <1>1 DEF LevelUp
  <2>3. up \in Progress /\ up.level = level + 1 /\ up.exp = exp - level * 100
    BY <1>3 DEF Progress
  <2>4. Climb[at] = Climb[up]
    BY <1>1, <2>1, <2>2, ClimbEquation
  <2>5. ~Suffices(up.level, up.exp)
    BY <2>3 DEF Suffices
  <2>6. Climb[up] = up
    BY <2>3, <2>5, ClimbEquation
  <2>7. Climb[at] = up
    BY <2>4, <2>6
  <2> HIDE DEF up
  <2>8. up.exp < 100 * up.level
    BY <2>3
  <2>9. 50 * (level + 1) * ((level + 1) - 1) + (exp - level * 100) = 50 * level * (level - 1) + exp
    OBVIOUS
  <2>10. 50 * up.level * (up.level - 1) + up.exp = 50 * level * (level - 1) + exp
    BY <2>3, <2>9
  <2> QED
    BY <2>3, <2>7, <2>8, <2>10
<1> QED
  BY <1>2, <1>3

\* The reward of one member.
LEMMA RewardedIsPaid ==
  ASSUME NEW p \in ProfileRow, p.exp < 100 * p.level, NEW won \in BOOLEAN
  PROVE  Paid(p, Rewarded(p, won), won)
<1> DEFINE at == [level |-> p.level, exp |-> p.exp + (IF won THEN 50 ELSE 30)]
           r == Climb[at]
           q == Rewarded(p, won)
<1>1. /\ p.level \in Nat /\ p.exp \in Nat /\ p.money \in [Currencies -> Int]
      /\ p.emo \in [Slots -> Nat] /\ p.balloon \in Nat /\ p.icon \in Nat
  BY DEF ProfileRow
<1>2. p.exp + Gain(won) \in Nat /\ p.exp + Gain(won) < 100 * p.level + 100
  BY <1>1 DEF Gain
<1>3. /\ r \in Progress
      /\ r.exp < 100 * r.level
      /\ 50 * r.level * (r.level - 1) + r.exp = 50 * p.level * (p.level - 1) + (p.exp + Gain(won))
  <2> DEFINE e == p.exp + Gain(won)
             l == p.level
  <2>1. e \in Nat /\ l \in Nat /\ e < 100 * l + 100
    BY <1>1, <1>2
  <2> HIDE DEF e, l
  <2>2. LET s == Climb[[level |-> l, exp |-> e]]
        IN  /\ s \in Progress
            /\ s.exp < 100 * s.level
            /\ 50 * s.level * (s.level - 1) + s.exp = 50 * l * (l - 1) + e
    BY <2>1, ClimbToNext
  <2> QED
    BY <2>2 DEF e, l, Gain
<1>4. q = [p EXCEPT !.level = r.level, !.exp = r.exp,
                    !.money["COIN"] = @ + (IF won THEN 500 ELSE 200),
                    !.money["CASH"] = @ + (IF won THEN 5 ELSE 0)]
  BY DEF Rewarded
<1> HIDE DEF r, q
<1>5. r.level \in Nat /\ r.exp \in Nat
  BY <1>3 DEF Progress
<1>6. /\ q.level = r.level /\ q.exp = r.exp
      /\ q.emo = p.emo /\ q.balloon = p.balloon /\ q.icon = p.icon
  BY <1>4 DEF ProfileRow
<1>7. q.money = [p.money EXCEPT !["COIN"] = @ + (IF won THEN 500 ELSE 200),
                                !["CASH"] = @ + (IF won THEN 5 ELSE 0)]
  BY <1>4 DEF ProfileRow
<1>8. /\ q.money["COIN"] = p.money["COIN"] + (IF won THEN 500 ELSE 200)
      /\ q.money["CASH"] = p.money["CASH"] + (IF won THEN 5 ELSE 0)
      /\ q.money \in [Currencies -> Int]
  BY <1>1, <1>7 DEF Currencies
<1>9. q \in ProfileRow
  <2>1. q = [level |-> r.level, exp |-> r.exp, money |-> q.money,
             emo |-> p.emo, balloon |-> p.balloon, icon |-> p.icon]
    BY <1>4 DEF ProfileRow
  <2> QED
    BY <1>1, <1>5, <1>8, <2>1 DEF ProfileRow
<1>10. p.exp \in Nat /\ Gain(won) \in Nat
  BY <1>1 DEF Gain
<1>11. 50 * q.level * (q.level - 1) + q.exp = 50 * p.level * (p.level - 1) + p.exp + Gain(won)
  BY <1>1, <1>3, <1>6, <1>10
<1> QED
  BY <1>3, <1>6, <1>8, <1>9, <1>11 DEF Paid, q

\* One match more.
Counted(s, t, won) ==
  /\ t \in StatsRow
  /\ t.win = s.win + (IF won THEN 1 ELSE 0)
  /\ t.lose = s.lose + (IF won THEN 0 ELSE 1)

\* The statistics of one member.
LEMMA UpdateCounts ==
  ASSUME NEW s \in StatsRow, NEW won \in BOOLEAN
  PROVE  Counted(s, UpdateWinLoss(s, won), won)
<1>1. s.win \in Nat /\ s.lose \in Nat /\ s = [win |-> s.win, lose |-> s.lose]
  BY DEF StatsRow
<1>2. UpdateWinLoss(s, won) = [win  |-> s.win + (IF won THEN 1 ELSE 0),
                               lose |-> s.lose + (IF won THEN 0 ELSE 1)]
  BY <1>1 DEF UpdateWinLoss
<1> QED
  BY <1>1, <1>2 DEF Counted, StatsRow

\* What a reward does to the rows of a member.
PaidRows(T, U, user, won) ==
  /\ Paid(T["UserProfile"][user], U["UserProfile"][user], won)
  /\ Counted(T["UserWinLossStats"][user], U["UserWinLossStats"][user], won)

\* And to all rows.
MatchPaid(T, U, members, winners) ==
  /\ U = [file \in CsvFiles |-> [user \in Users |-> U[file][user]]]
  /\ \A file \in CsvFiles : \A user \in Users :
       file \notin RewardFiles \/ user \notin members => U[file][user] = T[file][user]
  /\ \A user \in members : PaidRows(T, U, user, user \in winners)

\* Points, statistics and money of a member still add up.
LEMMA PaidIsSettled ==
  ASSUME NEW T, NEW U, NEW user, NEW won \in BOOLEAN, Settled(T, user),
         T["UserProfile"][user] \in ProfileRow, T["UserWinLossStats"][user] \in StatsRow,
         \A kind \in Kinds : U[GoodsFile[kind]][user] = T[GoodsFile[kind]][user],
         PaidRows(T, U, user, won)
  PROVE  Settled(U, user)
<1> DEFINE p == T["UserProfile"][user]
           q == U["UserProfile"][user]
           s == T["UserWinLossStats"][user]
           t == U["UserWinLossStats"][user]
<1>1. Paid(p, q, won) /\ Counted(s, t, won)
  BY DEF PaidRows
<1>2. Bought(U, user) = Bought(T, user)
  BY DEF Bought
<1>3. \A currency : Spent(U, user, currency) = Spent(T, user, currency)
  BY <1>2 DEF Spent
<1>4. s.win \in Nat /\ s.lose \in Nat /\ p.money \in [Currencies -> Int] /\ p.exp \in Nat
      /\ p.level \in Nat
  BY DEF StatsRow, ProfileRow
<1>5. /\ t.win = s.win + (IF won THEN 1 ELSE 0)
      /\ t.lose = s.lose + (IF won THEN 0 ELSE 1)
  BY <1>1 DEF Counted
<1>6. ASSUME NEW currency \in Currencies
      PROVE  q.money[currency] - p.money[currency]
               = Earned(U, user, currency) - Earned(T, user, currency)
             /\ q.money[currency] >= p.money[currency]
             /\ q.money[currency] \in Int /\ p.money[currency] \in Int
             /\ Earned(U, user, currency) \in Int /\ Earned(T, user, currency) \in Int
  <2> DEFINE start == IF user \in DOMAIN Accounts THEN StartMoney[currency] ELSE 0
  <2>1. start \in Nat
    BY UserStoreAssumption
  <2>2. /\ Earned(T, user, currency)
             = start + (IF currency = "COIN" THEN 500 * s.win + 200 * s.lose ELSE 5 * s.win)
        /\ Earned(U, user, currency)
             = start + (IF currency = "COIN" THEN 500 * t.win + 200 * t.lose ELSE 5 * t.win)
    BY DEF Earned
  <2>3. /\ q.money["COIN"] = p.money["COIN"] + (IF won THEN 500 ELSE 200)
        /\ q.money["CASH"] = p.money["CASH"] + (IF won THEN 5 ELSE 0)
        /\ p.money["COIN"] \in Int /\ p.money["CASH"] \in Int
    BY <1>1, <1>4 DEF Paid, Currencies
  <2> HIDE DEF start, p, q, s, t
  <2>4. CASE currency = "COIN"
    BY <1>4, <1>5, <2>1, <2>2, <2>3, <2>4
  <2>5. CASE currency = "CASH"
    BY <1>4, <1>5, <2>1, <2>2, <2>3, <2>5
  <2> QED
    BY <2>4, <2>5 DEF Currencies
<1>7. ASSUME NEW currency \in Currencies
      PROVE  /\ q.money[currency] >= 0
             /\ q.money[currency] + Spent(U, user, currency) = Earned(U, user, currency)
  <2> DEFINE spent == Spent(T, user, currency)
  <2>1. /\ p.money[currency] >= 0
        /\ p.money[currency] + spent = Earned(T, user, currency)
    BY DEF Settled
  <2>2. spent \in Int
    <3>1. IsFiniteSet(Bought(T, user))
          /\ \A good \in Bought(T, user) : Cost(good, currency) \in Nat
      BY BoughtIsPriced
    <3>2. Total(Bought(T, user), currency) \in Nat
      <4>1. PICK g : SumsUp(g, Bought(T, user), currency)
                     /\ Total(Bought(T, user), currency) = g[Bought(T, user)]
        BY <3>1, TotalSumsUp
      <4> QED
        BY <4>1 DEF SumsUp
    <3> QED
      BY <3>2 DEF Spent, Total
  <2> HIDE DEF spent, p, q
  <2>3. Spent(U, user, currency) = spent
    BY <1>3 DEF spent
  <2> QED
    BY <1>6, <2>1, <2>2, <2>3
<1>8. 50 * q.level * (q.level - 1) + q.exp = 50 * t.win + 30 * t.lose
  <2>1. 50 * p.level * (p.level - 1) + p.exp = 50 * s.win + 30 * s.lose
    BY DEF Settled
  <2>2. 50 * q.level * (q.level - 1) + q.exp
          = 50 * p.level * (p.level - 1) + p.exp + Gain(won)
    BY <1>1 DEF Paid
  <2> HIDE DEF p, q, s, t
  <2> QED
    BY <1>4, <1>5, <2>1, <2>2 DEF Gain
<1>9. q.exp < 100 * q.level /\ q.emo = p.emo /\ q.balloon = p.balloon /\ q.icon = p.icon
  BY <1>1 DEF Paid
<1>10. /\ U["UserEmotes"][user] = T["UserEmotes"][user]
       /\ U["UserBalloon"][user] = T["UserBalloon"][user]
       /\ U["UserIcon"][user] = T["UserIcon"][user]
  BY GoodsFiles
<1> QED
  BY <1>7, <1>8, <1>9, <1>10 DEF Settled

\* A match that is paid to all its members keeps the rows sound.
LEMMA SoundAfterReward ==
  ASSUME NEW T, NEW U, NEW members \in Matches, NEW winners, Sound(T),
         \A user \in members : T["UserProfile"][user] # NoRow,
         MatchPaid(T, U, members, winners)
  PROVE  /\ Sound(U)
         /\ \A file \in CsvFiles : \A user \in members : T[file][user] # NoRow
<1>1. members \subseteq Users
  BY UserStoreAssumption
<1>2. Typed(T) /\ T \in Tables /\ Complete(T) /\ Matched(T)
      /\ \A user \in Registered(T) : Settled(T, user)
  BY SoundByUser DEF Typed
<1>3. ASSUME NEW user \in members
      PROVE  /\ user \in Registered(T)
             /\ Settled(T, user)
             /\ T["UserProfile"][user] \in ProfileRow
             /\ T["UserWinLossStats"][user] \in StatsRow
             /\ \A kind \in Kinds : T[GoodsFile[kind]][user] \in GoodsRow
  BY <1>1, RowsOfUser
<1>4. ASSUME NEW file \in CsvFiles, NEW user \in members PROVE T[file][user] # NoRow
  BY <1>1, <1>2, <1>3 DEF Complete
<1>5. \A file \in CsvFiles : file \in RewardFiles
        <=> file \in {"UserProfile", "UserWinLossStats"}
  BY DEF RewardFiles
<1>6. \A file \in CsvFiles : \A user \in Users :
        file \notin RewardFiles \/ user \notin members => U[file][user] = T[file][user]
  BY DEF MatchPaid
<1>7. ASSUME NEW user \in members
      PROVE  /\ U["UserProfile"][user] \in ProfileRow
             /\ U["UserWinLossStats"][user] \in StatsRow
             /\ \A kind \in Kinds : U[GoodsFile[kind]][user] = T[GoodsFile[kind]][user]
             /\ U["UsersAccount"][user] = T["UsersAccount"][user]
  <2>1. PaidRows(T, U, user, user \in winners)
    BY DEF MatchPaid
  <2> QED
    BY <1>1, <1>5, <1>6, <2>1, GoodsFiles DEF PaidRows, Paid, Counted
<1>8. ASSUME NEW user \in Users
      PROVE  /\ U["UsersAccount"][user] \in AccountRow \union {NoRow}
             /\ U["UserProfile"][user] \in ProfileRow \union {NoRow}
             /\ U["UserWinLossStats"][user] \in StatsRow \union {NoRow}
             /\ \A kind \in Kinds : U[GoodsFile[kind]][user] \in GoodsRow \union {NoRow}
  <2>1. CASE user \in members
    BY <1>2, <1>3, <1>7, <2>1 DEF Typed
  <2>2. CASE user \notin members
    BY <1>2, <1>6, <2>2, GoodsFiles DEF Typed
  <2> QED
    BY <2>1, <2>2
<1>9. Typed(U)
  <2>1. ASSUME NEW file \in CsvFiles, NEW user \in Users PROVE U[file][user] \in AnyRow
    BY <1>8, GoodsFiles DEF AnyRow
  <2>2. \A file \in CsvFiles : [user \in Users |-> U[file][user]] \in Table
    BY <2>1 DEF Table, AnyRow
  <2>3. U = [file \in CsvFiles |-> [user \in Users |-> U[file][user]]]
    BY DEF MatchPaid
  <2>4. U \in Tables
    BY <2>2, <2>3 DEF Tables
  <2> QED
    BY <1>8, <2>4 DEF Typed
<1>10. ASSUME NEW file \in CsvFiles, NEW user \in Users
       PROVE  U[file][user] = NoRow <=> T[file][user] = NoRow
  <2>1. CASE user \notin members \/ file \notin RewardFiles
    BY <1>6, <2>1
  <2>2. CASE user \in members /\ file \in RewardFiles
    BY <1>4, <1>5, <1>7, <2>2, UserStoreAssumption
  <2> QED
    BY <2>1, <2>2
<1>11. U["UsersAccount"] = T["UsersAccount"]
  <2>1. \A user \in Users : U["UsersAccount"][user] = T["UsersAccount"][user]
    BY <1>5, <1>6, GoodsFiles
  <2> QED
    BY <1>2, <1>9, <2>1, GoodsFiles DEF Typed, Tables, Table
<1>12. Registered(U) = Registered(T)
  BY <1>11 DEF Registered
<1>13. Matched(U)
  <2>1. ASSUME NEW user \in members PROVE PlayedSoFar(U, user) = PlayedSoFar(T, user) + 1
    <3> DEFINE s == T["UserWinLossStats"][user]
               t == U["UserWinLossStats"][user]
    <3>1. Counted(s, t, user \in winners)
      BY DEF MatchPaid, PaidRows
    <3>2. s.win \in Nat /\ s.lose \in Nat
      BY <1>3 DEF StatsRow
    <3>3. t.win + t.lose = s.win + s.lose + 1
      BY <3>1, <3>2 DEF Counted
    <3> QED
      BY <1>3, <1>12, <3>3 DEF PlayedSoFar, Played
  <2>2. ASSUME NEW user \in Users, user \notin members
        PROVE  PlayedSoFar(U, user) = PlayedSoFar(T, user)
    BY <1>6, <1>12, <2>2, GoodsFiles DEF PlayedSoFar, Played
  <2>3. ASSUME NEW user \in Users, NEW other \in Users, PlayTogether(user, other)
        PROVE  PlayedSoFar(U, user) = PlayedSoFar(U, other)
    <3>1. PlayedSoFar(T, user) = PlayedSoFar(T, other)
      BY <1>2, <2>3 DEF Matched
    <3>2. user \in members <=> other \in members
      BY <2>3 DEF PlayTogether
    <3> QED
      BY <2>1, <2>2, <3>1, <3>2
  <2> QED
    BY <2>3 DEF Matched
<1>14. ASSUME NEW user \in Registered(U) PROVE Settled(U, user)
  <2>1. user \in Registered(T) /\ user \in Users
    BY <1>12 DEF Registered
  <2>2. CASE user \in members
    <3> DEFINE won == user \in winners
    <3>1. PaidRows(T, U, user, won) /\ won \in BOOLEAN
      BY <2>2 DEF MatchPaid
    <3>2. /\ Settled(T, user)
          /\ T["UserProfile"][user] \in ProfileRow
          /\ T["UserWinLossStats"][user] \in StatsRow
          /\ \A kind \in Kinds : U[GoodsFile[kind]][user] = T[GoodsFile[kind]][user]
      BY <1>3, <1>7, <2>2
    <3> HIDE DEF won
    <3> QED
      BY <3>1, <3>2, PaidIsSettled
  <2>3. CASE user \notin members
    BY <1>2, <1>6, <2>1, <2>3, SettledStays
  <2> QED
    BY <2>2, <2>3
<1>15. Sound(U)
  BY <1>9, <1>10, <1>11, <1>13, <1>14, SoundAgain
<1> QED
  BY <1>4, <1>15

\* Reward pays a match.
LEMMA RewardPays ==
  ASSUME Sound(mem), NEW members \in Matches, NEW winners \in SUBSET members,
         Reward(members, winners)
  PROVE  MatchPaid(mem, mem', members, winners)
<1> DEFINE Row(file, user) ==
             IF user \notin members THEN mem[file][user]
             ELSE IF file = "UserProfile" THEN Rewarded(Profile(user), user \in winners)
             ELSE UpdateWinLoss(Stats(user), user \in winners)
<1>1. mem \in Tables
  BY DEF Sound, Typed
<1>2. mem' = [file \in DOMAIN mem |->
                IF file \in RewardFiles THEN [user \in Users |-> Row(file, user)] ELSE mem[file]]
  BY DEF Reward, Rewrite
<1>3. ASSUME NEW file \in CsvFiles
      PROVE  mem'[file] = IF file \in RewardFiles THEN [user \in Users |-> Row(file, user)]
                          ELSE mem[file]
  BY <1>1, <1>2 DEF Tables
<1>4. ASSUME NEW file \in CsvFiles, NEW user \in Users
      PROVE  mem'[file][user] = IF file \in RewardFiles THEN Row(file, user) ELSE mem[file][user]
  BY <1>3
<1>5. mem' = [file \in CsvFiles |-> [user \in Users |-> mem'[file][user]]]
  <2>1. \A file \in CsvFiles : mem'[file] = [user \in Users |-> mem'[file][user]]
    <3> HIDE DEF Row
    <3> QED
      BY <1>1, <1>3 DEF Tables, Table
  <2>2. mem' = [file \in CsvFiles |-> mem'[file]]
    BY <1>1, <1>2 DEF Tables
  <2> QED
    BY <2>1, <2>2
<1>6. ASSUME NEW file \in CsvFiles, NEW user \in Users, file \notin RewardFiles \/ user \notin members
      PROVE  mem'[file][user] = mem[file][user]
  BY <1>4, <1>6
<1>7. ASSUME NEW user \in members PROVE PaidRows(mem, mem', user, user \in winners)
  <2>1. user \in Users
    BY UserStoreAssumption
  <2>2. mem["UserProfile"][user] # NoRow
    BY DEF Reward, HasRow
  <2>3. /\ mem["UserProfile"][user] \in ProfileRow
        /\ mem["UserWinLossStats"][user] \in StatsRow
        /\ Settled(mem, user)
    BY <2>1, <2>2, RowsOfUser
  <2>4. /\ mem'["UserProfile"][user] = Rewarded(mem["UserProfile"][user], user \in winners)
        /\ mem'["UserWinLossStats"][user]
             = UpdateWinLoss(mem["UserWinLossStats"][user], user \in winners)
    BY <1>4, <2>1, GoodsFiles DEF RewardFiles, Profile, Stats
  <2>5. (user \in winners) \in BOOLEAN
    OBVIOUS
  <2>6. mem["UserProfile"][user].exp < 100 * mem["UserProfile"][user].level
    BY <2>3 DEF Settled
  <2>7. Paid(mem["UserProfile"][user], mem'["UserProfile"][user], user \in winners)
    BY <2>3, <2>4, <2>5, <2>6, RewardedIsPaid
  <2>8. Counted(mem["UserWinLossStats"][user], mem'["UserWinLossStats"][user], user \in winners)
    BY <2>3, <2>4, <2>5, UpdateCounts
  <2> QED
    BY <2>7, <2>8 DEF PaidRows
<1> QED
  BY <1>5, <1>6, <1>7 DEF MatchPaid

-----------------------------------------------------------------------------
(* What the handlers do is a Change *)

\* Images of tables are images, if every table may be the contents of a file.
LEMMA ImagesAreRedo ==
  ASSUME Table \subseteq Image, NEW images \in Images
  PROVE  \E F \in SUBSET Files : images \in [F -> Image]
<1>1. DOMAIN images \subseteq Files
  BY ImagesShape, UserStoreAssumption
<1>2. images \in [DOMAIN images -> Image]
  BY ImagesShape
<1> QED
  BY <1>1, <1>2

\* A shopper's handler saves the files it has changed rows in.
LEMMA ShoppingIsSaved ==
  ASSUME Sound(mem), mem = disk, NEW user \in Users, Shopped(mem, mem', user),
         NEW files \in SUBSET CsvFiles,
         \A file \in CsvFiles : file \notin files => mem'[file] = mem[file],
         pending' = SaveAll(mem', files, {user})
  PROVE  pending' \in Images /\ mem' = Over(mem, pending')
<1> DEFINE rows == mem'
<1>1. disk \in Tables /\ rows \in Tables
  BY DEF Shopped, Sound, Typed
<1>2. IsFiniteSet({user}) /\ {user} \in SUBSET Users
  BY FS_Singleton
<1>3. ASSUME NEW file \in CsvFiles, NEW other \in Users,
             file \notin files \/ other \notin {user} \/ disk[file][other] = NoRow
      PROVE  rows[file][other] = disk[file][other]
  BY <1>3 DEF Shopped
<1>4. pending' = SaveAll(rows, files, {user})
  OBVIOUS
<1> HIDE DEF rows
<1>5. SaveAll(rows, files, {user}) \in Images /\ Over(disk, SaveAll(rows, files, {user})) = rows
  BY <1>1, <1>2, <1>3, SavedIsChanged
<1> QED
  BY <1>4, <1>5 DEF rows

\* Shop changes rows of the user and saves their files.
LEMMA ShopIsSaved ==
  ASSUME Sound(mem), mem = disk, NEW c, NEW user \in Users, NEW kind \in Kinds,
         Shop(c, user, kind)
  PROVE  /\ Sound(mem')
         /\ pending' \in Images
         /\ mem' = Over(mem, pending')
<1>1. PICK item \in Items(kind) :
         \/ Buy(user, kind, item)
         \/ kind = "emote" /\ \E a \in Items(kind) : ChangeEmote(user, a, item)
         \/ kind = "balloon" /\ ChangeBalloon(user, item)
         \/ kind = "icon" /\ ChangeIcon(user, item)
  BY DEF Shop
<1>2. mem \in Tables
  BY DEF Sound, Typed
<1>3. ASSUME NEW q, mem' = WithProfile(user, q)
      PROVE  \A file \in CsvFiles : file \notin {"UserProfile"} => mem'[file] = mem[file]
  BY <1>2, <1>3 DEF WithProfile, Tables
<1>4. {"UserProfile"} \in SUBSET CsvFiles
  BY GoodsFiles
<1>5. CASE Buy(user, kind, item)
  <2>1. Shopped(mem, mem', user)
    BY <1>5, BuyShops
  <2>2. pending' = SaveAll(mem', BoughtFiles(kind), {user})
    BY <1>5 DEF Buy, Rewrite
  <2>3. \A file \in CsvFiles : file \notin BoughtFiles(kind) => mem'[file] = mem[file]
    BY <1>2, <1>5 DEF Buy, Rewrite, BoughtFiles, Tables
  <2>4. BoughtFiles(kind) \in SUBSET CsvFiles
    BY GoodsFiles DEF BoughtFiles
  <2> QED
    BY <2>1, <2>2, <2>3, <2>4, ShoppingIsSaved, SoundAfterShopping
<1>6. CASE kind = "emote" /\ \E a \in Items(kind) : ChangeEmote(user, a, item)
  <2>1. PICK a \in Items("emote") : ChangeEmote(user, a, item)
    BY <1>6
  <2>2. Shopped(mem, mem', user)
    BY <1>6, <2>1, EmoteShops
  <2>3. pending' = SaveAll(mem', {"UserProfile"}, {user})
    BY <2>1 DEF ChangeEmote, Rewrite
  <2>4. \E q : mem' = WithProfile(user, q)
    BY <2>1 DEF ChangeEmote, Rewrite
  <2> QED
    BY <1>3, <1>4, <2>2, <2>3, <2>4, ShoppingIsSaved, SoundAfterShopping
<1>7. CASE kind = "balloon" /\ ChangeBalloon(user, item)
  <2>1. Shopped(mem, mem', user)
    BY <1>7, BalloonShops
  <2>2. pending' = SaveAll(mem', {"UserProfile"}, {user})
    BY <1>7 DEF ChangeBalloon, Rewrite
  <2>3. \E q : mem' = WithProfile(user, q)
    BY <1>7 DEF ChangeBalloon, Rewrite
  <2> QED
    BY <1>3, <1>4, <2>1, <2>2, <2>3, ShoppingIsSaved, SoundAfterShopping
<1>8. CASE kind = "icon" /\ ChangeIcon(user, item)
  <2>1. Shopped(mem, mem', user)
    BY <1>8, IconShops
  <2>2. pending' = SaveAll(mem', {"UserProfile"}, {user})
    BY <1>8 DEF ChangeIcon, Rewrite
  <2>3. \E q : mem' = WithProfile(user, q)
    BY <1>8 DEF ChangeIcon, Rewrite
  <2> QED
    BY <1>3, <1>4, <2>1, <2>2, <2>3, ShoppingIsSaved, SoundAfterShopping
<1> QED
  BY <1>1, <1>5, <1>6, <1>7, <1>8

\* Reward changes rows of the members and saves their files.
LEMMA RewardIsSaved ==
  ASSUME Sound(mem), mem = disk, NEW members \in Matches, NEW winners \in SUBSET members,
         Reward(members, winners)
  PROVE  /\ Sound(mem')
         /\ pending' \in Images
         /\ mem' = Over(mem, pending')
<1> DEFINE rows == mem'
<1>1. MatchPaid(mem, rows, members, winners)
  BY RewardPays
<1>2. \A user \in members : mem["UserProfile"][user] # NoRow
  BY DEF Reward, HasRow
<1>3. /\ Sound(rows)
      /\ \A file \in CsvFiles : \A user \in members : mem[file][user] # NoRow
  BY <1>1, <1>2, SoundAfterReward
<1>4. disk \in Tables /\ rows \in Tables
  BY <1>3 DEF Sound, Typed
<1>5. members \in SUBSET Users /\ IsFiniteSet(members)
  BY UserStoreAssumption
<1>6. RewardFiles \in SUBSET CsvFiles
  BY GoodsFiles DEF RewardFiles
<1>7. ASSUME NEW file \in CsvFiles, NEW user \in Users,
             file \notin RewardFiles \/ user \notin members \/ disk[file][user] = NoRow
      PROVE  rows[file][user] = disk[file][user]
  BY <1>1, <1>3, <1>7 DEF MatchPaid
<1>8. pending' = SaveAll(rows, RewardFiles, members)
  BY DEF Reward, Rewrite
<1> HIDE DEF rows
<1>9. /\ SaveAll(rows, RewardFiles, members) \in Images
      /\ Over(disk, SaveAll(rows, RewardFiles, members)) = rows
  BY <1>4, <1>5, <1>6, <1>7, SavedIsChanged
<1> QED
  BY <1>3, <1>8, <1>9 DEF rows

\* Register appends the same row to every file and every vector.
LEMMA RegisterIsSaved ==
  ASSUME Sound(mem), mem = disk, NEW user \in Users, NEW nickname \in Nicknames,
         Register(user, nickname)
  PROVE  /\ Sound(mem')
         /\ pending' \in Images
         /\ mem' = Over(mem, pending')
<1>1. Sound(mem')
  BY RegisterSound
<1>2. pending' = mem'
  BY DEF Register
<1>3. mem' \in Tables
  BY <1>1 DEF Sound, Typed
<1>4. mem' \in Images
  BY <1>3 DEF Images, Tables
<1>5. Over(mem, mem') = mem'
  BY <1>3, UserStoreAssumption DEF Over, Tables
<1> QED
  BY <1>1, <1>2, <1>4, <1>5

\* While a transaction works on them the rows in memory are those on disk, and
\* these are durable.
LEMMA WorkingOnDisk ==
  ASSUME UserInv, stage = "work"
  PROVE  mem = disk /\ Sound(mem)
<1>1. /\ snapshot = disk /\ journal = Nothing /\ mem = snapshot
      /\ disk \in [Files -> Image]
  BY DEF UserInv, StoreInv, BothWaysOpen, TypeOK
<1>2. Durable = disk
  BY <1>1, OverNothing DEF Durable
<1> QED
  BY <1>1, <1>2 DEF UserInv

\* Every handler of users is a body of a transaction, with sound rows.
LEMMA HandlerIsChange ==
  ASSUME Table \subseteq Image, UserInv, NEW c \in Conns, Handler(c)
  PROVE  Change(c) /\ Sound(mem')
<1>1. /\ stage = "work" /\ holder = c
      /\ \/ \E user \in Users, nickname \in Nicknames : Register(user, nickname)
         \/ \E members \in Matches : \E winners \in SUBSET members : Reward(members, winners)
         \/ \E user \in Users, kind \in Kinds : Shop(c, user, kind)
  BY DEF Handler, Account, Shop
<1>2. mem = disk /\ Sound(mem)
  BY <1>1, WorkingOnDisk
<1>3. /\ stage' = "saved"
      /\ UNCHANGED <<disk, journal, applied, holder, snapshot, reply>>
  <2>1. ASSUME NEW user \in Users, NEW kind \in Kinds, Shop(c, user, kind)
        PROVE  /\ stage' = "saved"
               /\ UNCHANGED <<disk, journal, applied, holder, snapshot, reply>>
    <3>1. PICK item \in Items(kind) :
             \/ Buy(user, kind, item)
             \/ \E a \in Items(kind) : ChangeEmote(user, a, item)
             \/ ChangeBalloon(user, item)
             \/ ChangeIcon(user, item)
      BY <2>1 DEF Shop
    <3>2. CASE Buy(user, kind, item)
      BY <3>2 DEF Buy, Rewrite
    <3>3. CASE \E a \in Items(kind) : ChangeEmote(user, a, item)
      BY <3>3 DEF ChangeEmote, Rewrite
    <3>4. CASE ChangeBalloon(user, item) \/ ChangeIcon(user, item)
      BY <3>4 DEF ChangeBalloon, ChangeIcon, Rewrite
    <3> QED
      BY <3>1, <3>2, <3>3, <3>4
  <2>2. CASE \E user \in Users, nickname \in Nicknames : Register(user, nickname)
    BY <2>2 DEF Register
  <2>3. CASE \E members \in Matches : \E winners \in SUBSET members : Reward(members, winners)
    BY <2>3 DEF Reward, Rewrite
  <2> QED
    BY <1>1, <2>1, <2>2, <2>3
<1>4. Sound(mem') /\ pending' \in Images /\ mem' = Over(mem, pending')
  <2>1. CASE \E user \in Users, nickname \in Nicknames : Register(user, nickname)
    BY <1>2, <2>1, RegisterIsSaved
  <2>2. CASE \E members \in Matches : \E winners \in SUBSET members : Reward(members, winners)
    BY <1>2, <2>2, RewardIsSaved
  <2>3. CASE \E user \in Users, kind \in Kinds : Shop(c, user, kind)
    BY <1>2, <2>3, ShopIsSaved
  <2> QED
    BY <1>1, <2>1, <2>2, <2>3
<1>5. \E F \in SUBSET Files : pending' \in [F -> Image]
  BY <1>4, ImagesAreRedo
<1> QED
  BY <1>1, <1>3, <1>4, <1>5 DEF Change

-----------------------------------------------------------------------------
(* The invariant *)

\* The data the server is installed with is sound.
LEMMA UserInvInit == UserInit => Init /\ UserInv
<1> SUFFICES ASSUME UserInit PROVE Init /\ UserInv
  OBVIOUS
<1>1. Init /\ StoreInv
  BY StoreInvInit DEF UserInit
<1>2. stage = "down" /\ journal = Nothing /\ disk \in [Files -> Image]
  BY <1>1 DEF Init
<1>3. Durable = disk
  BY <1>2, OverNothing DEF Durable
<1>4. Sound(disk)
  BY FreshAtStart, SoundAtStart DEF UserInit
<1> QED
  BY <1>1, <1>2, <1>3, <1>4 DEF UserInv

\* Every step of the handlers is one of CsvStore.
LEMMA UserStepIsStep ==
  ASSUME Table \subseteq Image, UserInv, [UserNext]_vars
  PROVE  [Next]_vars
<1>1. ASSUME NEW c \in Conns, Handler(c) PROVE Next
  BY <1>1, HandlerIsChange DEF Next, Step
<1>2. ASSUME NEW c \in Conns, Frame(c) PROVE Next
  BY <1>2 DEF Frame, Next, Step
<1>3. CASE Process
  BY <1>3 DEF Process, Next
<1> QED
  BY <1>1, <1>2, <1>3 DEF UserNext

\* What is durable changes at the commit point alone, to the rows in memory.
LEMMA DurableStays ==
  ASSUME StoreInv, Apply \/ Retire
  PROVE  UNCHANGED Durable
<1>1. TypeOK /\ PassInPlace
  BY DEF StoreInv
<1>2. disk \in [Files -> Image] /\ journal \in Redo
  BY <1>1 DEF TypeOK
<1>3. CASE Apply
  <2>1. PICK f \in DOMAIN journal : disk' = [disk EXCEPT ![f] = journal[f]]
    BY <1>3 DEF Apply
  <2> QED
    BY <1>2, <1>3, <2>1, OverAgain DEF Apply, Durable
<1>4. CASE Retire
  <2>1. Over(disk, journal) = disk
    BY <1>1, <1>2, <1>4, OverInPlace DEF Retire, AllApplied, PassInPlace
  <2> QED
    BY <1>2, <1>4, <2>1, OverNothing DEF Retire, Durable
<1> QED
  BY <1>3, <1>4

\* So every step keeps the durable rows sound.
LEMMA UserInvStep ==
  ASSUME Table \subseteq Image, UserInv, [UserNext]_vars
  PROVE  UserInv'
<1>1. StoreInv'
  BY UserStepIsStep, StoreInvStep DEF UserInv
<1>2. StoreInv /\ Sound(Durable) /\ (stage = "saved" => Sound(mem))
  BY DEF UserInv
<1>3. ASSUME UNCHANGED Durable, stage' = "saved" => Sound(mem') PROVE UserInv'
  BY <1>1, <1>2, <1>3 DEF UserInv
<1>4. ASSUME NEW c \in Conns, Handler(c) PROVE UserInv'
  <2>1. Change(c) /\ Sound(mem')
    BY <1>4, HandlerIsChange
  <2>2. UNCHANGED Durable
    BY <2>1 DEF Change, Durable
  <2> QED
    BY <1>3, <2>1, <2>2
<1>5. ASSUME NEW c \in Conns, Publish(c) PROVE UserInv'
  <2>1. Durable' = mem /\ stage' = "applying"
    BY <1>2, <1>5 DEF Publish, Durable, StoreInv, BothWaysOpen
  <2>2. Sound(mem)
    BY <1>2, <1>5 DEF Publish
  <2>3. Sound(Durable)'
    BY <2>1, <2>2
  <2> QED
    BY <1>1, <2>1, <2>3 DEF UserInv
<1>6. ASSUME NEW c \in Conns, Begin(c) \/ Refuse(c) \/ Succeed(c) PROVE UserInv'
  <2>1. UNCHANGED Durable /\ stage' # "saved"
    BY <1>6 DEF Begin, Refuse, Succeed, Finish, Durable
  <2> QED
    BY <1>3, <2>1
<1>7. CASE Replay
  <2>1. UNCHANGED Durable
    BY <1>2, <1>7, DurableStays DEF Replay
  <2>2. stage' # "saved"
    BY <1>7 DEF Replay, Apply, Retire
  <2> QED
    BY <1>3, <2>1, <2>2
<1>8. CASE Die \/ Restart \/ Load
  <2>1. UNCHANGED Durable /\ stage' # "saved"
    BY <1>8 DEF Die, Exit, Restart, Load, Durable
  <2> QED
    BY <1>3, <2>1
<1>9. CASE UNCHANGED vars
  <2>1. UNCHANGED Durable /\ UNCHANGED mem /\ UNCHANGED stage
    BY <1>9 DEF vars, Durable
  <2> QED
    BY <1>2, <1>3, <2>1
<1> QED
  BY <1>4, <1>5, <1>6, <1>7, <1>8, <1>9 DEF UserNext, Frame, Process

-----------------------------------------------------------------------------
(* Theorems *)

\* Whatever the handlers, a crash or a recovery do, the rows a restart would
\* serve are sound.
THEOREM UserInvariant ==
  ASSUME Table \subseteq Image
  PROVE  UserSpec => []UserInv
<1>1. UserInit => UserInv
  BY UserInvInit
<1>2. UserInv /\ [UserNext]_vars => UserInv'
  BY UserInvStep
<1> QED
  BY <1>1, <1>2, PTL DEF UserSpec

\* The handlers do what a body of a transaction may do: the images they save
\* are the rows they changed in memory.
THEOREM HandlersAreTransactions ==
  ASSUME Table \subseteq Image
  PROVE  UserSpec => CsvStoreSpec
<1>1. UserInit => Init
  BY UserInvInit
<1>2. UserInv /\ [UserNext]_vars => [Next]_vars
  BY UserStepIsStep
<1> QED
  BY <1>1, <1>2, UserInvariant, PTL DEF UserSpec, CsvStoreSpec, Spec

\* An account is in all seven files or in none, and nicknames differ.
THEOREM AccountsAreComplete ==
  ASSUME Table \subseteq Image
  PROVE  UserSpec => []AccountsComplete
<1>1. UserInv => AccountsComplete
  BY DEF UserInv, Sound, AccountsComplete
<1> QED
  BY <1>1, UserInvariant, PTL

\* Money, goods and statistics add up, for any prices and any sequence of
\* purchases and matches: nothing is owned unpaid, paid for and not owned, won
\* and not rewarded.
THEOREM BooksAlwaysBalance ==
  ASSUME Table \subseteq Image
  PROVE  UserSpec => []BooksBalance
<1>1. UserInv => BooksBalance
  BY DEF UserInv, Sound, BooksBalance
<1> QED
  BY <1>1, UserInvariant, PTL

\* Levels and points are those of all matches together.
THEOREM ExperienceAlwaysAddsUp ==
  ASSUME Table \subseteq Image
  PROVE  UserSpec => []ExperienceAddsUp
<1>1. UserInv => ExperienceAddsUp
  BY DEF UserInv, Sound, ExperienceAddsUp
<1> QED
  BY <1>1, UserInvariant, PTL

\* What a user shows is his, and no emote takes two slots.
THEOREM EquipmentIsOwned ==
  ASSUME Table \subseteq Image
  PROVE  UserSpec => []EquippedAreOwned
<1>1. UserInv => EquippedAreOwned
  BY DEF UserInv, Sound, EquippedAreOwned
<1> QED
  BY <1>1, UserInvariant, PTL

\* A match is rewarded to all its members or to none.
THEOREM MembersArePaidTogether ==
  ASSUME Table \subseteq Image
  PROVE  UserSpec => []PaidTogether
<1>1. UserInv => PaidTogether
  <2>1. \A user \in Registered(Durable) : /\ user \in Users
                                          /\ PlayedSoFar(Durable, user) = Played(Durable, user)
    BY DEF PlayedSoFar, Registered
  <2> QED
    BY <2>1 DEF UserInv, Sound, PaidTogether, Matched
<1> QED
  BY <1>1, UserInvariant, PTL
==============================================================================
