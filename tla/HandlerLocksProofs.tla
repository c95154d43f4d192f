-------------------------- MODULE HandlerLocksProofs --------------------------
(***************************************************************************)
(* Threads that keep the discipline of the locks never deadlock, however   *)
(* many they are; and every handler of the server keeps it.                *)
(***************************************************************************)
EXTENDS HandlerLocks, SequenceTheorems, TLAPS

-----------------------------------------------------------------------------
(* Threads that keep the discipline *)

\* What the discipline says of a step: types, and every thread asks upwards.
LockInv == TypeOK /\ AsksUpwards

LEMMA DisciplineInitially == Discipline!Init => LockInv
BY LockAssumption DEF Discipline!Init, LockInv, TypeOK, AsksUpwards, LocksOf

LEMMA TakeKeeps ==
  ASSUME LockInv, NEW t \in Threads, Discipline!Take(t)
  PROVE  LockInv'
<1> DEFINE l == awaits[t]
<1>1. l \in Locks /\ t # NoOne
  BY LockAssumption DEF LockInv, TypeOK, Discipline!Take
<1>2. PICK next \in Discipline!Allowed(LocksOf(t) \union {l}) : awaits' = [awaits EXCEPT ![t] = next]
  BY DEF Discipline!Take, Discipline!LocksOf, LocksOf
<1>3. owner' = [owner EXCEPT ![l] = t]
  BY DEF Discipline!Take
<1>4. TypeOK'
  BY <1>1, <1>2, <1>3 DEF LockInv, TypeOK, Discipline!Allowed
<1>5. AsksUpwards'
  <2>1. SUFFICES ASSUME NEW u \in Threads, NEW k \in LocksOf(u)', awaits'[u] # Nothing
                 PROVE  Rank[k] < Rank[awaits'[u]]
    BY DEF AsksUpwards
  <2>2. CASE u = t
    <3>1. k \in LocksOf(t) \union {l}
      BY <1>1, <1>3, <2>2 DEF LocksOf, LockInv, TypeOK
    <3>2. awaits'[u] = next
      BY <1>2, <2>2 DEF LockInv, TypeOK
    <3> QED
      BY <3>1, <3>2, <2>1, <1>2 DEF Discipline!Allowed
  <2>3. CASE u # t
    <3>1. k \in LocksOf(u) /\ awaits'[u] = awaits[u]
      BY <1>1, <1>2, <1>3, <2>3 DEF LocksOf, LockInv, TypeOK
    <3> QED
      BY <3>1, <2>1 DEF LockInv, AsksUpwards
  <2> QED
    BY <2>2, <2>3
<1> QED
  BY <1>4, <1>5 DEF LockInv

LEMMA LeaveKeeps ==
  ASSUME LockInv, NEW t \in Threads, Discipline!Leave(t)
  PROVE  LockInv'
<1>1. PICK l \in LocksOf(t) :
        /\ owner' = [owner EXCEPT ![l] = NoOne]
        /\ \E next \in Discipline!Allowed(LocksOf(t) \ {l}) : awaits' = [awaits EXCEPT ![t] = next]
  BY DEF Discipline!Leave, Discipline!LocksOf, LocksOf
<1>2. PICK next \in Discipline!Allowed(LocksOf(t) \ {l}) : awaits' = [awaits EXCEPT ![t] = next]
  BY <1>1
<1>3. TypeOK'
  BY <1>1, <1>2 DEF LockInv, TypeOK, Discipline!Allowed, LocksOf
<1>4. AsksUpwards'
  <2>1. SUFFICES ASSUME NEW u \in Threads, NEW k \in LocksOf(u)', awaits'[u] # Nothing
                 PROVE  Rank[k] < Rank[awaits'[u]]
    BY DEF AsksUpwards
  <2>2. k \in LocksOf(u) /\ k # l
    BY <1>1, LockAssumption DEF LocksOf, LockInv, TypeOK
  <2>3. CASE u = t
    <3>1. awaits'[u] = next
      BY <1>2, <2>3 DEF LockInv, TypeOK
    <3> QED
      BY <3>1, <2>1, <2>2, <2>3, <1>2 DEF Discipline!Allowed
  <2>4. CASE u # t
    <3>1. awaits'[u] = awaits[u]
      BY <1>2, <2>4 DEF LockInv, TypeOK
    <3> QED
      BY <3>1, <2>1, <2>2 DEF LockInv, AsksUpwards
  <2> QED
    BY <2>3, <2>4
<1> QED
  BY <1>3, <1>4 DEF LockInv

LEMMA AskKeeps ==
  ASSUME LockInv, NEW t \in Threads, Discipline!Ask(t)
  PROVE  LockInv'
<1>1. PICK next \in Discipline!Allowed(LocksOf(t)) : awaits' = [awaits EXCEPT ![t] = next]
  BY DEF Discipline!Ask, Discipline!LocksOf, LocksOf
<1>2. owner' = owner
  BY DEF Discipline!Ask
<1>3. TypeOK'
  BY <1>1, <1>2 DEF LockInv, TypeOK, Discipline!Allowed
<1>4. AsksUpwards'
  <2>1. SUFFICES ASSUME NEW u \in Threads, NEW k \in LocksOf(u), awaits'[u] # Nothing
                 PROVE  Rank[k] < Rank[awaits'[u]]
    BY <1>2 DEF AsksUpwards, LocksOf
  <2>2. CASE u = t
    BY <1>1, <2>1, <2>2 DEF Discipline!Allowed, LockInv, TypeOK
  <2>3. CASE u # t
    BY <1>1, <2>1, <2>3 DEF LockInv, TypeOK, AsksUpwards
  <2> QED
    BY <2>2, <2>3
<1> QED
  BY <1>3, <1>4 DEF LockInv

\* Every thread asks upwards, in every reachable state.
THEOREM DisciplineKept == Discipline!Spec => []LockInv
<1>1. LockInv /\ [Discipline!Next]_(Discipline!vars) => LockInv'
  <2>1. ASSUME LockInv, Discipline!Next PROVE LockInv'
    BY <2>1, TakeKeeps, LeaveKeeps, AskKeeps DEF Discipline!Next
  <2>2. ASSUME LockInv, UNCHANGED Discipline!vars PROVE LockInv'
    BY <2>2 DEF LockInv, TypeOK, AsksUpwards, LocksOf, Discipline!vars
  <2> QED
    BY <2>1, <2>2
<1> QED
  BY <1>1, DisciplineInitially, PTL DEF Discipline!Spec

\* A nonempty set of ranks has a greatest one.
LEMMA GreatestRank ==
  ASSUME NEW R, R \subseteq 1..4, R # {}
  PROVE  \E m \in R : \A k \in R : k <= m
<1>1. CASE 4 \in R
  BY <1>1
<1>2. CASE 4 \notin R /\ 3 \in R
  BY <1>2
<1>3. CASE 4 \notin R /\ 3 \notin R /\ 2 \in R
  BY <1>3
<1>4. CASE 4 \notin R /\ 3 \notin R /\ 2 \notin R
  <2>1. \A k \in R : k = 1
    <3>1. SUFFICES ASSUME NEW k \in R PROVE k = 1
      OBVIOUS
    <3>2. k \in 1..4 /\ k # 2 /\ k # 3 /\ k # 4
      BY <1>4
    <3> QED
      BY <3>2
  <2>2. PICK m \in R : TRUE
    OBVIOUS
  <2>3. \A k \in R : k <= m
    BY <2>1
  <2> QED
    BY <2>3
<1> QED
  BY <1>1, <1>2, <1>3, <1>4

\* In a circle, the thread that holds the lock of the highest rank waited for
\* would itself have to wait for a higher one.
LEMMA NoCircle ==
  ASSUME LockInv
  PROVE  NeverDeadlocked
<1>1. SUFFICES ASSUME NEW S \in SUBSET Threads, S # {},
                      \A t \in S : awaits[t] # Nothing /\ owner[awaits[t]] \in S
               PROVE  FALSE
  BY DEF NeverDeadlocked
<1> DEFINE R == {Rank[awaits[t]] : t \in S}
<1>2. \A t \in S : awaits[t] \in Locks
  BY <1>1 DEF LockInv, TypeOK
<1>3. R \subseteq 1..4 /\ R # {}
  BY <1>1, <1>2, LockAssumption
<1>4. PICK m \in R : \A k \in R : k <= m
  <2> HIDE DEF R
  <2> QED
    BY <1>3, GreatestRank
<1>5. PICK t \in S : m = Rank[awaits[t]]
  BY <1>4
<1> DEFINE u == owner[awaits[t]]
<1>6. u \in S /\ awaits[t] \in LocksOf(u)
  BY <1>1, <1>2, <1>5 DEF LocksOf
<1>7. Rank[awaits[t]] < Rank[awaits[u]]
  BY <1>1, <1>6 DEF LockInv, AsksUpwards
<1>8. Rank[awaits[u]] <= m
  BY <1>4, <1>6
<1>9. Rank[awaits[t]] \in 1..4 /\ Rank[awaits[u]] \in 1..4
  BY <1>2, <1>5, <1>6, LockAssumption
<1> QED
  BY <1>5, <1>7, <1>8, <1>9

\* Threads that keep the discipline never wait for one another in a circle,
\* whatever their number: the locks of the server cannot stop it.
THEOREM DeadlockFree == Discipline!Spec => []NeverDeadlocked
BY DisciplineKept, NoCircle, PTL

-----------------------------------------------------------------------------
(* What a script does to the locks of its thread *)

Ops == [does : {"take", "leave", "write"}, lock : Locks \union {Nothing}]

\* With the locks in held a thread may do o, and has the locks in after then.
Allows(o, held, after) ==
  \/ /\ o.does = "take" /\ o.lock \in Locks
     /\ \A h \in held : Rank[h] < Rank[o.lock]
     /\ after = held \union {o.lock}
  \/ /\ o.does = "leave" /\ o.lock \in held
     /\ after = held \ {o.lock}
  \/ /\ o.does = "write" /\ held \subseteq {"users"}
     /\ after = held

\* s leads from the locks in held to those in after, always upwards.
Leads(s, held, after) ==
  \E f \in [1..Len(s) + 1 -> SUBSET Locks] :
    /\ f[1] = held /\ f[Len(s) + 1] = after
    /\ \A k \in 1..Len(s) : Allows(s[k], f[k], f[k + 1])

\* s can be run by a thread that holds locks of at most the rank r, and leaves
\* all the locks it takes.
Under(s, r) ==
  /\ s \in Seq(Ops)
  /\ \A held \in SUBSET Locks : (\A h \in held : Rank[h] <= r) => Leads(s, held, held)

\* The ranks of the locks.
LEMMA Ranks ==
  /\ Locks = {"users", "rooms", "clients", "positions", "registry", "queue"}
  /\ Rank["users"] = 1 /\ Rank["rooms"] = 2 /\ Rank["clients"] = 3
  /\ Rank["positions"] = 4 /\ Rank["registry"] = 4 /\ Rank["queue"] = 4
  /\ \A l \in Locks : Rank[l] \in 1..4
BY HandlerLocksAssumption, LockAssumption DEF ServerRank

\* A script without a step.
LEMMA LeadsNowhere ==
  ASSUME NEW held \in SUBSET Locks
  PROVE  Leads(<<>>, held, held)
<1> DEFINE f == [k \in 1..1 |-> held]
           s == <<>>
<1>1. Len(s) = 0
  OBVIOUS
<1>2. f \in [1..Len(s) + 1 -> SUBSET Locks] /\ f[1] = held
  BY <1>1
<1> HIDE DEF f, s
<1>3. f[Len(s) + 1] = held /\ \A k \in 1..Len(s) : FALSE
  BY <1>1, <1>2
<1>4. Leads(s, held, held)
  BY <1>2, <1>3 DEF Leads
<1> QED
  BY <1>4 DEF s

\* A script of one step.
LEMMA LeadsOneStep ==
  ASSUME NEW o \in Ops, NEW held \in SUBSET Locks, NEW after \in SUBSET Locks,
         Allows(o, held, after)
  PROVE  Leads(<<o>>, held, after)
<1> DEFINE f == [k \in 1..2 |-> IF k = 1 THEN held ELSE after]
           s == <<o>>
<1>1. Len(s) = 1 /\ s[1] = o
  OBVIOUS
<1>2. f \in [1..Len(s) + 1 -> SUBSET Locks] /\ f[1] = held /\ f[2] = after
  BY <1>1
<1> HIDE DEF f, s
<1>3. \A k \in 1..Len(s) : Allows(s[k], f[k], f[k + 1])
  BY <1>1, <1>2
<1>4. Leads(s, held, after)
  BY <1>1, <1>2, <1>3 DEF Leads
<1> QED
  BY <1>4 DEF s

\* One script after another.
LEMMA LeadsOn ==
  ASSUME NEW s \in Seq(Ops), NEW t \in Seq(Ops),
         NEW a, NEW b, NEW c, Leads(s, a, b), Leads(t, b, c)
  PROVE  Leads(s \o t, a, c)
<1>1. PICK f \in [1..Len(s) + 1 -> SUBSET Locks] :
        /\ f[1] = a /\ f[Len(s) + 1] = b
        /\ \A k \in 1..Len(s) : Allows(s[k], f[k], f[k + 1])
  BY DEF Leads
<1>2. PICK g \in [1..Len(t) + 1 -> SUBSET Locks] :
        /\ g[1] = b /\ g[Len(t) + 1] = c
        /\ \A k \in 1..Len(t) : Allows(t[k], g[k], g[k + 1])
  BY DEF Leads
<1> DEFINE n == Len(s)
           m == Len(t)
           h == [k \in 1..n + m + 1 |-> IF k <= n THEN f[k] ELSE g[k - n]]
<1>3. n \in Nat /\ m \in Nat
  BY LenProperties
<1>4. /\ Len(s \o t) = n + m
      /\ \A k \in 1..n : (s \o t)[k] = s[k]
      /\ \A k \in n + 1 .. n + m : (s \o t)[k] = t[k - n]
  BY <1>3, ConcatProperties
<1> HIDE DEF n, m
<1>5. h \in [1..n + m + 1 -> SUBSET Locks]
  <2>1. ASSUME NEW k \in 1..n + m + 1
        PROVE  (IF k <= n THEN f[k] ELSE g[k - n]) \in SUBSET Locks
    <3>1. (k <= n => k \in 1..n + 1) /\ (~ (k <= n) => k - n \in 1..m + 1)
      BY <1>3
    <3> QED
      BY <1>1, <1>2, <3>1 DEF n, m
  <2> QED
    BY <2>1
<1>6. ASSUME NEW k \in 1..n + m + 1
      PROVE  /\ k <= n + 1 => h[k] = f[k]
             /\ k > n => h[k] = g[k - n]
  <2>1. CASE k <= n
    BY <1>3, <2>1
  <2>2. CASE k = n + 1
    <3>1. h[k] = g[k - n] /\ k - n = 1
      BY <1>3, <2>2
    <3> QED
      BY <1>1, <1>2, <2>2, <3>1 DEF n
  <2>3. CASE k > n + 1
    BY <1>3, <2>3
  <2> QED
    BY <1>3, <2>1, <2>2, <2>3
<1> HIDE DEF h
<1>7. h[1] = a
  BY <1>1, <1>3, <1>6
<1>8. h[n + m + 1] = c
  <2>1. n + m + 1 \in 1..n + m + 1 /\ n + m + 1 > n /\ (n + m + 1) - n = m + 1
    BY <1>3
  <2> QED
    BY <1>2, <1>6, <2>1 DEF m
<1>9. ASSUME NEW k \in 1..n + m PROVE Allows((s \o t)[k], h[k], h[k + 1])
  <2>1. CASE k <= n
    <3>1. k \in 1..n /\ k + 1 <= n + 1 /\ k + 1 \in 1..n + m + 1 /\ k \in 1..n + m + 1
          /\ k <= n + 1
      BY <1>3, <2>1
    <3>2. h[k] = f[k] /\ h[k + 1] = f[k + 1]
      BY <1>6, <3>1
    <3> QED
      BY <1>1, <1>4, <3>1, <3>2 DEF n
  <2>2. CASE k > n
    <3>1. k - n \in 1..m /\ (k + 1) - n = (k - n) + 1 /\ k + 1 > n
          /\ k + 1 \in 1..n + m + 1 /\ k \in 1..n + m + 1 /\ k \in n + 1 .. n + m
      BY <1>3, <2>2
    <3>2. h[k] = g[k - n] /\ h[k + 1] = g[(k - n) + 1]
      BY <1>6, <2>2, <3>1
    <3>3. Allows(t[k - n], g[k - n], g[(k - n) + 1])
      BY <1>2, <3>1 DEF m
    <3> QED
      BY <1>4, <3>1, <3>2, <3>3
  <2>3. k <= n \/ k > n
    BY <1>3
  <2> QED
    BY <2>1, <2>2, <2>3
<1> QED
  BY <1>4, <1>5, <1>7, <1>8, <1>9 DEF Leads

\* What is left of a script after its first step.
LEMMA LeadsBehind ==
  ASSUME NEW s \in Seq(Ops), s # <<>>, NEW held, NEW end, Leads(s, held, end)
  PROVE  \E after \in SUBSET Locks :
           Allows(Head(s), held, after) /\ Leads(Tail(s), after, end)
<1>1. PICK f \in [1..Len(s) + 1 -> SUBSET Locks] :
        /\ f[1] = held /\ f[Len(s) + 1] = end
        /\ \A k \in 1..Len(s) : Allows(s[k], f[k], f[k + 1])
  BY DEF Leads
<1> DEFINE m == Len(Tail(s))
           g == [k \in 1..m + 1 |-> f[k + 1]]
<1>2. /\ Len(s) = m + 1 /\ m \in Nat /\ Head(s) = s[1]
      /\ \A k \in 1..m : Tail(s)[k] = s[k + 1]
  BY HeadTailProperties, LenProperties
<1> HIDE DEF m
<1>3. /\ Allows(Head(s), held, f[2])
      /\ f[2] \in SUBSET Locks
  <2>1. 1 \in 1..Len(s) /\ 1 + 1 = 2 /\ 2 \in 1..Len(s) + 1
    BY <1>2
  <2>2. Allows(s[1], f[1], f[1 + 1])
    BY <1>1, <2>1
  <2> QED
    BY <1>1, <1>2, <2>1, <2>2
<1>4. g \in [1..m + 1 -> SUBSET Locks]
  <2>1. \A k \in 1..m + 1 : k + 1 \in 1..Len(s) + 1
    BY <1>2
  <2> QED
    BY <1>1, <2>1
<1>5. g[1] = f[2] /\ g[m + 1] = end
  BY <1>1, <1>2
<1>6. ASSUME NEW k \in 1..m PROVE Allows(Tail(s)[k], g[k], g[k + 1])
  <2>1. k + 1 \in 1..Len(s) /\ k \in 1..m + 1 /\ k + 1 \in 1..m + 1
    BY <1>2
  <2>2. g[k] = f[k + 1] /\ g[k + 1] = f[(k + 1) + 1]
    BY <2>1
  <2>3. Allows(s[k + 1], f[k + 1], f[(k + 1) + 1])
    BY <1>1, <2>1
  <2> QED
    BY <1>2, <2>2, <2>3
<1> HIDE DEF g
<1>7. Leads(Tail(s), f[2], end)
  BY <1>4, <1>5, <1>6 DEF Leads, m
<1> QED
  BY <1>3, <1>7

-----------------------------------------------------------------------------
(* Scripts that leave what they take *)

LEMMA UnderLess ==
  ASSUME NEW s, NEW r \in 0..4, NEW q \in 0..r, Under(s, r)
  PROVE  Under(s, q)
BY Ranks DEF Under

LEMMA UnderNothing ==
  ASSUME NEW r \in 0..4
  PROVE  Under(<<>>, r)
<1>1. <<>> \in Seq(Ops)
  BY EmptySeq
<1> QED
  BY <1>1, LeadsNowhere DEF Under

LEMMA UnderOn ==
  ASSUME NEW r \in 0..4, NEW s, NEW t, Under(s, r), Under(t, r)
  PROVE  Under(s \o t, r)
<1>1. s \in Seq(Ops) /\ t \in Seq(Ops)
  BY DEF Under
<1>2. s \o t \in Seq(Ops)
  BY <1>1, ConcatProperties
<1>3. ASSUME NEW held \in SUBSET Locks, \A h \in held : Rank[h] <= r
      PROVE  Leads(s \o t, held, held)
  <2>1. Leads(s, held, held) /\ Leads(t, held, held)
    BY <1>3 DEF Under
  <2> QED
    BY <1>1, <2>1, LeadsOn
<1> QED
  BY <1>2, <1>3 DEF Under

LEMMA UnderWith ==
  ASSUME NEW r \in 0..4, NEW l \in Locks, r < Rank[l],
         NEW body, Under(body, Rank[l])
  PROVE  Under(With(l, body), r)
<1> DEFINE take == [does |-> "take", lock |-> l]
           leave == [does |-> "leave", lock |-> l]
<1>1. take \in Ops /\ leave \in Ops /\ body \in Seq(Ops)
  BY DEF Ops, Under
<1>2. Rank[l] \in 1..4
  BY Ranks
<1>3. With(l, body) = (<<take>> \o body) \o <<leave>>
  BY DEF With, Op
<1>4. /\ <<take>> \in Seq(Ops) /\ <<leave>> \in Seq(Ops)
      /\ <<take>> \o body \in Seq(Ops)
      /\ (<<take>> \o body) \o <<leave>> \in Seq(Ops)
  <2>1. <<take>> \in Seq(Ops) /\ <<leave>> \in Seq(Ops)
    BY <1>1
  <2> HIDE DEF take, leave
  <2>2. <<take>> \o body \in Seq(Ops)
    BY <1>1, <2>1, ConcatProperties
  <2> QED
    BY <2>1, <2>2, ConcatProperties
<1>5. ASSUME NEW held \in SUBSET Locks, \A h \in held : Rank[h] <= r
      PROVE  Leads((<<take>> \o body) \o <<leave>>, held, held)
  <2> DEFINE more == held \union {l}
  <2>1. /\ \A h \in held : Rank[h] \in 1..4 /\ Rank[h] < Rank[l]
        /\ l \notin held
    BY <1>2, <1>5, Ranks
  <2>2. more \in SUBSET Locks /\ \A h \in more : Rank[h] <= Rank[l]
    BY <1>2, <2>1
  <2>3. Allows(take, held, more) /\ Allows(leave, more, held)
    BY <2>1 DEF Allows
  <2> HIDE DEF more, take, leave
  <2>4. Leads(<<take>>, held, more) /\ Leads(<<leave>>, more, held)
    BY <1>1, <2>2, <2>3, LeadsOneStep
  <2>5. Leads(body, more, more)
    BY <2>2 DEF Under
  <2>6. Leads(<<take>> \o body, held, more)
    BY <1>1, <1>4, <2>4, <2>5, LeadsOn
  <2> QED
    BY <1>4, <2>4, <2>6, LeadsOn
<1> QED
  BY <1>3, <1>4, <1>5 DEF Under

LEMMA UnderTouch ==
  ASSUME NEW r \in 0..4, NEW l \in Locks, r < Rank[l]
  PROVE  Under(Touch(l), r)
BY Ranks, UnderNothing, UnderWith DEF Touch

\* Files are written under usersMutex at the most.
LEMMA UnderCommit == Under(Commit, 1)
<1> DEFINE o == [does |-> "write", lock |-> Nothing]
<1>1. o \in Ops /\ Commit = <<o>>
  BY DEF Ops, Commit, Op
<1>2. ASSUME NEW held \in SUBSET Locks, \A h \in held : Rank[h] <= 1
      PROVE  Leads(<<o>>, held, held)
  <2>1. held \subseteq {"users"}
    BY <1>2, Ranks
  <2>2. Allows(o, held, held)
    BY <2>1 DEF Allows
  <2> HIDE DEF o
  <2> QED
    BY <1>1, <2>2, LeadsOneStep
<1> HIDE DEF o
<1>3. <<o>> \in Seq(Ops)
  BY <1>1
<1> QED
  BY <1>1, <1>2, <1>3 DEF Under


-----------------------------------------------------------------------------
(* The handlers *)

\* What is put on a queue, and a search of the sessions.
LEMMA UnderCalls ==
  /\ \A r \in 0..3 : Under(QueueSend, r)
  /\ \A r \in 0..2 : Under(LookUp, r) /\ Under(BroadcastMessageExcept, r)
  /\ \A r \in 0..2 : Under(With("clients", QueueSend), r)
  /\ \A r \in 0..1 : Under(With("rooms", LookUp), r)
<1>1. ASSUME NEW r \in 0..3 PROVE Under(QueueSend, r)
  BY Ranks, UnderTouch, UnderOn DEF QueueSend
<1>2. ASSUME NEW r \in 0..2 PROVE Under(LookUp, r)
  BY Ranks, UnderTouch DEF LookUp
<1>3. ASSUME NEW r \in 0..2 PROVE Under(With("clients", QueueSend), r)
  BY <1>1, Ranks, UnderWith
<1>4. ASSUME NEW r \in 0..1 PROVE Under(With("rooms", LookUp), r)
  BY <1>2, Ranks, UnderWith
<1> QED
  BY <1>1, <1>2, <1>3, <1>4 DEF BroadcastMessageExcept

\* The broadcasts, each above the locks it is called under.
LEMMA UnderBroadcasts ==
  /\ \A r \in 0..1 : /\ Under(BroadcastToUserRoom, r)
                     /\ Under(BroadcastToRoomExcept, r)
                     /\ Under(SendServerMessageToRoom, r)
                     /\ Under(SendRoomList, r)
                     /\ Under(RoomDeleted, r)
  /\ Under(BroadcastLobbyUserList, 0)
  /\ Under(LogoutUser, 0)
<1>1. ASSUME NEW r \in 0..1
      PROVE  Under(BroadcastToUserRoom, r) /\ Under(BroadcastToRoomExcept, r)
  <2>1. Under(Touch("clients"), 2)
    BY Ranks, UnderTouch
  <2>2. Under(With("rooms", Touch("clients")), r)
    BY <2>1, Ranks, UnderWith
  <2> QED
    BY <2>2, UnderCalls, UnderOn DEF BroadcastToUserRoom, BroadcastToRoomExcept
<1>2. ASSUME NEW r \in 0..1 PROVE Under(SendServerMessageToRoom, r)
  BY Ranks, UnderCalls, UnderWith DEF SendServerMessageToRoom
<1>3. ASSUME NEW r \in 0..1 PROVE Under(SendRoomList, r) /\ Under(RoomDeleted, r)
  <2>1. Under(Touch("rooms"), r) /\ Under(Touch("clients"), r)
    BY Ranks, UnderTouch
  <2>2. Under(SendRoomList, r)
    BY <2>1, UnderCalls, UnderOn DEF SendRoomList
  <2> QED
    BY <2>1, <2>2, UnderOn DEF RoomDeleted
<1>4. Under(Touch("clients"), 0) /\ Under(Touch("users"), 0)
  BY Ranks, UnderTouch
<1>5. Under(BroadcastLobbyUserList, 0)
  BY <1>4, UnderCalls, UnderOn DEF BroadcastLobbyUserList
<1>6. Under(LogoutUser, 0)
  BY <1>4, <1>5, UnderOn DEF LogoutUser
<1> QED
  BY <1>1, <1>2, <1>3, <1>5, <1>6

\* Each lock by itself.
LEMMA UnderEach == \A l \in Locks : Under(Touch(l), 0)
BY Ranks, UnderTouch

\* One handler after another: what it takes inside usersMutex and roomsMutex.
LEMMA HandlersUnder == \A h \in Handlers : Under(h, 0)
<1>0. /\ \A l \in Locks : Under(Touch(l), 0)
      /\ Under(QueueSend, 0) /\ Under(QueueSend, 1) /\ Under(QueueSend, 2)
      /\ Under(LookUp, 0) /\ Under(LookUp, 1) /\ Under(LookUp, 2)
      /\ Under(With("clients", QueueSend), 0) /\ Under(With("clients", QueueSend), 1)
      /\ Under(With("clients", QueueSend), 2)
      /\ Under(BroadcastMessageExcept, 0) /\ Under(BroadcastMessageExcept, 2)
      /\ Under(With("rooms", LookUp), 0)
      /\ Under(BroadcastToUserRoom, 0) /\ Under(BroadcastToUserRoom, 1)
      /\ Under(BroadcastToRoomExcept, 0) /\ Under(SendServerMessageToRoom, 0)
      /\ Under(RoomDeleted, 0) /\ Under(BroadcastLobbyUserList, 0) /\ Under(LogoutUser, 0)
      /\ Under(Commit, 1)
  BY UnderEach, UnderCalls, UnderBroadcasts, UnderCommit
<1>1. ASSUME NEW body, Under(body, 1) PROVE Under(With("users", body), 0)
  BY <1>1, Ranks, UnderWith
<1>2. ASSUME NEW body, Under(body, 2) PROVE Under(With("rooms", body), 0)
  BY <1>2, Ranks, UnderWith
<1>3. ASSUME NEW s, NEW t, Under(s, 0), Under(t, 0) PROVE Under(s \o t, 0)
  BY <1>3, UnderOn
<1>4. ASSUME NEW s, NEW t, Under(s, 1), Under(t, 1) PROVE Under(s \o t, 1)
  BY <1>4, UnderOn
<1>5. ASSUME NEW s, NEW t, Under(s, 2), Under(t, 2) PROVE Under(s \o t, 2)
  BY <1>5, UnderOn
<1>6. "users" \in Locks /\ "rooms" \in Locks /\ "clients" \in Locks
      /\ "positions" \in Locks /\ "registry" \in Locks /\ "queue" \in Locks
  BY Ranks
<1>7. /\ Under(Touch("users"), 0) /\ Under(Touch("rooms"), 0) /\ Under(Touch("clients"), 0)
      /\ Under(Touch("positions"), 0) /\ Under(Touch("registry"), 0) /\ Under(Touch("queue"), 0)
  BY <1>0, <1>6
<1>8. Under(Touch("clients"), 1)
  BY Ranks, UnderTouch
<1>9. \A h \in ForceExitRoomByUserId : Under(h, 0)
  BY <1>0, <1>3, <1>7 DEF ForceExitRoomByUserId
<1>10. \A h \in Login \union Register \union ReadUser \union ChangeUser : Under(h, 0)
  BY <1>0, <1>1, <1>3, <1>4, <1>8 DEF Login, Register, ReadUser, ChangeUser
<1>11. \A h \in Lobby \union Logout \union Disconnect : Under(h, 0)
  BY <1>0, <1>3, <1>7, <1>9 DEF Lobby, Logout, Disconnect
<1>12. \A h \in GetRoomList \union CreateRoom \union EnterRoom \union ExitRoom : Under(h, 0)
  BY <1>0, <1>2, <1>3, <1>5, <1>7 DEF GetRoomList, CreateRoom, EnterRoom, ExitRoom
<1>13. \A h \in HandleCharacterChoice \union Chat \union TeamChange \union StartGame : Under(h, 0)
  BY <1>0, <1>2, <1>3, <1>5, <1>7 DEF HandleCharacterChoice, Chat, TeamChange, StartGame
<1>14. \A h \in GetMap \union Relay \union {Move} \union HandleReadyToExit : Under(h, 0)
  BY <1>0, <1>3, <1>7 DEF GetMap, Relay, Move, HandleReadyToExit
<1>15. \A h \in Dead : Under(h, 0)
  BY <1>0, <1>1, <1>3, <1>4, <1>7 DEF Dead
<1>16. \A h \in Accept \union Completion : Under(h, 0)
  BY <1>3, <1>7 DEF Accept, Completion
<1> QED
  BY <1>10, <1>11, <1>12, <1>13, <1>14, <1>15, <1>16 DEF Handlers

-----------------------------------------------------------------------------
(* The threads *)

\* The lock that a thread with script s is about to take.
Asked(s) == IF s # <<>> /\ Head(s).does = "take" THEN Head(s).lock ELSE Nothing

\* What a thread has still to do leads from the locks it holds to none; one that
\* has returned early holds what its destructors have not left yet.
OnScript(t) ==
  /\ awaits[t] = Asked(script[t])
  /\ script[t] # <<>> => Leads(script[t], LocksOf(t), {})

HandlersInv ==
  /\ TypeOK
  /\ script \in [Threads -> Seq(Ops)]
  /\ \A t \in Threads : OnScript(t)

LEMMA HandlersInit == Init => HandlersInv
<1> SUFFICES ASSUME Init PROVE HandlersInv
  OBVIOUS
<1>1. <<>> \in Seq(Ops)
  BY EmptySeq
<1> QED
  BY <1>1 DEF Init, HandlersInv, TypeOK, OnScript, Asked

\* What a script asks for is above what is held.
LEMMA AsksAllowed ==
  ASSUME NEW s \in Seq(Ops), NEW held \in SUBSET Locks, s # <<>> => Leads(s, held, {})
  PROVE  Asked(s) \in Discipline!Allowed(held)
<1>1. CASE s # <<>> /\ Head(s).does = "take"
  <2>1. PICK after \in SUBSET Locks : Allows(Head(s), held, after)
    BY <1>1, LeadsBehind
  <2>2. Head(s).lock \in Locks /\ \A h \in held : Rank[h] < Rank[Head(s).lock]
    BY <1>1, <2>1 DEF Allows
  <2> QED
    BY <1>1, <2>2 DEF Asked, Discipline!Allowed
<1>2. CASE ~ (s # <<>> /\ Head(s).does = "take")
  BY <1>2 DEF Asked, Discipline!Allowed
<1> QED
  BY <1>1, <1>2

\* A thread goes on with a script that suits the locks it has by then.
LEMMA GoesOn ==
  ASSUME HandlersInv, NEW t \in Threads, NEW rest \in Seq(Ops), Continue(t, rest),
         owner' \in [Locks -> Threads \union {NoOne}],
         rest # <<>> => Leads(rest, LocksOf(t)', {}),
         \A u \in Threads \ {t} : LocksOf(u)' = LocksOf(u)
  PROVE  /\ HandlersInv'
         /\ \E next \in Discipline!Allowed(LocksOf(t)') : awaits' = [awaits EXCEPT ![t] = next]
<1>1. script' = [script EXCEPT ![t] = rest] /\ awaits' = [awaits EXCEPT ![t] = Asked(rest)]
  BY DEF Continue, Asked
<1>2. LocksOf(t)' \in SUBSET Locks
  BY DEF LocksOf
<1>3. Asked(rest) \in Discipline!Allowed(LocksOf(t)')
  BY <1>2, AsksAllowed
<1>4. Asked(rest) \in Locks \union {Nothing}
  BY <1>3 DEF Discipline!Allowed
<1>5. TypeOK' /\ script' \in [Threads -> Seq(Ops)]
  BY <1>1, <1>4 DEF HandlersInv, TypeOK
<1>6. ASSUME NEW u \in Threads PROVE OnScript(u)'
  <2>1. CASE u = t
    <3>1. script'[u] = rest /\ awaits'[u] = Asked(rest)
      BY <1>1, <2>1 DEF HandlersInv, TypeOK
    <3> QED
      BY <2>1, <3>1 DEF OnScript
  <2>2. CASE u # t
    <3>1. script'[u] = script[u] /\ awaits'[u] = awaits[u] /\ LocksOf(u)' = LocksOf(u)
      BY <1>1, <2>2 DEF HandlersInv, TypeOK
    <3> QED
      BY <3>1 DEF OnScript, HandlersInv
  <2> QED
    BY <2>1, <2>2
<1> QED
  BY <1>1, <1>3, <1>5, <1>6 DEF HandlersInv

\* A lock changes hands.
LEMMA LockTaken ==
  ASSUME TypeOK, NEW t \in Threads, NEW l \in Locks,
         owner[l] = NoOne, owner' = [owner EXCEPT ![l] = t]
  PROVE  /\ owner' \in [Locks -> Threads \union {NoOne}]
         /\ LocksOf(t)' = LocksOf(t) \union {l}
         /\ \A u \in Threads \ {t} : LocksOf(u)' = LocksOf(u)
BY LockAssumption DEF TypeOK, LocksOf

LEMMA LockLeft ==
  ASSUME TypeOK, NEW t \in Threads, NEW l \in LocksOf(t),
         owner' = [owner EXCEPT ![l] = NoOne]
  PROVE  /\ owner' \in [Locks -> Threads \union {NoOne}]
         /\ LocksOf(t)' = LocksOf(t) \ {l}
         /\ \A u \in Threads \ {t} : LocksOf(u)' = LocksOf(u)
BY LockAssumption DEF TypeOK, LocksOf

\* Every step of a handler is a step of the discipline.
LEMMA ThreadStep ==
  ASSUME HandlersInv, NEW t \in Threads,
         Begin(t) \/ Take(t) \/ Leave(t) \/ Unwind(t) \/ Write(t)
  PROVE  /\ HandlersInv'
         /\ Discipline!Take(t) \/ Discipline!Leave(t) \/ Discipline!Ask(t)
<1> DEFINE s == script[t]
           held == LocksOf(t)
<1>1. /\ TypeOK /\ s \in Seq(Ops) /\ held \in SUBSET Locks
      /\ awaits[t] = Asked(s) /\ (s # <<>> => Leads(s, held, {}))
  BY DEF HandlersInv, OnScript, LocksOf
<1>2. <<>> \in Seq(Ops) /\ (s # <<>> => Tail(s) \in Seq(Ops))
  BY <1>1, EmptySeq, HeadTailProperties
<1>3. s # <<>> => \E after \in SUBSET Locks : /\ Allows(Head(s), held, after)
                                             /\ Leads(Tail(s), after, {})
  BY <1>1, LeadsBehind
<1>4. CASE Begin(t)
  <2>1. s = <<>> /\ held = {} /\ owner' = owner
    BY <1>4 DEF Begin
  <2>2. PICK h \in Handlers : Continue(t, h)
    BY <1>4 DEF Begin
  <2>3. h \in Seq(Ops) /\ Leads(h, {}, {})
    BY HandlersUnder DEF Under
  <2>4. \A u \in Threads : LocksOf(u)' = LocksOf(u)
    BY <2>1 DEF LocksOf
  <2>5. owner' \in [Locks -> Threads \union {NoOne}]
    BY <1>1, <2>1 DEF TypeOK
  <2>6. /\ HandlersInv'
        /\ \E next \in Discipline!Allowed(LocksOf(t)') : awaits' = [awaits EXCEPT ![t] = next]
    BY <2>1, <2>2, <2>3, <2>4, <2>5, GoesOn
  <2>7. awaits[t] = Nothing
    BY <1>1, <2>1 DEF Asked
  <2> QED
    BY <2>1, <2>4, <2>6, <2>7 DEF Discipline!Ask, Discipline!LocksOf, LocksOf
<1>5. CASE Take(t)
  <2> DEFINE l == awaits[t]
  <2>1. /\ s # <<>> /\ Head(s).does = "take" /\ owner[l] = NoOne
        /\ owner' = [owner EXCEPT ![l] = t]
        /\ Continue(t, Tail(s))
    BY <1>5 DEF Take, At
  <2>2. PICK after \in SUBSET Locks : Allows(Head(s), held, after) /\ Leads(Tail(s), after, {})
    BY <1>3, <2>1
  <2>3. l = Head(s).lock
    BY <1>1, <2>1 DEF Asked
  <2>4. l \in Locks /\ after = held \union {l}
    BY <2>1, <2>2, <2>3 DEF Allows
  <2>5. /\ owner' \in [Locks -> Threads \union {NoOne}]
        /\ LocksOf(t)' = held \union {l}
        /\ \A u \in Threads \ {t} : LocksOf(u)' = LocksOf(u)
    BY <1>1, <2>1, <2>4, LockTaken
  <2>6. /\ HandlersInv'
        /\ \E next \in Discipline!Allowed(LocksOf(t)') : awaits' = [awaits EXCEPT ![t] = next]
    BY <1>2, <2>1, <2>2, <2>4, <2>5, GoesOn
  <2>7. \E next \in Discipline!Allowed(LocksOf(t) \union {l}) : awaits' = [awaits EXCEPT ![t] = next]
    BY <2>5, <2>6
  <2>8. l # Nothing
    BY <2>4, LockAssumption
  <2> QED
    BY <2>1, <2>6, <2>7, <2>8 DEF Discipline!Take, Discipline!LocksOf, LocksOf
<1>6. CASE Leave(t)
  <2> DEFINE l == Head(s).lock
  <2>1. /\ s # <<>> /\ Head(s).does = "leave"
        /\ owner' = [owner EXCEPT ![l] = NoOne]
        /\ Continue(t, Tail(s)) \/ Continue(t, <<>>)
    BY <1>6 DEF Leave, At
  <2>2. PICK after \in SUBSET Locks : Allows(Head(s), held, after) /\ Leads(Tail(s), after, {})
    BY <1>3, <2>1
  <2>3. l \in held /\ after = held \ {l}
    BY <2>1, <2>2 DEF Allows
  <2>4. /\ owner' \in [Locks -> Threads \union {NoOne}]
        /\ LocksOf(t)' = held \ {l}
        /\ \A u \in Threads \ {t} : LocksOf(u)' = LocksOf(u)
    BY <1>1, <2>1, <2>3, LockLeft
  <2>5. /\ HandlersInv'
        /\ \E next \in Discipline!Allowed(LocksOf(t)') : awaits' = [awaits EXCEPT ![t] = next]
    <3>1. CASE Continue(t, Tail(s))
      BY <1>2, <2>1, <2>2, <2>3, <2>4, <3>1, GoesOn
    <3>2. CASE Continue(t, <<>>)
      BY <1>2, <2>4, <3>2, GoesOn
    <3> QED
      BY <2>1, <3>1, <3>2
  <2>6. \E next \in Discipline!Allowed(LocksOf(t) \ {l}) : awaits' = [awaits EXCEPT ![t] = next]
    BY <2>4, <2>5
  <2>7. awaits[t] = Nothing
    BY <1>1, <2>1 DEF Asked
  <2>8. Discipline!Leave(t)
    BY <2>1, <2>3, <2>6, <2>7 DEF Discipline!Leave, Discipline!LocksOf, LocksOf
  <2> QED
    BY <2>5, <2>8
<1>7. CASE Unwind(t)
  <2>1. s = <<>> /\ Continue(t, <<>>)
    BY <1>7 DEF Unwind
  <2>2. PICK l \in held : owner' = [owner EXCEPT ![l] = NoOne]
    BY <1>7 DEF Unwind
  <2>3. /\ owner' \in [Locks -> Threads \union {NoOne}]
        /\ LocksOf(t)' = held \ {l}
        /\ \A u \in Threads \ {t} : LocksOf(u)' = LocksOf(u)
    BY <1>1, <2>2, LockLeft
  <2>4. /\ HandlersInv'
        /\ \E next \in Discipline!Allowed(LocksOf(t)') : awaits' = [awaits EXCEPT ![t] = next]
    BY <1>2, <2>1, <2>3, GoesOn
  <2>5. \E next \in Discipline!Allowed(LocksOf(t) \ {l}) : awaits' = [awaits EXCEPT ![t] = next]
    BY <2>3, <2>4
  <2>6. awaits[t] = Nothing
    BY <1>1, <2>1 DEF Asked
  <2>7. Discipline!Leave(t)
    BY <2>2, <2>5, <2>6 DEF Discipline!Leave, Discipline!LocksOf, LocksOf
  <2> QED
    BY <2>4, <2>7
<1>8. CASE Write(t)
  <2>1. s # <<>> /\ Head(s).does = "write" /\ owner' = owner /\ Continue(t, Tail(s))
    BY <1>8 DEF Write, At
  <2>2. PICK after \in SUBSET Locks : Allows(Head(s), held, after) /\ Leads(Tail(s), after, {})
    BY <1>3, <2>1
  <2>3. after = held
    BY <2>1, <2>2 DEF Allows
  <2>4. \A u \in Threads : LocksOf(u)' = LocksOf(u)
    BY <2>1 DEF LocksOf
  <2>5. owner' \in [Locks -> Threads \union {NoOne}]
    BY <1>1, <2>1 DEF TypeOK
  <2>6. /\ HandlersInv'
        /\ \E next \in Discipline!Allowed(LocksOf(t)') : awaits' = [awaits EXCEPT ![t] = next]
    BY <1>2, <2>1, <2>2, <2>3, <2>4, <2>5, GoesOn
  <2>7. awaits[t] = Nothing
    BY <1>1, <2>1 DEF Asked
  <2> QED
    BY <2>1, <2>4, <2>6, <2>7 DEF Discipline!Ask, Discipline!LocksOf, LocksOf
<1> QED
  BY <1>4, <1>5, <1>6, <1>7, <1>8

LEMMA HandlersStep ==
  ASSUME HandlersInv, [Next]_vars
  PROVE  HandlersInv' /\ [Discipline!Next]_(Discipline!vars)
<1>1. CASE UNCHANGED vars
  BY <1>1 DEF vars, Discipline!vars, HandlersInv, TypeOK, OnScript, LocksOf
<1>2. CASE Next
  <2>1. PICK t \in Threads : Begin(t) \/ Take(t) \/ Leave(t) \/ Unwind(t) \/ Write(t)
    BY <1>2 DEF Next
  <2>2. /\ HandlersInv'
        /\ Discipline!Take(t) \/ Discipline!Leave(t) \/ Discipline!Ask(t)
    BY <2>1, ThreadStep
  <2> QED
    BY <2>2 DEF Discipline!Next
<1> QED
  BY <1>1, <1>2

\* The inductive invariant of the handlers.
THEOREM ScriptsAreKept == Spec => []HandlersInv
<1>1. HandlersInv /\ [Next]_vars => HandlersInv'
  BY HandlersStep
<1> QED
  BY <1>1, HandlersInit, PTL DEF Spec

\* Every handler of the server, with its early returns, takes its locks upwards:
\* any number of threads that run them are threads of LockDiscipline.
THEOREM HandlersKeepDiscipline == Spec => DisciplineSpec
<1>1. Init => Discipline!Init
  BY DEF Init, Discipline!Init
<1>2. HandlersInv /\ [Next]_vars => [Discipline!Next]_(Discipline!vars)
  BY HandlersStep
<1> QED
  BY <1>1, <1>2, ScriptsAreKept, PTL DEF Spec, DisciplineSpec, Discipline!Spec

\* The threads of the server never wait for one another in a circle, whatever
\* handlers they run and however many they are.
THEOREM ServerNeverDeadlocks == Spec => []NeverDeadlocked
BY HandlersKeepDiscipline, DeadlockFree, PTL DEF DisciplineSpec

\* A thread that holds a lock of the battle relay neither writes files nor waits
\* for the lock they are written under.
THEOREM RelayIsIndependent == Spec => []RelayNeverWaitsForStore
<1>1. HandlersInv => RelayNeverWaitsForStore
  <2> SUFFICES ASSUME HandlersInv, NEW t \in Threads, LocksOf(t) \ {"users"} # {}
               PROVE  awaits[t] # "users" /\ ~ At(t, "write")
    BY DEF RelayNeverWaitsForStore
  <2> DEFINE s == script[t]
  <2>1. /\ s \in Seq(Ops) /\ LocksOf(t) \in SUBSET Locks
        /\ awaits[t] = Asked(s) /\ (s # <<>> => Leads(s, LocksOf(t), {}))
    BY DEF HandlersInv, OnScript, LocksOf
  <2>2. awaits[t] # "users"
    <3>1. awaits[t] \in Discipline!Allowed(LocksOf(t))
      BY <2>1, AsksAllowed
    <3>2. \A l \in Locks : ~ (Rank[l] < Rank["users"])
      BY Ranks
    <3> QED
      BY <2>1, <3>1, <3>2, Ranks, LockAssumption DEF Discipline!Allowed
  <2>3. ASSUME At(t, "write") PROVE FALSE
    <3>1. s # <<>> /\ Head(s).does = "write"
      BY <2>3 DEF At
    <3>2. PICK after \in SUBSET Locks : Allows(Head(s), LocksOf(t), after)
      BY <2>1, <3>1, LeadsBehind
    <3> QED
      BY <3>1, <3>2 DEF Allows
  <2> QED
    BY <2>2, <2>3
<1> QED
  BY <1>1, ScriptsAreKept, PTL
==============================================================================
