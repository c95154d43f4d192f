----------------------------- MODULE ServerLocks -----------------------------
(***************************************************************************)
(* The locks of the server and who holds and awaits them: what             *)
(* LockDiscipline and HandlerLocks have in common.                         *)
(***************************************************************************)
EXTENDS Naturals

CONSTANTS
  Threads,   \* receive threads, the accept loop and the output dispatcher
  Locks,     \* the mutexes of the server
  Rank,      \* the order in which they are taken inside one another
  NoOne,     \* the owner of a free lock
  Nothing    \* what a thread waits for that waits for no lock

ASSUME LockAssumption ==
  /\ Rank \in [Locks -> 1..4]
  /\ NoOne \notin Threads
  /\ Nothing \notin Locks

VARIABLES
  owner,     \* owner[l] is the thread that holds lock l
  awaits     \* awaits[t] is the lock thread t is about to take

LocksOf(t) == {l \in Locks : owner[l] = t}

TypeOK ==
  /\ owner \in [Locks -> Threads \union {NoOne}]
  /\ awaits \in [Threads -> Locks \union {Nothing}]

\* Every thread asks upwards: for locks above all those it holds.
AsksUpwards ==
  \A t \in Threads : \A l \in LocksOf(t) : awaits[t] # Nothing => Rank[l] < Rank[awaits[t]]

\* No set of threads waits for locks that are all held within the set: whoever
\* waits, waits for a thread that can go on, directly or through others.
NeverDeadlocked ==
  \A S \in SUBSET Threads :
    S # {} => \E t \in S : awaits[t] = Nothing \/ owner[awaits[t]] \notin S
=============================================================================
