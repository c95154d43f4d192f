------------------------------ MODULE CsvStore ------------------------------
(***************************************************************************)
(* Transactions on the user data: UserManager::Transaction over the redo   *)
(* journal of CsvStore.h, with process death at every point and recovery   *)
(* at the next start.                                                      *)
(*                                                                         *)
(* A transaction holds usersMutex from its constructor to its destructor,  *)
(* so one transaction is in progress at a time: holder is its connection   *)
(* and stage says how far it has come.  The image of a file is one value:  *)
(* Replace writes and flushes a temporary file and renames it, so a file   *)
(* has its old content or the new one.  The file system is external.       *)
(***************************************************************************)
EXTENDS Naturals, FiniteSets

CONSTANTS
  Conns,      \* connections whose handlers run transactions
  Files,      \* the CSV files
  Image,      \* contents a CSV file may have
  Oversized,  \* those above the length limit of Decode
  NoConn,     \* usersMutex is free
  NoImage     \* a vector of a process that does not run

ASSUME CsvStoreAssumption ==
  /\ Oversized \subseteq Image
  /\ NoConn \notin Conns
  /\ NoImage \notin Image

VARIABLES
  mem,       \* the vectors of UserManager, by the file they are kept in
  disk,      \* the CSV files
  journal,   \* users.redo, the empty function if it does not exist
  applied,   \* files Recover has replaced in the pass it is in
  stage,     \* where the process is
  holder,    \* who holds usersMutex
  snapshot,  \* the copy a Transaction keeps
  pending,   \* pending_, the images written in the transaction
  reply      \* history: what each client was told last

vars == <<mem, disk, journal, applied, stage, holder, snapshot, pending, reply>>

Nothing == [f \in {} |-> NoImage]
Gone    == [f \in Files |-> NoImage]
Redo    == UNION {[F -> Image] : F \in SUBSET Files}

\* Files as they are once the images of redo have replaced theirs.
Over(base, redo) ==
  [f \in Files |-> IF f \in DOMAIN redo THEN redo[f] ELSE base[f]]

Stages == {"down", "starting", "up", "work", "saved", "applying", "done"}
Busy   == {"work", "saved", "applying", "done"}

TypeOK ==
  /\ mem \in [Files -> Image \union {NoImage}]
  /\ disk \in [Files -> Image]
  /\ journal \in Redo
  /\ applied \subseteq Files
  /\ stage \in Stages
  /\ holder \in Conns \union {NoConn}
  /\ snapshot \in [Files -> Image \union {NoImage}]
  /\ pending \in Redo
  /\ reply \in [Conns -> {"none", "ok", "error"}]

\* The server is down; the files are in some state without a journal.
Init ==
  /\ mem = Gone
  /\ disk \in [Files -> Image]
  /\ journal = Nothing
  /\ applied = {}
  /\ stage = "down"
  /\ holder = NoConn
  /\ snapshot = Gone
  /\ pending = Nothing
  /\ reply = [c \in Conns |-> "none"]

-----------------------------------------------------------------------------
(* Transactions *)

\* The constructor: the lock, the copies, an empty set of images.
Begin(c) ==
  /\ stage = "up"
  /\ stage' = "work"
  /\ holder' = c
  /\ snapshot' = mem
  /\ pending' = Nothing
  /\ reply' = [reply EXCEPT ![c] = "none"]
  /\ UNCHANGED <<mem, disk, journal, applied>>

\* The body: the handler changes rows in memory and saves their files, which
\* only collects their images.
Change(c) ==
  /\ stage = "work" /\ holder = c
  /\ \E F \in SUBSET Files : pending' \in [F -> Image]
  /\ mem' = Over(mem, pending')
  /\ stage' = "saved"
  /\ UNCHANGED <<disk, journal, applied, holder, snapshot, reply>>

\* The destructor, which restores the vectors unless the commit succeeded.
KeepMemory(committed)    == UNCHANGED mem
RestoreMemory(committed) == mem' = IF committed THEN mem ELSE snapshot

Finish(c, committed) ==
  /\ RestoreMemory(committed)
  /\ stage' = "up"
  /\ holder' = NoConn
  /\ snapshot' = Gone
  /\ pending' = Nothing
  /\ reply' = [reply EXCEPT ![c] = IF committed THEN "ok" ELSE "error"]
  /\ UNCHANGED <<disk, journal, applied>>

\* A check of the handler fails, something throws, before or after changes, or
\* the journal cannot be written.
Refuse(c) ==
  /\ stage \in {"work", "saved"} /\ holder = c
  /\ Finish(c, FALSE)

\* Commit with nothing written.
CommitNothing(c) ==
  /\ stage = "saved" /\ holder = c
  /\ pending = Nothing
  /\ stage' = "done"
  /\ UNCHANGED <<mem, disk, journal, applied, holder, snapshot, pending, reply>>

\* The commit point: the journal is on disk.
Publish(c) ==
  /\ stage = "saved" /\ holder = c
  /\ pending # Nothing
  /\ journal' = pending
  /\ applied' = {}
  /\ stage' = "applying"
  /\ UNCHANGED <<mem, disk, holder, snapshot, pending, reply>>

\* Commit returned true: the handler answers, then the destructor runs.
Succeed(c) ==
  /\ stage = "done" /\ holder = c
  /\ Finish(c, TRUE)

-----------------------------------------------------------------------------
(* Recover, in a commit and at startup *)

Readable(redo) == \A f \in DOMAIN redo : redo[f] \notin Oversized

Apply ==
  /\ stage \in {"applying", "starting"}
  /\ Readable(journal)
  /\ \E f \in DOMAIN journal \ applied :
       /\ disk' = [disk EXCEPT ![f] = journal[f]]
       /\ applied' = applied \union {f}
  /\ UNCHANGED <<mem, journal, stage, holder, snapshot, pending, reply>>

\* The journal may go once every image is in place.
SomeApplied == applied # {}
FilesDone   == applied = Files
AllApplied  == applied = DOMAIN journal

Retire ==
  /\ stage \in {"applying", "starting"}
  /\ journal # Nothing
  /\ AllApplied
  /\ journal' = Nothing
  /\ applied' = {}
  /\ stage' = IF stage = "applying" THEN "done" ELSE stage
  /\ UNCHANGED <<mem, disk, holder, snapshot, pending, reply>>

-----------------------------------------------------------------------------
(* The process *)

\* The process is gone, with its memory.
Exit ==
  /\ stage' = "down"
  /\ mem' = Gone
  /\ applied' = {}
  /\ holder' = NoConn
  /\ snapshot' = Gone
  /\ pending' = Nothing
  /\ UNCHANGED <<disk, journal, reply>>

\* It dies at any point, or an I/O error past the commit point ends it
\* (std::terminate in a commit, the return of Run at startup).
Die == stage # "down" /\ Exit

\* Decode rejects the journal, which ends the process the same way.
Reject ==
  /\ stage \in {"applying", "starting"}
  /\ ~Readable(journal)
  /\ Exit

Restart ==
  /\ stage = "down"
  /\ stage' = "starting"
  /\ UNCHANGED <<mem, disk, journal, applied, holder, snapshot, pending, reply>>

\* Run loads the files only after Recover has returned.
AnyTime   == TRUE
Recovered == journal = Nothing

Load ==
  /\ stage = "starting"
  /\ Recovered
  /\ mem' = disk
  /\ applied' = {}
  /\ stage' = "up"
  /\ UNCHANGED <<disk, journal, holder, snapshot, pending, reply>>

-----------------------------------------------------------------------------
Step(c) ==
  \/ Begin(c)
  \/ Change(c)
  \/ Refuse(c)
  \/ CommitNothing(c)
  \/ Publish(c)
  \/ Succeed(c)

Replay == Apply \/ Retire

Next == (\E c \in Conns : Step(c)) \/ Replay \/ Reject \/ Die \/ Restart \/ Load

Spec == Init /\ [][Next]_vars

\* The steps of a transaction that has begun.
GoOn(c) == Change(c) \/ Refuse(c) \/ CommitNothing(c) \/ Publish(c) \/ Succeed(c)

\* The process dies finitely often and is started again; a thread in a
\* transaction and a recovery go on.
FairSpec ==
  /\ Spec
  /\ <>[][~Die \/ Reject]_vars
  /\ WF_vars(Restart)
  /\ WF_vars(Load)
  /\ WF_vars(Replay)
  /\ WF_vars(Reject)
  /\ \A c \in Conns : WF_vars(GoOn(c))

-----------------------------------------------------------------------------
(* Properties *)

\* What a restart would serve: the files with the journal replayed.
Durable == Over(disk, journal)

\* Outside a transaction the memory the server answers from is what is on
\* disk, with no journal left over, whatever failed or died before.
MemoryMatchesDisk ==
  stage \in {"up", "done"} => mem = disk /\ journal = Nothing

\* During a transaction the way back and the way forward are both kept: until
\* the journal is out a rollback restores exactly what is on disk, and from
\* then on memory is what recovery will reach.
BothWaysOpen ==
  /\ stage \in {"work", "saved"} => snapshot = disk /\ journal = Nothing
  /\ stage = "work" => mem = snapshot
  /\ stage = "saved" => mem = Over(disk, pending)
  /\ stage = "applying" => /\ journal = pending /\ journal # Nothing
                           /\ mem = Durable

\* Recover's pass is where it thinks it is.
PassInPlace ==
  /\ applied \subseteq DOMAIN journal
  /\ \A f \in applied : disk[f] = journal[f]
  /\ applied # {} => stage \in {"applying", "starting"}

\* usersMutex is held exactly during a transaction.
LockHeld == holder # NoConn <=> stage \in Busy

\* Holds in every reachable state, and every step keeps it.
StoreInv ==
  /\ TypeOK
  /\ MemoryMatchesDisk
  /\ BothWaysOpen
  /\ PassInPlace
  /\ LockHeld

\* A journal that recovery can read is replayed and retired, and the server
\* serves again, however often it dies on the way.
RecoveryCompletes == journal # Nothing /\ Readable(journal) ~> journal = Nothing

\* "After it exists, recovery must finish." (CsvStore.h:96), of every journal.
EveryJournalRetires == journal # Nothing ~> journal = Nothing

-----------------------------------------------------------------------------
(* The promise the module implements *)

Request(c) ==
  IF holder # c THEN "none"
  ELSE IF stage \in {"work", "saved"} THEN "asked" ELSE "updated"

\* What it was asked on, until its update has taken effect.
Asked(c) == IF Request(c) = "asked" THEN snapshot ELSE Gone

Store == INSTANCE AtomicStore WITH db      <- Durable,
                                   request <- [c \in Conns |-> Request(c)],
                                   seen    <- [c \in Conns |-> Asked(c)],
                                   NoData  <- Gone

\* Every behaviour of files, journal and memory is one of an atomic store.
AtomicSpec == Store!Spec
=============================================================================
