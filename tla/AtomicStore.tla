----------------------------- MODULE AtomicStore -----------------------------
(***************************************************************************)
(* What a user transaction promises: a request sees all that took effect   *)
(* before it, its update takes effect on what it saw, at one moment or not *)
(* at all, a client told "ok" asked for an update that took effect, a      *)
(* client told "error" for one that did not, and what took effect stays    *)
(* when the process dies.  Files, memory, journal and locks do not appear. *)
(***************************************************************************)
CONSTANTS
  Conns,  \* connections that ask for updates
  Files,  \* the parts of the data
  Image,  \* what a part may hold
  NoData  \* a request that sees nothing

VARIABLES
  db,       \* the data
  request,  \* where the request of a connection stands
  seen,     \* the data it was asked on
  reply     \* the last answer to a connection

vars == <<db, request, seen, reply>>

Over(base, update) ==
  [f \in Files |-> IF f \in DOMAIN update THEN update[f] ELSE base[f]]

Updates == UNION {[F -> Image] : F \in SUBSET Files}

Init ==
  /\ db \in [Files -> Image]
  /\ request = [c \in Conns |-> "none"]
  /\ seen = [c \in Conns |-> NoData]
  /\ reply = [c \in Conns |-> "none"]

Ask(c) ==
  /\ request[c] = "none"
  /\ request' = [request EXCEPT ![c] = "asked"]
  /\ seen' = [seen EXCEPT ![c] = db]
  /\ reply' = [reply EXCEPT ![c] = "none"]
  /\ UNCHANGED db

\* Nothing has taken effect since the request was asked.
Update(c) ==
  /\ request[c] = "asked"
  /\ seen[c] = db
  /\ \E update \in Updates : db' = Over(db, update)
  /\ request' = [request EXCEPT ![c] = "updated"]
  /\ seen' = [seen EXCEPT ![c] = NoData]
  /\ UNCHANGED reply

Answer(c, from, text) ==
  /\ request[c] = from
  /\ request' = [request EXCEPT ![c] = "none"]
  /\ seen' = [seen EXCEPT ![c] = NoData]
  /\ reply' = [reply EXCEPT ![c] = text]
  /\ UNCHANGED db

\* The process dies: requests stay without an answer, the data stay.
Die ==
  /\ request' = [c \in Conns |-> "none"]
  /\ seen' = [c \in Conns |-> NoData]
  /\ UNCHANGED <<db, reply>>

Next ==
  \/ \E c \in Conns : \/ Ask(c)
                      \/ Update(c)
                      \/ Answer(c, "asked", "error")
                      \/ Answer(c, "updated", "ok")
  \/ Die

Spec == Init /\ [][Next]_vars
=============================================================================
