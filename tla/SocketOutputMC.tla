---------------------------- MODULE SocketOutputMC ----------------------------
(* Instances of SocketOutput for TLC. *)
EXTENDS SocketOutput

CONSTANT Caller  \* the caller of the second instance

VARIABLE scene  \* the instance: one connection, or two that share the dispatcher

\* Messages of every length on one connection that is always read; or short
\* messages on two, of which the peers that do not read are there to hold the
\* dispatcher up: one message each is enough for that.
InScene ==
  IF scene = "one"
  THEN \A c \in Conns \ Readers :
         accepted'[c] = <<>> /\ \A t \in Threads : stop'[t].conn # c
  ELSE /\ \A t \in Callers \ {Caller} : stop'[t] = NotStopping
       /\ \A c \in Conns :
         /\ Len(accepted'[c]) <= IF c \in Readers THEN 2 ELSE 1
         /\ \A i \in DOMAIN accepted'[c] : Len(accepted'[c][i]) = 1

SceneInit == Init /\ scene \in {"one", "two"}

SceneNext == Next /\ InScene /\ UNCHANGED scene

SceneSpec == SceneInit /\ [][SceneNext]_<<vars, scene>> /\ Fairness
=============================================================================
