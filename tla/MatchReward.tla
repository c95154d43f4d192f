----------------------------- MODULE MatchReward -----------------------------
(***************************************************************************)
(* What the server promises about the result of a match: it is played,     *)
(* claimed by one death, and paid at most once.  A claim whose payment     *)
(* fails goes back to the match for another try.  Rooms, sessions, threads *)
(* and packets do not appear.                                              *)
(***************************************************************************)
CONSTANT Matches  \* match ids

VARIABLE phase    \* how far each match has come

Phases == {"unplayed", "open", "claimed", "paid"}

TypeOK == phase \in [Matches -> Phases]

Init == phase = [m \in Matches |-> "unplayed"]

Move(m, from, to) ==
  /\ phase[m] = from
  /\ phase' = [phase EXCEPT ![m] = to]

Start(m)   == Move(m, "unplayed", "open")
Claim(m)   == Move(m, "open", "claimed")
Release(m) == Move(m, "claimed", "open")
Pay(m)     == Move(m, "claimed", "paid")

Next == \E m \in Matches : Start(m) \/ Claim(m) \/ Release(m) \/ Pay(m)

Spec == Init /\ [][Next]_phase

\* A claim does not stay undecided for ever.
FairSpec == Spec /\ \A m \in Matches : WF_phase(Release(m) \/ Pay(m))
=============================================================================
