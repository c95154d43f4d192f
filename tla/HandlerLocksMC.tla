---------------------------- MODULE HandlerLocksMC ----------------------------
(* The instance of HandlerLocks for TLC. *)
EXTENDS HandlerLocks, TLC

AllLocks == DOMAIN ServerRank

Symmetry == Permutations(Threads)
=============================================================================
