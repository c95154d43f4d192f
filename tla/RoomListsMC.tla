----------------------------- MODULE RoomListsMC -----------------------------
(* Instances of RoomLists for TLC. *)
EXTENDS RoomLists, TLC

Symmetry == Permutations(Users)
=============================================================================
