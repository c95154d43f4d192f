---------------------------- MODULE RoomManagerMC ----------------------------
(* Instances of RoomManager for TLC. *)
EXTENDS RoomManager, TLC

Symmetry == Permutations(Users) \union Permutations(Conns) \union Permutations(RoomNames)
=============================================================================
