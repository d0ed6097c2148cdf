---------------------------- MODULE MCRoomChannel -----------------------------
(***************************************************************************)
(* A small instance of RoomChannel for TLC.  Symmetry is used only in the  *)
(* runs that check no liveness.                                            *)
(***************************************************************************)
EXTENDS RoomChannel

Symmetry == Permutations(Conns) \cup Permutations(Rooms)
===============================================================================
