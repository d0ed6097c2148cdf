---------------------------- MODULE MCRoomServer ------------------------------
(***************************************************************************)
(* A small instance of RoomServer for TLC: connections and invite codes    *)
(* are interchangeable.                                                    *)
(***************************************************************************)
EXTENDS RoomServer

Symmetry == Permutations(Conns) \cup Permutations(Rooms)
===============================================================================
