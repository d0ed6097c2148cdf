----------------------------- MODULE MCPuzzleToken ----------------------------
(***************************************************************************)
(* A small instance of PuzzleToken for TLC.  No symmetry: the order of the *)
(* players is what the module is about, and the instance is small.         *)
(***************************************************************************)
EXTENDS PuzzleToken
===============================================================================
