----------------------------- MODULE MCPuzzleView -----------------------------
(***************************************************************************)
(* Small instances of PuzzleView for TLC.                                  *)
(***************************************************************************)
EXTENDS PuzzleView
===============================================================================
