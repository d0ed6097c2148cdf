---------------------------- MODULE MCOffsetCache -----------------------------
(***************************************************************************)
(* Small instances of OffsetCache for TLC.                                 *)
(***************************************************************************)
EXTENDS OffsetCache
===============================================================================
