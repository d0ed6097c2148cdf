---------------------------- MODULE MCCombatRelay -----------------------------
(***************************************************************************)
(* A small instance of CombatRelay for TLC.                                *)
(***************************************************************************)
EXTENDS CombatRelay, TLC
===============================================================================
