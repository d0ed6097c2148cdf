------------------------------- MODULE MCOverlay ------------------------------
(***************************************************************************)
(* Instances of Overlay.  Full is a game in which everything is found,     *)
(* Blind one of a build some signatures do not fit, Bare one in which only *)
(* the swap chain, which needs no signature, can be hooked.                *)
(***************************************************************************)
EXTENDS Overlay, TLC

Full  == Targets
Blind == Targets \ {"useItem", "cutscene", "skill"}
Bare  == {"present"}

AllFound == {Full}
Mixed    == {Full, Blind, Bare}
===============================================================================
