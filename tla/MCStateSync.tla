----------------------------- MODULE MCStateSync ------------------------------
(***************************************************************************)
(* Small instances of StateSync for TLC.                                   *)
(***************************************************************************)
EXTENDS StateSync

AllAvatars == Avatar

\* Every position, in full health, and one position without.
OneHurt == {a \in Avatar : a.health = MaxHealth \/ (a.pos = 1 /\ a.health = 0)}
===============================================================================
