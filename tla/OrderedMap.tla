------------------------------ MODULE OrderedMap ------------------------------
(***************************************************************************)
(* A JavaScript Map as the sequence of its keys in insertion order, which  *)
(* is the order of iteration the server relies on when it broadcasts and   *)
(* when it looks for the next host.  A queue of distinct ids (puzzle.ts)   *)
(* is the same thing.                                                      *)
(***************************************************************************)
EXTENDS Naturals, Sequences, SequencesExt

\* Mutants of the two map operations: a newcomer is put first; the entry is
\* emptied and not removed.
MapSetFirst(s, p) == IF p \in ToSet(s) THEN s ELSE <<p>> \o s
MapDeleteTombstone(s, p) ==
    [i \in DOMAIN s |-> IF s[i] = p THEN "undefined" ELSE s[i]]

\* Map.set and Map.delete as seen by the order of iteration.
MapSet(s, p) == IF p \in ToSet(s) THEN s ELSE Append(s, p)
MapDelete(s, p) ==
    IF p \in ToSet(s) THEN RemoveAt(s, CHOOSE i \in DOMAIN s : s[i] = p) ELSE s

\* p is iterated before q.
ComesBefore(s, p, q) == \E i, j \in DOMAIN s : i < j /\ s[i] = p /\ s[j] = q

===============================================================================
