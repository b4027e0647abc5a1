-------------------------- MODULE MCStatusSnapshot --------------------------
(***************************************************************************)
(* StatusSnapshot with two providers; the two urls let a connection be     *)
(* changed and changed back.                                               *)
(***************************************************************************)
EXTENDS StatusSnapshot, TLC

CONSTANTS p1, p2, m1, m2

Symmetric == Permutations({p1, p2}) \union Permutations({m1, m2})
=============================================================================
