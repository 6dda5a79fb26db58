-------------------------- MODULE MCGraphIdClaims --------------------------
(***************************************************************************)
(* Three identities that reduce to one id, one a rebuild may use, and two  *)
(* writers.                                                                *)
(***************************************************************************)
EXTENDS GraphIdClaims, TLC

CONSTANTS k1, k2, k3, p2, i1, i2

MCReduced == [k \in Identities |-> IF k = p2 THEN i2 ELSE i1]

\* Writers and the rivals are interchangeable.
Alike == Permutations(Writers) \cup Permutations(Identities \ {p2})
=============================================================================
