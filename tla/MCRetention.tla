---------------------------- MODULE MCRetention ----------------------------
(* Retention on a small instance. *)
EXTENDS Retention, TLC

CONSTANTS dev, prod, n1, n2, d1, d2, p1, p2

Symmetry == Permutations({n1, n2}) \cup Permutations({d1, d2}) \cup Permutations({p1, p2})
=============================================================================
