------------------------- MODULE MCSearchProjection -------------------------
(* The instances of SearchProjection that TLC checks. *)
EXTENDS SearchProjection, TLC

Symmetric == Permutations(Workers)
=============================================================================
