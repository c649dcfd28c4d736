--------------------------- MODULE MCContentStore ---------------------------
(* Instances of ContentStore for TLC. *)
EXTENDS ContentStore, TLC

\* Every session has its own user / all sessions have the same user.
OwnOwner == [s \in Sessions |-> s]
OneOwner == [s \in Sessions |-> "u"]

Symmetric == Permutations(Sessions) \cup Permutations(Workers)
=============================================================================
