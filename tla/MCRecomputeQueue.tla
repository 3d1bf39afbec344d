-------------------------- MODULE MCRecomputeQueue --------------------------
(* Instances of RecomputeQueue for TLC. *)
EXTENDS RecomputeInvariant, TLC

\* Rows, passes and requests are interchangeable.
Symmetry == Permutations(RowIds) \union Permutations(Passes) \union Permutations(Clients)
=============================================================================
