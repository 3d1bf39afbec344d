-------------------------- MODULE MCWritingSession --------------------------
(***************************************************************************)
(* WritingSession for TLC: the symmetry of its interchangeable actors.     *)
(***************************************************************************)
EXTENDS WritingInvariant, TLC

\* Passes and API threads carry no identity.
Interchangeable == Permutations(Workers) \cup Permutations(Clients)
=============================================================================
