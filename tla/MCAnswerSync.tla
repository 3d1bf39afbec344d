---------------------------- MODULE MCAnswerSync ----------------------------
(***************************************************************************)
(* AnswerSync for TLC.                                                     *)
(***************************************************************************)
EXTENDS AnswerSync, TLC

Interchangeable == Permutations(Options)
=============================================================================
