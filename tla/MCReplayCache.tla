---------------------------- MODULE MCReplayCache ----------------------------
(***************************************************************************)
(* Model-checking instance of ReplayCache: keys and workers are model      *)
(* values and interchangeable.                                             *)
(***************************************************************************)
EXTENDS ReplayCache, TLC

Symmetry == Permutations(Keys) \cup Permutations(Workers)
=============================================================================
