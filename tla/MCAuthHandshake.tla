--------------------------- MODULE MCAuthHandshake ---------------------------
(* AuthHandshake for TLC: dials and keys are interchangeable. *)
EXTENDS AuthHandshake, TLC

Symmetry == Permutations(Dials) \cup Permutations(Keys)

\* Bound: one dial at most fails, for whatever reason, while the others go on.
OneDialFails == Cardinality({d \in Dials : dial[d] = "failed"}) <= 1
==============================================================================
