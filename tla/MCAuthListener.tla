--------------------------- MODULE MCAuthListener ---------------------------
(* AuthListener for TLC: connections of two sources. *)
EXTENDS AuthListener, TLC

CONSTANTS c1, c2, c3, s1, s2

MCConns == {c1, c2, c3}
MCSources == {s1, s2}
MCSourceOf == c1 :> s1 @@ c2 :> s1 @@ c3 :> s2

Symmetry == Permutations(Workers) \cup Permutations(Callers)
=============================================================================
