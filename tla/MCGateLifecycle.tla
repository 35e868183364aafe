--------------------------- MODULE MCGateLifecycle ---------------------------
(* GateLifecycle for TLC. *)
EXTENDS GateLifecycle, TLC

AllModes == {"auth-only", "knock-auth-only", "knock-firewall-auth",
             "knock-firewall-only"}
FirewallModes == {"knock-firewall-auth"}

Symmetry == Permutations(Starters)
=============================================================================
