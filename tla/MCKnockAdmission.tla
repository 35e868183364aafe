-------------------------- MODULE MCKnockAdmission --------------------------
EXTENDS KnockTickets, TLC

Symmetry == Permutations(Remotes) \cup Permutations(Clients)
            \cup Permutations(Conns)
=============================================================================
