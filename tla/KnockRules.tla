----------------------------- MODULE KnockRules -----------------------------
(* KnockAdmission with a record of the rules nobody will close. *)
EXTENDS KnockTickets

VARIABLE
  excused  \* sources with an open rule whose lease was swept or whose command failed

ruleVars == <<vars, excused>>

RulesInit == Init /\ excused = {}

\* The lease of r is taken by the knock of another source, or a command for r fails.
Abandoned(r) ==
  \/ handler.pc = "mark" /\ handler.remote # r /\ r \in DOMAIN leases \ DOMAIN leases'
  \/ CommandFails(r)

RulesNext ==
  /\ Next
  /\ excused' = {r \in Remotes : RuleOpen(r)' /\ (r \in excused \/ Abandoned(r))}

RulesSpec == RulesInit /\ [][RulesNext]_ruleVars /\ Fairness

\* When the knocks stop, every session and lease is gone in the end, however timers,
\* renewals, removals and sweeps of two sources overlap, and every rule is closed
\* unless its lease was swept for another source or a command for it failed.
EventuallyClean ==
  <>[](/\ sessions = EmptyCache
       /\ leases = EmptyCache
       /\ {r \in Remotes : RuleOpen(r)} \subseteq excused)
=============================================================================
