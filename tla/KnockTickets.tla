---------------------------- MODULE KnockTickets ----------------------------
(* The session store keeps the promise of Tickets: the refinement mapping. *)
EXTENDS KnockAdmission

\* The session a knock opened, as the set of its keys.
SessionOf(n) == {k \in DOMAIN sessions : sessions[k].value.knock = n}

\* The handler has not come to AddSessionForPort yet.
Unissued(n) ==
  n > knocks \/ (n = knocks /\ handler.pc \in {"allow", "mark", "undo", "session"})

TicketState ==
  [n \in KnockIDs |-> IF SessionOf(n) # {} THEN "open"
                      ELSE IF Unissued(n) THEN "none" ELSE "closed"]
TicketUntil ==
  [n \in KnockIDs |-> IF SessionOf(n) = {} THEN 0
                      ELSE sessions[CHOOSE k \in SessionOf(n) : TRUE].expires]

T == INSTANCE Tickets WITH
       Knocks <- KnockIDs, state <- TicketState, used <- admitted, until <- TicketUntil

\* A knock is a ticket: whatever handler, timers and connections do, it lets in Uses
\* connections at most, only before it expires, and never again once its session
\* was used up, replaced, evicted or removed.
KeepsTickets == T!Spec
=============================================================================
