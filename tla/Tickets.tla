------------------------------ MODULE Tickets ------------------------------
(***************************************************************************)
(* What a knock buys, as the documentation promises it: one ticket, issued *)
(* at most once, good for a number of connections (MaxConnectionsPerKnock) *)
(* and for a time (AllowTTL), and worthless for good once it is used up,   *)
(* replaced, evicted or withdrawn.  KnockTickets shows that the session    *)
(* store and everybody who works on it keep this promise.                  *)
(***************************************************************************)
EXTENDS Naturals

CONSTANTS Knocks, Uses, TTL

VARIABLES
  now,    \* the clock
  state,  \* [Knocks -> "none", "open" or "closed"]
  used,   \* [Knocks -> connections let in]
  until   \* [Knocks -> when an open ticket runs out]

vars == <<now, state, used, until>>

Init ==
  /\ now = 1
  /\ state = [n \in Knocks |-> "none"]
  /\ used = [n \in Knocks |-> 0]
  /\ until = [n \in Knocks |-> 0]

Tick == now' = now + 1 /\ UNCHANGED <<state, used, until>>

\* Open tickets are closed; a ticket that is not issued any more is closed as well.
Closing(D) ==
  /\ \A n \in D : state[n] # "closed"
  /\ state' = [n \in Knocks |-> IF n \in D THEN "closed" ELSE state[n]]
  /\ until' = [n \in Knocks |-> IF n \in D THEN 0 ELSE until[n]]
Close == \E D \in SUBSET Knocks : Closing(D) /\ UNCHANGED <<now, used>>

\* A ticket is issued, and others may have to make room for it.
Issue(n, D, t) ==
  /\ state[n] = "none" /\ n \notin D /\ \A m \in D : state[m] = "open"
  /\ t <= now + TTL
  /\ state' = [m \in Knocks |->
                 IF m = n THEN "open" ELSE IF m \in D THEN "closed" ELSE state[m]]
  /\ until' = [m \in Knocks |-> IF m = n THEN t ELSE IF m \in D THEN 0 ELSE until[m]]
  /\ UNCHANGED <<now, used>>

\* A connection is let in on an open ticket; the last one closes it.
Use(n) ==
  /\ state[n] = "open" /\ now < until[n] /\ used[n] < Uses
  /\ used' = [used EXCEPT ![n] = @ + 1]
  /\ Closing(IF used[n] + 1 = Uses THEN {n} ELSE {})
  /\ UNCHANGED now

Next ==
  \/ Tick \/ Close
  \/ \E n \in Knocks : Use(n)
  \/ \E n \in Knocks, D \in SUBSET Knocks, t \in 0..(now + TTL) : Issue(n, D, t)

Spec == Init /\ [][Next]_vars
=============================================================================
