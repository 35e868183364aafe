--------------------------- MODULE MCKnockListener ---------------------------
(* KnockListener for TLC: clients and sources are interchangeable, and one *)
(* thing at most is wrong with a request.                                  *)
EXTENDS KnockListener, TLC

CONSTANT OtherPort
MCRequests ==
  {r \in [client : Clients \cup Strangers, port : {Port, OtherPort}, sid : 0..1, legacy : BOOLEAN] :
     (r.port = Port \/ (r.sid = 1 /\ ~r.legacy)) /\ (r.legacy => r.sid = 1)}
Symmetry == Permutations(Clients) \cup Permutations(Sources)

\* A sender that is ahead has the longer acceptance span, at both ends of which
\* its parts may arrive.  The two UDP sequence listeners share their tracker:
\* one of them meets a sender that is ahead, the other one that is not.
MCInit ==
  /\ ListenerInit
  /\ method \in {"udp-seq", "tcp-syn-seq"} => skew = MaxSkew
  /\ method = "udp-passive-seq" => skew = 0
MCSpec == MCInit /\ [][ListenerNext]_listenerVars
==============================================================================
