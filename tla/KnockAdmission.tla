--------------------------- MODULE KnockAdmission ---------------------------
(***************************************************************************)
(* What an accepted knock sets in motion: the knock handler (gate/gate.go  *)
(* knockHandler and knockSessionOnlyHandler, relay/knock.go), the session  *)
(* and lease store (relay/session.go), the TTL timers, the connections     *)
(* that consume a session, and the firewall rules themselves.              *)
(*                                                                         *)
(* Every store method is atomic under KnockSessionStore.mu; a firewall     *)
(* command is one step of its own, and the handler, the timer callbacks    *)
(* and the connections interleave between these steps.  The handler is     *)
(* called by the one goroutine that serves the knock listener.  There is   *)
(* one protected port.                                                     *)
(***************************************************************************)
EXTENDS TTLLRU

CONSTANTS
  Remotes,         \* source addresses
  Clients,         \* client ids ({"*"} in knock-firewall-only mode)
  Conns,           \* concurrent connections
  TTL,             \* AllowTTL
  MaxConnectionsPerKnock,
  MaxEntries,      \* the limit of the session and of the lease cache
  UseFirewall,     \* FALSE: knock-auth-only, no rules and no leases
  ManualRevoke,    \* ShouldManualRevoke: the backend has no rule timeout
  BoundSessions,   \* the knock carries a session id that a connection repeats
  RemoveAfterAuth, \* Gateway.RemoveAfterAuth
  FirewallFaults,  \* a firewall command may fail
  MaxKnocks,       \* bound: knocks accepted in a behaviour
  MaxTime          \* bound: the clock stops here

ASSUME ConstantsAssumption ==
  /\ IsFiniteSet(Remotes) /\ IsFiniteSet(Clients)
  /\ TTL \in Nat \ {0} /\ MaxEntries \in Nat \ {0}
  /\ MaxConnectionsPerKnock \in Int
  /\ MaxKnocks \in Nat /\ MaxTime \in Nat
  /\ UseFirewall \in BOOLEAN /\ ManualRevoke \in BOOLEAN
  /\ BoundSessions \in BOOLEAN /\ RemoveAfterAuth \in BOOLEAN
  /\ FirewallFaults \in BOOLEAN
  \* Gateway.run refuses the other combination.
  /\ RemoveAfterAuth => MaxConnectionsPerKnock <= 1

VARIABLES
  now,        \* the clock
  sessions,   \* store.sessions: <<remote, client>> -> [remaining, knock]
  leases,     \* store.firewall: remote -> lease id
  nextID,     \* store.nextID
  rules,      \* [Remotes -> Nat]: the end of the rule, <= now when there is none
  knocks,     \* number of knocks accepted so far; a knock is its number
  handler,    \* the knock handler and the knock it handles
  timers,     \* registered TTL timers
  callbacks,  \* timer callbacks that are running
  conn,       \* [Conns -> connection]
  admitted    \* [1..MaxKnocks -> Nat]: connections a knock has let in

vars == <<now, sessions, leases, nextID, rules, knocks, handler, timers,
          callbacks, conn, admitted>>

\* AddSessionForPort: a knock without a positive limit lets in one connection.
Uses == IF MaxConnectionsPerKnock <= 0 THEN 1 ELSE MaxConnectionsPerKnock

LeaseIDs == Nat
SessionKeys == Remotes \X Clients
KnockIDs == 1..MaxKnocks
SessionValues == [remaining : Nat \ {0}, knock : KnockIDs]
Timers == [at : Nat, remote : Remotes, client : Clients, id : Nat]

\* A goroutine that is not there.
Idle == [pc |-> "idle"]

\* A rule of a backend without timeouts ends with the run.
Forever == MaxTime + TTL + 1
RuleOpen(r) == rules[r] > now

\* No knock is taken from the socket when its timer could not fire in time.
LastKnock == MaxTime - TTL - 1

Init ==
  /\ now = 1
  /\ sessions = EmptyCache
  /\ leases = EmptyCache
  /\ nextID = 0
  /\ rules = [r \in Remotes |-> 0]
  /\ knocks = 0
  /\ handler = Idle
  /\ timers = {}
  /\ callbacks = {}
  /\ conn = [c \in Conns |-> Idle]
  /\ admitted = [n \in KnockIDs |-> 0]

Tick ==
  /\ now < MaxTime
  /\ handler.pc # "idle" => now <= LastKnock
  /\ now' = now + 1
  /\ UNCHANGED <<sessions, leases, nextID, rules, knocks, handler, timers,
                 callbacks, conn, admitted>>
-----------------------------------------------------------------------------
\* The firewall: Allow renews a timed rule and finds an untimed one in place;
\* Revoke of a rule that is not there is no error.
Allow(r) == [rules EXCEPT ![r] = IF ManualRevoke THEN Forever ELSE now + TTL]
Revoke(r) == [rules EXCEPT ![r] = 0]

\* The listener hands an authenticated knock frame to the handler.
Knock(r, c) ==
  /\ handler.pc = "idle"
  /\ knocks < MaxKnocks
  /\ now <= LastKnock
  /\ knocks' = knocks + 1
  /\ handler' = [pc |-> IF UseFirewall THEN "allow" ELSE "session",
                 remote |-> r, client |-> c, id |-> 0, since |-> now]
  /\ UNCHANGED <<now, sessions, leases, nextID, rules, timers, callbacks,
                 conn, admitted>>

\* AllowFirewall, and the early return when the command fails, which it may do
\* before or after it took effect (a timeout).
HandlerAllow ==
  /\ handler.pc = "allow"
  /\ \/ /\ rules' = Allow(handler.remote)
        /\ handler' = [handler EXCEPT !.pc = "mark", !.since = now]
     \/ /\ FirewallFaults
        /\ rules' \in {rules, Allow(handler.remote)}
        /\ handler' = Idle
  /\ UNCHANGED <<now, sessions, leases, nextID, knocks, timers, callbacks,
                 conn, admitted>>

\* MarkFirewall at clock t, read before the lock: expired leases are swept, an
\* active one is renewed under a new id, a new one needs room.
SweptLeases(t) == Sweep(leases, t)

Grants(r, t) ==
  Live(leases, r, t) \/ CacheLen(SweptLeases(t)) < MaxEntries

MarkFirewall(r, t) ==
  IF Grants(r, t)
  THEN setLocked(SweptLeases(t), r, nextID + 1, t + TTL, MaxEntries)
  ELSE SweptLeases(t)

HandlerMark ==
  \E t \in handler.since..now :
    /\ leases' = MarkFirewall(handler.remote, t)
    /\ IF Grants(handler.remote, t)
       THEN /\ nextID' = nextID + 1
            /\ handler' = [handler EXCEPT !.pc = "session", !.since = now,
                                          !.id = nextID + 1]
       ELSE /\ handler' = IF ManualRevoke THEN [handler EXCEPT !.pc = "undo"]
                          ELSE Idle
            /\ UNCHANGED nextID
    /\ UNCHANGED <<now, sessions, rules, knocks, timers, callbacks, conn,
                   admitted>>

\* The store is full: the handler takes the rule back and drops the knock.
HandlerUndo ==
  /\ handler.pc = "undo"
  /\ \/ rules' = Revoke(handler.remote)
     \/ FirewallFaults /\ UNCHANGED rules
  /\ handler' = Idle
  /\ UNCHANGED <<now, sessions, leases, nextID, knocks, timers, callbacks,
                 conn, admitted>>

\* AddSessionForPort at clock t, read before the lock: the session of an
\* earlier knock of this client is replaced.
HandlerSession ==
  \E t \in handler.since..now :
    /\ sessions' = setLocked(sessions, <<handler.remote, handler.client>>,
                             [remaining |-> Uses, knock |-> knocks], t + TTL,
                             MaxEntries)
    /\ handler' = [handler EXCEPT !.pc = "arm"]
    /\ UNCHANGED <<now, leases, nextID, rules, knocks, timers, callbacks,
                   conn, admitted>>

\* Mutant: the timer is registered with the id of the previous lease.
HandlerArmStale ==
  /\ timers' = timers \cup
       {[at |-> now + TTL, remote |-> handler.remote,
         client |-> handler.client, id |-> handler.id - 1]}
  /\ handler' = Idle
  /\ UNCHANGED <<now, sessions, leases, nextID, rules, knocks, callbacks,
                 conn, admitted>>

\* timers.AfterFunc, the last step of the handler.
HandlerArm ==
  /\ timers' = timers \cup
       {[at |-> now + TTL, remote |-> handler.remote,
         client |-> handler.client, id |-> handler.id]}
  /\ handler' = Idle
  /\ UNCHANGED <<now, sessions, leases, nextID, rules, knocks, callbacks,
                 conn, admitted>>

HandlerStep ==
  \/ HandlerAllow
  \/ handler.pc = "mark" /\ HandlerMark
  \/ HandlerUndo
  \/ handler.pc = "session" /\ HandlerSession
  \/ handler.pc = "arm" /\ HandlerArm
-----------------------------------------------------------------------------
\* The runtime starts a timer's callback, at or after its time.
TimerFires(tm) ==
  /\ tm.at <= now
  /\ timers' = timers \ {tm}
  /\ callbacks' = callbacks \cup {[pc |-> "sessions", timer |-> tm]}
  /\ UNCHANGED <<now, sessions, leases, nextID, rules, knocks, handler, conn,
                 admitted>>

Moved(cb, pc) == (callbacks \ {cb}) \cup {[cb EXCEPT !.pc = pc]}

SessionExpired(k, t) == k \in DOMAIN sessions /\ sessions[k].expires <= t

\* Expire: drop the client's session if it has expired at clock t.
Expire(cb, t) ==
  LET k == <<cb.timer.remote, cb.timer.client>>
  IN  /\ cb.pc = "sessions"
      /\ sessions' = IF SessionExpired(k, t)
                     THEN Delete(sessions, k) ELSE sessions
      /\ callbacks' = IF UseFirewall THEN Moved(cb, "lease")
                      ELSE callbacks \ {cb}
      /\ UNCHANGED <<now, leases, nextID, rules, knocks, handler, timers,
                     conn, admitted>>

\* Mutant: whatever lease is there is taken for the timer's own.
OwnLeaseUnchecked(tm, t) == tm.remote \in DOMAIN leases

\* Mutant: a lease is kept at the moment it expires.
OwnLeaseExpiredStrict(tm, t) ==
  /\ tm.remote \in DOMAIN leases
  /\ leases[tm.remote].value = tm.id
  /\ leases[tm.remote].expires < t

\* ExpireFirewall deletes the lease if it is still the timer's own and has
\* expired at clock t; otherwise the timer is stale.
OwnLeaseExpired(tm, t) ==
  /\ tm.remote \in DOMAIN leases
  /\ leases[tm.remote].value = tm.id
  /\ leases[tm.remote].expires <= t

\* Mutant: the callback ends without revoking the rule.
LeaseEndedUnrevoked(cb) == callbacks \ {cb}

\* A backend without timeouts has its rule revoked next.
LeaseEnded(cb) ==
  IF ManualRevoke THEN Moved(cb, "revoke") ELSE callbacks \ {cb}

ExpireFirewall(cb, t) ==
  /\ cb.pc = "lease"
  /\ IF OwnLeaseExpired(cb.timer, t)
     THEN /\ leases' = Delete(leases, cb.timer.remote)
          /\ callbacks' = LeaseEnded(cb)
     ELSE /\ callbacks' = callbacks \ {cb}
          /\ UNCHANGED leases
  /\ UNCHANGED <<now, sessions, nextID, rules, knocks, handler, timers, conn,
                 admitted>>

\* RevokeFirewallDetached; its error is reported and nothing is retried.
CallbackRevoke(cb) ==
  /\ cb.pc = "revoke"
  /\ \/ rules' = Revoke(cb.timer.remote)
     \/ FirewallFaults /\ UNCHANGED rules
  /\ callbacks' = callbacks \ {cb}
  /\ UNCHANGED <<now, sessions, leases, nextID, knocks, handler, timers, conn,
                 admitted>>

\* The callback reads the clock before each lock, never before its own time.
CallbackStep(cb) ==
  \/ \E t \in cb.timer.at..now : Expire(cb, t) \/ ExpireFirewall(cb, t)
  \/ CallbackRevoke(cb)
-----------------------------------------------------------------------------
\* The session ids a connection can present: one per knock, 0 for another.
Sids == IF BoundSessions THEN 0..knocks ELSE {0}

\* A connection from r reaches the listener if a rule lets it through.  It
\* authenticates as client c and, in session-bound modes, repeats the session
\* id of some knock.
Connect(x, r, c, n) ==
  /\ conn[x].pc = "idle"
  /\ UseFirewall => RuleOpen(r)
  /\ conn' = [conn EXCEPT ![x] = [pc |-> "consume", key |-> <<r, c>>, sid |-> n]]
  /\ UNCHANGED <<now, sessions, leases, nextID, rules, knocks, handler, timers,
                 callbacks, admitted>>

\* Mutant: a session is good for as long as it is stored.
AdmitsExpired(x) ==
  /\ conn[x].key \in DOMAIN sessions
  /\ BoundSessions => sessions[conn[x].key].value.knock = conn[x].sid

\* CheckAndConsume: the clock is read under the lock; an expired session is
\* deleted, a session of another id refuses, the last use deletes it.
Admits(x) ==
  /\ Live(sessions, conn[x].key, now)
  /\ BoundSessions => sessions[conn[x].key].value.knock = conn[x].sid

\* Mutant: the last use does not delete the session.
ConsumedKept(k) == [sessions EXCEPT ![k].value.remaining = @ - 1]

Consumed(k) ==
  IF sessions[k].value.remaining <= 1
  THEN Delete(sessions, k)
  ELSE [sessions EXCEPT ![k].value.remaining = @ - 1]

CheckAndConsume(x) ==
  LET k == conn[x].key
  IN  /\ conn[x].pc = "consume"
      /\ IF Admits(x)
         THEN /\ sessions' = Consumed(k)
              /\ admitted' = [admitted EXCEPT ![sessions[k].value.knock] = @ + 1]
              /\ conn' = [conn EXCEPT ![x] =
                            IF RemoveAfterAuth
                            THEN [conn[x] EXCEPT !.pc = "session"]
                            ELSE Idle]
         ELSE /\ sessions' = IF Live(sessions, k, now) THEN sessions
                             ELSE Delete(sessions, k)
              /\ conn' = [conn EXCEPT ![x] = Idle]
              /\ UNCHANGED admitted
      /\ UNCHANGED <<now, leases, nextID, rules, knocks, handler, timers,
                     callbacks>>

\* removeKnockAccess, three steps: RemoveForPort, RemoveFirewall, Revoke.
RemoveForPort(x) ==
  /\ conn[x].pc = "session"
  /\ sessions' = Delete(sessions, conn[x].key)
  /\ conn' = [conn EXCEPT ![x].pc = "lease"]
  /\ UNCHANGED <<now, leases, nextID, rules, knocks, handler, timers,
                 callbacks, admitted>>

RemoveFirewall(x) ==
  /\ conn[x].pc = "lease"
  /\ leases' = Delete(leases, conn[x].key[1])
  /\ conn' = [conn EXCEPT ![x].pc = "revoke"]
  /\ UNCHANGED <<now, sessions, nextID, rules, knocks, handler, timers,
                 callbacks, admitted>>

RemoveRule(x) ==
  /\ conn[x].pc = "revoke"
  /\ \/ rules' = Revoke(conn[x].key[1])
     \/ FirewallFaults /\ UNCHANGED rules
  /\ conn' = [conn EXCEPT ![x] = Idle]
  /\ UNCHANGED <<now, sessions, leases, nextID, knocks, handler, timers,
                 callbacks, admitted>>

ConnStep(x) ==
  CheckAndConsume(x) \/ RemoveForPort(x) \/ RemoveFirewall(x) \/ RemoveRule(x)
-----------------------------------------------------------------------------
Next ==
  \/ Tick
  \/ \E r \in Remotes, c \in Clients : Knock(r, c)
  \/ HandlerStep
  \/ \E tm \in timers : TimerFires(tm)
  \/ \E cb \in callbacks : CallbackStep(cb)
  \/ \E x \in Conns, r \in Remotes, c \in Clients, n \in Sids :
       Connect(x, r, c, n)
  \/ \E x \in Conns : ConnStep(x)

Spec == Init /\ [][Next]_vars

\* The goroutines run, the clock advances and due timers fire.
Fairness ==
  /\ WF_vars(Tick)
  /\ WF_vars(HandlerStep)
  /\ WF_vars(\E tm \in timers : TimerFires(tm))
  /\ WF_vars(\E cb \in callbacks : CallbackStep(cb))
  /\ \A x \in Conns : WF_vars(ConnStep(x))
-----------------------------------------------------------------------------
Handlers ==
  [pc : {"allow", "mark", "undo", "session", "arm"}, remote : Remotes,
   client : Clients, id : Nat, since : Nat]
Connections ==
  [pc : {"consume", "session", "lease", "revoke"}, key : SessionKeys,
   sid : 0..MaxKnocks]

\* The store, the handler, the timers and the connections have their types; each
\* cache is within MaxEntries.
TypeOK ==
  /\ now \in Nat
  /\ IsCache(sessions, SessionKeys, SessionValues)
  /\ IsCache(leases, Remotes, LeaseIDs)
  /\ nextID \in Nat
  /\ rules \in [Remotes -> Int]
  /\ knocks \in 0..MaxKnocks
  /\ handler \in Handlers \cup {Idle}
  /\ timers \subseteq Timers
  /\ callbacks \subseteq [pc : {"sessions", "lease", "revoke"}, timer : Timers]
  /\ conn \in [Conns -> Connections \cup {Idle}]
  /\ admitted \in [KnockIDs -> Nat]

\* A knock lets in at most Uses connections, whatever timers, renewals,
\* evictions and concurrent connections do to its session: CheckAndConsume
\* and AddSessionForPort never hand out a use twice.
AdmissionsBounded == \A n \in KnockIDs : admitted[n] <= Uses

\* A lease that has not expired is kept, with an expiry that never moves back,
\* by every timer callback, sweep and renewal; only removeKnockAccess ends it.
\* A stale timer of an earlier knock does not touch it.
LeaseKept ==
  [][\A r \in Remotes :
       Live(leases, r, now) =>
         \/ r \in DOMAIN leases' /\ leases'[r].expires >= leases[r].expires
         \/ \E x \in Conns : conn[x].pc = "lease" /\ conn[x].key[1] = r
                              /\ conn'[x].pc = "revoke"]_vars

\* Somebody will end every lease: a timer with its id is registered or runs,
\* or the handler is about to register it.
LeaseHasTimer ==
  \A r \in DOMAIN leases :
    \/ \E tm \in timers : tm.remote = r /\ tm.id = leases[r].value
    \/ \E cb \in callbacks : /\ cb.timer.remote = r
                             /\ cb.timer.id = leases[r].value
                             /\ cb.pc \in {"sessions", "lease"}
    \/ /\ handler.pc \in {"session", "arm"}
       /\ handler.remote = r /\ handler.id = leases[r].value

\* Somebody is at work on the rule of r and has not finished.
BusyWith(r) ==
  \/ handler.pc \in {"mark", "undo"} /\ handler.remote = r
  \/ \E cb \in callbacks : cb.pc = "revoke" /\ cb.timer.remote = r
  \/ \E x \in Conns : conn[x].pc = "revoke" /\ conn[x].key[1] = r

\* An open rule has a lease, and with it a timer, or somebody at work on it.
Accounted(r) == RuleOpen(r) => r \in DOMAIN leases \/ BusyWith(r)

\* MarkFirewall for another source sweeps the expired lease of r.
SweptAway(r) ==
  handler.pc = "mark" /\ handler.remote # r /\ r \in DOMAIN leases /\ ~Live(leases, r, now)

\* A command for r returns an error in this step: the handler's Allow or undo, or the
\* Revoke of a callback or of a connection.
CommandFails(r) ==
  /\ FirewallFaults
  /\ \/ handler.pc \in {"allow", "undo"} /\ handler.remote = r /\ handler'.pc = "idle"
     \/ \E cb \in callbacks \ callbacks' : cb.pc = "revoke" /\ cb.timer.remote = r
     \/ \E x \in Conns : /\ conn[x].pc = "revoke" /\ conn[x].key[1] = r
                         /\ conn'[x].pc = "idle"

\* A backend without timeouts: a rule that is accounted for stays so until it is closed,
\* whatever knocks, timers, renewals, connections and a full store do.  It is lost to
\* everybody only by a command that fails, or when the knock of another source sweeps
\* its expired lease (session.go, MarkFirewall) before its own timer has run.
RulesAccounted ==
  [][ManualRevoke =>
       \A r \in Remotes :
         Accounted(r) => Accounted(r)' \/ SweptAway(r) \/ CommandFails(r)]_vars

\* "The plain iptables backend relies on libknock's gate/relay timers to revoke ACCEPT
\* rules": without failing commands every open rule has a lease whose timer revokes it,
\* or somebody at work on it.
NoOrphanRule == \A r \in Remotes : Accounted(r)

\* While a lease is active and nobody is at work on its rule, the rule is open:
\* the timer of an earlier knock has not revoked it.
RenewedLeaseKeepsRule ==
  \A r \in Remotes : Live(leases, r, now) => RuleOpen(r) \/ BusyWith(r)
=============================================================================
