------------------------ MODULE KnockAdmissionProofs ------------------------
(***************************************************************************)
(* Proofs about KnockAdmission for any addresses, clients, connections and *)
(* limits, any backend and any mode: the types, the sessions and the       *)
(* refinement of Tickets.                                                  *)
(*                                                                         *)
(* Then the firewall leases: every lease has a timer that will end it, and *)
(* no timer ends a lease before its time.  The argument rests on the ids:  *)
(* a renewed lease has an id no timer knows yet, and a timer registered    *)
(* for an id fires no earlier than the expiry of the lease with that id.   *)
(* Then the rules of the firewall: an open rule has a lease or someone     *)
(* about to give it one, but for the sweep of the lease table and for      *)
(* commands that fail.                                                     *)
(***************************************************************************)
EXTENDS KnockTickets, TTLLRUTheorems

\* A session set that lost entries and changed none.
Shrinks(d, c) ==
  /\ IsCache(d, SessionKeys, SessionValues)
  /\ \A k \in DOMAIN d : /\ k \in DOMAIN c
                         /\ d[k].value = c[k].value /\ d[k].expires = c[k].expires

\* Deleting a session shrinks the set.
LEMMA DeleteShrinks ==
  ASSUME NEW c, IsCache(c, SessionKeys, SessionValues), NEW k
  PROVE  Shrinks(Delete(c, k), c)
<1>1. IsFiniteSet(SessionKeys)
  BY ConstantsAssumption, FS_Product, Zenon DEF SessionKeys
<1>2. /\ IsCache(removeElements(c, {k}), SessionKeys, SessionValues)
      /\ DOMAIN removeElements(c, {k}) = DOMAIN c \ {k}
      /\ SameEntries(removeElements(c, {k}), c, DOMAIN c \ {k})
  BY <1>1, RemoveElements
<1> QED
  BY <1>2, Zenon DEF Delete, Shrinks, SameEntries

\* Consuming a use shrinks the set, or lowers the count of one session that
\* has another use left.
LEMMA ConsumedEntries ==
  ASSUME NEW k, TypeOK, k \in DOMAIN sessions
  PROVE  \/ Shrinks(Consumed(k), sessions) /\ k \notin DOMAIN Consumed(k)
         \/ /\ IsCache(Consumed(k), SessionKeys, SessionValues)
            /\ DOMAIN Consumed(k) = DOMAIN sessions
            /\ Consumed(k)[k].value.knock = sessions[k].value.knock
            /\ Consumed(k)[k].value.remaining = sessions[k].value.remaining - 1
            /\ Consumed(k)[k].expires = sessions[k].expires
            /\ \A x \in DOMAIN sessions \ {k} : Consumed(k)[x] = sessions[x]
<1>1. CASE sessions[k].value.remaining <= 1
  <2>1. Consumed(k) = Delete(sessions, k)
    BY <1>1, Zenon DEF Consumed
  <2>2. k \notin DOMAIN Delete(sessions, k)
    BY Zenon DEF Delete, removeElements
  <2> QED
    BY <2>1, <2>2, DeleteShrinks DEF TypeOK
<1>2. CASE ~(sessions[k].value.remaining <= 1)
  <2> DEFINE d == [sessions EXCEPT ![k].value.remaining = @ - 1]
  <2>1. Consumed(k) = d
    BY <1>2, Zenon DEF Consumed
  <2>2. \A x \in DOMAIN sessions :
          sessions[x] \in [value : SessionValues, expires : Int,
                           older : SUBSET SessionKeys]
    BY Zenon DEF TypeOK, IsCache
  <2>3. sessions[k].value \in [remaining : Nat \ {0}, knock : KnockIDs]
    BY <2>2, Zenon DEF SessionValues
  <2>4. DOMAIN d = DOMAIN sessions
    BY Zenon
  <2>5. \A x \in DOMAIN sessions \ {k} : d[x] = sessions[x]
    BY Zenon
  <2>6. d[k] = [sessions[k] EXCEPT !.value =
                  [sessions[k].value EXCEPT !.remaining = @ - 1]]
    BY <2>2, Zenon
  <2> DEFINE v == [sessions[k].value EXCEPT !.remaining = @ - 1]
  <2>7. /\ v.remaining = sessions[k].value.remaining - 1
        /\ v.knock = sessions[k].value.knock
        /\ v \in SessionValues
    BY <1>2, <2>3 DEF SessionValues
  <2> HIDE DEF v, d
  <2>8. /\ d[k].value = v /\ d[k].expires = sessions[k].expires
        /\ d[k] \in [value : SessionValues, expires : Int,
                     older : SUBSET SessionKeys]
    BY <2>2, <2>6, <2>7, Zenon DEF v
  <2>9. IsCache(d, SessionKeys, SessionValues)
    BY <2>2, <2>4, <2>5, <2>8, Zenon DEF TypeOK, IsCache
  <2> QED
    BY <2>1, <2>4, <2>5, <2>7, <2>8, <2>9, Zenon
<1> QED
  BY <1>1, <1>2, Zenon
-----------------------------------------------------------------------------
\* What MarkFirewall does to the leases at clock t: it drops only leases that
\* have expired at t, and changes no other than that of r.
LEMMA MarkEntries ==
  ASSUME TypeOK, NEW r \in Remotes, NEW t \in Nat
  PROVE  LET d == MarkFirewall(r, t)
         IN  /\ IsCache(d, Remotes, LeaseIDs)
             /\ DOMAIN d \subseteq DOMAIN leases \cup {r}
             /\ \A x \in DOMAIN leases : leases[x].expires > t => x \in DOMAIN d
             /\ \A x \in DOMAIN d \ {r} : /\ d[x].value = leases[x].value
                                          /\ d[x].expires = leases[x].expires
             /\ Grants(r, t) => /\ r \in DOMAIN d
                                /\ d[r].value = nextID + 1
                                /\ d[r].expires = t + TTL
             /\ ~Grants(r, t) => /\ r \notin DOMAIN d
                                 /\ ~Live(leases, r, t)
<1> DEFINE E == {k \in DOMAIN leases : leases[k].expires <= t}
           s == removeElements(leases, E)
           d == MarkFirewall(r, t)
<1>1. /\ IsFiniteSet(Remotes) /\ IsCache(leases, Remotes, LeaseIDs) /\ nextID \in Nat
      /\ \A x \in DOMAIN leases : leases[x].expires \in Int
      /\ TTL \in Nat /\ MaxEntries \in Nat
  BY ConstantsAssumption, Zenon DEF TypeOK, IsCache
<1>2. SweptLeases(t) = s
  BY Zenon DEF SweptLeases, Sweep
<1>3. \A x \in DOMAIN leases : leases[x].expires > t <=> x \notin E
  BY <1>1
<1>4. Live(leases, r, t) <=> r \in DOMAIN leases \ E
  BY <1>3, Zenon DEF Live
<1> HIDE DEF E
<1>5. /\ IsCache(s, Remotes, LeaseIDs)
      /\ DOMAIN s = DOMAIN leases \ E
      /\ SameEntries(s, leases, DOMAIN leases \ E)
      /\ CacheLen(s) \in Nat
  BY <1>1, RemoveElements
<1> HIDE DEF s
<1>6. CASE ~Grants(r, t)
  <2>1. d = s
    BY <1>2, <1>6, Zenon DEF MarkFirewall
  <2>2. ~Live(leases, r, t)
    BY <1>6, Zenon DEF Grants
  <2> QED
    BY <1>3, <1>4, <1>5, <1>6, <2>1, <2>2, Zenon DEF SameEntries
<1>7. CASE Grants(r, t)
  <2> DEFINE w == nextID + 1
             e == t + TTL
  <2>1. d = setLocked(s, r, w, e, MaxEntries)
    BY <1>2, <1>7, Zenon DEF MarkFirewall
  <2>2. w \in LeaseIDs /\ e \in Int
    BY <1>1 DEF LeaseIDs
  <2> HIDE DEF d, w, e
  <2>3. /\ IsCache(d, Remotes, LeaseIDs)
        /\ DOMAIN d = DOMAIN s \cup {r}
        /\ Holds(d, r, w, e)
        /\ SameEntries(d, s, DOMAIN s \ {r})
    <3>0. /\ IsCache(s, Remotes, LeaseIDs)
          /\ IsFiniteSet(Remotes) /\ MaxEntries \in Nat /\ CacheLen(s) \in Nat
      BY <1>1, <1>5, Zenon
    <3>1. CASE r \in DOMAIN s
      <4>1. DOMAIN s = DOMAIN s \cup {r}
        BY <3>1, Zenon
      <4> QED
        BY <2>1, <2>2, <3>0, <3>1, <4>1, Overwrite
    <3>2. CASE r \notin DOMAIN s
      <4>1. HasRoom(s, MaxEntries)
        BY <1>2, <1>4, <1>5, <1>7, <3>0, <3>2, Zenon DEF Grants, HasRoom
      <4>2. DOMAIN s \ {r} = DOMAIN s
        BY <3>2, Zenon
      <4>3. /\ IsCache(d, Remotes, LeaseIDs)
            /\ DOMAIN d = DOMAIN s \cup {r}
            /\ Holds(d, r, w, e)
            /\ SameEntries(d, s, DOMAIN s)
        <5> DEFINE q == setLocked(s, r, w, e, MaxEntries)
        <5>1. r \in Remotes /\ r \notin DOMAIN s
          BY <3>2, Zenon
        <5>2. IsCache(q, Remotes, LeaseIDs)
          BY <2>2, <3>0, <4>1, <5>1, InsertWithRoom, Zenon
        <5>3. Holds(q, r, w, e)
          BY <2>2, <3>0, <4>1, <5>1, InsertWithRoom, Zenon
        <5>4. SameEntries(q, s, DOMAIN s)
          BY <2>2, <3>0, <4>1, <5>1, InsertWithRoom, Zenon
        <5>5. Gained(q, s, r)
          BY <2>2, <3>0, <4>1, <5>1, InsertWithRoom, Zenon
        <5> QED
          BY <2>1, <5>2, <5>3, <5>4, <5>5, Zenon DEF Gained
      <4> QED
        BY <4>2, <4>3, Zenon
    <3> QED
      BY <3>1, <3>2, Zenon
  <2>4. \A x \in DOMAIN d \ {r} : /\ x \in DOMAIN leases
                                 /\ d[x].value = leases[x].value
                                 /\ d[x].expires = leases[x].expires
    BY <1>5, <2>3, Zenon DEF SameEntries
  <2>5. \A x \in DOMAIN leases : leases[x].expires > t => x \in DOMAIN d
    BY <1>3, <1>5, <2>3, Zenon
  <2> QED
    BY <1>7, <2>3, <2>4, <2>5, Zenon DEF Holds, d, w, e
<1> QED
  BY <1>6, <1>7, Zenon

\* Deleting a lease leaves the others alone.
LEMMA DeleteLease ==
  ASSUME TypeOK, NEW r
  PROVE  /\ IsCache(Delete(leases, r), Remotes, LeaseIDs)
         /\ DOMAIN Delete(leases, r) = DOMAIN leases \ {r}
         /\ \A x \in DOMAIN leases \ {r} :
              /\ Delete(leases, r)[x].value = leases[x].value
              /\ Delete(leases, r)[x].expires = leases[x].expires
<1>1. IsFiniteSet(Remotes) /\ IsCache(leases, Remotes, LeaseIDs)
  BY ConstantsAssumption, Zenon DEF TypeOK
<1>2. /\ IsCache(removeElements(leases, {r}), Remotes, LeaseIDs)
      /\ DOMAIN removeElements(leases, {r}) = DOMAIN leases \ {r}
      /\ SameEntries(removeElements(leases, {r}), leases, DOMAIN leases \ {r})
  BY <1>1, RemoveElements
<1> QED
  BY <1>2, Zenon DEF Delete, SameEntries

\* What AddSessionForPort does to the sessions.
LEMMA StoredSession ==
  ASSUME TypeOK, NEW r \in Remotes, NEW c \in Clients, NEW t \in Nat,
         knocks \in KnockIDs
  PROVE  LET k == <<r, c>>
             v == [remaining |-> Uses, knock |-> knocks]
             d == setLocked(sessions, k, v, t + TTL, MaxEntries)
         IN  /\ IsCache(d, SessionKeys, SessionValues)
             /\ k \in DOMAIN d
             /\ d[k].value = v /\ d[k].expires = t + TTL
             /\ \A x \in DOMAIN d \ {k} : /\ x \in DOMAIN sessions
                                          /\ d[x].value = sessions[x].value
                                          /\ d[x].expires = sessions[x].expires
<1> DEFINE k == <<r, c>>
           v == [remaining |-> Uses, knock |-> knocks]
           d == setLocked(sessions, k, v, t + TTL, MaxEntries)
<1>1. IsFiniteSet(SessionKeys)
  BY ConstantsAssumption, FS_Product, Zenon DEF SessionKeys
<1>2. Uses \in Nat \ {0}
  BY ConstantsAssumption DEF Uses
<1>3. k \in SessionKeys /\ v \in SessionValues /\ t + TTL \in Int
  BY <1>2, ConstantsAssumption DEF SessionKeys, SessionValues
<1>4. IsCache(sessions, SessionKeys, SessionValues)
  BY Zenon DEF TypeOK
<1> HIDE DEF k, v
<1>5. /\ IsCache(d, SessionKeys, SessionValues)
      /\ Holds(d, k, v, t + TTL)
      /\ SameEntries(d, sessions, DOMAIN d \ {k})
  BY <1>1, <1>3, <1>4, SetEntries, Zenon
<1> HIDE DEF d
<1>6. \A x \in DOMAIN d \ {k} : /\ x \in DOMAIN sessions
                                /\ d[x].value = sessions[x].value
                                /\ d[x].expires = sessions[x].expires
  BY <1>5, Zenon DEF SameEntries
<1> QED
  BY <1>5, <1>6, Zenon DEF Holds, k, v, d
-----------------------------------------------------------------------------
\* The handler works on the latest knock.
HasKnock == handler.pc # "idle" => knocks >= 1

TypeInv == TypeOK /\ HasKnock

\* The state before the first knock.
LEMMA TypeInvInit == Init => TypeInv
<1> SUFFICES ASSUME Init PROVE TypeInv
  BY Zenon
<1>1. DOMAIN sessions = {} /\ DOMAIN leases = {}
  BY Zenon DEF Init, EmptyCache
<1>2. /\ IsCache(sessions, SessionKeys, SessionValues)
      /\ IsCache(leases, Remotes, LeaseIDs)
  BY <1>1, Zenon DEF IsCache
<1>3. knocks \in 0..MaxKnocks
  BY ConstantsAssumption DEF Init
<1> QED
  BY <1>2, <1>3 DEF Init, TypeInv, TypeOK, HasKnock, Idle

\* The handler's steps keep the types.
LEMMA TypeInvHandler ==
  ASSUME TypeInv,
         HandlerStep \/ \E r \in Remotes, c \in Clients : Knock(r, c)
  PROVE  TypeInv'
<1> USE ConstantsAssumption
<1>0. /\ TypeOK
      /\ now \in Nat /\ TTL \in Nat /\ MaxTime \in Nat
      /\ handler.pc # "idle" => handler \in Handlers /\ knocks \in KnockIDs
  BY DEF TypeInv, TypeOK, HasKnock, Idle, KnockIDs
<1>1. ASSUME NEW r \in Remotes, NEW c \in Clients, Knock(r, c) PROVE TypeInv'
  <2>1. knocks' \in 0..MaxKnocks /\ knocks' >= 1
    BY <1>0, <1>1 DEF Knock, TypeOK
  <2>2. handler' \in Handlers
    BY <1>0, <1>1, Zenon DEF Knock, Handlers
  <2> QED
    BY <1>0, <1>1, <2>1, <2>2, Zenon DEF Knock, TypeInv, TypeOK, HasKnock
<1>2. CASE HandlerAllow
  <2>1. handler' \in Handlers \cup {Idle} /\ (handler'.pc # "idle" => knocks >= 1)
    BY <1>0, <1>2, Zenon DEF HandlerAllow, Handlers, Idle, TypeInv, HasKnock
  <2>2. rules' \in [Remotes -> Int]
    <3>1. Forever \in Int /\ now + TTL \in Int
      BY <1>0 DEF Forever
    <3>2. Allow(handler.remote) \in [Remotes -> Int]
      BY <1>0, <3>1, Zenon DEF Allow, TypeOK
    <3> QED
      BY <1>0, <1>2, <3>2, Zenon DEF HandlerAllow, TypeOK
  <2> QED
    BY <1>0, <1>2, <2>1, <2>2, Zenon DEF HandlerAllow, TypeInv, TypeOK, HasKnock
<1>3. CASE handler.pc = "mark" /\ HandlerMark
  <2>0. handler \in Handlers
    BY <1>0, <1>3, Zenon
  <2>1. PICK t \in handler.since..now :
          /\ leases' = MarkFirewall(handler.remote, t)
          /\ IF Grants(handler.remote, t)
             THEN /\ nextID' = nextID + 1
                  /\ handler' = [handler EXCEPT !.pc = "session", !.since = now,
                                                !.id = nextID + 1]
             ELSE /\ handler' = IF ManualRevoke
                                THEN [handler EXCEPT !.pc = "undo"] ELSE Idle
                  /\ UNCHANGED nextID
          /\ UNCHANGED <<now, sessions, rules, knocks, timers, callbacks, conn,
                         admitted>>
    BY <1>3, Zenon DEF HandlerMark
  <2>2. t \in Nat /\ handler.remote \in Remotes
    BY <1>0, <2>0 DEF Handlers
  <2>3. IsCache(leases', Remotes, LeaseIDs)
    BY <1>0, <2>1, <2>2, MarkEntries, Zenon
  <2>4. nextID' \in Nat /\ nextID + 1 \in Nat
    BY <1>0, <2>1 DEF TypeOK
  <2>5. handler' \in Handlers \cup {Idle}
    BY <1>0, <2>0, <2>1, <2>4, Zenon DEF Handlers
  <2> QED
    BY <1>0, <1>3, <2>1, <2>3, <2>4, <2>5, Zenon DEF TypeInv, TypeOK, HasKnock
<1>4. CASE HandlerUndo
  <2>1. rules' \in [Remotes -> Int]
    BY <1>0, <1>4 DEF HandlerUndo, Revoke, TypeOK
  <2> QED
    BY <1>0, <1>4, <2>1, Zenon DEF HandlerUndo, TypeInv, TypeOK, HasKnock, Idle
<1>5. CASE handler.pc = "session" /\ HandlerSession
  <2>0. handler \in Handlers /\ knocks \in KnockIDs
    BY <1>0, <1>5, Zenon
  <2>1. PICK t \in handler.since..now :
          /\ sessions' = setLocked(sessions, <<handler.remote, handler.client>>,
                             [remaining |-> Uses, knock |-> knocks], t + TTL,
                             MaxEntries)
          /\ handler' = [handler EXCEPT !.pc = "arm"]
          /\ UNCHANGED <<now, leases, nextID, rules, knocks, timers, callbacks,
                         conn, admitted>>
    BY <1>5, Zenon DEF HandlerSession
  <2>2. t \in Nat /\ handler.remote \in Remotes /\ handler.client \in Clients
    BY <1>0, <2>0 DEF Handlers
  <2>3. IsCache(sessions', SessionKeys, SessionValues)
    BY <1>0, <2>0, <2>1, <2>2, StoredSession, Zenon
  <2>4. handler' \in Handlers
    BY <2>0, <2>1, Zenon DEF Handlers
  <2> QED
    BY <1>0, <1>5, <2>1, <2>3, <2>4, Zenon DEF TypeInv, TypeOK, HasKnock
<1>6. CASE handler.pc = "arm" /\ HandlerArm
  <2>1. timers' \subseteq Timers
    BY <1>0, <1>6 DEF HandlerArm, Handlers, Timers, TypeOK
  <2> QED
    BY <1>0, <1>6, <2>1, Zenon DEF HandlerArm, TypeInv, TypeOK, HasKnock, Idle
<1> QED
  BY <1>1, <1>2, <1>3, <1>4, <1>5, <1>6, Zenon DEF HandlerStep

\* The timers' and the callbacks' steps keep the types.
LEMMA TypeInvTimers ==
  ASSUME TypeInv,
         \/ \E tm \in timers : TimerFires(tm)
         \/ \E cb \in callbacks : CallbackStep(cb)
  PROVE  TypeInv'
<1> DEFINE CBs == [pc : {"sessions", "lease", "revoke"}, timer : Timers]
<1>0. TypeOK /\ timers \subseteq Timers /\ callbacks \subseteq CBs
  BY Zenon DEF TypeInv, TypeOK
<1>1. ASSUME NEW tm \in timers, TimerFires(tm) PROVE TypeInv'
  <2>1. [pc |-> "sessions", timer |-> tm] \in CBs
    BY <1>0, Zenon
  <2>2. timers' \subseteq Timers /\ callbacks' \subseteq CBs
    BY <1>0, <1>1, <2>1, Zenon DEF TimerFires
  <2> QED
    BY <1>1, <2>2, Zenon DEF TimerFires, TypeInv, TypeOK, HasKnock
<1>2. ASSUME NEW cb \in callbacks, NEW p \in {"sessions", "lease", "revoke"}
      PROVE  Moved(cb, p) \subseteq CBs
  <2>1. [cb EXCEPT !.pc = p] \in CBs
    BY <1>0, <1>2, Zenon
  <2> QED
    BY <1>0, <2>1, Zenon DEF Moved
<1>3. ASSUME NEW cb \in callbacks, NEW t, Expire(cb, t) PROVE TypeInv'
  <2>1. callbacks' \subseteq CBs
    BY <1>0, <1>2, <1>3, Zenon DEF Expire
  <2>2. IsCache(sessions', SessionKeys, SessionValues)
    BY <1>0, <1>3, DeleteShrinks, Zenon DEF Expire, Shrinks, TypeOK
  <2> QED
    BY <1>3, <2>1, <2>2, Zenon DEF Expire, TypeInv, TypeOK, HasKnock
<1>4. ASSUME NEW cb \in callbacks, NEW t, ExpireFirewall(cb, t) PROVE TypeInv'
  <2>1. callbacks' \subseteq CBs
    BY <1>0, <1>2, <1>4, Zenon DEF ExpireFirewall, LeaseEnded
  <2>2. IsCache(leases, Remotes, LeaseIDs)
        /\ IsCache(Delete(leases, cb.timer.remote), Remotes, LeaseIDs)
    BY <1>0, DeleteLease, Zenon DEF TypeOK
  <2>3. IsCache(leases', Remotes, LeaseIDs)
    BY <1>4, <2>2, Zenon DEF ExpireFirewall
  <2> QED
    BY <1>4, <2>1, <2>3, Zenon DEF ExpireFirewall, TypeInv, TypeOK, HasKnock
<1>5. ASSUME NEW cb \in callbacks, CallbackRevoke(cb) PROVE TypeInv'
  <2>1. rules' \in [Remotes -> Int]
    BY <1>0, <1>5 DEF CallbackRevoke, Revoke, TypeOK
  <2> QED
    BY <1>5, <2>1, Zenon DEF CallbackRevoke, TypeInv, TypeOK, HasKnock
<1> QED
  BY <1>1, <1>3, <1>4, <1>5, Zenon DEF CallbackStep

\* The connections' steps keep the types.
LEMMA TypeInvConns ==
  ASSUME TypeInv,
         \/ \E x \in Conns, r \in Remotes, c \in Clients, n \in Sids :
              Connect(x, r, c, n)
         \/ \E x \in Conns : ConnStep(x)
  PROVE  TypeInv'
<1>0. /\ TypeOK
      /\ IsCache(sessions, SessionKeys, SessionValues)
      /\ admitted \in [KnockIDs -> Nat]
      /\ conn \in [Conns -> Connections \cup {Idle}]
  BY Zenon DEF TypeInv, TypeOK
<1>1. ASSUME NEW x \in Conns, NEW r \in Remotes, NEW c \in Clients,
             NEW n \in Sids, Connect(x, r, c, n)
      PROVE  TypeInv'
  <2>1. n \in 0..MaxKnocks
    BY <1>0, ConstantsAssumption DEF Sids, TypeOK
  <2>2. [pc |-> "consume", key |-> <<r, c>>, sid |-> n] \in Connections
    BY <2>1, Zenon DEF Connections, SessionKeys
  <2>3. conn' \in [Conns -> Connections \cup {Idle}]
    BY <1>0, <1>1, <2>2, Zenon DEF Connect
  <2> QED
    BY <1>1, <2>3, Zenon DEF Connect, TypeInv, TypeOK, HasKnock
<1>2. ASSUME NEW x \in Conns, CheckAndConsume(x) PROVE TypeInv'
  <2> DEFINE k == conn[x].key
  <2>0. conn[x] \in Connections
    BY <1>0, <1>2 DEF CheckAndConsume, Idle
  <2>1. [conn[x] EXCEPT !.pc = "session"] \in Connections
    BY <2>0, Zenon DEF Connections
  <2>2. conn' \in [Conns -> Connections \cup {Idle}]
    BY <1>0, <1>2, <2>1, Zenon DEF CheckAndConsume
  <2>3. Shrinks(Delete(sessions, k), sessions)
    BY <1>0, DeleteShrinks, Zenon
  <2>4. CASE Admits(x)
    <3>1. k \in DOMAIN sessions
      BY <2>4, Zenon DEF Admits, Live
    <3>2. IsCache(sessions', SessionKeys, SessionValues)
      BY <1>0, <1>2, <2>4, <3>1, ConsumedEntries DEF CheckAndConsume, Shrinks
    <3>3. admitted' \in [KnockIDs -> Nat]
      <4>1. admitted' = [admitted EXCEPT ![sessions[k].value.knock] = @ + 1]
        BY <1>2, <2>4, Zenon DEF CheckAndConsume
      <4>2. \A n \in KnockIDs : admitted[n] + 1 \in Nat
        BY <1>0
      <4> QED
        BY <1>0, <4>1, <4>2, Zenon
    <3> QED
      BY <1>2, <2>2, <3>2, <3>3, Zenon DEF CheckAndConsume, TypeInv, TypeOK, HasKnock
  <2>5. CASE ~Admits(x)
    <3>1. IsCache(sessions', SessionKeys, SessionValues)
      BY <1>0, <1>2, <2>3, <2>5, Zenon DEF CheckAndConsume, Shrinks
    <3>2. admitted' = admitted
      BY <1>2, <2>5, Zenon DEF CheckAndConsume
    <3> QED
      BY <1>2, <2>2, <3>1, <3>2, Zenon DEF CheckAndConsume, TypeInv, TypeOK, HasKnock
  <2> QED
    BY <2>4, <2>5, Zenon
<1>3. ASSUME NEW x \in Conns, RemoveForPort(x) PROVE TypeInv'
  <2>1. conn[x] \in Connections
    BY <1>0, <1>3 DEF RemoveForPort, Idle
  <2>2. [conn[x] EXCEPT !.pc = "lease"] \in Connections
    BY <2>1, Zenon DEF Connections
  <2>3. conn' \in [Conns -> Connections \cup {Idle}]
    BY <1>0, <1>3, <2>2, Zenon DEF RemoveForPort
  <2>4. IsCache(sessions', SessionKeys, SessionValues)
    BY <1>0, <1>3, DeleteShrinks, Zenon DEF RemoveForPort, Shrinks
  <2> QED
    BY <1>3, <2>3, <2>4, Zenon DEF RemoveForPort, TypeInv, TypeOK, HasKnock
<1>4. ASSUME NEW x \in Conns, RemoveFirewall(x) PROVE TypeInv'
  <2>1. conn[x] \in Connections
    BY <1>0, <1>4 DEF RemoveFirewall, Idle
  <2>2. [conn[x] EXCEPT !.pc = "revoke"] \in Connections
    BY <2>1, Zenon DEF Connections
  <2>3. conn' \in [Conns -> Connections \cup {Idle}]
    BY <1>0, <1>4, <2>2, Zenon DEF RemoveFirewall
  <2>4. IsCache(leases', Remotes, LeaseIDs)
    BY <1>0, <1>4, DeleteLease, Zenon DEF RemoveFirewall
  <2> QED
    BY <1>4, <2>3, <2>4, Zenon DEF RemoveFirewall, TypeInv, TypeOK, HasKnock
<1>5. ASSUME NEW x \in Conns, RemoveRule(x) PROVE TypeInv'
  <2>1. rules' \in [Remotes -> Int]
    BY <1>0, <1>5 DEF RemoveRule, Revoke, TypeOK
  <2>2. conn' \in [Conns -> Connections \cup {Idle}]
    BY <1>0, <1>5, Zenon DEF RemoveRule
  <2> QED
    BY <1>5, <2>1, <2>2, Zenon DEF RemoveRule, TypeInv, TypeOK, HasKnock
<1> QED
  BY <1>1, <1>2, <1>3, <1>4, <1>5, Zenon DEF ConnStep

\* Every step keeps the types.
LEMMA TypeInvNext == TypeInv /\ [Next]_vars => TypeInv'
<1> SUFFICES ASSUME TypeInv, [Next]_vars PROVE TypeInv'
  BY Zenon
<1>1. CASE Tick
  BY <1>1 DEF Tick, TypeInv, TypeOK, HasKnock
<1>2. CASE UNCHANGED vars
  BY <1>2, Zenon DEF vars, TypeInv, TypeOK, HasKnock
<1> QED
  BY <1>1, <1>2, TypeInvHandler, TypeInvTimers, TypeInvConns, Zenon DEF Next

\* The store, the rules and the goroutines of an accepted knock keep their
\* types in every mode, for any number of clients, addresses and connections.
THEOREM TypeCorrect == Spec => []TypeOK
<1>1. TypeInv => TypeOK
  BY Zenon DEF TypeInv
<1> QED
  BY <1>1, TypeInvInit, TypeInvNext, PTL DEF Spec
-----------------------------------------------------------------------------
\* The handler holds a knock whose session it has not stored yet.
Unstored == handler.pc \in {"allow", "mark", "undo", "session"}

\* Each use of a knock is either spent or left in the one session that may
\* hold the knock; a knock has no session before the handler stores it.
SessionInv ==
  /\ \A k \in DOMAIN sessions :
       /\ admitted[sessions[k].value.knock] + sessions[k].value.remaining = Uses
       /\ sessions[k].value.knock <= knocks
  /\ \A j, k \in DOMAIN sessions :
       sessions[j].value.knock = sessions[k].value.knock => j = k
  /\ \A n \in KnockIDs : n > knocks => admitted[n] = 0
  /\ Unstored => /\ admitted[knocks] = 0
                 /\ \A k \in DOMAIN sessions : sessions[k].value.knock # knocks
  /\ AdmissionsBounded

\* Losing sessions keeps the invariant.
LEMMA SessionInvShrink ==
  ASSUME TypeInv, SessionInv, Shrinks(sessions', sessions),
         admitted' = admitted, knocks' = knocks, Unstored' => Unstored
  PROVE  SessionInv'
  BY Zenon DEF SessionInv, Shrinks, AdmissionsBounded

\* The sessions and the handler's knock are as before.
LEMMA SessionInvSame ==
  ASSUME TypeInv, SessionInv, sessions' = sessions,
         admitted' = admitted, knocks' = knocks, Unstored' => Unstored
  PROVE  SessionInv'
  BY Zenon DEF SessionInv, AdmissionsBounded

\* CheckAndConsume moves one use from the session to the admitted ones.
LEMMA SessionInvConsume ==
  ASSUME TypeInv, SessionInv, NEW x \in Conns, CheckAndConsume(x)
  PROVE  SessionInv'
<1> DEFINE k == conn[x].key
           n == sessions[k].value.knock
<1>0. /\ TypeOK
      /\ knocks' = knocks /\ handler' = handler
      /\ \A j \in DOMAIN sessions :
           /\ sessions[j].value.knock \in KnockIDs
           /\ sessions[j].value.remaining \in Nat \ {0}
  BY Zenon DEF CheckAndConsume, TypeInv, TypeOK, IsCache, SessionValues
<1>1. Unstored' <=> Unstored
  BY <1>0, Zenon DEF Unstored
<1>2. CASE ~Admits(x)
  <2>1. Shrinks(Delete(sessions, k), sessions)
    BY <1>0, DeleteShrinks, Zenon DEF TypeOK
  <2>2. sessions' = sessions \/ sessions' = Delete(sessions, k)
    BY <1>2, Zenon DEF CheckAndConsume
  <2>3. admitted' = admitted
    BY <1>2, Zenon DEF CheckAndConsume
  <2> QED
    BY <1>0, <1>1, <2>1, <2>2, <2>3, SessionInvShrink, SessionInvSame, Zenon
<1>3. CASE Admits(x)
  <2>1. k \in DOMAIN sessions /\ n \in KnockIDs
    BY <1>0, <1>3, Zenon DEF Admits, Live
  <2>2. sessions' = Consumed(k) /\ admitted' = [admitted EXCEPT ![n] = @ + 1]
    BY <1>3, Zenon DEF CheckAndConsume
  <2>3. /\ admitted'[n] = admitted[n] + 1
        /\ \A m \in KnockIDs \ {n} : admitted'[m] = admitted[m]
        /\ \A m \in KnockIDs : admitted[m] \in Nat
    BY <1>0, <2>1, <2>2, Zenon DEF TypeOK
  <2>4. Uses \in Nat /\ knocks \in Nat /\ KnockIDs \subseteq Nat
    BY <1>0, ConstantsAssumption DEF Uses, TypeOK, KnockIDs
  <2>5. admitted[n] + sessions[k].value.remaining = Uses /\ n <= knocks
    BY <2>1, Zenon DEF SessionInv
  <2>6. Unstored => n # knocks /\ knocks \in KnockIDs
    BY <1>0, <2>1, <2>4 DEF SessionInv, Unstored, TypeInv, HasKnock, TypeOK, KnockIDs
  <2>7. \A m \in KnockIDs : m > knocks => admitted'[m] = 0
    <3>1. n <= knocks /\ n \in KnockIDs
      BY <2>1, <2>5, Zenon
    <3>2. \A m \in KnockIDs : m > knocks => admitted[m] = 0
      BY Zenon DEF SessionInv
    <3> HIDE DEF n
    <3> QED
      BY <2>3, <2>4, <3>1, <3>2
  <2>8. AdmissionsBounded'
    <3>1. admitted[n] \in Nat /\ sessions[k].value.remaining \in Nat \ {0}
      BY <1>0, <2>1, <2>3, Zenon
    <3> HIDE DEF n
    <3>2. admitted[n] + 1 <= Uses
      BY <2>4, <2>5, <3>1
    <3> QED
      BY <2>3, <3>2, Zenon DEF SessionInv, AdmissionsBounded
  <2>9. Unstored => admitted'[knocks] = 0
    BY <2>3, <2>6, Zenon DEF SessionInv
  <2>10. \A j \in DOMAIN sessions \ {k} : sessions[j].value.knock # n
    BY <2>1, Zenon DEF SessionInv
  <2> HIDE DEF k, n
  <2>11. CASE Shrinks(Consumed(k), sessions) /\ k \notin DOMAIN Consumed(k)
    <3>1. \A j \in DOMAIN sessions' :
            /\ j \in DOMAIN sessions /\ j # k
            /\ sessions'[j].value = sessions[j].value
      BY <2>2, <2>11, Zenon DEF Shrinks
    <3>2. \A j \in DOMAIN sessions' :
            admitted'[sessions'[j].value.knock] = admitted[sessions[j].value.knock]
      BY <1>0, <2>3, <2>10, <3>1, Zenon
    <3> QED
      BY <1>0, <1>1, <2>7, <2>8, <2>9, <3>1, <3>2 DEF SessionInv
  <2>12. CASE /\ IsCache(Consumed(k), SessionKeys, SessionValues)
              /\ DOMAIN Consumed(k) = DOMAIN sessions
              /\ Consumed(k)[k].value.knock = sessions[k].value.knock
              /\ Consumed(k)[k].value.remaining = sessions[k].value.remaining - 1
              /\ Consumed(k)[k].expires = sessions[k].expires
              /\ \A y \in DOMAIN sessions \ {k} : Consumed(k)[y] = sessions[y]
    <3>1. /\ DOMAIN sessions' = DOMAIN sessions
          /\ sessions'[k].value.knock = n
          /\ sessions'[k].value.remaining = sessions[k].value.remaining - 1
          /\ \A j \in DOMAIN sessions \ {k} : sessions'[j] = sessions[j]
      BY <2>2, <2>12, Zenon DEF n
    <3>2. \A j \in DOMAIN sessions' : sessions'[j].value.knock = sessions[j].value.knock
      BY <3>1, Zenon DEF n
    <3>3. admitted'[sessions'[k].value.knock] + sessions'[k].value.remaining = Uses
      BY <1>0, <2>1, <2>3, <2>4, <2>5, <3>1
    <3>4. \A j \in DOMAIN sessions \ {k} :
            admitted'[sessions'[j].value.knock] = admitted[sessions[j].value.knock]
      BY <1>0, <2>3, <2>10, <3>1, Zenon
    <3>5. \A j \in DOMAIN sessions' :
            /\ admitted'[sessions'[j].value.knock] + sessions'[j].value.remaining = Uses
            /\ sessions'[j].value.knock <= knocks
      BY <3>1, <3>2, <3>3, <3>4, Zenon DEF SessionInv
    <3> QED
      BY <1>0, <1>1, <2>7, <2>8, <2>9, <3>1, <3>2, <3>5, Zenon DEF SessionInv
  <2> QED
    BY <1>0, <2>1, <2>11, <2>12, ConsumedEntries, Zenon
<1> QED
  BY <1>2, <1>3, Zenon

\* Storing the session of the handler's knock keeps the invariant: the knock
\* has all its uses, and the session it replaces is lost.
LEMMA SessionInvStore ==
  ASSUME TypeInv, SessionInv, handler.pc = "session", HandlerSession
  PROVE  SessionInv'
<1> DEFINE k == <<handler.remote, handler.client>>
           v == [remaining |-> Uses, knock |-> knocks]
<1>0. /\ TypeOK /\ handler \in Handlers /\ knocks \in KnockIDs /\ Unstored
      /\ Uses \in Nat /\ KnockIDs \subseteq Nat
      /\ \A n \in KnockIDs : admitted[n] \in Nat
  BY ConstantsAssumption
     DEF TypeInv, TypeOK, HasKnock, Idle, KnockIDs, Unstored, Uses
<1>1. PICK t \in handler.since..now :
        /\ sessions' = setLocked(sessions, k, v, t + TTL, MaxEntries)
        /\ handler' = [handler EXCEPT !.pc = "arm"]
        /\ knocks' = knocks /\ admitted' = admitted
  BY Zenon DEF HandlerSession
<1>2. t \in Nat /\ handler.remote \in Remotes /\ handler.client \in Clients
  BY <1>0 DEF Handlers, TypeOK
<1>3. /\ k \in DOMAIN sessions'
      /\ sessions'[k].value = v
      /\ \A x \in DOMAIN sessions' \ {k} :
           x \in DOMAIN sessions /\ sessions'[x].value = sessions[x].value
  BY <1>0, <1>1, <1>2, StoredSession
<1>4. ~Unstored'
  BY <1>0, <1>1, Zenon DEF Unstored, Handlers
<1>5. v.remaining = Uses /\ v.knock = knocks
  BY Zenon
<1> HIDE DEF k, v
<1>6. \A x \in DOMAIN sessions' \ {k} : sessions'[x].value.knock # knocks
  BY <1>0, <1>3, Zenon DEF SessionInv
<1>7. \A x \in DOMAIN sessions' :
        /\ admitted[sessions'[x].value.knock] + sessions'[x].value.remaining = Uses
        /\ sessions'[x].value.knock <= knocks
  BY <1>0, <1>3, <1>5 DEF SessionInv
<1>8. \A x, y \in DOMAIN sessions' :
        sessions'[x].value.knock = sessions'[y].value.knock => x = y
  BY <1>3, <1>5, <1>6 DEF SessionInv
<1> QED
  BY <1>1, <1>4, <1>7, <1>8, Zenon DEF SessionInv, AdmissionsBounded

\* Every step keeps the account of the uses.
LEMMA SessionInvNext == TypeInv /\ SessionInv /\ [Next]_vars => SessionInv'
<1> SUFFICES ASSUME TypeInv, SessionInv, [Next]_vars PROVE SessionInv'
  BY Zenon
<1>0. TypeOK /\ IsCache(sessions, SessionKeys, SessionValues)
  BY Zenon DEF TypeInv, TypeOK
<1>1. CASE Tick
  BY <1>1, SessionInvSame, Zenon DEF Tick, Unstored
<1>2. ASSUME NEW r \in Remotes, NEW c \in Clients, Knock(r, c) PROVE SessionInv'
  <2>1. knocks' = knocks + 1 /\ sessions' = sessions /\ admitted' = admitted
    BY <1>2, Zenon DEF Knock
  <2>2. knocks \in Nat /\ knocks + 1 \in KnockIDs /\ KnockIDs \subseteq Nat
    BY <1>0, <1>2, ConstantsAssumption DEF Knock, TypeOK, KnockIDs
  <2>3. \A k \in DOMAIN sessions : sessions[k].value.knock \in KnockIDs
    BY <1>0, Zenon DEF IsCache, SessionValues
  <2>4. /\ \A n \in KnockIDs : n > knocks + 1 => admitted[n] = 0
        /\ admitted[knocks + 1] = 0
        /\ \A k \in DOMAIN sessions : /\ sessions[k].value.knock <= knocks + 1
                                      /\ sessions[k].value.knock # knocks + 1
    <3>1. \A n \in KnockIDs : n > knocks => admitted[n] = 0
      BY Zenon DEF SessionInv
    <3>2. \A k \in DOMAIN sessions : sessions[k].value.knock <= knocks
      BY Zenon DEF SessionInv
    <3>3. \A n \in KnockIDs : n > knocks + 1 => admitted[n] = 0
      BY <2>2, <3>1
    <3>4. knocks + 1 > knocks
      BY <2>2
    <3>5. admitted[knocks + 1] = 0
      BY <2>2, <3>1, <3>4, Zenon
    <3>6. ASSUME NEW k \in DOMAIN sessions
          PROVE  /\ sessions[k].value.knock <= knocks + 1
                 /\ sessions[k].value.knock # knocks + 1
      <4> DEFINE m == sessions[k].value.knock
      <4>1. m \in Nat /\ m <= knocks
        BY <2>2, <2>3, <3>2, Zenon
      <4> HIDE DEF m
      <4>2. m <= knocks + 1 /\ m # knocks + 1
        BY <2>2, <4>1
      <4> QED
        BY <4>2, Zenon DEF m
    <3> QED
      BY <3>3, <3>5, <3>6, Zenon
  <2> QED
    BY <2>1, <2>4, Zenon DEF SessionInv, AdmissionsBounded
<1>3. CASE HandlerAllow \/ HandlerUndo \/ (handler.pc = "mark" /\ HandlerMark)
            \/ (handler.pc = "arm" /\ HandlerArm)
  <2>1. sessions' = sessions /\ admitted' = admitted /\ knocks' = knocks
    BY <1>3, Zenon DEF HandlerAllow, HandlerUndo, HandlerMark, HandlerArm
  <2>2. Unstored' => Unstored
    <3>1. CASE HandlerAllow
      BY <3>1, Zenon DEF HandlerAllow, Unstored
    <3>2. CASE handler.pc = "mark"
      BY <3>2, Zenon DEF Unstored
    <3>3. CASE HandlerUndo \/ HandlerArm
      BY <3>3 DEF HandlerUndo, HandlerArm, Unstored, Idle
    <3> QED
      BY <1>3, <3>1, <3>2, <3>3, Zenon
  <2> QED
    BY <2>1, <2>2, SessionInvSame, Zenon
<1>4. CASE handler.pc = "session" /\ HandlerSession
  BY <1>4, SessionInvStore, Zenon
<1>5. ASSUME NEW tm \in timers, TimerFires(tm) PROVE SessionInv'
  BY <1>5, SessionInvSame, Zenon DEF TimerFires, Unstored
<1>6. ASSUME NEW cb \in callbacks, CallbackStep(cb) PROVE SessionInv'
  <2>1. /\ admitted' = admitted /\ knocks' = knocks /\ handler' = handler
        /\ \/ sessions' = sessions
           \/ \E k : sessions' = Delete(sessions, k)
    BY <1>6, Zenon DEF CallbackStep, Expire, ExpireFirewall, CallbackRevoke
  <2>2. sessions' = sessions \/ Shrinks(sessions', sessions)
    BY <1>0, <2>1, DeleteShrinks, Zenon
  <2>3. Unstored' => Unstored
    BY <2>1, Zenon DEF Unstored
  <2> QED
    BY <2>1, <2>2, <2>3, SessionInvShrink, SessionInvSame, Zenon
<1>7. ASSUME NEW x \in Conns, NEW r \in Remotes, NEW c \in Clients,
             NEW n \in Sids, Connect(x, r, c, n)
      PROVE  SessionInv'
  BY <1>7, SessionInvSame, Zenon DEF Connect, Unstored
<1>8. ASSUME NEW x \in Conns,
             RemoveForPort(x) \/ RemoveFirewall(x) \/ RemoveRule(x)
      PROVE  SessionInv'
  <2>1. /\ admitted' = admitted /\ knocks' = knocks /\ handler' = handler
        /\ \/ sessions' = sessions
           \/ sessions' = Delete(sessions, conn[x].key)
    BY <1>8, Zenon DEF RemoveForPort, RemoveFirewall, RemoveRule
  <2>2. sessions' = sessions \/ Shrinks(sessions', sessions)
    BY <1>0, <2>1, DeleteShrinks, Zenon
  <2>3. Unstored' => Unstored
    BY <2>1, Zenon DEF Unstored
  <2> QED
    BY <2>1, <2>2, <2>3, SessionInvShrink, SessionInvSame, Zenon
<1>9. CASE UNCHANGED vars
  BY <1>9, SessionInvSame, Zenon DEF vars, Unstored
<1> QED
  BY <1>1, <1>2, <1>3, <1>4, <1>5, <1>6, <1>7, <1>8, <1>9, SessionInvConsume,
     Zenon DEF Next, HandlerStep, ConnStep

\* Before the first knock no use is spent.
LEMMA SessionInvInit == Init => SessionInv
  BY ConstantsAssumption
     DEF Init, SessionInv, AdmissionsBounded, EmptyCache, Unstored, Idle, Uses

\* A knock never lets in more connections than MaxConnectionsPerKnock allows,
\* for any number of concurrent connections, knocks and timers.
THEOREM KnockAdmitsAtMostUses == Spec => []AdmissionsBounded
<1>1. SessionInv => AdmissionsBounded
  BY Zenon DEF SessionInv
<1> QED
  BY <1>1, SessionInvInit, TypeInvInit, TypeInvNext, SessionInvNext, PTL DEF Spec
-----------------------------------------------------------------------------
\* The session store implements Tickets: every step of the handler, the timers and
\* the connections is a step of the tickets or changes no ticket.

\* A stored session is the one of its knock, which is an open ticket that runs
\* out when the session does.
LEMMA OpenTicket ==
  ASSUME TypeInv, SessionInv, NEW k \in DOMAIN sessions
  PROVE  LET n == sessions[k].value.knock
         IN  /\ n \in KnockIDs /\ SessionOf(n) = {k}
             /\ TicketState[n] = "open" /\ TicketUntil[n] = sessions[k].expires
<1> DEFINE n == sessions[k].value.knock
<1>1. n \in KnockIDs
  BY Zenon DEF TypeInv, TypeOK, IsCache, SessionValues
<1>2. SessionOf(n) = {k}
  BY Zenon DEF SessionOf, SessionInv
<1> HIDE DEF n
<1>3. TicketState[n] = "open"
  BY <1>1, <1>2, Zenon DEF TicketState
<1>4. (CHOOSE j \in SessionOf(n) : TRUE) = k
  BY <1>2, Zenon
<1>5. TicketUntil[n] = sessions[k].expires
  BY <1>1, <1>2, <1>4, Zenon DEF TicketUntil
<1> QED
  BY <1>1, <1>2, <1>3, <1>5, Zenon DEF n

\* A knock without a session is a ticket not issued yet, or a closed one.
LEMMA NoTicket ==
  ASSUME NEW n \in KnockIDs, \A k \in DOMAIN sessions : sessions[k].value.knock # n
  PROVE  /\ SessionOf(n) = {} /\ TicketUntil[n] = 0
         /\ TicketState[n] = IF Unissued(n) THEN "none" ELSE "closed"
<1>1. SessionOf(n) = {}
  BY Zenon DEF SessionOf
<1> QED
  BY <1>1, Zenon DEF TicketState, TicketUntil

\* A knock that is not issued yet has no session.
LEMMA UnissuedHasNone ==
  ASSUME TypeInv, SessionInv, NEW n \in KnockIDs, Unissued(n)
  PROVE  \A k \in DOMAIN sessions : sessions[k].value.knock # n
<1>1. /\ knocks \in Nat /\ KnockIDs \subseteq Nat
      /\ \A k \in DOMAIN sessions : sessions[k].value.knock \in KnockIDs
  BY ConstantsAssumption DEF TypeInv, TypeOK, KnockIDs, IsCache, SessionValues
<1>2. CASE n > knocks
  <2> SUFFICES ASSUME NEW k \in DOMAIN sessions, sessions[k].value.knock = n
               PROVE  FALSE
    BY Zenon
  <2>1. n <= knocks
    BY Zenon DEF SessionInv
  <2> QED
    BY <1>1, <1>2, <2>1
<1>3. CASE n = knocks /\ Unstored
  BY <1>3, Zenon DEF SessionInv
<1> QED
  BY <1>2, <1>3, Zenon DEF Unissued, Unstored

\* What the sessions say about the tickets.
TicketMap ==
  /\ \A k \in DOMAIN sessions :
       /\ sessions[k].value.knock \in KnockIDs
       /\ TicketState[sessions[k].value.knock] = "open"
       /\ TicketUntil[sessions[k].value.knock] = sessions[k].expires
  /\ \A n \in KnockIDs :
       (\A k \in DOMAIN sessions : sessions[k].value.knock # n)
       => /\ TicketState[n] = IF Unissued(n) THEN "none" ELSE "closed"
          /\ TicketUntil[n] = 0
  /\ \A n \in KnockIDs :
       Unissued(n) => \A k \in DOMAIN sessions : sessions[k].value.knock # n

\* The three lemmas above in one formula, for this state and for the next.
LEMMA TicketView == TypeInv /\ SessionInv => TicketMap
<1> SUFFICES ASSUME TypeInv, SessionInv PROVE TicketMap
  BY Zenon
<1>1. \A k \in DOMAIN sessions :
        /\ sessions[k].value.knock \in KnockIDs
        /\ TicketState[sessions[k].value.knock] = "open"
        /\ TicketUntil[sessions[k].value.knock] = sessions[k].expires
  BY OpenTicket, Zenon
<1> QED
  BY <1>1, NoTicket, UnissuedHasNone, Zenon DEF TicketMap

\* The same of the state after a step.
LEMMA TicketViewNext == TypeInv' /\ SessionInv' => TicketMap'
  BY TicketView, PTL
-----------------------------------------------------------------------------
\* Sessions that go away and knocks that are given up close tickets.
LEMMA LosingCloses ==
  ASSUME TicketMap, TicketMap',
         Shrinks(sessions', sessions), UNCHANGED <<now, admitted, knocks>>,
         Unstored' => Unstored
  PROVE  T!Next
<1> DEFINE D == {n \in KnockIDs : TicketState[n] # "closed"
                                  /\ TicketState'[n] = "closed"}
<1>1. \A n \in KnockIDs : Unissued(n)' => Unissued(n)
  BY Zenon DEF Unissued, Unstored
<1>2. ASSUME NEW n \in KnockIDs
      PROVE  /\ TicketState'[n] = IF n \in D THEN "closed" ELSE TicketState[n]
             /\ TicketUntil'[n] = IF n \in D THEN 0 ELSE TicketUntil[n]
  <2>1. CASE \E k \in DOMAIN sessions' : sessions'[k].value.knock = n
    BY <2>1 DEF Shrinks, TicketMap
  <2>2. CASE \A k \in DOMAIN sessions' : sessions'[k].value.knock # n
    <3>1. /\ TicketState'[n] = IF Unissued(n)' THEN "none" ELSE "closed"
          /\ TicketUntil'[n] = 0
      BY <2>2, Zenon DEF TicketMap
    <3>2. CASE Unissued(n)'
      <4>1. TicketState[n] = "none" /\ TicketUntil[n] = 0
        BY <1>1, <3>2, Zenon DEF TicketMap
      <4> QED
        BY <3>1, <3>2, <4>1, Zenon
    <3>3. CASE ~Unissued(n)' /\ n \notin D
      <4>1. TicketState[n] = "closed"
        BY <3>1, <3>3, Zenon
      <4>2. TicketUntil[n] = 0
        BY <4>1, Zenon DEF TicketMap
      <4> QED
        BY <3>1, <3>3, <4>1, <4>2, Zenon
    <3> QED
      BY <3>1, <3>2, <3>3, Zenon
  <2> QED
    BY <2>1, <2>2, Zenon
<1>3. TicketState' = [n \in KnockIDs |-> IF n \in D THEN "closed" ELSE TicketState[n]]
  BY <1>2, Zenon DEF TicketState
<1>4. TicketUntil' = [n \in KnockIDs |-> IF n \in D THEN 0 ELSE TicketUntil[n]]
  BY <1>2, Zenon DEF TicketUntil
<1>5. D \subseteq KnockIDs /\ \A n \in D : TicketState[n] # "closed"
  BY Zenon
<1> HIDE DEF D
<1>6. T!Closing(D)
  BY <1>3, <1>4, <1>5, Zenon DEF T!Closing
<1> QED
  BY <1>5, <1>6, Zenon DEF T!Next, T!Close

\* The listener's hand-over of a knock changes no ticket: the knock was not
\* issued before and is not issued yet.
LEMMA KnockStutters ==
  ASSUME TypeInv, NEW r \in Remotes, NEW c \in Clients, Knock(r, c)
  PROVE  UNCHANGED T!vars
<1>1. /\ knocks' = knocks + 1 /\ knocks \in Nat /\ KnockIDs \subseteq Nat
      /\ handler.pc = "idle" /\ handler'.pc \in {"allow", "session"}
      /\ UNCHANGED <<now, sessions, admitted>>
  BY ConstantsAssumption DEF Knock, TypeInv, TypeOK, KnockIDs
<1>2. \A n \in KnockIDs : Unissued(n)' <=> Unissued(n)
  BY <1>1 DEF Unissued
<1>3. \A n \in KnockIDs : SessionOf(n)' = SessionOf(n)
  BY <1>1, Zenon DEF SessionOf
<1>4. TicketState' = TicketState
  BY <1>2, <1>3, Zenon DEF TicketState
<1>5. TicketUntil' = TicketUntil
  BY <1>1 DEF TicketUntil, SessionOf
<1> QED
  BY <1>1, <1>4, <1>5, Zenon DEF T!vars

\* AddSessionForPort issues the ticket of the handler's knock; the session it
\* replaces and the ones the full cache evicts are closed.
LEMMA StoreIssues ==
  ASSUME TypeInv, SessionInv, TicketMap, TicketMap',
         handler.pc = "session", HandlerSession
  PROVE  T!Next
<1> DEFINE k == <<handler.remote, handler.client>>
           v == [remaining |-> Uses, knock |-> knocks]
           D == {n \in KnockIDs : TicketState[n] = "open"
                                  /\ TicketState'[n] = "closed"}
<1>0. /\ TypeOK /\ handler \in Handlers /\ knocks \in KnockIDs
      /\ KnockIDs \subseteq Nat /\ now \in Nat /\ TTL \in Nat
  BY ConstantsAssumption DEF TypeInv, TypeOK, HasKnock, Idle, KnockIDs
<1>1. PICK t \in handler.since..now :
        /\ sessions' = setLocked(sessions, k, v, t + TTL, MaxEntries)
        /\ handler' = [handler EXCEPT !.pc = "arm"]
        /\ UNCHANGED <<now, knocks, admitted>>
  BY Zenon DEF HandlerSession
<1>2. /\ t \in Nat /\ t + TTL \in 0..(now + TTL)
      /\ handler.remote \in Remotes /\ handler.client \in Clients
  BY <1>0 DEF Handlers
<1>3. /\ k \in DOMAIN sessions'
      /\ sessions'[k].value = v /\ sessions'[k].expires = t + TTL
      /\ \A x \in DOMAIN sessions' \ {k} : /\ x \in DOMAIN sessions
                                           /\ sessions'[x].value = sessions[x].value
                                           /\ sessions'[x].expires = sessions[x].expires
  BY <1>0, <1>1, <1>2, StoredSession
<1>4. v.knock = knocks
  BY Zenon
<1> HIDE DEF k, v
<1>5. handler'.pc = "arm"
  BY <1>0, <1>1, Zenon DEF Handlers
<1>6. Unissued(knocks)
  BY Zenon DEF Unissued
<1>7. TicketState[knocks] = "none" /\ TicketUntil[knocks] = 0
  BY <1>0, <1>6, Zenon DEF TicketMap
<1>8. TicketState'[knocks] = "open" /\ TicketUntil'[knocks] = t + TTL
  BY <1>3, <1>4, Zenon DEF TicketMap
<1>9. \A n \in KnockIDs \ {knocks} : Unissued(n)' <=> Unissued(n)
  BY <1>0, <1>1, <1>5, Zenon DEF Unissued
<1>10. ASSUME NEW n \in KnockIDs \ {knocks}
       PROVE  /\ TicketState'[n] = IF n \in D THEN "closed" ELSE TicketState[n]
              /\ TicketUntil'[n] = IF n \in D THEN 0 ELSE TicketUntil[n]
  <2>1. CASE \E x \in DOMAIN sessions' : sessions'[x].value.knock = n
    <3>1. PICK x \in DOMAIN sessions' : sessions'[x].value.knock = n
      BY <2>1, Zenon
    <3>2. x # k
      BY <1>3, <1>4, <3>1, Zenon
    <3>3. /\ x \in DOMAIN sessions /\ sessions[x].value.knock = n
          /\ sessions'[x].expires = sessions[x].expires
      BY <1>3, <3>1, <3>2, Zenon
    <3>4. TicketState'[n] = "open" /\ TicketUntil'[n] = sessions'[x].expires
      BY <3>1, Zenon DEF TicketMap
    <3>5. TicketState[n] = "open" /\ TicketUntil[n] = sessions[x].expires
      BY <3>3, Zenon DEF TicketMap
    <3> QED
      BY <3>3, <3>4, <3>5, Zenon
  <2>2. CASE \A x \in DOMAIN sessions' : sessions'[x].value.knock # n
    <3>1. /\ TicketState'[n] = IF Unissued(n) THEN "none" ELSE "closed"
          /\ TicketUntil'[n] = 0
      BY <1>9, <2>2, Zenon DEF TicketMap
    <3>2. CASE \E x \in DOMAIN sessions : sessions[x].value.knock = n
      <4>1. TicketState[n] = "open" /\ ~Unissued(n)
        BY <3>2 DEF TicketMap
      <4> QED
        BY <3>1, <4>1, Zenon
    <3>3. CASE \A x \in DOMAIN sessions : sessions[x].value.knock # n
      <4>1. /\ TicketState[n] = IF Unissued(n) THEN "none" ELSE "closed"
            /\ TicketUntil[n] = 0
        BY <3>3, Zenon DEF TicketMap
      <4> QED
        BY <3>1, <4>1, Zenon
    <3> QED
      BY <3>2, <3>3, Zenon
  <2> QED
    BY <2>1, <2>2, Zenon
<1>11. D \subseteq KnockIDs /\ knocks \notin D /\ \A n \in D : TicketState[n] = "open"
  BY <1>7, Zenon
<1> HIDE DEF D
<1>12. TicketState' = [n \in KnockIDs |-> IF n = knocks THEN "open"
                         ELSE IF n \in D THEN "closed" ELSE TicketState[n]]
  BY <1>8, <1>10, Zenon DEF TicketState
<1>13. TicketUntil' = [n \in KnockIDs |-> IF n = knocks THEN t + TTL
                         ELSE IF n \in D THEN 0 ELSE TicketUntil[n]]
  BY <1>8, <1>10 DEF TicketUntil
<1>14. T!Issue(knocks, D, t + TTL)
  <2>1. t + TTL <= now + TTL
    BY <1>0, <1>2
  <2> QED
    BY <1>1, <1>7, <1>11, <1>12, <1>13, <2>1, Zenon DEF T!Issue
<1> QED
  BY <1>0, <1>2, <1>11, <1>14, Zenon DEF T!Next

\* What CheckAndConsume does with the session of a connection that it admits.
LEMMA AdmitSteps ==
  ASSUME NEW x \in Conns, CheckAndConsume(x), Admits(x)
  PROVE  /\ sessions' = Consumed(conn[x].key)
         /\ admitted' = [admitted EXCEPT ![sessions[conn[x].key].value.knock] = @ + 1]
         /\ UNCHANGED <<now, knocks, handler>>
  BY Zenon DEF CheckAndConsume

\* CheckAndConsume uses a ticket that is open and has not run out; the last
\* use closes it.  A refused connection may find an expired session and close it.
LEMMA ConsumeUses ==
  ASSUME TypeInv, SessionInv, TicketMap, TicketMap', NEW x \in Conns,
         CheckAndConsume(x), Admits(x)
  PROVE  T!Next
<1> DEFINE k == conn[x].key
           n == sessions[k].value.knock
           D == IF admitted[n] + 1 = Uses THEN {n} ELSE {}
<1>0. /\ TypeOK /\ k \in DOMAIN sessions /\ now < sessions[k].expires
      /\ n \in KnockIDs /\ sessions[k].value.remaining \in Nat \ {0}
      /\ now \in Nat /\ sessions[k].expires \in Int
      /\ admitted \in [KnockIDs -> Nat]
  <2>1. k \in DOMAIN sessions /\ sessions[k].expires > now
    BY Zenon DEF Admits, Live
  <2> QED
    BY <2>1, Zenon DEF TypeInv, TypeOK, IsCache, SessionValues
<1>1. /\ sessions' = Consumed(k) /\ admitted' = [admitted EXCEPT ![n] = @ + 1]
      /\ UNCHANGED <<now, knocks, handler>>
  BY AdmitSteps, Zenon
<1>2. admitted[n] + sessions[k].value.remaining = Uses /\ Uses \in Nat
  <2>1. admitted[n] + sessions[k].value.remaining = Uses
    BY <1>0, Zenon DEF SessionInv
  <2>2. Uses \in Nat
    BY ConstantsAssumption DEF Uses
  <2> QED
    BY <2>1, <2>2, Zenon
<1>3. \A m \in KnockIDs : Unissued(m)' <=> Unissued(m)
  BY <1>1, Zenon DEF Unissued
<1>4. \A j \in DOMAIN sessions \ {k} : sessions[j].value.knock # n
  BY <1>0, Zenon DEF SessionInv
<1>5. TicketState[n] = "open" /\ TicketUntil[n] = sessions[k].expires /\ ~Unissued(n)
  <2>1. TicketState[n] = "open" /\ TicketUntil[n] = sessions[k].expires
    BY <1>0, Zenon DEF TicketMap
  <2>2. ~Unissued(n)
    BY <1>0, Zenon DEF TicketMap
  <2> QED
    BY <2>1, <2>2, Zenon
<1> HIDE DEF k, n
<1>6. sessions[k].value.remaining <= 1 <=> admitted[n] + 1 = Uses
  BY <1>0, <1>2
<1>7. admitted[n] < Uses
  BY <1>0, <1>2
<1>8. ASSUME NEW m \in KnockIDs
      PROVE  /\ TicketState'[m] = IF m \in D THEN "closed" ELSE TicketState[m]
             /\ TicketUntil'[m] = IF m \in D THEN 0 ELSE TicketUntil[m]
  <2>1. CASE sessions[k].value.remaining <= 1
    <3>1. D = {n}
      BY <1>6, <2>1, Zenon
    <3>2. /\ DOMAIN sessions' = DOMAIN sessions \ {k}
          /\ Shrinks(sessions', sessions)
      <4>1. sessions' = Delete(sessions, k)
        BY <1>1, <2>1, Zenon DEF Consumed
      <4>2. DOMAIN Delete(sessions, k) = DOMAIN sessions \ {k}
        BY Zenon DEF Delete, removeElements
      <4> QED
        BY <1>0, <4>1, <4>2, DeleteShrinks, Zenon DEF TypeOK
    <3>3. CASE m = n
      <4>1. \A j \in DOMAIN sessions' : sessions'[j].value.knock # m
        BY <1>4, <3>2, <3>3, Zenon DEF Shrinks
      <4> QED
        BY <1>3, <1>5, <3>1, <3>3, <4>1, Zenon DEF TicketMap
    <3>4. CASE m # n /\ \E j \in DOMAIN sessions' : sessions'[j].value.knock = m
      <4>1. PICK j \in DOMAIN sessions' : sessions'[j].value.knock = m
        BY <3>4, Zenon
      <4>2. /\ j \in DOMAIN sessions /\ sessions[j].value.knock = m
            /\ sessions'[j].expires = sessions[j].expires
        BY <3>2, <4>1, Zenon DEF Shrinks
      <4>3. TicketState'[m] = "open" /\ TicketUntil'[m] = sessions'[j].expires
        BY <4>1, Zenon DEF TicketMap
      <4>4. TicketState[m] = "open" /\ TicketUntil[m] = sessions[j].expires
        BY <4>2, Zenon DEF TicketMap
      <4> QED
        BY <3>1, <3>4, <4>2, <4>3, <4>4, Zenon
    <3>5. CASE m # n /\ \A j \in DOMAIN sessions' : sessions'[j].value.knock # m
      <4>1. \A j \in DOMAIN sessions : sessions[j].value.knock # m
        BY <3>2, <3>5, Zenon DEF Shrinks, n
      <4>2. /\ TicketState'[m] = IF Unissued(m)' THEN "none" ELSE "closed"
            /\ TicketUntil'[m] = 0
        BY <3>5, Zenon DEF TicketMap
      <4>3. /\ TicketState[m] = IF Unissued(m) THEN "none" ELSE "closed"
            /\ TicketUntil[m] = 0
        BY <4>1, Zenon DEF TicketMap
      <4> QED
        BY <1>3, <3>1, <3>5, <4>2, <4>3, Zenon
    <3> QED
      BY <3>3, <3>4, <3>5, Zenon
  <2>2. CASE ~(sessions[k].value.remaining <= 1)
    <3>1. D = {}
      BY <1>6, <2>2, Zenon
    <3>2. /\ DOMAIN sessions' = DOMAIN sessions
          /\ \A j \in DOMAIN sessions :
               /\ sessions'[j].value.knock = sessions[j].value.knock
               /\ sessions'[j].expires = sessions[j].expires
      <4>1. Consumed(k) = [sessions EXCEPT ![k].value.remaining = @ - 1]
        BY <2>2, Zenon DEF Consumed
      <4>2. k \in DOMAIN Consumed(k)
        BY <1>0, <4>1, Zenon
      <4> QED
        BY <1>0, <1>1, <4>2, ConsumedEntries
    <3>3. CASE \E j \in DOMAIN sessions : sessions[j].value.knock = m
      <4>1. PICK j \in DOMAIN sessions : sessions[j].value.knock = m
        BY <3>3, Zenon
      <4>2. /\ j \in DOMAIN sessions' /\ sessions'[j].value.knock = m
            /\ sessions'[j].expires = sessions[j].expires
        BY <3>2, <4>1, Zenon
      <4>3. TicketState'[m] = "open" /\ TicketUntil'[m] = sessions'[j].expires
        BY <4>2, Zenon DEF TicketMap
      <4>4. TicketState[m] = "open" /\ TicketUntil[m] = sessions[j].expires
        BY <4>1, Zenon DEF TicketMap
      <4> QED
        BY <3>1, <4>2, <4>3, <4>4, Zenon
    <3>4. CASE \A j \in DOMAIN sessions : sessions[j].value.knock # m
      <4>1. \A j \in DOMAIN sessions' : sessions'[j].value.knock # m
        BY <3>2, <3>4, Zenon
      <4>2. /\ TicketState'[m] = IF Unissued(m)' THEN "none" ELSE "closed"
            /\ TicketUntil'[m] = 0
        BY <4>1, Zenon DEF TicketMap
      <4>3. /\ TicketState[m] = IF Unissued(m) THEN "none" ELSE "closed"
            /\ TicketUntil[m] = 0
        BY <3>4, Zenon DEF TicketMap
      <4> QED
        BY <1>3, <3>1, <4>2, <4>3, Zenon
    <3> QED
      BY <3>3, <3>4, Zenon
  <2> QED
    BY <2>1, <2>2, Zenon
<1>9. \A m \in D : TicketState[m] # "closed"
  BY <1>5, Zenon
<1>10. TicketState' = [m \in KnockIDs |-> IF m \in D THEN "closed" ELSE TicketState[m]]
  BY <1>8, Zenon DEF TicketState
<1>11. TicketUntil' = [m \in KnockIDs |-> IF m \in D THEN 0 ELSE TicketUntil[m]]
  BY <1>8, Zenon DEF TicketUntil
<1>12. T!Closing(D)
  <2> HIDE DEF D
  <2> QED
    BY <1>9, <1>10, <1>11, Zenon DEF T!Closing
<1>13. T!Use(n)
  <2>1. T!Closing(IF admitted[n] + 1 = Uses THEN {n} ELSE {})
    BY <1>12, Zenon
  <2> QED
    BY <1>0, <1>1, <1>5, <1>7, <2>1, Zenon DEF T!Use
<1> QED
  BY <1>0, <1>13, Zenon DEF T!Next
-----------------------------------------------------------------------------
\* Before the first knock no ticket is issued.
LEMMA TicketsInit == Init => T!Init
<1> SUFFICES ASSUME Init PROVE T!Init
  BY Zenon
<1>1. \A n \in KnockIDs : SessionOf(n) = {} /\ Unissued(n)
  BY ConstantsAssumption DEF Init, EmptyCache, SessionOf, Unissued, KnockIDs
<1> QED
  BY <1>1, Zenon DEF Init, T!Init, TicketState, TicketUntil

\* Every step is a step of the tickets or changes none.
LEMMA TicketsNext ==
  TypeInv /\ SessionInv /\ TypeInv' /\ SessionInv' /\ [Next]_vars => [T!Next]_(T!vars)
<1> SUFFICES ASSUME TypeInv, SessionInv, TypeInv', SessionInv', [Next]_vars
             PROVE  T!Next \/ UNCHANGED T!vars
  BY Zenon
<1>0. /\ TicketMap /\ TicketMap'
      /\ TypeOK /\ IsCache(sessions, SessionKeys, SessionValues)
      /\ Shrinks(sessions, sessions)
  BY TicketView, TicketViewNext, Zenon DEF TypeInv, TypeOK, Shrinks
<1>1. CASE Tick
  <2>1. TicketState' = TicketState
    BY <1>1, Zenon DEF Tick, TicketState, SessionOf, Unissued
  <2>2. TicketUntil' = TicketUntil
    BY <1>1 DEF Tick, TicketUntil, SessionOf
  <2> QED
    BY <1>1, <2>1, <2>2, Zenon DEF Tick, T!Next, T!Tick
<1>2. CASE \E r \in Remotes, c \in Clients : Knock(r, c)
  BY <1>2, KnockStutters, Zenon
<1>3. CASE HandlerStep
  <2>1. CASE HandlerAllow
    BY <1>0, <2>1, LosingCloses, Zenon DEF HandlerAllow, Unstored
  <2>2. CASE handler.pc = "mark" /\ HandlerMark
    BY <1>0, <2>2, LosingCloses, Zenon DEF HandlerMark, Unstored
  <2>3. CASE HandlerUndo
    BY <1>0, <2>3, LosingCloses, Zenon DEF HandlerUndo, Unstored
  <2>4. CASE handler.pc = "session" /\ HandlerSession
    BY <1>0, <2>4, StoreIssues, Zenon
  <2>5. CASE handler.pc = "arm" /\ HandlerArm
    BY <1>0, <2>5, LosingCloses, Zenon DEF HandlerArm, Unstored, Idle
  <2> QED
    BY <1>3, <2>1, <2>2, <2>3, <2>4, <2>5, Zenon DEF HandlerStep
<1>4. CASE \E tm \in timers : TimerFires(tm)
  BY <1>0, <1>4, LosingCloses, Zenon DEF TimerFires, Unstored
<1>5. ASSUME NEW cb \in callbacks, CallbackStep(cb) PROVE T!Next
  <2>1. ASSUME NEW t, Expire(cb, t) PROVE T!Next
    <3>1. Shrinks(sessions', sessions)
      BY <1>0, <2>1, DeleteShrinks, Zenon DEF Expire
    <3> QED
      BY <1>0, <2>1, <3>1, LosingCloses, Zenon DEF Expire, Unstored
  <2>2. ASSUME NEW t, ExpireFirewall(cb, t) PROVE T!Next
    BY <1>0, <2>2, LosingCloses, Zenon DEF ExpireFirewall, Unstored
  <2>3. CASE CallbackRevoke(cb)
    BY <1>0, <2>3, LosingCloses, Zenon DEF CallbackRevoke, Unstored
  <2> QED
    BY <1>5, <2>1, <2>2, <2>3, Zenon DEF CallbackStep
<1>6. CASE \E x \in Conns, r \in Remotes, c \in Clients, n \in Sids : Connect(x, r, c, n)
  BY <1>0, <1>6, LosingCloses, Zenon DEF Connect, Unstored
<1>7. ASSUME NEW x \in Conns, ConnStep(x) PROVE T!Next
  <2>1. CASE CheckAndConsume(x) /\ Admits(x)
    BY <1>0, <2>1, ConsumeUses, Zenon
  <2>2. CASE CheckAndConsume(x) /\ ~Admits(x)
    <3>1. Shrinks(sessions', sessions)
      BY <1>0, <2>2, DeleteShrinks, Zenon DEF CheckAndConsume
    <3> QED
      BY <1>0, <2>2, <3>1, LosingCloses, Zenon DEF CheckAndConsume, Unstored
  <2>3. CASE RemoveForPort(x)
    <3>1. Shrinks(sessions', sessions)
      BY <1>0, <2>3, DeleteShrinks, Zenon DEF RemoveForPort
    <3> QED
      BY <1>0, <2>3, <3>1, LosingCloses, Zenon DEF RemoveForPort, Unstored
  <2>4. CASE RemoveFirewall(x)
    BY <1>0, <2>4, LosingCloses, Zenon DEF RemoveFirewall, Unstored
  <2>5. CASE RemoveRule(x)
    BY <1>0, <2>5, LosingCloses, Zenon DEF RemoveRule, Unstored
  <2> QED
    BY <1>7, <2>1, <2>2, <2>3, <2>4, <2>5, Zenon DEF ConnStep
<1>8. CASE UNCHANGED vars
  BY <1>0, <1>8, LosingCloses, Zenon DEF vars, Unstored
<1> QED
  BY <1>1, <1>2, <1>3, <1>4, <1>5, <1>6, <1>7, <1>8, Zenon DEF Next

\* KnockSessionStore, the knock handler, its timers and the connections keep
\* the promise of a ticket: a knock is issued at most once, is good for Uses
\* connections until its time is up, and is never good again once its session
\* was used up, replaced, evicted or removed.
THEOREM StoreKeepsTickets == Spec => KeepsTickets
<1>1. Init => TypeInv /\ SessionInv
  BY TypeInvInit, SessionInvInit, Zenon
<1>2. TypeInv /\ SessionInv /\ [Next]_vars => (TypeInv /\ SessionInv)'
  BY TypeInvNext, SessionInvNext, Zenon
<1> QED
  BY <1>1, <1>2, TicketsInit, TicketsNext, PTL DEF Spec, KeepsTickets, T!Spec
-----------------------------------------------------------------------------
\* A timer, registered or running, was armed for an id that has been given out,
\* and a lease with that id expires no later than the timer fires.
Covers(tm) ==
  /\ tm.id <= nextID
  /\ \A r \in DOMAIN leases :
       leases[r].value = tm.id => leases[r].expires <= tm.at

LeaseInv ==
  /\ \A r \in DOMAIN leases : /\ leases[r].value <= nextID
                              /\ leases[r].expires <= now + TTL
  /\ handler.pc = "mark" =>
       /\ handler.since <= now
       /\ \A r \in DOMAIN leases : leases[r].expires <= handler.since + TTL
  /\ handler.pc \in {"session", "arm"} => handler.id <= nextID
  /\ \A tm \in timers : Covers(tm)
  /\ \A cb \in callbacks : Covers(cb.timer)
  /\ handler.pc \in {"allow", "mark"} => UseFirewall
  /\ ~UseFirewall => DOMAIN leases = {}
  /\ LeaseHasTimer

\* The numbers the arguments below compute with.
LEMMA Numbers ==
  ASSUME TypeInv
  PROVE  /\ now \in Nat /\ TTL \in Nat /\ nextID \in Nat
         /\ \A r \in DOMAIN leases : /\ r \in Remotes
                                     /\ leases[r].value \in Nat
                                     /\ leases[r].expires \in Int
         /\ handler.pc # "idle" => handler \in Handlers
         /\ \A tm \in timers : tm.at \in Nat /\ tm.id \in Nat
         /\ \A cb \in callbacks : cb.timer.at \in Nat /\ cb.timer.id \in Nat
  BY ConstantsAssumption
     DEF TypeInv, TypeOK, IsCache, LeaseIDs, Timers, Idle

\* Steps that touch neither the leases nor the timers keep the invariant.
LEMMA LeaseInvSame ==
  ASSUME TypeInv, LeaseInv,
         leases' = leases, nextID' = nextID, timers' = timers,
         callbacks' = callbacks, now' = now, handler' = handler
  PROVE  LeaseInv'
  BY Zenon DEF LeaseInv, Covers, LeaseHasTimer

\* Leases d are some of the leases before.
SomeLeases(d) ==
  \A r \in DOMAIN d : /\ r \in DOMAIN leases
                      /\ d[r].value = leases[r].value
                      /\ d[r].expires = leases[r].expires

\* Deleting one leaves the others.
LEMMA FewerLeases ==
  ASSUME TypeOK, NEW r
  PROVE  /\ SomeLeases(Delete(leases, r))
         /\ DOMAIN Delete(leases, r) = DOMAIN leases \ {r}
<1>1. /\ DOMAIN Delete(leases, r) = DOMAIN leases \ {r}
      /\ \A x \in DOMAIN leases \ {r} :
           /\ Delete(leases, r)[x].value = leases[x].value
           /\ Delete(leases, r)[x].expires = leases[x].expires
  BY DeleteLease, Zenon
<1> QED
  BY <1>1, Zenon DEF SomeLeases

\* Removing leases keeps the invariant.
LEMMA LeaseInvFewer ==
  ASSUME TypeInv, LeaseInv, SomeLeases(leases'), nextID' = nextID,
         timers' = timers, callbacks' = callbacks, now' = now,
         handler' = handler
  PROVE  LeaseInv'
<1>1. \A tm : Covers(tm) => Covers(tm)'
  BY Zenon DEF Covers, SomeLeases
<1>2. LeaseHasTimer'
  BY DEF LeaseInv, LeaseHasTimer, SomeLeases
<1>3. ~UseFirewall => DOMAIN leases' = {}
  BY Zenon DEF LeaseInv, SomeLeases
<1> QED
  BY <1>1, <1>2, <1>3, Zenon DEF LeaseInv, SomeLeases

\* The clock only moves forward.
LEMMA LeaseInvTick == ASSUME TypeInv, LeaseInv, Tick PROVE LeaseInv'
<1>1. /\ leases' = leases /\ nextID' = nextID /\ timers' = timers
      /\ callbacks' = callbacks /\ now' = now + 1 /\ handler' = handler
  BY Zenon DEF Tick
<1>2. \A r \in DOMAIN leases : leases[r].expires <= now' + TTL
  BY <1>1, Numbers DEF LeaseInv
<1>3. handler.pc = "mark" => handler.since <= now'
  BY <1>1, Numbers DEF LeaseInv, Handlers
<1>4. \A tm : Covers(tm) => Covers(tm)'
  BY <1>1, Zenon DEF Covers
<1>5. LeaseHasTimer'
  BY <1>1, Zenon DEF LeaseInv, LeaseHasTimer
<1> QED
  BY <1>1, <1>2, <1>3, <1>4, <1>5, Zenon DEF LeaseInv

\* The handler's steps, MarkFirewall apart.
LEMMA LeaseInvHandler ==
  ASSUME TypeInv, LeaseInv,
         \/ \E r \in Remotes, c \in Clients : Knock(r, c)
         \/ HandlerAllow
         \/ HandlerUndo
         \/ handler.pc = "session" /\ HandlerSession
         \/ handler.pc = "arm" /\ HandlerArm
  PROVE  LeaseInv'
<1>1. /\ leases' = leases /\ nextID' = nextID /\ callbacks' = callbacks
      /\ now' = now
  BY Zenon DEF Knock, HandlerAllow, HandlerUndo, HandlerSession, HandlerArm
<1>2. \A tm : Covers(tm) => Covers(tm)'
  BY <1>1, Zenon DEF Covers
<1>3. \A r \in DOMAIN leases' : /\ leases'[r].value <= nextID'
                                /\ leases'[r].expires <= now' + TTL
  BY <1>1, Zenon DEF LeaseInv
<1>4. CASE \E r \in Remotes, c \in Clients : Knock(r, c)
  <2>1. /\ timers' = timers /\ handler.pc = "idle"
        /\ handler'.pc = IF UseFirewall THEN "allow" ELSE "session"
        /\ handler'.id = 0
    BY <1>4 DEF Knock
  <2>2. LeaseHasTimer'
    BY <1>1, <2>1, Zenon DEF LeaseInv, LeaseHasTimer
  <2> QED
    BY <1>1, <1>2, <1>3, <2>1, <2>2, Numbers DEF LeaseInv
<1>5. CASE HandlerAllow
  <2>1. /\ timers' = timers /\ handler.pc = "allow"
        /\ handler \in Handlers
        /\ \/ handler' = [handler EXCEPT !.pc = "mark", !.since = now]
           \/ handler' = Idle
    BY <1>5, Numbers, Zenon DEF HandlerAllow
  <2>2. /\ handler'.pc \in {"mark", "idle"}
        /\ handler'.pc = "mark" => handler'.since = now
    <3>1. CASE handler' = Idle
      BY <3>1, Zenon DEF Idle
    <3>2. CASE handler' = [handler EXCEPT !.pc = "mark", !.since = now]
      <4>1. handler'.pc = "mark"
        BY <2>1, <3>2, Zenon DEF Handlers
      <4>2. handler'.since = now
        BY <2>1, <3>2, Zenon DEF Handlers
      <4> QED
        BY <4>1, <4>2, Zenon
    <3> QED
      BY <2>1, <3>1, <3>2, Zenon
  <2>3. LeaseHasTimer'
    BY <1>1, <2>1, Zenon DEF LeaseInv, LeaseHasTimer
  <2>4. handler'.pc = "mark" =>
          /\ handler'.since <= now'
          /\ \A r \in DOMAIN leases' : leases'[r].expires <= handler'.since + TTL
    BY <1>1, <1>3, <2>2, Numbers
  <2>5. UseFirewall
    BY <2>1, Zenon DEF LeaseInv
  <2> QED
    BY <1>1, <1>2, <1>3, <2>1, <2>2, <2>3, <2>4, <2>5, Zenon DEF LeaseInv
<1>6. CASE HandlerUndo
  <2>1. /\ timers' = timers /\ handler.pc = "undo" /\ handler'.pc = "idle"
    BY <1>6, Zenon DEF HandlerUndo, Idle
  <2>2. LeaseHasTimer'
    BY <1>1, <2>1, Zenon DEF LeaseInv, LeaseHasTimer
  <2> QED
    BY <1>1, <1>2, <1>3, <2>1, <2>2, Zenon DEF LeaseInv
<1>7. CASE handler.pc = "session" /\ HandlerSession
  <2>1. /\ timers' = timers /\ handler \in Handlers
        /\ handler' = [handler EXCEPT !.pc = "arm"]
    BY <1>7, Numbers, Zenon DEF HandlerSession
  <2>2. /\ handler'.pc = "arm" /\ handler'.id = handler.id
        /\ handler'.remote = handler.remote
    BY <2>1, Zenon DEF Handlers
  <2>3. LeaseHasTimer'
    BY <1>1, <1>7, <2>1, <2>2, Zenon DEF LeaseInv, LeaseHasTimer
  <2> QED
    BY <1>1, <1>2, <1>3, <1>7, <2>1, <2>2, <2>3, Zenon DEF LeaseInv
<1>8. CASE handler.pc = "arm" /\ HandlerArm
  <2> DEFINE tm == [at |-> now + TTL, remote |-> handler.remote,
                    client |-> handler.client, id |-> handler.id]
  <2>1. timers' = timers \cup {tm} /\ handler'.pc = "idle"
    BY <1>8, Zenon DEF HandlerArm, Idle
  <2>2. tm.at = now + TTL /\ tm.remote = handler.remote /\ tm.id = handler.id
    BY Zenon
  <2> HIDE DEF tm
  <2>3. Covers(tm)
    BY <1>8, <2>2, Zenon DEF LeaseInv, Covers
  <2>4. LeaseHasTimer'
    <3> SUFFICES ASSUME NEW r \in DOMAIN leases
                 PROVE  \/ \E z \in timers' : z.remote = r /\ z.id = leases[r].value
                        \/ \E cb \in callbacks :
                             /\ cb.timer.remote = r
                             /\ cb.timer.id = leases[r].value
                             /\ cb.pc \in {"sessions", "lease"}
      BY <1>1, Zenon DEF LeaseHasTimer
    <3>1. CASE handler.remote = r /\ handler.id = leases[r].value
      BY <2>1, <2>2, <3>1, Zenon
    <3>2. CASE ~(handler.remote = r /\ handler.id = leases[r].value)
      BY <2>1, <3>2, Zenon DEF LeaseInv, LeaseHasTimer
    <3> QED
      BY <3>1, <3>2, Zenon
  <2>5. \A z \in timers' : Covers(z)'
    BY <1>2, <2>1, <2>3, Zenon DEF LeaseInv
  <2> QED
    BY <1>1, <1>2, <1>3, <2>1, <2>4, <2>5, Zenon DEF LeaseInv
<1> QED
  BY <1>4, <1>5, <1>6, <1>7, <1>8, Zenon

\* MarkFirewall gives a lease an id that no timer has, and an expiry that is
\* not before that of the lease it renews.
LEMMA LeaseInvMark ==
  ASSUME TypeInv, LeaseInv, handler.pc = "mark", HandlerMark
  PROVE  /\ LeaseInv'
         /\ \A r \in DOMAIN leases : leases[r].expires > now =>
              r \in DOMAIN leases' /\ leases'[r].expires >= leases[r].expires
<1> DEFINE q == handler.remote
<1>0. /\ handler \in Handlers /\ q \in Remotes /\ handler.since \in Nat
      /\ handler.since <= now
      /\ \A r \in DOMAIN leases : leases[r].expires <= handler.since + TTL
      /\ TypeOK /\ UseFirewall
  BY Numbers, Zenon DEF Handlers, LeaseInv, TypeInv
<1>1. PICK t \in handler.since..now :
        /\ leases' = MarkFirewall(q, t)
        /\ IF Grants(q, t)
           THEN /\ nextID' = nextID + 1
                /\ handler' = [handler EXCEPT !.pc = "session", !.since = now,
                                              !.id = nextID + 1]
           ELSE /\ handler' = IF ManualRevoke
                              THEN [handler EXCEPT !.pc = "undo"] ELSE Idle
                /\ UNCHANGED nextID
        /\ UNCHANGED <<now, sessions, rules, knocks, timers, callbacks, conn,
                       admitted>>
  BY Zenon DEF HandlerMark
<1>2. t \in Nat /\ t >= handler.since /\ t <= now /\ now \in Nat /\ TTL \in Nat
      /\ nextID \in Nat
  BY <1>0, <1>1, Numbers
<1>3. /\ DOMAIN leases' \subseteq DOMAIN leases \cup {q}
      /\ \A x \in DOMAIN leases : leases[x].expires > t => x \in DOMAIN leases'
      /\ \A x \in DOMAIN leases' \ {q} : /\ leases'[x].value = leases[x].value
                                         /\ leases'[x].expires = leases[x].expires
      /\ Grants(q, t) => /\ q \in DOMAIN leases'
                         /\ leases'[q].value = nextID + 1
                         /\ leases'[q].expires = t + TTL
      /\ ~Grants(q, t) => q \notin DOMAIN leases'
  BY <1>0, <1>1, <1>2, MarkEntries
<1>4. /\ now' = now /\ timers' = timers /\ callbacks' = callbacks
  BY <1>1, Zenon
<1>5. /\ Grants(q, t) => /\ handler'.pc = "session" /\ handler'.id = nextID + 1
                         /\ handler'.remote = q /\ nextID' = nextID + 1
      /\ ~Grants(q, t) => handler'.pc \in {"undo", "idle"} /\ nextID' = nextID
  <2>1. CASE Grants(q, t)
    <3>1. handler' = [handler EXCEPT !.pc = "session", !.since = now,
                                     !.id = nextID + 1]
      BY <1>1, <2>1, Zenon
    <3>2. handler'.pc = "session"
      BY <1>0, <3>1, Zenon DEF Handlers
    <3>3. handler'.id = nextID + 1
      BY <1>0, <3>1, Zenon DEF Handlers
    <3>4. handler'.remote = handler.remote
      BY <1>0, <3>1, Zenon DEF Handlers
    <3> QED
      BY <1>1, <2>1, <3>2, <3>3, <3>4, Zenon
  <2>2. CASE ~Grants(q, t)
    <3>1. handler' = [handler EXCEPT !.pc = "undo"] \/ handler' = Idle
      BY <1>1, <2>2, Zenon
    <3>2. handler'.pc \in {"undo", "idle"}
      BY <1>0, <3>1 DEF Handlers, Idle
    <3> QED
      BY <1>1, <2>2, <3>2, Zenon
  <2> QED
    BY <2>1, <2>2, Zenon
<1> HIDE DEF q
<1>6. \A r \in DOMAIN leases : leases[r].expires > now =>
        r \in DOMAIN leases' /\ leases'[r].expires >= leases[r].expires
  <2> SUFFICES ASSUME NEW r \in DOMAIN leases, leases[r].expires > now
               PROVE  r \in DOMAIN leases' /\ leases'[r].expires >= leases[r].expires
    BY Zenon
  <2>1. leases[r].expires \in Int /\ leases[r].expires > t
    BY <1>2, Numbers
  <2>2. r \in DOMAIN leases'
    BY <1>3, <2>1, Zenon
  <2>3. CASE r # q
    BY <1>3, <2>1, <2>2, <2>3
  <2>4. CASE r = q
    <3>1. leases'[r].expires = t + TTL
      BY <1>3, <2>2, <2>4, Zenon
    <3> QED
      BY <1>0, <1>2, <2>1, <2>2, <3>1
  <2> QED
    BY <2>3, <2>4, Zenon
<1>7. \A r \in DOMAIN leases' : /\ leases'[r].value <= nextID'
                                /\ leases'[r].expires <= now' + TTL
  <2> SUFFICES ASSUME NEW r \in DOMAIN leases'
               PROVE  /\ leases'[r].value <= nextID'
                      /\ leases'[r].expires <= now' + TTL
    BY Zenon
  <2>1. CASE r = q
    BY <1>2, <1>3, <1>4, <1>5, <2>1
  <2>2. CASE r # q
    <3>1. /\ r \in DOMAIN leases
          /\ leases'[r].value = leases[r].value
          /\ leases'[r].expires = leases[r].expires
      BY <1>3, <2>2, Zenon
    <3>2. leases[r].value <= nextID /\ leases[r].expires <= now + TTL
          /\ leases[r].value \in Nat
      BY <3>1, Numbers, Zenon DEF LeaseInv
    <3>3. nextID' = nextID \/ nextID' = nextID + 1
      BY <1>5, Zenon
    <3> QED
      BY <1>2, <1>4, <3>1, <3>2, <3>3
  <2> QED
    BY <2>1, <2>2, Zenon
<1>8. ASSUME NEW tm, tm.id \in Nat, Covers(tm) PROVE Covers(tm)'
  <2>1. tm.id <= nextID
    BY <1>8, Zenon DEF Covers
  <2>2. tm.id <= nextID'
    BY <1>2, <1>5, <1>8, <2>1
  <2>3. ASSUME NEW r \in DOMAIN leases', leases'[r].value = tm.id
        PROVE  leases'[r].expires <= tm.at
    <3>1. r # q
      BY <1>2, <1>3, <1>8, <2>1, <2>3
    <3> QED
      BY <1>3, <1>8, <2>3, <3>1, Zenon DEF Covers
  <2> QED
    BY <2>2, <2>3, Zenon DEF Covers
<1>9. /\ \A tm \in timers' : Covers(tm)'
      /\ \A cb \in callbacks' : Covers(cb.timer)'
  BY <1>4, <1>8, Numbers, Zenon DEF LeaseInv
<1>10. LeaseHasTimer'
  <2> SUFFICES ASSUME NEW r \in DOMAIN leases'
               PROVE
                 \/ \E tm \in timers : tm.remote = r /\ tm.id = leases'[r].value
                 \/ \E cb \in callbacks : /\ cb.timer.remote = r
                                          /\ cb.timer.id = leases'[r].value
                                          /\ cb.pc \in {"sessions", "lease"}
                 \/ /\ handler'.pc \in {"session", "arm"}
                    /\ handler'.remote = r /\ handler'.id = leases'[r].value
    BY <1>4, Zenon DEF LeaseHasTimer
  <2>1. CASE r = q
    BY <1>3, <1>5, <2>1, Zenon
  <2>2. CASE r # q
    <3>1. r \in DOMAIN leases /\ leases'[r].value = leases[r].value
      BY <1>3, <2>2, Zenon
    <3> QED
      BY <3>1 DEF LeaseInv, LeaseHasTimer
  <2> QED
    BY <2>1, <2>2, Zenon
<1>11. handler'.pc \in {"session", "arm"} => handler'.id <= nextID'
  BY <1>2, <1>5
<1>12. handler'.pc \in {"session", "undo", "idle"}
  BY <1>5, Zenon
<1> QED
  BY <1>0, <1>6, <1>7, <1>9, <1>10, <1>11, <1>12, Zenon DEF LeaseInv

\* A timer that starts its callback stays accounted for.
LEMMA LeaseInvFires ==
  ASSUME TypeInv, LeaseInv, NEW tm \in timers, TimerFires(tm)
  PROVE  LeaseInv'
<1> DEFINE new == [pc |-> "sessions", timer |-> tm]
<1>1. /\ leases' = leases /\ nextID' = nextID /\ now' = now
      /\ handler' = handler
      /\ timers' = timers \ {tm} /\ callbacks' = callbacks \cup {new}
  BY Zenon DEF TimerFires
<1>2. new.pc = "sessions" /\ new.timer = tm
  BY Zenon
<1> HIDE DEF new
<1>3. \A z : Covers(z) => Covers(z)'
  BY <1>1, Zenon DEF Covers
<1>4. LeaseHasTimer'
  <2> SUFFICES ASSUME NEW r \in DOMAIN leases
               PROVE
                 \/ \E z \in timers' : z.remote = r /\ z.id = leases[r].value
                 \/ \E cb \in callbacks' : /\ cb.timer.remote = r
                                           /\ cb.timer.id = leases[r].value
                                           /\ cb.pc \in {"sessions", "lease"}
                 \/ /\ handler.pc \in {"session", "arm"}
                    /\ handler.remote = r /\ handler.id = leases[r].value
    BY <1>1, Zenon DEF LeaseHasTimer
  <2>1. CASE tm.remote = r /\ tm.id = leases[r].value
    BY <1>1, <1>2, <2>1, Zenon
  <2>2. CASE ~(tm.remote = r /\ tm.id = leases[r].value)
    BY <1>1, <2>2, Zenon DEF LeaseInv, LeaseHasTimer
  <2> QED
    BY <2>1, <2>2, Zenon
<1>5. /\ \A z \in timers' : Covers(z)'
      /\ \A cb \in callbacks' : Covers(cb.timer)'
  BY <1>1, <1>2, <1>3, Zenon DEF LeaseInv
<1> QED
  BY <1>1, <1>4, <1>5, Zenon DEF LeaseInv

\* The callback with the id of a lease comes no earlier than its expiry, so it
\* ends the lease; any other leaves it alone.
LEMMA LeaseInvCallback ==
  ASSUME TypeInv, LeaseInv, NEW cb \in callbacks, CallbackStep(cb)
  PROVE  /\ LeaseInv'
         /\ \A r \in DOMAIN leases : leases[r].expires > now =>
              r \in DOMAIN leases' /\ leases'[r].expires = leases[r].expires
<1>0. /\ TypeOK /\ now \in Nat
      /\ cb.timer.at \in Nat /\ cb.timer.id \in Nat
      /\ \A r \in DOMAIN leases : leases[r].expires \in Int
      /\ cb \in [pc : {"sessions", "lease", "revoke"}, timer : Timers]
  BY Numbers, Zenon DEF TypeInv, TypeOK
<1>1. Covers(cb.timer)
  BY Zenon DEF LeaseInv
<1>2. CASE CallbackRevoke(cb)
  <2>1. /\ leases' = leases /\ nextID' = nextID /\ now' = now
        /\ handler' = handler /\ timers' = timers
        /\ callbacks' = callbacks \ {cb} /\ cb.pc = "revoke"
    BY <1>2, Zenon DEF CallbackRevoke
  <2>2. \A z : Covers(z) => Covers(z)'
    BY <2>1, Zenon DEF Covers
  <2>3. LeaseHasTimer'
    BY <2>1, Zenon DEF LeaseInv, LeaseHasTimer
  <2> QED
    BY <2>1, <2>2, <2>3, Zenon DEF LeaseInv
<1>3. ASSUME NEW t \in cb.timer.at..now, Expire(cb, t)
      PROVE  LeaseInv' /\ leases' = leases
  <2> DEFINE new == [cb EXCEPT !.pc = "lease"]
  <2>1. /\ leases' = leases /\ nextID' = nextID /\ now' = now
        /\ handler' = handler /\ timers' = timers /\ cb.pc = "sessions"
        /\ \/ UseFirewall /\ callbacks' = (callbacks \ {cb}) \cup {new}
           \/ ~UseFirewall /\ callbacks' = callbacks \ {cb}
    BY <1>3, Zenon DEF Expire, Moved
  <2>2. new.pc = "lease" /\ new.timer = cb.timer
    BY <1>0, Zenon
  <2> HIDE DEF new
  <2>3. \A z : Covers(z) => Covers(z)'
    BY <2>1, Zenon DEF Covers
  <2>4. LeaseHasTimer'
    <3> SUFFICES ASSUME NEW r \in DOMAIN leases
                 PROVE
                   \/ \E z \in timers : z.remote = r /\ z.id = leases[r].value
                   \/ \E y \in callbacks' : /\ y.timer.remote = r
                                            /\ y.timer.id = leases[r].value
                                            /\ y.pc \in {"sessions", "lease"}
                   \/ /\ handler.pc \in {"session", "arm"}
                      /\ handler.remote = r /\ handler.id = leases[r].value
      BY <2>1, Zenon DEF LeaseHasTimer
    <3>1. callbacks' = (callbacks \ {cb}) \cup {new}
      BY <2>1, Zenon DEF LeaseInv
    <3>2. CASE cb.timer.remote = r /\ cb.timer.id = leases[r].value
      BY <2>2, <3>1, <3>2, Zenon
    <3>3. CASE ~(cb.timer.remote = r /\ cb.timer.id = leases[r].value)
      BY <3>1, <3>3, Zenon DEF LeaseInv, LeaseHasTimer
    <3> QED
      BY <3>2, <3>3, Zenon
  <2>5. \A y \in callbacks' : Covers(y.timer)'
    BY <2>1, <2>2, <2>3, Zenon DEF LeaseInv
  <2> QED
    BY <2>1, <2>3, <2>4, <2>5, Zenon DEF LeaseInv
<1>4. ASSUME NEW t \in cb.timer.at..now, ExpireFirewall(cb, t)
      PROVE  /\ LeaseInv'
             /\ \A r \in DOMAIN leases : leases[r].expires > now =>
                  r \in DOMAIN leases' /\ leases'[r].expires = leases[r].expires
  <2> DEFINE q == cb.timer.remote
             new == [cb EXCEPT !.pc = "revoke"]
  <2>0. t \in Nat /\ t >= cb.timer.at /\ t <= now
    BY <1>0
  <2>1. /\ nextID' = nextID /\ now' = now /\ handler' = handler
        /\ timers' = timers
        /\ callbacks' \subseteq (callbacks \ {cb}) \cup {new}
        /\ callbacks \ {cb} \subseteq callbacks'
        /\ OwnLeaseExpired(cb.timer, t) => leases' = Delete(leases, q)
        /\ ~OwnLeaseExpired(cb.timer, t) => leases' = leases
    BY <1>4, Zenon DEF ExpireFirewall, LeaseEnded, Moved
  <2>2. new.timer = cb.timer
    BY <1>0, Zenon
  <2> HIDE DEF new
  <2>3. /\ SomeLeases(leases')
        /\ OwnLeaseExpired(cb.timer, t) => DOMAIN leases' = DOMAIN leases \ {q}
    <3>1. CASE OwnLeaseExpired(cb.timer, t)
      BY <1>0, <2>1, <3>1, FewerLeases, Zenon
    <3>2. CASE ~OwnLeaseExpired(cb.timer, t)
      BY <2>1, <3>2, Zenon DEF SomeLeases
    <3> QED
      BY <3>1, <3>2, Zenon
  <2>4. \A z : Covers(z) => Covers(z)'
    BY <2>1, <2>3, Zenon DEF Covers, SomeLeases
  <2>5. \A y \in callbacks' : Covers(y.timer)'
    BY <1>1, <2>1, <2>2, <2>4, Zenon DEF LeaseInv
  <2>6. ASSUME NEW r \in DOMAIN leases'
        PROVE  ~(cb.timer.remote = r /\ cb.timer.id = leases'[r].value)
    <3> SUFFICES ASSUME cb.timer.remote = r, cb.timer.id = leases'[r].value
                 PROVE  FALSE
      BY Zenon
    <3>1. r \in DOMAIN leases /\ leases[r].value = cb.timer.id
      BY <2>3, Zenon DEF SomeLeases
    <3>2. leases[r].expires <= cb.timer.at
      BY <1>1, <3>1, Zenon DEF Covers
    <3>3. leases[r].expires <= t
      BY <1>0, <2>0, <3>1, <3>2
    <3>4. OwnLeaseExpired(cb.timer, t)
      BY <3>1, <3>3, Zenon DEF OwnLeaseExpired
    <3> QED
      BY <2>3, <2>6, <3>4, Zenon
  <2>7. LeaseHasTimer'
    <3> SUFFICES ASSUME NEW r \in DOMAIN leases'
                 PROVE
                   \/ \E z \in timers : z.remote = r /\ z.id = leases'[r].value
                   \/ \E y \in callbacks' : /\ y.timer.remote = r
                                            /\ y.timer.id = leases'[r].value
                                            /\ y.pc \in {"sessions", "lease"}
                   \/ /\ handler.pc \in {"session", "arm"}
                      /\ handler.remote = r /\ handler.id = leases'[r].value
      BY <2>1, Zenon DEF LeaseHasTimer
    <3>1. r \in DOMAIN leases /\ leases'[r].value = leases[r].value
      BY <2>3, Zenon DEF SomeLeases
    <3> QED
      BY <2>1, <2>6, <3>1 DEF LeaseInv, LeaseHasTimer
  <2>8. \A r \in DOMAIN leases : leases[r].expires > now =>
          r \in DOMAIN leases' /\ leases'[r].expires = leases[r].expires
    <3> SUFFICES ASSUME NEW r \in DOMAIN leases, leases[r].expires > now
                 PROVE  r \in DOMAIN leases'
      BY <2>3, Zenon DEF SomeLeases
    <3>1. CASE OwnLeaseExpired(cb.timer, t)
      <4>1. leases[q].expires <= t
        BY <3>1, Zenon DEF OwnLeaseExpired
      <4>2. r # q
        BY <1>0, <2>0, <4>1
      <4> QED
        BY <2>3, <3>1, <4>2, Zenon
    <3>2. CASE ~OwnLeaseExpired(cb.timer, t)
      BY <2>1, <3>2, Zenon
    <3> QED
      BY <3>1, <3>2, Zenon
  <2>9. ~UseFirewall => DOMAIN leases' = {}
    BY <2>3, Zenon DEF LeaseInv, SomeLeases
  <2> QED
    BY <2>1, <2>3, <2>4, <2>5, <2>7, <2>8, <2>9, Zenon DEF LeaseInv, SomeLeases
<1> QED
  BY <1>2, <1>3, <1>4, Zenon DEF CallbackStep, CallbackRevoke

\* Only the removal of an access touches a lease, and it says so.
LEMMA LeaseInvConns ==
  ASSUME TypeInv, LeaseInv, NEW x \in Conns, ConnStep(x)
  PROVE  /\ LeaseInv'
         /\ \A r \in DOMAIN leases :
              \/ r \in DOMAIN leases' /\ leases'[r].expires = leases[r].expires
              \/ /\ conn[x].pc = "lease" /\ conn[x].key[1] = r
                 /\ conn'[x].pc = "revoke"
<1>0. TypeOK
  BY Zenon DEF TypeInv
<1>1. CASE CheckAndConsume(x) \/ RemoveForPort(x) \/ RemoveRule(x)
  <2>1. /\ leases' = leases /\ nextID' = nextID /\ timers' = timers
        /\ callbacks' = callbacks /\ now' = now /\ handler' = handler
    BY <1>1, Zenon DEF CheckAndConsume, RemoveForPort, RemoveRule
  <2> QED
    BY <2>1, LeaseInvSame, Zenon
<1>2. CASE RemoveFirewall(x)
  <2> DEFINE q == conn[x].key[1]
  <2>1. /\ leases' = Delete(leases, q) /\ nextID' = nextID /\ timers' = timers
        /\ callbacks' = callbacks /\ now' = now /\ handler' = handler
        /\ conn[x].pc = "lease"
    BY <1>2, Zenon DEF RemoveFirewall
  <2>2. conn'[x].pc = "revoke"
    BY <1>0, <1>2 DEF RemoveFirewall, TypeOK
  <2> HIDE DEF q
  <2>3. /\ SomeLeases(leases')
        /\ DOMAIN leases' = DOMAIN leases \ {q}
    BY <1>0, <2>1, FewerLeases, Zenon
  <2>4. LeaseInv'
    BY <2>1, <2>3, LeaseInvFewer, Zenon
  <2>5. \A r \in DOMAIN leases :
          \/ r \in DOMAIN leases' /\ leases'[r].expires = leases[r].expires
          \/ r = q
    BY <2>3, Zenon DEF SomeLeases
  <2> QED
    BY <2>1, <2>2, <2>4, <2>5, Zenon DEF q
<1> QED
  BY <1>1, <1>2, Zenon DEF ConnStep

\* No store has a lease at the start.
LEMMA LeaseInvInit == ASSUME Init PROVE LeaseInv
  BY Zenon DEF Init, LeaseInv, LeaseHasTimer, EmptyCache, Idle

\* What a step may do to the lease of r.
KeptBy(r) ==
  Live(leases, r, now) =>
    \/ r \in DOMAIN leases' /\ leases'[r].expires >= leases[r].expires
    \/ \E x \in Conns : conn[x].pc = "lease" /\ conn[x].key[1] = r
                         /\ conn'[x].pc = "revoke"

\* Every step keeps the invariant, and ends a live lease only by removing its rule
\* after authentication.
LEMMA LeaseInvNext ==
  ASSUME TypeInv, LeaseInv, [Next]_vars
  PROVE  LeaseInv' /\ \A r \in Remotes : KeptBy(r)
<1>0. /\ now \in Nat
      /\ \A r \in DOMAIN leases : leases[r].expires \in Int
  BY Numbers, Zenon
<1>a. ASSUME leases' = leases PROVE \A r \in Remotes : KeptBy(r)
  BY <1>0, <1>a DEF KeptBy, Live
<1>1. CASE UNCHANGED vars
  BY <1>1, <1>a, LeaseInvSame, Zenon DEF vars
<1>2. CASE Tick
  BY <1>2, <1>a, LeaseInvTick, Zenon DEF Tick
<1>3. ASSUME NEW r \in Remotes, NEW c \in Clients, Knock(r, c)
      PROVE  LeaseInv' /\ leases' = leases
  BY <1>3, LeaseInvHandler, Zenon DEF Knock
<1>4. CASE HandlerStep
  <2>1. CASE handler.pc = "mark" /\ HandlerMark
    <3>1. /\ LeaseInv'
          /\ \A r \in DOMAIN leases : leases[r].expires > now =>
               r \in DOMAIN leases' /\ leases'[r].expires >= leases[r].expires
      BY <2>1, LeaseInvMark, Zenon
    <3> QED
      BY <1>0, <3>1, Zenon DEF KeptBy, Live
  <2>2. CASE \/ HandlerAllow
             \/ HandlerUndo
             \/ handler.pc = "session" /\ HandlerSession
             \/ handler.pc = "arm" /\ HandlerArm
    <3>1. leases' = leases
      BY <2>2, Zenon DEF HandlerAllow, HandlerUndo, HandlerSession, HandlerArm
    <3> QED
      BY <1>a, <2>2, <3>1, LeaseInvHandler, Zenon
  <2> QED
    BY <1>4, <2>1, <2>2, Zenon DEF HandlerStep
<1>5. ASSUME NEW tm \in timers, TimerFires(tm)
      PROVE  LeaseInv' /\ leases' = leases
  BY <1>5, LeaseInvFires, Zenon DEF TimerFires
<1>6. ASSUME NEW cb \in callbacks, CallbackStep(cb)
      PROVE  LeaseInv' /\ \A r \in Remotes : KeptBy(r)
  <2>1. /\ LeaseInv'
        /\ \A r \in DOMAIN leases : leases[r].expires > now =>
             r \in DOMAIN leases' /\ leases'[r].expires = leases[r].expires
    BY <1>6, LeaseInvCallback, Zenon
  <2> QED
    BY <1>0, <2>1 DEF KeptBy, Live
<1>7. ASSUME NEW x \in Conns, NEW r \in Remotes, NEW c \in Clients,
             NEW n \in Sids, Connect(x, r, c, n)
      PROVE  LeaseInv' /\ leases' = leases
  BY <1>7, LeaseInvSame, Zenon DEF Connect
<1>8. ASSUME NEW x \in Conns, ConnStep(x)
      PROVE  LeaseInv' /\ \A r \in Remotes : KeptBy(r)
  <2>1. /\ LeaseInv'
        /\ \A r \in DOMAIN leases :
             \/ r \in DOMAIN leases' /\ leases'[r].expires = leases[r].expires
             \/ /\ conn[x].pc = "lease" /\ conn[x].key[1] = r
                /\ conn'[x].pc = "revoke"
    BY <1>8, LeaseInvConns, Zenon
  <2> QED
    BY <1>0, <2>1 DEF KeptBy, Live
<1> QED
  BY <1>a, <1>1, <1>2, <1>3, <1>4, <1>5, <1>6, <1>7, <1>8, Zenon DEF Next

\* Every lease the store holds has a timer registered, running or about to be
\* registered that carries its id, so no firewall rule is left to nobody.
THEOREM LeasesHaveTimers == Spec => []LeaseHasTimer
<1>1. Init => TypeInv /\ LeaseInv
  BY TypeInvInit, LeaseInvInit, Zenon
<1>2. TypeInv /\ LeaseInv /\ [Next]_vars => (TypeInv /\ LeaseInv)'
  BY TypeInvNext, LeaseInvNext, Zenon
<1>3. LeaseInv => LeaseHasTimer
  BY Zenon DEF LeaseInv
<1> QED
  BY <1>1, <1>2, <1>3, PTL DEF Spec

\* A timer armed for an earlier knock never ends the lease of a later one, and
\* the sweep of MarkFirewall never ends a live lease: a live lease is kept or
\* renewed unless an authenticated connection removes it.
THEOREM LiveLeasesKept == Spec => LeaseKept
<1>1. Init => TypeInv /\ LeaseInv
  BY TypeInvInit, LeaseInvInit, Zenon
<1>2. TypeInv /\ LeaseInv /\ [Next]_vars => (TypeInv /\ LeaseInv)'
  BY TypeInvNext, LeaseInvNext, Zenon
<1>3. TypeInv /\ LeaseInv /\ [Next]_vars =>
        [\A r \in Remotes :
           Live(leases, r, now) =>
             \/ r \in DOMAIN leases' /\ leases'[r].expires >= leases[r].expires
             \/ \E x \in Conns : conn[x].pc = "lease" /\ conn[x].key[1] = r
                                  /\ conn'[x].pc = "revoke"]_vars
  BY LeaseInvNext, Zenon DEF KeptBy
<1> QED
  BY <1>1, <1>2, <1>3, PTL DEF Spec, LeaseKept
-----------------------------------------------------------------------------
(* The rules of a backend without timeouts. *)

\* A step that leaves the rules, the leases and everybody at work on r alone.
LEMMA AccountedSame ==
  ASSUME NEW r, Accounted(r), RuleOpen(r)' => RuleOpen(r),
         r \in DOMAIN leases => r \in DOMAIN leases', BusyWith(r) => BusyWith(r)'
  PROVE  Accounted(r)'
BY Zenon DEF Accounted

\* The handler: it allows the source before it stores the lease, and takes the rule
\* back when there is no room.
LEMMA HandlerAccounts ==
  ASSUME ManualRevoke, TypeInv, NEW r \in Remotes, Accounted(r),
         HandlerStep \/ \E q \in Remotes, c \in Clients : Knock(q, c)
  PROVE  Accounted(r)' \/ SweptAway(r) \/ CommandFails(r)
<1>0. /\ TypeOK /\ now \in Nat /\ rules \in [Remotes -> Int]
      /\ handler.pc # "idle" => handler \in Handlers
  BY DEF TypeInv, TypeOK, Idle
<1>1. UNCHANGED <<now, callbacks, conn>>
  BY Zenon DEF HandlerStep, HandlerAllow, HandlerMark, HandlerUndo, HandlerSession, HandlerArm,
         Knock
<1>2. ASSUME handler.pc \notin {"mark", "undo"} \/ handler.remote # r PROVE BusyWith(r) => BusyWith(r)'
  BY <1>1, <1>2, Zenon DEF BusyWith
<1>3. ASSUME NEW q \in Remotes, NEW c \in Clients, Knock(q, c) PROVE Accounted(r)'
  <2>1. handler.pc = "idle" /\ UNCHANGED <<leases, rules>>
    BY <1>3, Zenon DEF Knock
  <2>2. RuleOpen(r)' = RuleOpen(r) /\ (BusyWith(r) => BusyWith(r)')
    BY <1>1, <1>2, <2>1, Zenon DEF RuleOpen
  <2> QED
    BY <2>1, <2>2, AccountedSame, Zenon
<1>4. CASE HandlerAllow
  <2>1. /\ handler.pc = "allow" /\ rules' \in {rules, Allow(handler.remote)} /\ leases' = leases
        /\ \/ handler' = [handler EXCEPT !.pc = "mark", !.since = now]
           \/ FirewallFaults /\ handler' = Idle
    BY <1>4, Zenon DEF HandlerAllow
  <2>2. \/ handler'.pc = "mark" /\ handler'.remote = handler.remote
        \/ FirewallFaults /\ handler'.pc = "idle"
    <3>1. CASE handler' = [handler EXCEPT !.pc = "mark", !.since = now]
      BY <1>0, <2>1, <3>1, Zenon DEF Handlers
    <3>2. CASE FirewallFaults /\ handler' = Idle
      BY <3>2, Zenon DEF Idle
    <3> QED
      BY <2>1, <3>1, <3>2, Zenon
  <2>3. CASE handler.remote = r
    BY <2>1, <2>2, <2>3, Zenon DEF Accounted, BusyWith, CommandFails
  <2>4. CASE handler.remote # r
    <3>1. rules'[r] = rules[r]
      BY <1>0, <2>1, <2>4, Zenon DEF Allow
    <3>2. RuleOpen(r)' = RuleOpen(r) /\ (BusyWith(r) => BusyWith(r)')
      BY <1>1, <1>2, <2>4, <3>1, Zenon DEF RuleOpen
    <3> QED
      BY <2>1, <3>2, AccountedSame, Zenon
  <2> QED
    BY <2>3, <2>4, Zenon
<1>5. CASE handler.pc = "mark" /\ HandlerMark
  <2> DEFINE q == handler.remote
  <2>0. handler \in Handlers /\ q \in Remotes
    BY <1>0, <1>5, Zenon DEF Handlers
  <2>1. PICK t \in handler.since..now :
          /\ leases' = MarkFirewall(q, t)
          /\ ~Grants(q, t) => handler' = [handler EXCEPT !.pc = "undo"]
          /\ rules' = rules
    BY <1>5, Zenon DEF HandlerMark
  <2>2. t \in Nat /\ t <= now
    BY <1>0, <2>0 DEF Handlers
  <2>3. /\ \A x \in DOMAIN leases : leases[x].expires > t => x \in DOMAIN leases'
        /\ Grants(q, t) => q \in DOMAIN leases'
    BY <1>0, <2>0, <2>1, <2>2, MarkEntries, Zenon
  <2>4. RuleOpen(r)' = RuleOpen(r)
    BY <1>1, <2>1, Zenon DEF RuleOpen
  <2>5. CASE q = r /\ Grants(q, t)
    BY <2>3, <2>5, Zenon DEF Accounted
  <2>6. CASE q = r /\ ~Grants(q, t)
    <3>1. handler'.pc = "undo" /\ handler'.remote = r
      BY <2>0, <2>1, <2>6, Zenon DEF Handlers
    <3> QED
      BY <3>1, Zenon DEF Accounted, BusyWith
  <2>7. CASE q # r /\ ~SweptAway(r)
    <3>1. BusyWith(r) => BusyWith(r)'
      BY <1>2, <2>7, Zenon
    <3>2. r \in DOMAIN leases => leases[r].expires \in Int /\ leases[r].expires > now
      BY <1>0, <1>5, <2>7, Zenon DEF SweptAway, Live, TypeOK, IsCache
    <3>3. r \in DOMAIN leases => r \in DOMAIN leases'
      BY <1>0, <2>2, <2>3, <3>2
    <3> QED
      BY <2>4, <3>1, <3>3, AccountedSame, Zenon
  <2> QED
    BY <2>5, <2>6, <2>7, Zenon
<1>6. CASE HandlerUndo
  <2>1. /\ handler.pc = "undo" /\ leases' = leases
        /\ rules' = Revoke(handler.remote) \/ (FirewallFaults /\ rules' = rules /\ handler'.pc = "idle")
    BY <1>6, Zenon DEF HandlerUndo, Idle
  <2>2. CASE handler.remote = r
    <3>1. rules'[r] = 0 \/ CommandFails(r)
      BY <1>0, <2>1, <2>2, Zenon DEF Revoke, CommandFails
    <3> QED
      BY <1>0, <1>1, <3>1 DEF Accounted, RuleOpen
  <2>3. CASE handler.remote # r
    <3>1. rules'[r] = rules[r]
      BY <1>0, <2>1, <2>3, Zenon DEF Revoke
    <3>2. RuleOpen(r)' = RuleOpen(r) /\ (BusyWith(r) => BusyWith(r)')
      BY <1>1, <1>2, <2>3, <3>1, Zenon DEF RuleOpen
    <3> QED
      BY <2>1, <3>2, AccountedSame, Zenon
  <2> QED
    BY <2>2, <2>3, Zenon
<1>7. CASE (handler.pc = "session" /\ HandlerSession) \/ (handler.pc = "arm" /\ HandlerArm)
  <2>1. handler.pc \notin {"mark", "undo"} /\ UNCHANGED <<leases, rules>>
    BY <1>7, Zenon DEF HandlerSession, HandlerArm
  <2>2. RuleOpen(r)' = RuleOpen(r) /\ (BusyWith(r) => BusyWith(r)')
    BY <1>1, <1>2, <2>1, Zenon DEF RuleOpen
  <2> QED
    BY <2>1, <2>2, AccountedSame, Zenon
<1> QED
  BY <1>3, <1>4, <1>5, <1>6, <1>7, Zenon DEF HandlerStep

\* A timer: the lease it ends is followed by the revocation of its rule.
LEMMA TimerAccounts ==
  ASSUME ManualRevoke, TypeInv, NEW r \in Remotes, Accounted(r),
         \/ \E tm \in timers : TimerFires(tm)
         \/ \E cb \in callbacks : CallbackStep(cb)
  PROVE  Accounted(r)' \/ CommandFails(r)
<1> DEFINE CBs == [pc : {"sessions", "lease", "revoke"}, timer : Timers]
<1>0. TypeOK /\ now \in Nat /\ rules \in [Remotes -> Int] /\ callbacks \subseteq CBs
  BY Zenon DEF TypeInv, TypeOK
<1>1. UNCHANGED <<now, handler, conn>>
  BY Zenon DEF TimerFires, CallbackStep, Expire, ExpireFirewall, CallbackRevoke
<1>2. ASSUME \A cb \in callbacks : cb.pc = "revoke" /\ cb.timer.remote = r => cb \in callbacks'
      PROVE  BusyWith(r) => BusyWith(r)'
  BY <1>1, <1>2, Zenon DEF BusyWith
<1>3. ASSUME NEW tm \in timers, TimerFires(tm) PROVE Accounted(r)'
  <2>1. UNCHANGED <<leases, rules>> /\ callbacks \subseteq callbacks'
    BY <1>3, Zenon DEF TimerFires
  <2>2. RuleOpen(r)' = RuleOpen(r) /\ (BusyWith(r) => BusyWith(r)')
    BY <1>1, <1>2, <2>1, Zenon DEF RuleOpen
  <2> QED
    BY <2>1, <2>2, AccountedSame, Zenon
<1>4. ASSUME NEW cb \in callbacks, NEW t, Expire(cb, t) PROVE Accounted(r)'
  <2>1. UNCHANGED <<leases, rules>> /\ callbacks \ {cb} \subseteq callbacks' /\ cb.pc = "sessions"
    BY <1>4, Zenon DEF Expire, Moved
  <2>2. RuleOpen(r)' = RuleOpen(r) /\ (BusyWith(r) => BusyWith(r)')
    BY <1>1, <1>2, <2>1, Zenon DEF RuleOpen
  <2> QED
    BY <2>1, <2>2, AccountedSame, Zenon
<1>5. ASSUME NEW cb \in callbacks, NEW t, ExpireFirewall(cb, t) PROVE Accounted(r)'
  <2>1. rules' = rules /\ callbacks \ {cb} \subseteq callbacks' /\ cb.pc = "lease"
    BY <1>5, Zenon DEF ExpireFirewall, LeaseEnded, Moved
  <2>2. RuleOpen(r)' = RuleOpen(r) /\ (BusyWith(r) => BusyWith(r)')
    BY <1>1, <1>2, <2>1, Zenon DEF RuleOpen
  <2>3. CASE leases' = leases
    BY <2>2, <2>3, AccountedSame, Zenon
  <2>4. CASE OwnLeaseExpired(cb.timer, t)
    <3>1. leases' = Delete(leases, cb.timer.remote) /\ [cb EXCEPT !.pc = "revoke"] \in callbacks'
      BY <1>5, <2>4, Zenon DEF ExpireFirewall, LeaseEnded, Moved
    <3>2. CASE cb.timer.remote = r
      <4>1. /\ [cb EXCEPT !.pc = "revoke"].pc = "revoke"
            /\ [cb EXCEPT !.pc = "revoke"].timer = cb.timer
        BY <1>0, Zenon
      <4>2. BusyWith(r)'
        BY <3>1, <3>2, <4>1, Zenon DEF BusyWith
      <4> QED
        BY <4>2, Zenon DEF Accounted
    <3>3. CASE cb.timer.remote # r
      <4>1. r \in DOMAIN leases => r \in DOMAIN leases'
        BY <1>0, <3>1, <3>3, DeleteLease, Zenon
      <4> QED
        BY <2>2, <4>1, AccountedSame, Zenon
    <3> QED
      BY <3>2, <3>3, Zenon
  <2> QED
    BY <1>5, <2>3, <2>4, Zenon DEF ExpireFirewall
<1>6. ASSUME NEW cb \in callbacks, CallbackRevoke(cb) PROVE Accounted(r)' \/ CommandFails(r)
  <2>1. /\ cb.pc = "revoke" /\ leases' = leases /\ callbacks' = callbacks \ {cb}
        /\ rules' = Revoke(cb.timer.remote) \/ (FirewallFaults /\ rules' = rules)
    BY <1>6, Zenon DEF CallbackRevoke
  <2>2. CASE cb.timer.remote = r
    <3>1. rules'[r] = 0 \/ CommandFails(r)
      BY <1>0, <2>1, <2>2, Zenon DEF Revoke, CommandFails
    <3> QED
      BY <1>0, <1>1, <3>1 DEF Accounted, RuleOpen
  <2>3. CASE cb.timer.remote # r
    <3>1. rules'[r] = rules[r]
      BY <1>0, <2>1, <2>3, Zenon DEF Revoke
    <3>2. RuleOpen(r)' = RuleOpen(r) /\ (BusyWith(r) => BusyWith(r)')
      BY <1>1, <1>2, <2>1, <2>3, <3>1, Zenon DEF RuleOpen
    <3> QED
      BY <2>1, <3>2, AccountedSame, Zenon
  <2> QED
    BY <2>2, <2>3, Zenon
<1> QED
  BY <1>3, <1>4, <1>5, <1>6, Zenon DEF CallbackStep

\* A connection: removeKnockAccess ends the lease and then the rule.
LEMMA ConnAccounts ==
  ASSUME TypeInv, NEW r \in Remotes, Accounted(r), NEW x \in Conns,
         ConnStep(x) \/ \E q \in Remotes, c \in Clients, n \in Sids : Connect(x, q, c, n)
  PROVE  Accounted(r)' \/ CommandFails(r)
<1>0. /\ TypeOK /\ now \in Nat /\ rules \in [Remotes -> Int]
      /\ conn \in [Conns -> Connections \cup {Idle}]
  BY Zenon DEF TypeInv, TypeOK
<1>1. UNCHANGED <<now, handler, callbacks>>
  BY Zenon DEF ConnStep, CheckAndConsume, RemoveForPort, RemoveFirewall, RemoveRule, Connect
<1>2. ASSUME \A y \in Conns \ {x} : conn'[y] = conn[y],
             conn[x].pc # "revoke" \/ conn[x].key[1] # r
      PROVE  BusyWith(r) => BusyWith(r)'
  BY <1>1, <1>2, Zenon DEF BusyWith
<1>3. \A y \in Conns \ {x} : conn'[y] = conn[y]
  <2>1. \E z : conn' = [conn EXCEPT ![x] = z]
    BY <1>0, Zenon DEF ConnStep, CheckAndConsume, RemoveForPort, RemoveFirewall, RemoveRule, Connect
  <2> QED
    BY <1>0, <2>1, Zenon
<1>4. CASE CheckAndConsume(x) \/ RemoveForPort(x)
           \/ \E q \in Remotes, c \in Clients, n \in Sids : Connect(x, q, c, n)
  <2>1. UNCHANGED <<leases, rules>> /\ conn[x].pc # "revoke"
    BY <1>4, Zenon DEF CheckAndConsume, RemoveForPort, Connect
  <2>2. RuleOpen(r)' = RuleOpen(r) /\ (BusyWith(r) => BusyWith(r)')
    BY <1>1, <1>2, <1>3, <2>1, Zenon DEF RuleOpen
  <2> QED
    BY <2>1, <2>2, AccountedSame, Zenon
<1>5. CASE RemoveFirewall(x)
  <2>1. /\ conn[x].pc = "lease" /\ leases' = Delete(leases, conn[x].key[1]) /\ rules' = rules
        /\ conn' = [conn EXCEPT ![x].pc = "revoke"]
    BY <1>5, Zenon DEF RemoveFirewall
  <2>2. conn[x] \in Connections
    BY <1>0, <2>1 DEF Idle
  <2>3. conn'[x].pc = "revoke" /\ conn'[x].key = conn[x].key
    BY <1>0, <2>1, <2>2, Zenon DEF Connections
  <2>4. CASE conn[x].key[1] = r
    BY <2>3, <2>4, Zenon DEF Accounted, BusyWith
  <2>5. CASE conn[x].key[1] # r
    <3>1. r \in DOMAIN leases => r \in DOMAIN leases'
      BY <1>0, <2>1, <2>5, DeleteLease, Zenon
    <3>2. RuleOpen(r)' = RuleOpen(r) /\ (BusyWith(r) => BusyWith(r)')
      BY <1>1, <1>2, <1>3, <2>1, <2>5, Zenon DEF RuleOpen
    <3> QED
      BY <3>1, <3>2, AccountedSame, Zenon
  <2> QED
    BY <2>4, <2>5, Zenon
<1>6. CASE RemoveRule(x)
  <2>1. /\ conn[x].pc = "revoke" /\ leases' = leases /\ conn' = [conn EXCEPT ![x] = Idle]
        /\ rules' = Revoke(conn[x].key[1]) \/ (FirewallFaults /\ rules' = rules)
    BY <1>6, Zenon DEF RemoveRule
  <2>2. CASE conn[x].key[1] = r
    <3>0. conn'[x].pc = "idle"
      BY <1>0, <2>1, Zenon DEF Idle
    <3>1. rules'[r] = 0 \/ CommandFails(r)
      BY <1>0, <2>1, <2>2, <3>0, Zenon DEF Revoke, CommandFails
    <3> QED
      BY <1>0, <1>1, <3>1 DEF Accounted, RuleOpen
  <2>3. CASE conn[x].key[1] # r
    <3>1. rules'[r] = rules[r]
      BY <1>0, <2>1, <2>3, Zenon DEF Revoke
    <3>2. RuleOpen(r)' = RuleOpen(r) /\ (BusyWith(r) => BusyWith(r)')
      BY <1>1, <1>2, <1>3, <2>3, <3>1, Zenon DEF RuleOpen
    <3> QED
      BY <2>1, <3>2, AccountedSame, Zenon
  <2> QED
    BY <2>2, <2>3, Zenon
<1> QED
  BY <1>4, <1>5, <1>6, Zenon DEF ConnStep

\* A step of the server keeps every open rule accounted for, unless MarkFirewall's sweep
\* forgets its expired lease or a command fails.
LEMMA StepAccounts ==
  ASSUME ManualRevoke, TypeInv, [Next]_vars, NEW r \in Remotes, Accounted(r)
  PROVE  Accounted(r)' \/ SweptAway(r) \/ CommandFails(r)
<1>1. CASE Tick
  <2>1. UNCHANGED <<leases, rules, handler, callbacks, conn>> /\ now' = now + 1
    BY <1>1, Zenon DEF Tick
  <2>2. now \in Nat /\ rules[r] \in Int
    BY Zenon DEF TypeInv, TypeOK
  <2>3. RuleOpen(r)' => RuleOpen(r)
    BY <2>1, <2>2 DEF RuleOpen
  <2>4. BusyWith(r)' = BusyWith(r)
    BY <2>1, Zenon DEF BusyWith
  <2> QED
    BY <2>1, <2>3, <2>4, AccountedSame, Zenon
<1>2. CASE UNCHANGED vars
  BY <1>2, Zenon DEF vars, Accounted, RuleOpen, BusyWith
<1> QED
  BY <1>1, <1>2, HandlerAccounts, TimerAccounts, ConnAccounts, Zenon DEF Next

\* With a backend without rule timeouts, no timer, connection, renewal or full store
\* takes an open rule from everybody: only a command that fails does, and MarkFirewall's
\* sweep of expired leases for the knock of another source.
THEOREM OnlySweepsOrphanRules == Spec => RulesAccounted
<1>1. TypeInv /\ [Next]_vars =>
        [ManualRevoke =>
           \A r \in Remotes :
             Accounted(r) => Accounted(r)' \/ SweptAway(r) \/ CommandFails(r)]_vars
  BY StepAccounts, Zenon
<1> QED
  BY <1>1, TypeInvInit, TypeInvNext, PTL DEF Spec, RulesAccounted
=============================================================================
