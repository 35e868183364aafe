---------------------------- MODULE RelayProofs -----------------------------
(***************************************************************************)
(* The relay gateway, for any number of connections, sources and workers   *)
(* and any limits, and the configuration file knock-proxy runs it from:    *)
(* what a file makes of server and client, for every value a file may have *)
(* (ProxyInv).                                                             *)
(***************************************************************************)
EXTENDS RelayGateway, KnockProxy, TLAPS

\* The listener is closed only behind a context that is done, by the closer and
\* by the knock goroutine, or by run itself when it returns.
ListenerInv ==
  /\ ln = "closed" => ctxDone \/ main.pc = "returned"
  /\ main.err = "closed" => ctxDone
  /\ knock = "close" => cancelled
  /\ ClosedIsNeverReported

\* An open connection is in the active set or about to be handed to Add, and
\* once CloseAll has copied the set it is in the copy.
InHand(c) == main.pc = "acquire" /\ main.conn = c
ActiveInv ==
  /\ \A c \in Conns : client[c] = "open" => InHand(c) \/ c \in active.conns
  /\ \A w \in Workers, c \in Conns :
       worker[w].pc = "refused" /\ worker[w].conn = c => client[c] = "closed"
  /\ closer.pc \in {"closing", "done"} =>
       /\ active.closed
       /\ \A c \in Conns : client[c] = "open" => InHand(c) \/ c \in closer.todo
  /\ closer.pc = "done" => closer.todo = {}

\* Whoever has a connection between Acquire and the end of its authentication.
Queued(c) == \E i \in DOMAIN pending.queue : pending.queue[i] = c
Busy(w, c) == worker[w].pc \in {"auth", "accepted", "refused"} /\ worker[w].conn = c
Owned(c) ==
  \/ main.pc = "offer" /\ main.conn = c
  \/ Queued(c)
  \/ \E w \in Workers : Busy(w, c)

\* Every slot and every entry of the active set has somebody who gives it back.
OwnerInv ==
  /\ \A d \in held : Owned(d[1])
  /\ \A c \in active.conns : Owned(c) \/ sess[c].pc \in {"dial", "relay", "close"}
  /\ \A w \in Workers : worker[w].pc = "done" => pending.queue = <<>> /\ pending.closed
  /\ pending.closed => main.pc \in {"wait", "cleanup", "returned"}
  /\ \A c \in Conns : sess[c].pc \in {"none", "done"} => sess[c].upstream = {}

\* Nothing runs and nothing is held.
Clean ==
  /\ \A c \in Conns : client[c] # "open" /\ sess[c].upstream = {}
  /\ pending.queue = <<>> /\ held = {} /\ active.conns = {}
  /\ \A w \in Workers : worker[w].pc \in {"none", "done"}
  /\ \A c \in Conns : sess[c].pc \in {"none", "done"}
  /\ knock \in {"none", "done"} /\ closer.pc \in {"none", "done"}

\* Before the goroutines start and after the wait for them it is clean.
CleanInv ==
  /\ main.pc \in {"validate", "firewall", "cleanup", "returned"} => Clean
  /\ main.pc \in {"validate", "returned"} => ln # "open"
-----------------------------------------------------------------------------
\* The types of run's place in the code, and of the other variables.
RunPCs == {"validate", "firewall", "accept", "failed", "failed ctx", "sleep", "acquire",
           "offer", "cancel", "wait", "cleanup", "returned"}
RunType == [pc : RunPCs, conn : Conns \cup {Nobody}, source : Sources \cup {Nobody},
            err : {"none", "temporary", "fatal", "closed"}]

\* What run has in its hands at each point.
HandsInv(m) ==
  /\ m.pc \in {"acquire", "offer"} => m.conn \in Conns /\ m.source \in Sources
  /\ m.pc \in {"failed", "failed ctx"} => m.err # "none"

TypeInv ==
  /\ TypeOK
  /\ pending \in [queue : Seq(Conns), closed : BOOLEAN]
  /\ HandsInv(main)

\* All elements but the first are in the tail, one place earlier.
LEMMA TailShifts ==
  ASSUME NEW S, NEW q \in Seq(S), NEW n \in DOMAIN q, n # 1
  PROVE  n - 1 \in DOMAIN Tail(q) /\ Tail(q)[n - 1] = q[n]
<1>1. Len(q) \in Nat /\ DOMAIN q = 1..Len(q) /\ n \in 2..Len(q)
  OBVIOUS
<1>2. q # <<>>
  BY <1>1
<1>3. Len(Tail(q)) = Len(q) - 1 /\ DOMAIN Tail(q) = 1..(Len(q) - 1)
  BY <1>1, <1>2
<1> QED
  BY <1>1, <1>2, <1>3

\* run at a point where it has nothing in its hands.
LEMMA MainIs ==
  ASSUME NEW p \in RunPCs
  PROVE  /\ Main(p) \in RunType /\ Main(p).pc = p /\ Main(p).conn = Nobody
         /\ Main(p).err = "none"
         /\ p \notin {"acquire", "offer", "failed", "failed ctx"} => HandsInv(Main(p))
  BY Zenon DEF Main, RunType, HandsInv

\* activeConnections.Remove takes the one connection out.
LEMMA RemoveOne ==
  ASSUME TypeInv, NEW c
  PROVE  /\ Remove(c) \in [conns : SUBSET Conns, closed : BOOLEAN]
         /\ Remove(c).conns = active.conns \ {c} /\ Remove(c).closed = active.closed
<1>1. active \in [conns : SUBSET Conns, closed : BOOLEAN]
  BY Zenon DEF TypeInv, TypeOK
<1> QED
  BY <1>1, Zenon DEF Remove

\* The closed connections are closed and the others as they were.
LEMMA CloseSome ==
  ASSUME TypeInv, NEW cs
  PROVE  /\ Close(cs) \in [Conns -> {"new", "open", "closed"}]
         /\ \A c \in Conns : Close(cs)[c] = IF c \in cs THEN "closed" ELSE client[c]
<1>1. client \in [Conns -> {"new", "open", "closed"}]
  BY Zenon DEF TypeInv, TypeOK
<1> QED
  BY <1>1, Zenon DEF Close

\* Before Run is called.
LEMMA TypeInvInit == Init => TypeInv
<1> SUFFICES ASSUME Init PROVE TypeInv
  BY Zenon
<1>1. Len(pending.queue) <= MaxPendingAuth /\ pending.queue \in Seq(Conns)
  BY GatewayAssumption DEF Init
<1>2. sess \in [Conns -> [pc : {"none", "dial", "relay", "close", "done"},
                          halves : SUBSET {"up", "down"},
                          upstream : SUBSET {"read", "write"}]]
  BY Zenon DEF Init, NoSession
<1>3. worker \in [Workers -> [pc : {"none", "range", "auth", "accepted", "refused",
                                    "done"},
                              conn : Conns \cup {Nobody}]]
  BY Zenon DEF Init, WorkerAt
<1> QED
  BY <1>1, <1>2, <1>3, Zenon DEF Init, TypeInv, TypeOK, HandsInv, Main

\* TypeInv from its parts.
Rest ==
  /\ result \in {"running", "setup", "nil", "child", "fatal", "closed"}
  /\ {parent, cancelled, childErr} \subseteq BOOLEAN
  /\ ln \in {"none", "open", "closed"}
  /\ active \in [conns : SUBSET Conns, closed : BOOLEAN]
  /\ pending \in [queue : Seq(Conns), closed : BOOLEAN]
  /\ Len(pending.queue) <= MaxPendingAuth
  /\ held \subseteq Conns \X Sources
  /\ client \in [Conns -> {"new", "open", "closed"}]
GoType ==
  /\ worker \in [Workers -> [pc : {"none", "range", "auth", "accepted", "refused",
                                   "done"},
                             conn : Conns \cup {Nobody}]]
  /\ sess \in [Conns -> [pc : {"none", "dial", "relay", "close", "done"},
                         halves : SUBSET {"up", "down"},
                         upstream : SUBSET {"read", "write"}]]
  /\ knock \in {"none", "listen", "store", "cancel", "close", "done"}
  /\ closer \in [pc : {"none", "wait", "snapshot", "closing", "done"},
                 todo : SUBSET Conns]

\* TypeInv, taken apart.
LEMMA TypeParts == TypeInv <=> main \in RunType /\ HandsInv(main) /\ Rest /\ GoType
  BY Zenon DEF TypeInv, TypeOK, RunType, RunPCs, Rest, GoType

\* TypeInv after a step, put together.
LEMMA TypePartsNext ==
  main' \in RunType /\ HandsInv(main') /\ Rest' /\ GoType' => TypeInv'
  BY Zenon DEF TypeInv, TypeOK, RunType, RunPCs, Rest, GoType

\* The goroutines' types stay when they do nothing.
LEMMA GoSame == GoType /\ UNCHANGED goVars => GoType'
  BY Zenon DEF GoType, goVars

\* run's own steps keep the types.
LEMMA TypeInvMain ==
  ASSUME TypeInv,
         \/ MainStep \/ AcceptFails("temporary") \/ AcceptFails("fatal")
         \/ \E c \in Conns, s \in Sources : Accept(c, s)
  PROVE  TypeInv'
<1> USE DEF runVars, ctxVars, connVars
<1>0. main \in RunType /\ HandsInv(main) /\ Rest /\ GoType
  BY TypeParts, Zenon
<1>1. CASE Validate
  <2>1. main' \in RunType /\ HandsInv(main')
    BY <1>1, MainIs, Zenon DEF Validate, RunPCs
  <2>2. Rest' /\ GoType'
    BY <1>0, <1>1, GoSame, Zenon DEF Validate, Rest
  <2> QED
    BY <2>1, <2>2, TypePartsNext, Zenon
<1>2. CASE StartServing
  <2>1. main' \in RunType /\ HandsInv(main')
    BY <1>2, MainIs, Zenon DEF StartServing, RunPCs
  <2>2. Rest'
    BY <1>0, <1>2, Zenon DEF StartServing, Rest
  <2>3. GoType'
    BY <1>0, <1>2, GoSame DEF StartServing, GoType, WorkerAt
  <2> QED
    BY <2>1, <2>2, <2>3, TypePartsNext, Zenon
<1>3. ASSUME NEW e \in {"temporary", "fatal", "closed"}, AcceptFails(e) PROVE TypeInv'
  <2>1. main' = [pc |-> "failed", conn |-> Nobody, source |-> Nobody, err |-> e]
    BY <1>3, Zenon DEF AcceptFails, Main
  <2>2. main' \in RunType /\ HandsInv(main')
    BY <2>1, Zenon DEF RunType, RunPCs, HandsInv
  <2>3. Rest' /\ GoType'
    BY <1>0, <1>3, GoSame, Zenon DEF AcceptFails, Rest
  <2> QED
    BY <2>2, <2>3, TypePartsNext, Zenon
<1>4. CASE LoadChildErr
  <2>1. main' = Main("cancel") \/ main' = [main EXCEPT !.pc = "failed ctx"]
    BY <1>4, Zenon DEF LoadChildErr, RunReturn
  <2>2. [main EXCEPT !.pc = "failed ctx"] \in RunType
    BY <1>0, Zenon DEF RunType, RunPCs
  <2>3. HandsInv([main EXCEPT !.pc = "failed ctx"])
    BY <1>0, <1>4, Zenon DEF LoadChildErr, HandsInv, RunType
  <2>4. main' \in RunType /\ HandsInv(main')
    BY <2>1, <2>2, <2>3, MainIs, Zenon DEF RunPCs
  <2>5. Rest' /\ GoType'
    BY <1>0, <1>4, GoSame, Zenon DEF LoadChildErr, RunReturn, Rest
  <2> QED
    BY <2>4, <2>5, TypePartsNext, Zenon
<1>5. CASE ReadCtx
  <2>1. main' \in RunType /\ HandsInv(main')
    BY <1>5, MainIs, Zenon DEF ReadCtx, RunReturn, RunPCs
  <2>2. main.err \in {"temporary", "fatal", "closed"}
    BY <1>0, <1>5, Zenon DEF ReadCtx, HandsInv, RunType
  <2>3. result' \in {result, "nil", "fatal", "closed"}
    BY <1>5, <2>2, Zenon DEF ReadCtx, RunReturn
  <2>4. Rest' /\ GoType'
    BY <1>0, <1>5, <2>3, GoSame, Zenon DEF ReadCtx, Rest
  <2> QED
    BY <2>1, <2>4, TypePartsNext, Zenon
<1>6. CASE Sleep
  <2>1. main' \in RunType /\ HandsInv(main')
    BY <1>6, MainIs, Zenon DEF Sleep, RunReturn, RunPCs
  <2>2. Rest' /\ GoType'
    BY <1>0, <1>6, GoSame, Zenon DEF Sleep, RunReturn, ChildOrNil, Rest
  <2> QED
    BY <2>1, <2>2, TypePartsNext, Zenon
<1>7. CASE Acquire
  <2>0. main.conn \in Conns /\ main.source \in Sources
    BY <1>0, <1>7, Zenon DEF Acquire, HandsInv
  <2>1. main' \in RunType /\ HandsInv(main')
    <3>1. main' = Main("accept") \/ main' = [main EXCEPT !.pc = "offer"]
      BY <1>7, Zenon DEF Acquire
    <3>2. [main EXCEPT !.pc = "offer"] \in RunType
      BY <1>0, Zenon DEF RunType, RunPCs
    <3>3. HandsInv([main EXCEPT !.pc = "offer"])
      BY <1>0, <2>0, Zenon DEF HandsInv, RunType
    <3> QED
      BY <3>1, <3>2, <3>3, MainIs, Zenon DEF RunPCs
  <2>2. client' \in [Conns -> {"new", "open", "closed"}]
    BY <1>0, <1>7, CloseSome DEF Acquire, Add, Rest
  <2>3. active' \in [conns : SUBSET Conns, closed : BOOLEAN]
    <3>1. [active EXCEPT !.conns = @ \cup {main.conn}]
            \in [conns : SUBSET Conns, closed : BOOLEAN]
      BY <1>0, <2>0, Zenon DEF Rest
    <3> QED
      BY <1>0, <1>7, <3>1, Zenon DEF Acquire, Add, Rest
  <2>4. held' \subseteq Conns \X Sources
    BY <1>0, <1>7, <2>0 DEF Acquire, Rest
  <2>5. Rest' /\ GoType'
    BY <1>0, <1>7, <2>2, <2>3, <2>4, GoSame, Zenon DEF Acquire, Rest
  <2> QED
    BY <2>1, <2>5, TypePartsNext, Zenon
<1>8. CASE Offer
  <2>1. main' \in RunType /\ HandsInv(main')
    BY <1>8, MainIs, Zenon DEF Offer, RunReturn, RunPCs
  <2>2. client' \in [Conns -> {"new", "open", "closed"}]
    BY <1>0, <1>8, CloseSome DEF Offer, Drop, Rest
  <2>3. active' \in [conns : SUBSET Conns, closed : BOOLEAN]
    BY <1>0, <1>8, RemoveOne DEF Offer, Drop, Rest
  <2>4. held' \subseteq Conns \X Sources
    BY <1>0, <1>8, Zenon DEF Offer, Drop, Released, Rest
  <2>5. /\ pending' \in [queue : Seq(Conns), closed : BOOLEAN]
        /\ Len(pending'.queue) <= MaxPendingAuth
    <3>1. CASE HasRoom /\ pending' = [pending EXCEPT !.queue = Append(@, main.conn)]
      <4> DEFINE q == pending.queue
      <4>1. q \in Seq(Conns) /\ main.conn \in Conns
        BY <1>0, <1>8, Zenon DEF Offer, HandsInv, Rest
      <4>2. Append(q, main.conn) \in Seq(Conns) /\ Len(Append(q, main.conn)) = Len(q) + 1
        BY <4>1
      <4>3. Len(q) + 1 <= MaxPendingAuth
        BY <3>1, <4>1, GatewayAssumption DEF HasRoom
      <4>4. pending'.queue = Append(q, main.conn)
        BY <1>0, <3>1, Zenon DEF Rest
      <4>5. pending' \in [queue : Seq(Conns), closed : BOOLEAN]
        BY <1>0, <3>1, <4>2, Zenon DEF Rest
      <4> QED
        BY <4>2, <4>3, <4>4, <4>5, Zenon
    <3>2. CASE pending' = pending
      BY <1>0, <3>2, Zenon DEF Rest
    <3> QED
      BY <1>8, <3>1, <3>2, Zenon DEF Offer
  <2>6. result' \in {result, "child", "nil"}
    BY <1>8, Zenon DEF Offer, RunReturn, ChildOrNil
  <2>7. Rest' /\ GoType'
    BY <1>0, <1>8, <2>2, <2>3, <2>4, <2>5, <2>6, GoSame, Zenon DEF Offer, Rest
  <2> QED
    BY <2>1, <2>7, TypePartsNext, Zenon
<1>9. CASE CancelRun
  <2>1. main' \in RunType /\ HandsInv(main')
    BY <1>9, MainIs, Zenon DEF CancelRun, RunPCs
  <2>2. Rest' /\ GoType'
    BY <1>0, <1>9, GoSame, Zenon DEF CancelRun, Rest
  <2> QED
    BY <2>1, <2>2, TypePartsNext, Zenon
<1>10. CASE WaitGroup \/ RunCleanup
  <2>1. main' \in RunType /\ HandsInv(main')
    BY <1>10, MainIs, Zenon DEF WaitGroup, RunCleanup, RunPCs
  <2>2. Rest' /\ GoType'
    BY <1>0, <1>10, GoSame, Zenon DEF WaitGroup, RunCleanup, Rest
  <2> QED
    BY <2>1, <2>2, TypePartsNext, Zenon
<1>11. ASSUME NEW c \in Conns, NEW s \in Sources, Accept(c, s) PROVE TypeInv'
  <2>1. main' = [pc |-> "acquire", conn |-> c, source |-> s, err |-> "none"]
    BY <1>11, Zenon DEF Accept, Main
  <2>2. main' \in RunType /\ HandsInv(main')
    BY <2>1, Zenon DEF RunType, RunPCs, HandsInv
  <2>3. Rest' /\ GoType'
    BY <1>0, <1>11, GoSame, Zenon DEF Accept, Rest
  <2> QED
    BY <2>2, <2>3, TypePartsNext, Zenon
<1> QED
  BY <1>1, <1>2, <1>3, <1>4, <1>5, <1>6, <1>7, <1>8, <1>9, <1>10, <1>11, Zenon DEF MainStep

\* The workers' steps keep the types.
LEMMA TypeInvWorkers ==
  ASSUME TypeInv, NEW w \in Workers, WorkerStep(w)
  PROVE  TypeInv'
<1> DEFINE WT == [pc : {"none", "range", "auth", "accepted", "refused", "done"},
                  conn : Conns \cup {Nobody}]
<1> USE DEF runVars, ctxVars, connVars
<1>0. main \in RunType /\ HandsInv(main) /\ Rest /\ GoType
  BY TypeParts, Zenon
<1>1. worker \in [Workers -> WT]
  BY <1>0, Zenon DEF GoType
<1>2. \A p \in {"range", "done", "auth"}, c \in Conns \cup {Nobody} : WorkerAt(p, c) \in WT
  BY Zenon DEF WorkerAt
<1>3. \A p \in {"accepted", "refused"} : [worker[w] EXCEPT !.pc = p] \in WT
  BY <1>1, Zenon
<1> HIDE DEF WT
<1>4. CASE TakePending(w)
  <2>1. CASE pending.queue = <<>>
    <3>1. worker' \in [Workers -> WT]
      BY <1>1, <1>2, <1>4, <2>1, Zenon DEF TakePending
    <3>2. Rest' /\ GoType'
      BY <1>0, <1>4, <2>1, <3>1 DEF TakePending, Rest, GoType, WT
    <3> QED
      BY <1>0, <1>4, <3>2, TypePartsNext, Zenon DEF TakePending
  <2>2. CASE pending.queue # <<>>
    <3> DEFINE q == pending.queue
    <3>1. q \in Seq(Conns) /\ Len(q) \in Nat /\ Len(q) <= MaxPendingAuth
      BY <1>0 DEF Rest
    <3>2. Head(q) \in Conns /\ Tail(q) \in Seq(Conns) /\ Len(Tail(q)) = Len(q) - 1
      BY <2>2, <3>1
    <3>3. /\ worker' = [worker EXCEPT ![w] = WorkerAt("auth", Head(q))]
          /\ pending' = [pending EXCEPT !.queue = Tail(q)]
      BY <1>4, <2>2, Zenon DEF TakePending
    <3> HIDE DEF q
    <3>4. /\ pending' \in [queue : Seq(Conns), closed : BOOLEAN]
          /\ pending'.queue = Tail(q)
      BY <1>0, <3>2, <3>3, Zenon DEF Rest
    <3>5. Len(pending'.queue) <= MaxPendingAuth
      BY <3>1, <3>2, <3>4, GatewayAssumption
    <3>6. worker' \in [Workers -> WT]
      BY <1>1, <1>2, <3>2, <3>3, Zenon
    <3>7. Rest' /\ GoType'
      BY <1>0, <1>4, <3>4, <3>5, <3>6 DEF TakePending, Rest, GoType, WT
    <3> QED
      BY <1>0, <1>4, <3>7, TypePartsNext, Zenon DEF TakePending
  <2> QED
    BY <2>1, <2>2, Zenon
<1>5. CASE authenticateConn(w)
  <2>1. worker' \in [Workers -> WT]
    BY <1>1, <1>3, <1>5, Zenon DEF authenticateConn
  <2>2. client' \in [Conns -> {"new", "open", "closed"}]
    BY <1>0, <1>5, CloseSome DEF authenticateConn, Rest
  <2>3. Rest' /\ GoType'
    BY <1>0, <1>5, <2>1, <2>2 DEF authenticateConn, Rest, GoType, WT
  <2> QED
    BY <1>0, <1>5, <2>3, TypePartsNext, Zenon DEF authenticateConn
<1>6. CASE HandOver(w)
  <2>1. worker' \in [Workers -> WT]
    BY <1>1, <1>2, <1>6, Zenon DEF HandOver
  <2>2. active' \in [conns : SUBSET Conns, closed : BOOLEAN]
    BY <1>0, <1>6, RemoveOne DEF HandOver, Rest
  <2>3. held' \subseteq Conns \X Sources
    BY <1>0, <1>6, Zenon DEF HandOver, Released, Rest
  <2>4. GoType'
    <3>1. sess' = sess \/ sess' = [sess EXCEPT ![worker[w].conn].pc = "dial"]
      BY <1>6, Zenon DEF HandOver
    <3>2. sess' \in [Conns -> [pc : {"none", "dial", "relay", "close", "done"},
                               halves : SUBSET {"up", "down"},
                               upstream : SUBSET {"read", "write"}]]
      <4>1. CASE sess' = sess
        BY <1>0, <4>1, Zenon DEF GoType
      <4>2. CASE sess' = [sess EXCEPT ![worker[w].conn].pc = "dial"]
        <5> DEFINE k == worker[w].conn
                   ST == [pc : {"none", "dial", "relay", "close", "done"},
                          halves : SUBSET {"up", "down"},
                          upstream : SUBSET {"read", "write"}]
        <5>1. sess \in [Conns -> ST] /\ sess' = [sess EXCEPT ![k].pc = "dial"]
          BY <1>0, <4>2, Zenon DEF GoType
        <5> HIDE DEF k
        <5>2. k \in Conns => [sess[k] EXCEPT !.pc = "dial"] \in ST
          BY <5>1, Zenon
        <5>3. sess' \in [Conns -> ST]
          BY <5>1, <5>2, Zenon
        <5> QED
          BY <5>3, Zenon
      <4> QED
        BY <3>1, <4>1, <4>2, Zenon
    <3> QED
      BY <1>0, <1>6, <2>1, <3>2, Zenon DEF HandOver, GoType, WT
  <2>5. Rest' /\ GoType'
    BY <1>0, <1>6, <2>2, <2>3, <2>4, Zenon DEF HandOver, Rest
  <2> QED
    BY <1>0, <1>6, <2>5, TypePartsNext, Zenon DEF HandOver
<1> QED
  BY <1>4, <1>5, <1>6, Zenon DEF WorkerStep

\* The relay goroutines' steps keep the types.
LEMMA TypeInvSessions ==
  ASSUME TypeInv, NEW c \in Conns,
         \/ DialUpstream(c) \/ CancelSession(c) \/ EndSession(c)
         \/ \E h \in {"up", "down"} : copyHalf(c, h)
  PROVE  TypeInv'
<1> DEFINE ST == [pc : {"none", "dial", "relay", "close", "done"},
                  halves : SUBSET {"up", "down"},
                  upstream : SUBSET {"read", "write"}]
<1> USE DEF runVars, ctxVars
<1>0. main \in RunType /\ HandsInv(main) /\ Rest /\ GoType
  BY TypeParts, Zenon
<1>1. sess \in [Conns -> ST]
  BY <1>0, Zenon DEF GoType
<1>2. UNCHANGED sessVars
  BY Zenon DEF DialUpstream, CancelSession, EndSession, copyHalf, sessVars
<1>3. sess' \in [Conns -> ST]
  <2>1. CASE DialUpstream(c)
    BY <1>1, <2>1 DEF DialUpstream
  <2>2. CASE CancelSession(c)
    BY <1>1, <2>2 DEF CancelSession
  <2>3. CASE EndSession(c)
    <3>1. [sess[c] EXCEPT !.pc = "done", !.upstream = {}] \in ST
      BY <1>1, Zenon
    <3>2. sess' = [sess EXCEPT ![c] = [sess[c] EXCEPT !.pc = "done", !.upstream = {}]]
      BY <1>1, <2>3, Zenon DEF EndSession
    <3> QED
      BY <1>1, <3>1, <3>2, Zenon
  <2>4. ASSUME NEW h \in {"up", "down"}, copyHalf(c, h) PROVE sess' \in [Conns -> ST]
    BY <1>1, <2>4 DEF copyHalf, closeHalf
  <2> QED
    BY <2>1, <2>2, <2>3, <2>4, Zenon
<1>4. client' \in [Conns -> {"new", "open", "closed"}]
  BY <1>0, CloseSome DEF DialUpstream, CancelSession, EndSession, copyHalf, closeHalf, Rest
<1>5. active' \in [conns : SUBSET Conns, closed : BOOLEAN]
  BY <1>0, RemoveOne DEF DialUpstream, CancelSession, EndSession, copyHalf, Rest
<1>6. Rest' /\ GoType'
  BY <1>0, <1>2, <1>3, <1>4, <1>5 DEF sessVars, Rest, GoType
<1> QED
  BY <1>0, <1>2, <1>6, TypePartsNext, Zenon DEF sessVars

\* The steps of the knock goroutine, of the closer and of the caller keep the types.
LEMMA TypeInvOthers ==
  ASSUME TypeInv, ParentCancel \/ ListenFails \/ KnockStep \/ CloserStep
  PROVE  TypeInv'
<1> USE DEF runVars, ctxVars, connVars, goVars
<1>0. main \in RunType /\ HandsInv(main) /\ Rest /\ GoType
  BY TypeParts, Zenon
<1>1. CASE ParentCancel
  <2>1. Rest' /\ GoType'
    BY <1>0, <1>1, GoSame, Zenon DEF ParentCancel, Rest
  <2> QED
    BY <1>0, <1>1, <2>1, TypePartsNext, Zenon DEF ParentCancel
<1>2. CASE ListenFails \/ KnockStep
  <2>1. Rest' /\ GoType' /\ main' = main
    BY <1>0, <1>2, Zenon DEF ListenFails, KnockStep, ListenEnds, KnockErr, knockVars, Rest, GoType
  <2> QED
    BY <1>0, <2>1, TypePartsNext, Zenon
<1>3. CASE CloserStep
  <2>1. closer' \in [pc : {"none", "wait", "snapshot", "closing", "done"},
                     todo : SUBSET Conns]
    <3>1. /\ closer \in [pc : {"none", "wait", "snapshot", "closing", "done"},
                         todo : SUBSET Conns]
          /\ active \in [conns : SUBSET Conns, closed : BOOLEAN]
      BY <1>0, Zenon DEF GoType, Rest
    <3>2. CASE CloserWakes
      BY <3>1, <3>2, Zenon DEF CloserWakes
    <3>3. CASE Snapshot
      BY <3>1, <3>3, Zenon DEF Snapshot
    <3>4. CASE CloseNext
      <4>1. \/ \E c \in closer.todo : closer' = [closer EXCEPT !.todo = @ \ {c}]
            \/ closer' = [closer EXCEPT !.pc = "done"]
        BY <3>4, Zenon DEF CloseNext
      <4>2. [closer EXCEPT !.pc = "done"]
              \in [pc : {"none", "wait", "snapshot", "closing", "done"}, todo : SUBSET Conns]
        BY <3>1, Zenon
      <4>3. ASSUME NEW c
            PROVE  [closer EXCEPT !.todo = @ \ {c}]
              \in [pc : {"none", "wait", "snapshot", "closing", "done"}, todo : SUBSET Conns]
        BY <3>1, Zenon
      <4> QED
        BY <4>1, <4>2, <4>3, Zenon
    <3> QED
      BY <1>3, <3>2, <3>3, <3>4, Zenon DEF CloserStep
  <2>2. client' \in [Conns -> {"new", "open", "closed"}]
    <3>1. CASE client' = client
      BY <1>0, <3>1, Zenon DEF Rest
    <3>2. ASSUME NEW c, client' = Close({c})
          PROVE  client' \in [Conns -> {"new", "open", "closed"}]
      BY <3>2, CloseSome, Zenon
    <3> QED
      BY <1>3, <3>1, <3>2, Zenon DEF CloserStep, CloserWakes, Snapshot, CloseNext
  <2>3. active' \in [conns : SUBSET Conns, closed : BOOLEAN]
    <3>1. [active EXCEPT !.closed = TRUE] \in [conns : SUBSET Conns, closed : BOOLEAN]
      BY <1>0, Zenon DEF Rest
    <3>2. active' = active \/ active' = [active EXCEPT !.closed = TRUE]
      BY <1>3, Zenon DEF CloserStep, CloserWakes, Snapshot, CloseNext
    <3> QED
      BY <1>0, <3>1, <3>2, Zenon DEF Rest
  <2>4. ln' \in {ln, "closed"} /\ UNCHANGED closerVars
    BY <1>3, Zenon DEF CloserStep, CloserWakes, Snapshot, CloseNext, closerVars
  <2>5. Rest' /\ GoType'
    BY <1>0, <2>1, <2>2, <2>3, <2>4, Zenon DEF closerVars, Rest, GoType
  <2> QED
    BY <1>0, <2>4, <2>5, TypePartsNext, Zenon DEF closerVars
<1> QED
  BY <1>1, <1>2, <1>3, Zenon

\* Every step of Run, the workers, the sessions and the closer keeps the types.
LEMMA TypeInvNext == TypeInv /\ [Next]_vars => TypeInv'
<1> SUFFICES ASSUME TypeInv, [Next]_vars PROVE TypeInv'
  BY Zenon
<1>1. CASE UNCHANGED vars
  <2>1. main \in RunType /\ HandsInv(main) /\ Rest /\ GoType
    BY TypeParts, Zenon
  <2>2. Rest' /\ GoType' /\ main' = main
    BY <1>1, <2>1, GoSame, Zenon DEF vars, goVars, Rest
  <2> QED
    BY <2>1, <2>2, TypePartsNext, Zenon
<1>2. ASSUME NEW c \in Conns, SessionStep(c) PROVE TypeInv'
  BY <1>2, TypeInvSessions, Zenon DEF SessionStep
<1>3. ASSUME NEW c \in Conns, NEW h \in {"up", "down"}, copyHalf(c, h) PROVE TypeInv'
  BY <1>3, TypeInvSessions, Zenon
<1> QED
  BY <1>1, <1>2, <1>3, TypeInvMain, TypeInvWorkers, TypeInvOthers, Zenon DEF Next

\* run, its workers, its relays and its listeners keep their types, the queue
\* its capacity included, for any number of connections and workers.
THEOREM GatewayTypes == Spec => []TypeOK
<1>1. TypeInv => TypeOK
  BY Zenon DEF TypeInv
<1> QED
  BY <1>1, TypeInvInit, TypeInvNext, PTL DEF Spec
-----------------------------------------------------------------------------
\* Steps that touch neither the listener, the context nor run's error.
LEMMA ListenerSame ==
  ASSUME ListenerInv, UNCHANGED <<main, result, ln, parent, cancelled, knock>>
  PROVE  ListenerInv'
  BY Zenon DEF ListenerInv, ctxDone, ClosedIsNeverReported

\* Every step keeps the listener behind the context.
LEMMA ListenerNext == TypeInv /\ ListenerInv /\ [Next]_vars => ListenerInv'
<1> SUFFICES ASSUME TypeInv, ListenerInv, [Next]_vars PROVE ListenerInv'
  BY Zenon
<1> USE DEF ListenerInv, ClosedIsNeverReported, ctxDone, runVars, ctxVars, connVars,
            goVars
<1>0. \A q \in RunPCs : Main(q).pc = q /\ Main(q).err = "none"
  BY MainIs, Zenon
<1>1. CASE ParentCancel
  BY <1>1, Zenon DEF ParentCancel
<1>2. CASE Validate \/ StartServing
  BY <1>0, <1>2, Zenon DEF Validate, StartServing, RunPCs
<1>3. ASSUME NEW e \in {"temporary", "fatal", "closed"}, AcceptFails(e)
      PROVE  ListenerInv'
  <2>1. main' = [pc |-> "failed", conn |-> Nobody, source |-> Nobody, err |-> e]
    BY <1>3, Zenon DEF AcceptFails, Main
  <2> QED
    BY <1>3, <2>1, Zenon DEF AcceptFails
<1>4. CASE LoadChildErr
  <2>1. main \in RunType
    BY TypeParts, Zenon
  <2>2. [main EXCEPT !.pc = "failed ctx"].err = main.err
    BY <2>1, Zenon DEF RunType
  <2> QED
    BY <1>0, <1>4, <2>2, Zenon DEF LoadChildErr, RunReturn, RunPCs
<1>5. CASE ReadCtx
  BY <1>0, <1>5, Zenon DEF ReadCtx, RunReturn, RunPCs
<1>6. CASE Sleep
  BY <1>0, <1>6, Zenon DEF Sleep, RunReturn, ChildOrNil, RunPCs
<1>7. CASE Acquire
  <2>1. main \in RunType
    BY TypeParts, Zenon
  <2>2. [main EXCEPT !.pc = "offer"].err = main.err
    BY <2>1, Zenon DEF RunType
  <2> QED
    BY <1>0, <1>7, <2>2, Zenon DEF Acquire, RunPCs
<1>8. CASE Offer
  <2>1. main' \in {Main("accept"), Main("cancel")} /\ result' \in {result, "child", "nil"}
    BY <1>8, Zenon DEF Offer, RunReturn, ChildOrNil
  <2> QED
    BY <1>0, <1>8, <2>1, Zenon DEF Offer, RunPCs
<1>9. CASE CancelRun \/ WaitGroup \/ RunCleanup
  BY <1>0, <1>9, Zenon DEF CancelRun, WaitGroup, RunCleanup, RunPCs
<1>10. ASSUME NEW c \in Conns, NEW s \in Sources, Accept(c, s) PROVE ListenerInv'
  <2>1. main' = [pc |-> "acquire", conn |-> c, source |-> s, err |-> "none"]
    BY <1>10, Zenon DEF Accept, Main
  <2>2. main'.err = "none"
    BY <2>1, Zenon
  <2>3. ln' = "open" /\ UNCHANGED <<result, cancelled, knock>>
    BY <1>10, Zenon DEF Accept
  <2> QED
    BY <2>2, <2>3, Zenon
<1>11. ASSUME NEW w \in Workers, WorkerStep(w) PROVE ListenerInv'
  BY <1>11, ListenerSame, Zenon DEF WorkerStep, TakePending, authenticateConn, HandOver
<1>12. ASSUME NEW c \in Conns, NEW h \in {"up", "down"}, SessionStep(c) \/ copyHalf(c, h)
       PROVE  ListenerInv'
  <2>1. UNCHANGED sessVars
    BY <1>12, Zenon DEF SessionStep, DialUpstream, CancelSession, EndSession, copyHalf, sessVars
  <2> QED
    BY <2>1, ListenerSame, Zenon DEF sessVars
<1>13. CASE ListenFails \/ KnockStep
  BY <1>13, Zenon DEF ListenFails, KnockStep, ListenEnds, KnockErr, knockVars
<1>14. CASE CloserStep
  BY <1>14, Zenon DEF CloserStep, CloserWakes, Snapshot, CloseNext, closerVars
<1>15. CASE UNCHANGED vars
  BY <1>15, ListenerSame, Zenon DEF vars
<1> QED
  BY <1>1, <1>2, <1>3, <1>4, <1>5, <1>6, <1>7, <1>8, <1>9, <1>10, <1>11, <1>12, <1>13,
     <1>14, <1>15, Zenon DEF Next, MainStep

\* run never returns the error of an Accept on a listener that the gateway has
\* closed itself: whoever closes it has the context done before.
THEOREM NeverReportsClosed == Spec => []ClosedIsNeverReported
<1>1. Init => ListenerInv
  BY DEF Init, Main, ListenerInv, ClosedIsNeverReported
<1>2. ListenerInv => ClosedIsNeverReported
  BY Zenon DEF ListenerInv
<1> QED
  BY <1>1, <1>2, TypeInvInit, TypeInvNext, ListenerNext, PTL DEF Spec
-----------------------------------------------------------------------------
\* The open connections, the active set and CloseAll's copy are as before, or
\* connections were closed and the closed ones taken out of the set.
LEMMA ActiveLess ==
  ASSUME ActiveInv, UNCHANGED closer,
         \A c \in Conns : client'[c] = client[c] \/ client'[c] = "closed",
         \A c \in Conns : InHand(c) => InHand(c)' \/ client'[c] = "closed" \/ c \in active'.conns,
         \A c \in Conns : c \in active.conns => c \in active'.conns \/ client'[c] = "closed",
         active'.closed = active.closed,
         active.closed => \A c \in Conns : InHand(c) => InHand(c)' \/ client'[c] = "closed",
         \A w \in Workers, c \in Conns :
           (worker[w].pc = "refused" /\ worker[w].conn = c)'
           => client'[c] = "closed" \/ (worker[w].pc = "refused" /\ worker[w].conn = c)
  PROVE  ActiveInv'
<1>1. \A c \in Conns : client'[c] = "open" => client[c] = "open"
  BY Zenon
<1>2. \A c \in Conns : client'[c] = "open" => InHand(c)' \/ c \in active'.conns
  BY <1>1, Zenon DEF ActiveInv
<1>3. \A w \in Workers, c \in Conns :
        (worker[w].pc = "refused" /\ worker[w].conn = c)' => client'[c] = "closed"
  BY DEF ActiveInv
<1>4. closer'.pc \in {"closing", "done"} =>
        /\ active'.closed
        /\ \A c \in Conns : client'[c] = "open" => InHand(c)' \/ c \in closer'.todo
  BY <1>1, Zenon DEF ActiveInv
<1>5. closer'.pc = "done" => closer'.todo = {}
  BY Zenon DEF ActiveInv
<1> QED
  BY <1>2, <1>3, <1>4, <1>5, Zenon DEF ActiveInv

\* Every step keeps the open connections in reach of CloseAll.
LEMMA ActiveNext == TypeInv /\ ActiveInv /\ [Next]_vars => ActiveInv'
<1> SUFFICES ASSUME TypeInv, ActiveInv, [Next]_vars PROVE ActiveInv'
  BY Zenon
<1> USE DEF runVars, ctxVars, connVars, goVars
<1>0. /\ main \in RunType /\ HandsInv(main) /\ Rest /\ GoType
      /\ \A q \in RunPCs : Main(q).pc = q
  BY TypeParts, MainIs, Zenon
<1>1. ASSUME main.pc # "acquire", UNCHANGED <<connVars, worker, closer>>
      PROVE  ActiveInv'
  BY <1>1, ActiveLess, Zenon DEF InHand
<1>2. ASSUME UNCHANGED <<main, connVars, worker, closer>> PROVE ActiveInv'
  BY <1>2, ActiveLess, Zenon DEF InHand
<1>3. CASE StartServing
  <2>1. worker' = worker \/ \A w \in Workers : worker'[w].pc # "refused"
    BY <1>3 DEF StartServing, WorkerAt
  <2>2. closer' = closer \/ (closer'.pc = "wait" /\ closer'.todo = closer.todo)
    BY <1>0, <1>3, Zenon DEF StartServing, GoType
  <2> QED
    BY <1>3, <2>1, <2>2, Zenon DEF StartServing, ActiveInv, InHand
<1>4. ASSUME NEW c \in Conns, NEW s \in Sources, Accept(c, s) PROVE ActiveInv'
  <2>1. main' = [pc |-> "acquire", conn |-> c, source |-> s, err |-> "none"]
    BY <1>4, Zenon DEF Accept, Main
  <2>2. InHand(c)' /\ \A x \in Conns : ~InHand(x)
    <3>1. main.pc = "accept"
      BY <1>4, Zenon DEF Accept
    <3> QED
      BY <2>1, <3>1, Zenon DEF InHand
  <2>3. /\ client[c] = "new"
        /\ \A x \in Conns \ {c} : client'[x] = client[x]
    BY <1>0, <1>4, Zenon DEF Accept, Rest
  <2>4. \A w \in Workers, x \in Conns :
          worker[w].pc = "refused" /\ worker[w].conn = x => client'[x] = "closed"
    BY <2>3, Zenon DEF ActiveInv
  <2>5. \A x \in Conns : client'[x] = "open" => InHand(x)' \/ client[x] = "open"
    BY <2>2, <2>3, Zenon
  <2> QED
    BY <1>4, <2>2, <2>4, <2>5, Zenon DEF Accept, ActiveInv
<1>5. CASE Acquire
  <2> DEFINE c == main.conn
  <2>1. c \in Conns /\ \A x \in Conns : InHand(x) <=> x = c
    BY <1>0, <1>5, Zenon DEF Acquire, HandsInv, InHand
  <2>2. UNCHANGED <<worker, closer>>
    BY <1>5, Zenon DEF Acquire
  <2>3. CASE client' = Close({c}) /\ active' = active
    BY <2>1, <2>2, <2>3, CloseSome, ActiveLess, Zenon
  <2>4. CASE /\ ~active.closed /\ client' = client
             /\ active' = [active EXCEPT !.conns = @ \cup {c}]
    <3>1. active'.conns = active.conns \cup {c} /\ active'.closed = active.closed
      BY <1>0, <2>4, Zenon DEF Rest
    <3> QED
      BY <2>1, <2>2, <2>4, <3>1, ActiveLess, Zenon
  <2> QED
    BY <1>5, <2>3, <2>4, Zenon DEF Acquire, Add
<1>6. CASE Offer
  <2>1. /\ UNCHANGED <<worker, closer>> /\ \A x \in Conns : ~InHand(x)
        /\ \/ UNCHANGED <<active, client>>
           \/ active' = Remove(main.conn) /\ client' = Close({main.conn})
    BY <1>6, Zenon DEF Offer, Drop, InHand
  <2> QED
    BY <2>1, CloseSome, RemoveOne, ActiveLess
<1>7. ASSUME NEW w \in Workers, WorkerStep(w) PROVE ActiveInv'
  <2>0. /\ worker \in [Workers -> [pc : {"none", "range", "auth", "accepted", "refused",
                                         "done"},
                                   conn : Conns \cup {Nobody}]]
        /\ UNCHANGED <<main, closer>>
    BY <1>0, <1>7, Zenon DEF GoType, WorkerStep, TakePending, authenticateConn, HandOver
  <2>1. CASE TakePending(w)
    <3>1. \A v \in Workers : worker'[v] = worker[v] \/ worker'[v].pc # "refused"
      BY <2>0, <2>1 DEF TakePending, WorkerAt
    <3> QED
      BY <2>0, <2>1, <3>1, ActiveLess, Zenon DEF TakePending, InHand
  <2>2. CASE authenticateConn(w)
    <3>1. \A v \in Workers \ {w} : worker'[v] = worker[v]
      BY <2>0, <2>2, Zenon DEF authenticateConn
    <3>2. worker'[w].conn = worker[w].conn
      BY <2>0, <2>2, Zenon DEF authenticateConn
    <3>3. \/ client' = client /\ worker'[w].pc = "accepted"
          \/ client' = Close({worker[w].conn})
      BY <2>0, <2>2, Zenon DEF authenticateConn
    <3> QED
      BY <2>0, <2>2, <3>1, <3>2, <3>3, CloseSome, ActiveLess DEF authenticateConn, InHand
  <2>3. CASE HandOver(w)
    <3>1. \A v \in Workers : worker'[v] = worker[v] \/ worker'[v].pc # "refused"
      BY <2>0, <2>3, Zenon DEF HandOver, WorkerAt
    <3>2. \/ active' = active
          \/ active' = Remove(worker[w].conn) /\ worker[w].pc = "refused"
      BY <2>0, <2>3, Zenon DEF HandOver
    <3>3. \A c \in Conns :
            c \in active.conns => c \in active'.conns \/ client[c] = "closed"
      BY <3>2, RemoveOne DEF ActiveInv
    <3>4. active'.closed = active.closed
      BY <3>2, RemoveOne, Zenon
    <3> QED
      BY <2>0, <2>3, <3>1, <3>3, <3>4, ActiveLess, Zenon DEF HandOver, InHand
  <2> QED
    BY <1>7, <2>1, <2>2, <2>3, Zenon DEF WorkerStep
<1>8. ASSUME NEW c \in Conns, NEW h \in {"up", "down"}, SessionStep(c) \/ copyHalf(c, h)
      PROVE  ActiveInv'
  <2>1. UNCHANGED sessVars
    BY <1>8, Zenon DEF SessionStep, DialUpstream, CancelSession, EndSession, copyHalf, sessVars
  <2>2. /\ client' \in {client, Close({c})}
        /\ active' = active \/ (active' = Remove(c) /\ client' = Close({c}))
    BY <1>8, Zenon DEF SessionStep, DialUpstream, CancelSession, EndSession, copyHalf, closeHalf
  <2> QED
    BY <2>1, <2>2, CloseSome, RemoveOne, ActiveLess DEF sessVars, InHand
<1>9. CASE CloserStep
  <2>0. /\ UNCHANGED <<main, worker>>
        /\ active \in [conns : SUBSET Conns, closed : BOOLEAN]
        /\ closer \in [pc : {"none", "wait", "snapshot", "closing", "done"},
                       todo : SUBSET Conns]
    BY <1>0, <1>9,
       Zenon DEF CloserStep, CloserWakes, Snapshot, CloseNext, closerVars, Rest, GoType
  <2>1. CASE CloserWakes
    <3>1. closer'.pc = "snapshot" /\ UNCHANGED <<active, client>>
      BY <2>0, <2>1, Zenon DEF CloserWakes
    <3> QED
      BY <2>0, <3>1, Zenon DEF ActiveInv, InHand
  <2>2. CASE Snapshot
    <3>1. /\ closer'.pc = "closing" /\ closer'.todo = active.conns /\ client' = client
          /\ active'.closed = TRUE /\ active'.conns = active.conns
      BY <2>0, <2>2, Zenon DEF Snapshot
    <3> QED
      BY <2>0, <3>1, Zenon DEF ActiveInv, InHand
  <2>3. CASE CloseNext
    <3>1. ASSUME NEW c \in closer.todo, client' = Close({c}),
                 closer' = [closer EXCEPT !.todo = @ \ {c}]
          PROVE  ActiveInv'
      <4>1. /\ closer'.pc = closer.pc /\ closer'.todo = closer.todo \ {c}
            /\ active' = active /\ closer.pc = "closing"
        BY <2>0, <2>3, <3>1, Zenon DEF CloseNext
      <4>2. \A x \in Conns : client'[x] = IF x = c THEN "closed" ELSE client[x]
        BY <3>1, CloseSome, Zenon
      <4> QED
        BY <2>0, <4>1, <4>2, Zenon DEF ActiveInv, InHand
    <3>2. CASE closer.todo = {} /\ closer' = [closer EXCEPT !.pc = "done"] /\ client' = client
      <4>1. /\ closer'.pc = "done" /\ closer'.todo = {}
            /\ active' = active /\ closer.pc = "closing"
        BY <2>0, <2>3, <3>2, Zenon DEF CloseNext
      <4> QED
        BY <2>0, <3>2, <4>1, Zenon DEF ActiveInv, InHand
    <3> QED
      BY <2>3, <3>1, <3>2, Zenon DEF CloseNext
  <2> QED
    BY <1>9, <2>1, <2>2, <2>3, Zenon DEF CloserStep
<1>10. CASE \/ Validate \/ LoadChildErr \/ ReadCtx \/ Sleep \/ CancelRun \/ WaitGroup
            \/ RunCleanup \/ \E e \in {"temporary", "fatal", "closed"} : AcceptFails(e)
  <2>1. main.pc # "acquire" /\ UNCHANGED <<connVars, worker, closer>>
    BY <1>10, Zenon DEF Validate, LoadChildErr, ReadCtx, Sleep, CancelRun, WaitGroup, RunCleanup,
                 AcceptFails
  <2> QED
    BY <1>1, <2>1, Zenon
<1>11. CASE ParentCancel \/ ListenFails \/ KnockStep \/ UNCHANGED vars
  <2>1. UNCHANGED <<main, connVars, worker, closer>>
    BY <1>11,
       Zenon DEF ParentCancel, ListenFails, KnockStep, ListenEnds, KnockErr, knockVars, vars
  <2> QED
    BY <1>2, <2>1, Zenon
<1> QED
  BY <1>3, <1>4, <1>5, <1>6, <1>7, <1>8, <1>9, <1>10, <1>11, Zenon DEF Next, MainStep

\* No connection is registered before Run.
LEMMA ActiveInit == Init => ActiveInv
  BY DEF Init, ActiveInv, InHand, WorkerAt

\* When CloseAll is over it has reached every open connection, or Add will: a
\* connection accepted meanwhile is in run's hands, before Add.
THEOREM CloseAllReachesAll == Spec => []CloseAllReaches
<1>1. ActiveInv => CloseAllReaches
  BY Zenon DEF ActiveInv, CloseAllReaches, InHand
<1> QED
  BY <1>1, ActiveInit, TypeInvInit, TypeInvNext, ActiveNext, PTL DEF Spec
-----------------------------------------------------------------------------
\* Owners that stay keep the invariant, when nothing new is held.
LEMMA OwnerLess ==
  ASSUME OwnerInv, held' \subseteq held, active'.conns \subseteq active.conns,
         \A d \in held' : Owned(d[1]) => Owned(d[1])',
         \A c \in active'.conns : Owned(c) => Owned(c)',
         UNCHANGED <<worker, sess, pending>>,
         pending.closed => main'.pc \in {"wait", "cleanup", "returned"}
  PROVE  OwnerInv'
  BY Zenon DEF OwnerInv

\* Every slot and every active connection keeps an owner.
LEMMA OwnerNext == TypeInv /\ OwnerInv /\ CleanInv /\ [Next]_vars => OwnerInv'
<1> SUFFICES ASSUME TypeInv, OwnerInv, CleanInv, [Next]_vars PROVE OwnerInv'
  BY Zenon
<1> USE DEF runVars, ctxVars, connVars, goVars
<1>0. /\ main \in RunType /\ HandsInv(main) /\ Rest /\ GoType
      /\ \A q \in RunPCs : Main(q).pc = q
  BY TypeParts, MainIs, Zenon
<1>1. ASSUME main.pc # "offer", UNCHANGED <<active, held, worker, sess, pending>>,
             pending.closed => main'.pc \in {"wait", "cleanup", "returned"}
      PROVE  OwnerInv'
  BY <1>1, OwnerLess, Zenon DEF Owned, Queued, Busy
<1>2. ASSUME UNCHANGED <<main, held, worker, sess, pending>>,
             active'.conns = active.conns
      PROVE  OwnerInv'
  BY <1>2, OwnerLess, Zenon DEF Owned, Queued, Busy, OwnerInv
<1>3. CASE StartServing
  <2>1. main.pc = "firewall" /\ UNCHANGED <<held, active, pending, sess>>
    BY <1>3, Zenon DEF StartServing
  <2>2. held = {} /\ active.conns = {} /\ ~pending.closed
    BY <2>1, Zenon DEF CleanInv, Clean, OwnerInv
  <2>3. worker' = worker \/ \A w \in Workers : worker'[w].pc # "done"
    BY <1>3 DEF StartServing, WorkerAt
  <2> QED
    BY <2>1, <2>2, <2>3, Zenon DEF OwnerInv
<1>4. CASE Acquire
  <2>0. PICK c : c = main.conn
    BY Zenon
  <2>1. UNCHANGED <<worker, sess, pending>> /\ main.pc = "acquire" /\ ~pending.closed
    BY <1>4, Zenon DEF Acquire, OwnerInv
  <2>2. CASE held' = held \cup {<<c, main.source>>} /\ Add(c) /\ main' = [main EXCEPT !.pc = "offer"]
    <3>1. main'.pc = "offer" /\ main'.conn = c
      BY <1>0, <2>0, <2>2, Zenon DEF RunType
    <3>2. active'.conns \subseteq active.conns \cup {c}
      BY <1>0, <2>2, Zenon DEF Add, Rest
    <3>3. \A x : Owned(x) => Owned(x)'
      BY <2>1, Zenon DEF Owned, Queued, Busy
    <3>4. Owned(c)'
      BY <3>1, Zenon DEF Owned
    <3>5. \A d \in held' : Owned(d[1])'
      BY <2>2, <3>3, <3>4 DEF OwnerInv
    <3>6. \A x \in active'.conns : Owned(x)' \/ sess'[x].pc \in {"dial", "relay", "close"}
      BY <2>1, <3>2, <3>3, <3>4, Zenon DEF OwnerInv
    <3> QED
      BY <2>1, <3>5, <3>6, Zenon DEF OwnerInv
  <2>3. CASE UNCHANGED <<held, active>>
    BY <1>1, <2>1, <2>3, Zenon
  <2> QED
    BY <1>4, <2>0, <2>2, <2>3, Zenon DEF Acquire
<1>5. CASE Offer
  <2>0. PICK c : c = main.conn
    BY Zenon
  <2>1. /\ UNCHANGED <<worker, sess>> /\ main.pc = "offer" /\ ~pending.closed
        /\ c \in Conns
    BY <1>0, <1>5, <2>0, Zenon DEF Offer, OwnerInv, HandsInv
  <2>2. CASE /\ pending' = [pending EXCEPT !.queue = Append(@, c)]
             /\ UNCHANGED <<held, active>>
    <3>1. pending'.closed = pending.closed /\ pending'.queue = Append(pending.queue, c)
      BY <1>0, <2>2, Zenon DEF Rest
    <3>2. \A x : Queued(x) => Queued(x)'
      BY <1>0, <2>1, <3>1 DEF Queued, Rest
    <3>3. Queued(c)'
      <4>1. pending.queue \in Seq(Conns)
        BY <1>0, Zenon DEF Rest
      <4>2. /\ Len(pending.queue) + 1 \in DOMAIN Append(pending.queue, c)
            /\ Append(pending.queue, c)[Len(pending.queue) + 1] = c
        BY <2>1, <4>1
      <4> QED
        BY <3>1, <4>2, Zenon DEF Queued
    <3>4. \A x : Owned(x) => Owned(x)'
      BY <2>0, <2>1, <3>2, <3>3, Zenon DEF Owned, Busy
    <3>5. \A w \in Workers : worker[w].pc # "done"
      BY <2>1, Zenon DEF OwnerInv
    <3> QED
      BY <2>1, <2>2, <3>1, <3>4, <3>5, Zenon DEF OwnerInv
  <2>3. CASE Drop(c) /\ UNCHANGED pending
    <3>1. held' \subseteq held /\ \A d \in held' : d[1] # c
      BY <2>3, Zenon DEF Drop, Released
    <3>2. active'.conns = active.conns \ {c}
      BY <2>3, RemoveOne, Zenon DEF Drop
    <3>3. \A x : x # c /\ Owned(x) => Owned(x)'
      BY <2>0, <2>1, <2>3, Zenon DEF Owned, Queued, Busy
    <3> QED
      BY <2>1, <2>3, <3>1, <3>2, <3>3, OwnerLess, Zenon
  <2> QED
    BY <1>5, <2>0, <2>2, <2>3, Zenon DEF Offer
<1>6. CASE CancelRun
  <2>1. main.pc = "cancel" /\ main'.pc = "wait" /\ UNCHANGED <<held, active, worker, sess>>
    BY <1>0, <1>6, Zenon DEF CancelRun, RunPCs
  <2>2. pending'.queue = pending.queue /\ pending'.closed = TRUE
    BY <1>0, <1>6, Zenon DEF CancelRun, Rest
  <2>3. \A x : Owned(x) => Owned(x)'
    BY <2>1, <2>2, Zenon DEF Owned, Queued, Busy
  <2> QED
    BY <2>1, <2>2, <2>3, Zenon DEF OwnerInv
<1>7. ASSUME NEW w \in Workers, WorkerStep(w) PROVE OwnerInv'
  <2>0. /\ worker \in [Workers -> [pc : {"none", "range", "auth", "accepted", "refused",
                                         "done"},
                                   conn : Conns \cup {Nobody}]]
        /\ main' = main
    BY <1>0, <1>7, Zenon DEF GoType, WorkerStep, TakePending, authenticateConn, HandOver
  <2>1. CASE TakePending(w) /\ pending.queue # <<>>
    <3> DEFINE q == pending.queue
    <3>1. /\ worker'[w] = WorkerAt("auth", Head(q)) /\ worker[w].pc = "range"
          /\ \A v \in Workers \ {w} : worker'[v] = worker[v]
          /\ UNCHANGED <<held, active, sess>>
      BY <2>0, <2>1, Zenon DEF TakePending
    <3>2. pending'.queue = Tail(q) /\ pending'.closed = pending.closed
      BY <1>0, <2>1, Zenon DEF TakePending, Rest
    <3>3. worker'[w].pc = "auth" /\ worker'[w].conn = Head(q)
      BY <3>1 DEF WorkerAt
    <3>4. \A x : Queued(x) => x = Head(q) \/ Queued(x)'
      <4>1. q \in Seq(Conns) /\ q # <<>>
        BY <1>0, <2>1, Zenon DEF Rest
      <4> SUFFICES ASSUME NEW x, NEW n \in DOMAIN q, q[n] = x, x # Head(q)
                   PROVE  \E j \in DOMAIN pending'.queue : pending'.queue[j] = x
        BY Zenon DEF Queued
      <4>2. n # 1
        BY <4>1
      <4>3. n - 1 \in DOMAIN Tail(q) /\ Tail(q)[n - 1] = x
        BY <4>1, <4>2, TailShifts, Zenon
      <4> QED
        BY <3>2, <4>3, Zenon
    <3>5. \A x : Owned(x) => Owned(x)'
      BY <2>0, <3>1, <3>3, <3>4, Zenon DEF Owned, Busy
    <3>6. \A v \in Workers : worker'[v].pc # "done"
      BY <2>1, <3>1, <3>3, Zenon DEF OwnerInv
    <3> QED
      BY <2>0, <3>1, <3>2, <3>5, <3>6, Zenon DEF OwnerInv
  <2>2. CASE TakePending(w) /\ pending.queue = <<>>
    <3>1. /\ UNCHANGED <<held, active, sess, pending>> /\ pending.closed
          /\ worker[w].pc = "range"
          /\ \A v \in Workers \ {w} : worker'[v] = worker[v]
      BY <2>0, <2>2, Zenon DEF TakePending
    <3>2. \A x : Owned(x) => Owned(x)'
      BY <2>0, <3>1, Zenon DEF Owned, Queued, Busy
    <3> QED
      BY <2>0, <2>2, <3>1, <3>2, Zenon DEF OwnerInv
  <2>3. CASE authenticateConn(w)
    <3>1. /\ worker[w].pc = "auth" /\ worker'[w].conn = worker[w].conn
          /\ worker'[w].pc \in {"accepted", "refused"}
          /\ \A v \in Workers \ {w} : worker'[v] = worker[v]
          /\ UNCHANGED <<held, active, sess, pending>>
      BY <2>0, <2>3, Zenon DEF authenticateConn
    <3>2. \A x : Owned(x) => Owned(x)'
      BY <2>0, <3>1 DEF Owned, Queued, Busy
    <3>3. \A v \in Workers : worker'[v].pc = "done" => worker[v].pc = "done"
      BY <3>1, Zenon
    <3> QED
      BY <2>0, <3>1, <3>2, <3>3, Zenon DEF OwnerInv
  <2>4. CASE HandOver(w)
    <3>0. PICK c : c = worker[w].conn
      BY Zenon
    <3>1. /\ worker[w].pc \in {"accepted", "refused"} /\ worker'[w].pc = "range"
          /\ \A v \in Workers \ {w} : worker'[v] = worker[v]
          /\ UNCHANGED pending
      BY <2>0, <2>4, Zenon DEF HandOver, WorkerAt
    <3>2. \A x : x # c /\ Owned(x) => Owned(x)'
      BY <2>0, <3>0, <3>1, Zenon DEF Owned, Queued, Busy
    <3>3. held' \subseteq held /\ \A d \in held' : d[1] # c
      BY <2>4, <3>0, Zenon DEF HandOver, Released
    <3>4. \A v \in Workers : worker'[v].pc = "done" => worker[v].pc = "done"
      BY <3>1, Zenon
    <3>5. CASE active' = active /\ sess' = [sess EXCEPT ![c].pc = "dial"]
      <4>1. /\ \A x \in Conns : sess'[x].pc = IF x = c THEN "dial" ELSE sess[x].pc
            /\ \A x \in Conns : sess'[x].upstream = sess[x].upstream
        BY <1>0, <3>5 DEF GoType
      <4>2. active.conns \subseteq Conns
        BY <1>0, Zenon DEF Rest
      <4>3. \A x \in active'.conns : Owned(x)' \/ sess'[x].pc \in {"dial", "relay", "close"}
        BY <3>2, <3>5, <4>1, <4>2 DEF OwnerInv
      <4>4. \A x \in Conns : sess'[x].pc \in {"none", "done"} => sess'[x].upstream = {}
        BY <4>1, Zenon DEF OwnerInv
      <4> QED
        BY <2>0, <3>1, <3>2, <3>3, <3>4, <4>3, <4>4, Zenon DEF OwnerInv
    <3>6. CASE active' = Remove(c) /\ sess' = sess
      <4>1. active'.conns = active.conns \ {c}
        BY <3>6, RemoveOne, Zenon
      <4>2. \A x \in active'.conns : Owned(x)' \/ sess'[x].pc \in {"dial", "relay", "close"}
        BY <3>2, <3>6, <4>1, Zenon DEF OwnerInv
      <4> QED
        BY <2>0, <3>1, <3>2, <3>3, <3>4, <3>6, <4>2, Zenon DEF OwnerInv
    <3> QED
      BY <2>4, <3>0, <3>5, <3>6, Zenon DEF HandOver
  <2> QED
    BY <1>7, <2>1, <2>2, <2>3, <2>4, Zenon DEF WorkerStep
<1>8. ASSUME NEW c \in Conns, NEW h \in {"up", "down"}, SessionStep(c) \/ copyHalf(c, h)
      PROVE  OwnerInv'
  <2>0. sess \in [Conns -> [pc : {"none", "dial", "relay", "close", "done"},
                            halves : SUBSET {"up", "down"},
                            upstream : SUBSET {"read", "write"}]]
    BY <1>0, Zenon DEF GoType
  <2>1. UNCHANGED <<main, pending, held, worker>>
    BY <1>8, Zenon DEF SessionStep, DialUpstream, CancelSession, EndSession, copyHalf, sessVars
  <2>2. \A x : Owned(x) => Owned(x)'
    BY <2>1, Zenon DEF Owned, Queued, Busy
  <2>3. CASE /\ sess'[c].pc \in {"relay", "close"} /\ active' = active
             /\ \A x \in Conns \ {c} : sess'[x] = sess[x]
    BY <1>0, <2>1, <2>2, <2>3 DEF OwnerInv, Rest
  <2>4. CASE EndSession(c)
    <3>1. /\ sess'[c].upstream = {} /\ \A x \in Conns \ {c} : sess'[x] = sess[x]
          /\ active'.conns = active.conns \ {c}
      BY <2>0, <2>4, RemoveOne DEF EndSession
    <3> QED
      BY <1>0, <2>1, <2>2, <3>1, Zenon DEF OwnerInv, Rest
  <2>5. CASE DialUpstream(c)
    BY <2>0, <2>3, <2>5 DEF DialUpstream
  <2>6. CASE CancelSession(c)
    <3>1. /\ sess'[c].pc = "relay" /\ active' = active
          /\ \A x \in Conns \ {c} : sess'[x] = sess[x]
      BY <2>0, <2>6, Zenon DEF CancelSession
    <3> QED
      BY <2>3, <3>1, Zenon
  <2>7. ASSUME NEW k \in {"up", "down"}, copyHalf(c, k) PROVE OwnerInv'
    <3>1. /\ sess'[c].pc = "relay" /\ active' = active
          /\ \A x \in Conns \ {c} : sess'[x] = sess[x]
      BY <2>0, <2>7, Zenon DEF copyHalf, closeHalf
    <3> QED
      BY <2>3, <3>1, Zenon
  <2> QED
    BY <1>8, <2>4, <2>5, <2>6, <2>7, Zenon DEF SessionStep
<1>9. CASE CloserStep
  <2>1. active'.conns = active.conns
    BY <1>0, <1>9, Zenon DEF CloserStep, CloserWakes, Snapshot, CloseNext, Rest
  <2> QED
    BY <1>2, <1>9, <2>1, Zenon DEF CloserStep, CloserWakes, Snapshot, CloseNext, closerVars
<1>10. CASE Validate \/ LoadChildErr \/ ReadCtx \/ Sleep \/ WaitGroup \/ RunCleanup
            \/ \E e \in {"temporary", "fatal", "closed"} : AcceptFails(e)
  <2>1. main.pc # "offer" /\ UNCHANGED <<active, held, worker, sess, pending>>
    BY <1>10, Zenon DEF Validate, LoadChildErr, ReadCtx, Sleep, WaitGroup, RunCleanup, AcceptFails
  <2>2. main.pc \in {"wait", "cleanup", "returned"}
        => main'.pc \in {"wait", "cleanup", "returned"}
    BY <1>0, <1>10,
       Zenon DEF Validate, LoadChildErr, ReadCtx, Sleep, WaitGroup, RunCleanup, AcceptFails, RunPCs
  <2> QED
    BY <1>1, <2>1, <2>2, Zenon DEF OwnerInv
<1>11. ASSUME NEW c \in Conns, NEW s \in Sources, Accept(c, s) PROVE OwnerInv'
  BY <1>1, <1>11, Zenon DEF Accept, OwnerInv
<1>12. CASE ParentCancel \/ ListenFails \/ KnockStep \/ UNCHANGED vars
  BY <1>2, <1>12,
     Zenon DEF ParentCancel, ListenFails, KnockStep, ListenEnds, KnockErr, knockVars, vars
<1> QED
  BY <1>3, <1>4, <1>5, <1>6, <1>7, <1>8, <1>9, <1>10, <1>11, <1>12, Zenon DEF Next, MainStep
-----------------------------------------------------------------------------
\* A clean gateway stays clean: none of its goroutines has a step to take.
LEMMA CleanNext ==
  TypeInv /\ ActiveInv /\ OwnerInv /\ CleanInv /\ [Next]_vars => CleanInv'
<1> SUFFICES ASSUME TypeInv, ActiveInv, OwnerInv, CleanInv, [Next]_vars PROVE CleanInv'
  BY Zenon
<1> DEFINE Quiet == {"validate", "firewall", "cleanup", "returned"}
<1> USE DEF runVars, ctxVars, connVars, goVars
<1>0. \A q \in RunPCs : Main(q).pc = q
  BY MainIs, Zenon
<1>1. ASSUME UNCHANGED <<pending, connVars, worker, sess, knock, closer>>, Clean
      PROVE  Clean'
  BY <1>1, Zenon DEF Clean
<1>2. CASE Validate
  BY <1>0, <1>1, <1>2, Zenon DEF Validate, CleanInv, RunPCs
<1>3. CASE StartServing
  <2>1. CASE main'.pc = "accept"
    BY <2>1, Zenon DEF CleanInv
  <2>2. CASE main' = Main("returned") /\ ln' = "closed" /\ UNCHANGED goVars
    BY <1>0, <1>1, <1>3, <2>2, Zenon DEF StartServing, CleanInv, RunPCs
  <2> QED
    BY <1>0, <1>3, <2>1, <2>2, Zenon DEF StartServing, RunPCs
<1>4. CASE WaitGroup
  <2>1. /\ main.pc = "wait" /\ main'.pc = "cleanup"
        /\ \A w \in Workers : worker[w].pc = "done"
        /\ \A c \in Conns : sess[c].pc \in {"none", "done"}
        /\ knock = "done" /\ closer.pc = "done"
        /\ UNCHANGED <<pending, connVars, worker, sess, knock, closer>>
    BY <1>0, <1>4, Zenon DEF WaitGroup, RunPCs
  <2>2. \A c \in Conns : client[c] # "open"
    BY <2>1, Zenon DEF ActiveInv, InHand
  <2>3. pending.queue = <<>>
    BY <2>1, GatewayAssumption, Zenon DEF OwnerInv
  <2>4. \A c : ~Owned(c)
    BY <2>1, <2>3 DEF Owned, Queued, Busy
  <2>5. held = {}
    BY <2>4, Zenon DEF OwnerInv
  <2>6. active.conns = {}
    <3>1. active.conns \subseteq Conns
      BY Zenon DEF TypeInv, TypeOK
    <3> QED
      BY <2>1, <2>4, <3>1, Zenon DEF OwnerInv
  <2>7. \A c \in Conns : sess[c].upstream = {}
    BY <2>1, Zenon DEF OwnerInv
  <2>8. Clean
    BY <2>1, <2>2, <2>3, <2>5, <2>6, <2>7, Zenon DEF Clean
  <2> QED
    BY <1>1, <2>1, <2>8, Zenon DEF CleanInv
<1>5. CASE RunCleanup
  BY <1>0, <1>1, <1>5, Zenon DEF RunCleanup, CleanInv, RunPCs
<1>6. CASE main'.pc \notin Quiet
  BY <1>6, Zenon DEF CleanInv
<1>7. CASE LoadChildErr \/ ReadCtx \/ Sleep \/ Acquire \/ Offer \/ CancelRun
  <2>1. main \in RunType
    BY TypeParts, Zenon
  <2>2. main'.pc \in {"cancel", "failed ctx", "sleep", "accept", "offer", "wait"}
    <3>1. /\ [main EXCEPT !.pc = "failed ctx"].pc = "failed ctx"
          /\ [main EXCEPT !.pc = "offer"].pc = "offer"
      BY <2>1, Zenon DEF RunType
    <3> QED
      BY <1>0, <1>7, <3>1,
         Zenon DEF LoadChildErr, ReadCtx, Sleep, Acquire, Offer, CancelRun, RunReturn, RunPCs
  <2> QED
    BY <1>6, <2>2, Zenon
<1>8. ASSUME NEW e \in {"temporary", "fatal", "closed"}, AcceptFails(e) PROVE CleanInv'
  <2>1. main'.pc = "failed"
    BY <1>8, Zenon DEF AcceptFails, Main
  <2> QED
    BY <1>6, <2>1, Zenon
<1>9. ASSUME NEW c \in Conns, NEW s \in Sources, Accept(c, s) PROVE CleanInv'
  <2>1. main'.pc = "acquire"
    BY <1>9, Zenon DEF Accept, Main
  <2> QED
    BY <1>6, <2>1, Zenon
<1>10. CASE main'.pc \in Quiet /\ main' = main
  <2>1. Clean /\ (main.pc \in {"validate", "returned"} => ln # "open")
    BY <1>10, Zenon DEF CleanInv
  <2>2. ASSUME UNCHANGED <<ln, pending, connVars, worker, sess, knock, closer>>
        PROVE  CleanInv'
    BY <1>1, <1>10, <2>1, <2>2, Zenon DEF CleanInv
  <2>3. \A w \in Workers : ~WorkerStep(w)
    BY <2>1, Zenon DEF Clean, WorkerStep, TakePending, authenticateConn, HandOver
  <2>4. \A c \in Conns, h \in {"up", "down"} : ~SessionStep(c) /\ ~copyHalf(c, h)
    BY <2>1, Zenon DEF Clean, SessionStep, DialUpstream, CancelSession, EndSession, copyHalf
  <2>5. ~ListenFails /\ ~KnockStep
    BY <2>1, Zenon DEF Clean, ListenFails, KnockStep, ListenEnds, KnockErr
  <2>6. ~CloserStep
    BY <2>1, Zenon DEF Clean, CloserStep, CloserWakes, Snapshot, CloseNext
  <2>7. CASE ParentCancel \/ UNCHANGED vars
    BY <2>2, <2>7, Zenon DEF ParentCancel, vars
  <2> QED
    BY <1>2, <1>3, <1>4, <1>5, <1>7, <1>8, <1>9, <2>3, <2>4, <2>5, <2>6, <2>7,
       Zenon DEF Next, MainStep
<1>11. main' = main \/ MainStep \/ AcceptFails("temporary") \/ AcceptFails("fatal")
       \/ \E c \in Conns, s \in Sources : Accept(c, s)
  BY Zenon DEF Next, ParentCancel, WorkerStep, TakePending, authenticateConn, HandOver,
         SessionStep, DialUpstream, CancelSession, EndSession, copyHalf, sessVars,
         ListenFails, KnockStep, ListenEnds, KnockErr, knockVars, CloserStep,
         CloserWakes, Snapshot, CloseNext, closerVars, vars
<1> QED
  BY <1>2, <1>3, <1>4, <1>5, <1>6, <1>7, <1>8, <1>9, <1>10, <1>11, Zenon DEF MainStep

\* When Run returns, with whatever error, the listener, every connection and
\* every upstream is closed, no slot is held and no goroutine is left.
THEOREM RunReturnsClean == Spec => []ReturnsClean
<1>1. Init => OwnerInv /\ CleanInv
  <2> SUFFICES ASSUME Init PROVE OwnerInv /\ CleanInv
    BY Zenon
  <2>1. /\ \A c \in Conns : client[c] = "new" /\ sess[c].pc = "none" /\ sess[c].upstream = {}
        /\ \A w \in Workers : worker[w].pc = "none"
    BY Zenon DEF Init, WorkerAt, NoSession
  <2>2. /\ pending.queue = <<>> /\ pending.closed = FALSE /\ held = {}
        /\ active.conns = {} /\ knock = "none" /\ closer.pc = "none" /\ ln = "none"
    BY Zenon DEF Init
  <2>3. OwnerInv
    BY <2>1, <2>2, Zenon DEF OwnerInv
  <2>4. CleanInv
    BY <2>1, <2>2, Zenon DEF CleanInv, Clean
  <2> QED
    BY <2>3, <2>4, Zenon
<1>2. CleanInv => ReturnsClean
  BY Zenon DEF CleanInv, Clean, ReturnsClean
<1> QED
  BY <1>1, <1>2, TypeInvInit, TypeInvNext, ActiveInit, ActiveNext, OwnerNext, CleanNext,
     PTL DEF Spec
-----------------------------------------------------------------------------
\* The numbers of a configuration file.
Fields == {"tcp", "upstream", "fwPort", "udpPort", "udpKnockPort", "udpListen",
           "maxConn", "maxFrame", "maxParts", "length", "slot", "window",
           "seqWindow", "nonceTTL", "timeWindow", "timeWindowText", "authWindow",
           "nonceCache", "allow", "serverAddr", "protectedPort", "udpServerAddr"}

\* A running server's file is one it accepts.
ProxyInv == file # NoFile => file \in Files /\ serverRuntime(file).ok

\* A running server has a file it accepts.
THEOREM ProxyInvariance == ProxySpec => []ProxyInv
<1>1. ProxyInit => ProxyInv
  BY Zenon DEF ProxyInit, ProxyInv
<1>2. ProxyInv /\ [ProxyNext]_proxyVars => ProxyInv'
  <2> SUFFICES ASSUME ProxyInv, [ProxyNext]_proxyVars PROVE ProxyInv'
    BY Zenon
  <2>1. file' = file \/ file' = NoFile
    BY Zenon DEF ProxyNext, proxyVars
  <2> QED BY <2>1, Zenon DEF ProxyInv
<1> QED BY <1>1, <1>2, PTL DEF ProxySpec

\* The numbers of a file are integers.
LEMMA FileFields ==
  ASSUME NEW c \in Files
  PROVE  \A n \in Fields : c[n] \in Int
BY FilesAssumption, Zenon DEF Fields

\* defaultInt on zero and on any other value.
LEMMA DefaultOf ==
  ASSUME NEW d
  PROVE  defaultInt(0, d) = d /\ \A v : v # 0 => defaultInt(v, d) = v
BY Zenon DEF defaultInt

\* The UDP port the server derives from its settings, whichever of them are set.
LEMMA PortCases ==
  ASSUME NEW u \in Nat, NEW l, NEW s, NEW t \in Nat \ {0},
         l # 0 => l = defaultInt(u, s), l = 0 /\ u = 0 => s = 0 \/ s = t
  PROVE  \E x : /\ (u > 0 => x = u) /\ (u = 0 => x = defaultInt(s, t))
                /\ defaultInt(u, defaultInt(l, t)) = x /\ defaultInt(l, x) = x
<1>1. CASE u > 0
  <2>1. u # 0
    BY <1>1
  <2>2. defaultInt(u, defaultInt(l, t)) = u /\ defaultInt(u, s) = u
    BY <2>1, DefaultOf, Zenon
  <2>3. defaultInt(l, u) = u
    BY <2>2, DefaultOf, Zenon
  <2> QED BY <2>1, <2>2, <2>3, Zenon
<1>2. CASE u = 0 /\ l = 0
  <2>1. defaultInt(u, defaultInt(l, t)) = t /\ defaultInt(l, t) = t
    BY <1>2, DefaultOf, Zenon
  <2>2. defaultInt(s, t) = t
    BY <1>2, DefaultOf, Zenon
  <2>3. ~(u > 0)
    BY <1>2
  <2> QED BY <2>1, <2>2, <2>3, Zenon
<1>3. CASE u = 0 /\ l # 0
  <2>1. l = s
    BY <1>3, DefaultOf, Zenon
  <2>2. defaultInt(s, t) = l /\ defaultInt(l, t) = l /\ defaultInt(l, l) = l
    BY <1>3, <2>1, DefaultOf, Zenon
  <2>3. defaultInt(u, defaultInt(l, t)) = l
    BY <1>3, <2>2, DefaultOf, Zenon
  <2>4. ~(u > 0)
    BY <1>3
  <2> QED BY <2>2, <2>3, <2>4, Zenon
<1> QED BY <1>1, <1>2, <1>3

\* resolveUDPListen listens on that port.
LEMMA UDPPorts ==
  ASSUME NEW c, NEW u, NEW x, u = defaultInt(c.udpKnockPort, c.udpPort),
         defaultInt(u, defaultInt(c.udpListen, c.tcp)) = x, defaultInt(c.udpListen, x) = x
  PROVE  /\ resolveUDPListen(c).port = x /\ resolveUDPListen(c).listen = x
         /\ resolveUDPListen(c).ok => isPort(u)
BY Zenon DEF resolveUDPListen

\* The fields of the server's runtime, and what its acceptance says of the file.
LEMMA ServerFields ==
  ASSUME NEW c, NEW s, s = serverRuntime(c)
  PROVE  /\ s.port = defaultInt(c.fwPort, c.tcp)
         /\ s.method = normalizeKnockMethod(defaultString(c.method, "udp"))
         /\ s.knockListen = resolveUDPListen(c).listen /\ s.knockPort = resolveUDPListen(c).port
         /\ s.sequence = sequenceOptions(c) /\ s.timeWindow = knockTimeWindow(c).window
         /\ s.maxFrame = knockMaxFrameSize(c).max
         /\ s.ok => /\ ~c.unsupported /\ validateNonNegativeConfig(c) /\ splitHostPort(c.tcp)
                    /\ defaultInt(c.fwPort, c.tcp) = c.tcp /\ isKnockMethod(s.method)
                    /\ resolveUDPListen(c).ok /\ sequenceOptions(c).ok
                    /\ knockTimeWindow(c).ok /\ knockMaxFrameSize(c).ok
<1>1. s.method = normalizeKnockMethod(defaultString(c.method, "udp"))
  BY Zenon DEF serverRuntime
<1>2. /\ s.port = defaultInt(c.fwPort, c.tcp)
      /\ s.knockListen = resolveUDPListen(c).listen /\ s.knockPort = resolveUDPListen(c).port
      /\ s.sequence = sequenceOptions(c) /\ s.timeWindow = knockTimeWindow(c).window
      /\ s.maxFrame = knockMaxFrameSize(c).max
  BY Zenon DEF serverRuntime
<1>3. s.ok => /\ ~c.unsupported /\ validateNonNegativeConfig(c) /\ splitHostPort(c.tcp)
              /\ defaultInt(c.fwPort, c.tcp) = c.tcp
              /\ isKnockMethod(normalizeKnockMethod(defaultString(c.method, "udp")))
              /\ resolveUDPListen(c).ok /\ sequenceOptions(c).ok
              /\ knockTimeWindow(c).ok /\ knockMaxFrameSize(c).ok
  BY Zenon DEF serverRuntime
<1> QED BY <1>1, <1>2, <1>3, Zenon

\* The fields of the client's runtime that the server has as well.
LEMMA ClientFields ==
  ASSUME NEW c, NEW s, s = clientRuntime(c)
  PROVE  /\ s.serverAddr = c.serverAddr
         /\ s.method = normalizeKnockMethod(defaultString(c.method, "udp"))
         /\ s.sequence = sequenceOptions(c) /\ s.timeWindow = knockTimeWindow(c).window
         /\ s.maxFrame = knockMaxFrameSize(c).max
BY Zenon DEF clientRuntime

\* The ports the client connects and knocks to.
LEMMA ClientPorts ==
  ASSUME NEW c, NEW s, s = clientRuntime(c), NEW u, u = defaultInt(c.udpKnockPort, c.udpPort)
  PROVE  /\ s.port = IF c.protectedPort > 0 THEN c.protectedPort ELSE c.serverAddr
         /\ s.udpServerAddr = IF u > 0 THEN u ELSE defaultInt(c.udpServerAddr, c.serverAddr)
<1>1. s.port = IF c.protectedPort > 0 THEN c.protectedPort ELSE c.serverAddr
  BY Zenon DEF clientRuntime
<1>2. s.udpServerAddr = IF u > 0 THEN u ELSE defaultInt(c.udpServerAddr, c.serverAddr)
  BY Zenon DEF clientRuntime
<1> QED BY <1>1, <1>2, Zenon

\* What a file needs for the client to accept it.
LEMMA ClientAccepts ==
  ASSUME NEW c, NEW s, s = clientRuntime(c), NEW u, u = defaultInt(c.udpKnockPort, c.udpPort),
         NEW port, port = IF c.protectedPort > 0 THEN c.protectedPort ELSE c.serverAddr,
         c.mode \in {"", "client"}, ~c.unsupported, validateNonNegativeConfig(c),
         splitHostPort(c.serverAddr), splitHostPort(port),
         c.udpServerAddr # 0 => splitHostPort(c.udpServerAddr), isPort(u),
         isKnockMethod(normalizeKnockMethod(defaultString(c.method, "udp"))),
         c.clientID # "", parseSecret(c.secret),
         sequenceOptions(c).ok, knockTimeWindow(c).ok, knockMaxFrameSize(c).ok
  PROVE  s.ok
BY Zenon DEF clientRuntime

\* A client with the server's file meets the server.
LEMMA SameFileMeets == ASSUME ProxyInv PROVE ClientMeetsServer
<1>0. SUFFICES ASSUME file # NoFile, file.mode = "", AddressesAgree(file),
                    file.clientID # "", parseSecret(file.secret)
             PROVE  LET s == serverRuntime(file)
                        dialler == buildClient(file)
                        c == dialler.runtime
                    IN  /\ c.ok /\ c.method = s.method /\ c.sequence = s.sequence
                        /\ dialler.knockAddr = KnockSocket(s) /\ c.port = s.port
                        /\ c.timeWindow = s.timeWindow /\ c.maxFrame = s.maxFrame
  BY Zenon DEF ClientMeetsServer
<1>1. PICK f, s, c : f = file /\ s = serverRuntime(f) /\ c = clientRuntime(f)
  BY Zenon
<1>2. f \in Files /\ s.ok
  BY <1>0, <1>1, Zenon DEF ProxyInv
<1>3. /\ buildClient(f).runtime = c
      /\ buildClient(f).knockAddr = IF c.method \in SYN THEN c.serverAddr ELSE c.udpServerAddr
  BY <1>1, Zenon DEF buildClient
<1>4. PICK u : u = defaultInt(f.udpKnockPort, f.udpPort)
  BY Zenon
<1>5. /\ f.serverAddr = f.tcp /\ (f.protectedPort = 0 \/ f.protectedPort = f.tcp)
      /\ f.udpServerAddr # 0 => splitHostPort(f.udpServerAddr)
      /\ f.udpListen # 0 => f.udpListen = defaultInt(u, f.udpServerAddr)
      /\ f.udpListen = 0 /\ u = 0 => f.udpServerAddr \in {0, f.tcp}
  <2>1. AddressesAgree(f)
    BY <1>0, <1>1, Zenon
  <2> QED BY <1>4, <2>1, Zenon DEF AddressesAgree
<1>6. /\ s.port = defaultInt(f.fwPort, f.tcp)
      /\ s.method = normalizeKnockMethod(defaultString(f.method, "udp"))
      /\ s.knockListen = resolveUDPListen(f).listen /\ s.knockPort = resolveUDPListen(f).port
      /\ s.sequence = sequenceOptions(f) /\ s.timeWindow = knockTimeWindow(f).window
      /\ s.maxFrame = knockMaxFrameSize(f).max
      /\ ~f.unsupported /\ validateNonNegativeConfig(f) /\ splitHostPort(f.tcp)
      /\ defaultInt(f.fwPort, f.tcp) = f.tcp /\ isKnockMethod(s.method)
      /\ resolveUDPListen(f).ok /\ sequenceOptions(f).ok
      /\ knockTimeWindow(f).ok /\ knockMaxFrameSize(f).ok
  BY <1>1, <1>2, ServerFields, Zenon
<1>7. isPort(u) /\ f.tcp \in Nat \ {0} /\ u \in Nat
  <2>1. resolveUDPListen(f).ok => isPort(u)
    BY <1>4, Zenon DEF resolveUDPListen
  <2>2. f.tcp \in Int /\ f.udpKnockPort \in Int /\ f.udpPort \in Int
    <3>1. \A n \in Fields : f[n] \in Int
      BY <1>2, FileFields, Zenon
    <3> QED BY <3>1, Zenon DEF Fields
  <2>3. u \in Int
    BY <1>4, <2>2, Zenon DEF defaultInt
  <2>4. PICK t : t = f.tcp
    BY Zenon
  <2>5. t \in Int /\ splitHostPort(t) /\ isPort(u)
    BY <1>6, <2>1, <2>2, <2>4, Zenon
  <2>6. t \in Nat \ {0} /\ u \in Nat
    BY <2>3, <2>5 DEF splitHostPort, isPort
  <2> QED BY <2>4, <2>5, <2>6, Zenon
<1>8. PICK port : port = IF f.protectedPort > 0 THEN f.protectedPort ELSE f.serverAddr
  BY Zenon
<1>9. port = f.tcp
  <2>1. PICK t, q : t = f.tcp /\ q = f.protectedPort
    BY Zenon
  <2>2. t \in Nat \ {0} /\ (q = 0 \/ q = t) /\ port = IF q > 0 THEN q ELSE t
    BY <1>5, <1>7, <1>8, <2>1, Zenon
  <2> QED BY <2>1, <2>2
<1>10. /\ c.port = port /\ c.serverAddr = f.serverAddr /\ c.method = s.method
       /\ c.udpServerAddr = IF u > 0 THEN u ELSE defaultInt(f.udpServerAddr, f.serverAddr)
       /\ c.sequence = s.sequence /\ c.timeWindow = s.timeWindow /\ c.maxFrame = s.maxFrame
  <2>1. /\ c.serverAddr = f.serverAddr
        /\ c.method = normalizeKnockMethod(defaultString(f.method, "udp"))
        /\ c.sequence = sequenceOptions(f) /\ c.timeWindow = knockTimeWindow(f).window
        /\ c.maxFrame = knockMaxFrameSize(f).max
    BY <1>1, ClientFields, Zenon
  <2>2. /\ c.port = IF f.protectedPort > 0 THEN f.protectedPort ELSE f.serverAddr
        /\ c.udpServerAddr = IF u > 0 THEN u ELSE defaultInt(f.udpServerAddr, f.serverAddr)
    BY <1>1, <1>4, ClientPorts, Zenon
  <2> QED BY <1>6, <1>8, <2>1, <2>2, Zenon
<1>11. c.ok
  <2>1. /\ f.mode \in {"", "client"} /\ splitHostPort(f.serverAddr) /\ splitHostPort(port)
        /\ f.clientID # "" /\ parseSecret(f.secret)
    BY <1>0, <1>1, <1>5, <1>6, <1>9, Zenon
  <2>2. isKnockMethod(normalizeKnockMethod(defaultString(f.method, "udp")))
    BY <1>6, Zenon
  <2> QED BY <1>1, <1>4, <1>5, <1>6, <1>7, <1>8, <2>1, <2>2, ClientAccepts, Zenon
<1>12. s.knockPort = c.udpServerAddr /\ s.knockListen = c.udpServerAddr
  <2>1. PICK l, a, t : l = f.udpListen /\ a = f.udpServerAddr /\ t = f.tcp
    BY Zenon
  <2>2. /\ l # 0 => l = defaultInt(u, a)
        /\ l = 0 /\ u = 0 => a = 0 \/ a = t
        /\ u \in Nat /\ t \in Nat \ {0}
    BY <1>5, <1>7, <2>1, Zenon
  <2>3. PICK x : /\ (u > 0 => x = u) /\ (u = 0 => x = defaultInt(a, t))
                 /\ defaultInt(u, defaultInt(l, t)) = x /\ defaultInt(l, x) = x
    BY <2>2, PortCases
  <2>4. resolveUDPListen(f).port = x /\ resolveUDPListen(f).listen = x
    BY <1>4, <2>1, <2>3, UDPPorts, Zenon
  <2>5. u > 0 \/ u = 0
    BY <2>2
  <2>6. ~(u > 0) \/ u # 0
    BY <2>2
  <2>7. c.udpServerAddr = IF u > 0 THEN u ELSE defaultInt(a, t)
    BY <1>5, <1>10, <2>1, Zenon
  <2>8. c.udpServerAddr = x
    BY <2>3, <2>5, <2>6, <2>7, Zenon
  <2> QED BY <1>6, <2>4, <2>8, Zenon
<1>13. buildClient(f).knockAddr = KnockSocket(s)
  <2>1. CASE s.method \in SYN
    <3>1. KnockSocket(s) = s.port
      BY <2>1, Zenon DEF KnockSocket, SYN, Passive
    <3> QED BY <1>3, <1>5, <1>6, <1>10, <2>1, <3>1, Zenon
  <2>2. CASE s.method \notin SYN
    <3>1. KnockSocket(s) = s.knockPort \/ KnockSocket(s) = s.knockListen
      BY <2>2, Zenon DEF KnockSocket
    <3> QED BY <1>3, <1>10, <1>12, <2>2, <3>1, Zenon
  <2> QED BY <2>1, <2>2, Zenon
<1>14. c.port = s.port
  BY <1>6, <1>9, <1>10, Zenon
<1> QED BY <1>1, <1>3, <1>10, <1>11, <1>13, <1>14, Zenon

\* When one file describes both sides and the server accepts it, the client accepts it
\* too, knocks where the server listens and uses the same method, windows and limits.
THEOREM OneFileBothSides == ProxySpec => []ClientMeetsServer
<1>1. ProxyInv => ClientMeetsServer
  BY SameFileMeets, Zenon
<1> QED BY <1>1, ProxyInvariance, PTL
=============================================================================
