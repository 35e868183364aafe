-------------------------- MODULE KnockGateProofs ---------------------------
(***************************************************************************)
(* The gate and the knock listener that serves it.                         *)
(*                                                                         *)
(* GateLifecycle: what Close leaves behind, for any number of calls of     *)
(* Wrap, any set of modes and any number of knocks.  WrapInv says how far  *)
(* the one call of Wrap that got past beginLifecycle has come, SocketInv   *)
(* and FirewallInv who still answers for the knock socket and for the      *)
(* firewall, TimerInv how far each timer and its WaitGroup count are.      *)
(*                                                                         *)
(* KnockListener, for any clients, sources, limits, windows and clocks.  A *)
(* packet is spent once the replay cache holds its nonce for as long as    *)
(* its timestamp or slot would be accepted: it is never taken again.  Each *)
(* part of a UDP sequence in flight is spent, and so is the first part of  *)
(* a SYN sequence; a knock that fired has nothing left that is not spent.  *)
(***************************************************************************)
EXTENDS KnockListener, GateLifecycle, FiniteSetTheorems, TLAPS

WrapPCs == {"begin", "refused", "init", "init failed", "knock", "knock failed",
            "set cancel", "spawn", "listener", "close", "failed", "returned"}
TimerStates == {"none", "counted", "armed", "fired", "running", "returned", "done", "stopped"}
ServerPCs == {"none", "serving", "allow", "mark", "arm", "register", "exit"}
CloserPCs == {"idle", "cancel", "take", "stop", "asleep", "woken", "panicked", "wait", "cleanup",
              "returned"}

TypeInv ==
  /\ mode \in Modes
  /\ wrap \in [Starters -> WrapPCs]
  /\ cleaner \in {"none", "waiting", "cleanup", "sockets", "exit"}
  /\ server \in ServerPCs
  /\ timers \in [Knocks -> TimerStates]
  /\ closer \in CloserPCs
  /\ {started, closed, closeErr, cancel, knockOpen, installed, sawCancel} \subseteq BOOLEAN

Fresh == {"begin", "refused"}
\* Before the two goroutines are started.
Early == {"init", "init failed", "knock", "knock failed", "set cancel", "spawn"}

\* One call of Wrap gets past beginLifecycle, and none once Close has begun.
\* Both goroutines run or neither; cancel is set just before they are started.
WrapInv ==
  /\ \A p \in Starters : wrap[p] \notin Fresh =>
       started /\ \A q \in Starters : wrap[q] \notin Fresh => q = p
  /\ cancel => cleaner # "none" \/ \E p \in Starters : wrap[p] = "spawn"
  /\ cleaner # "none" => started /\ \A p \in Starters : wrap[p] \notin Early
  /\ server # "none" <=> cleaner # "none"
  /\ closer # "idle" =>
       closed /\ sawCancel = cancel /\ \A p \in Starters : wrap[p] \notin Early \cup {"listener"}

\* An open knock socket is Wrap's until the goroutine that serves it has started,
\* and then that goroutine's.
SocketInv ==
  /\ knockOpen => \/ server \notin {"none", "exit"}
                  \/ \E p \in Starters : wrap[p] \in {"set cancel", "spawn"}
  /\ closer \in {"cleanup", "returned"} => GoroutinesGone

\* Rules are in a managed chain, which only the firewall modes install.  It is gone
\* when the goroutine that cleans up or Close itself is done with it, or the
\* failure is recorded.
FirewallInv ==
  /\ rules # {} => installed
  /\ installed => UsesFirewall
  /\ \A p \in Starters : wrap[p] \in {"init", "init failed", "knock failed"} => UsesFirewall
  /\ cleaner \in {"sockets", "exit"} => ~installed \/ closeErr
  /\ closer = "returned" => ~installed \/ closeErr

GateInv == TypeInv /\ WrapInv /\ SocketInv /\ FirewallInv
-----------------------------------------------------------------------------
\* The call of Wrap moves on and the others stay.
LEMMA Goes ==
  ASSUME TypeInv, NEW p \in Starters, NEW pc \in WrapPCs, Goto(p, pc)
  PROVE  /\ wrap' \in [Starters -> WrapPCs] /\ wrap'[p] = pc
         /\ \A q \in Starters \ {p} : wrap'[q] = wrap[q]
BY Zenon DEF Goto, TypeInv

\* A cleanup succeeds, or is recorded if it is to be.
LEMMA CleanedUp ==
  ASSUME TypeInv, FirewallInv, NEW record \in BOOLEAN, Cleanup(record)
  PROVE  /\ closeErr' \in BOOLEAN /\ installed' \in BOOLEAN
         /\ closeErr => closeErr'
         /\ installed' => installed
         /\ rules' # {} => installed'
         /\ record => ~installed' \/ closeErr'
<1>0. closeErr \in BOOLEAN /\ installed \in BOOLEAN /\ (rules # {} => installed)
  BY Zenon DEF TypeInv, FirewallInv
<1>1. CASE installed' = FALSE /\ rules' = {} /\ closeErr' = closeErr
  BY <1>0, <1>1, Zenon
<1>2. CASE closeErr' = (closeErr \/ record) /\ installed' = installed /\ rules' = rules
  BY <1>0, <1>2, Zenon
<1> QED
  BY <1>1, <1>2, Zenon DEF Cleanup

\* The steps of Wrap up to the knock listener.
LEMMA WrapBegins ==
  ASSUME GateInv, NEW p \in Starters,
         beginLifecycle(p) \/ InitFirewall(p) \/ WrapCleanup(p) \/ openKnockListener(p)
  PROVE  GateInv'
<1>0. TypeInv /\ WrapInv /\ SocketInv /\ FirewallInv
  BY Zenon DEF GateInv
<1>1. CASE beginLifecycle(p)
  <2>1. /\ UNCHANGED <<mode, closed, cancel, closeErr, knockOpen, installed, rules, cleaner,
                       server, timers, closer, sawCancel>>
        /\ wrap[p] = "begin"
    BY <1>1, Zenon DEF beginLifecycle, timerVars
  <2>2. CASE ~MayStart /\ Goto(p, "refused") /\ UNCHANGED <<started, lnOpen>>
    <3>1. /\ wrap' \in [Starters -> WrapPCs] /\ wrap'[p] = "refused"
          /\ \A q \in Starters \ {p} : wrap'[q] = wrap[q]
      BY <1>0, <2>2, Goes, Zenon DEF WrapPCs
    <3>2. TypeInv'
      BY <1>0, <2>1, <2>2, <3>1, Zenon DEF TypeInv
    <3>3. WrapInv'
      BY <1>0, <2>1, <2>2, <3>1, Zenon DEF WrapInv, Fresh, Early
    <3>4. SocketInv'
      BY <1>0, <2>1, <2>2, <3>1, Zenon DEF SocketInv, GoroutinesGone
    <3>5. FirewallInv'
      BY <1>0, <2>1, <2>2, <3>1, Zenon DEF FirewallInv, UsesFirewall
    <3> QED
      BY <3>2, <3>3, <3>4, <3>5, Zenon DEF GateInv
  <2>3. CASE MayStart /\ started' = TRUE
    <3>1. PICK pc \in {"listener", "knock", "init", "failed"} :
            Goto(p, pc) /\ (pc = "init" => UsesFirewall)
      BY <1>0, <1>1, <2>3, ConstantsAssumption, Zenon DEF beginLifecycle, UsesFirewall, TypeInv
    <3>2. /\ wrap' \in [Starters -> WrapPCs] /\ wrap'[p] = pc
          /\ \A q \in Starters \ {p} : wrap'[q] = wrap[q]
      BY <1>0, <3>1, Goes, Zenon DEF WrapPCs
    <3>3. ~started /\ ~closed /\ closer = "idle" /\ cleaner = "none"
      BY <1>0, <2>3, Zenon DEF MayStart, WrapInv
    <3>4. \A q \in Starters : wrap[q] \in Fresh
      BY <1>0, <3>3, Zenon DEF WrapInv
    <3>5. TypeInv'
      BY <1>0, <2>1, <2>3, <3>2, Zenon DEF TypeInv
    <3>6. WrapInv'
      BY <1>0, <2>1, <2>3, <3>2, <3>3, <3>4, Zenon DEF WrapInv, Fresh, Early
    <3>7. SocketInv'
      BY <1>0, <2>1, <3>2, <3>3, <3>4, Zenon DEF SocketInv, GoroutinesGone, Fresh
    <3>8. FirewallInv'
      BY <1>0, <2>1, <3>1, <3>2, <3>3, Zenon DEF FirewallInv, UsesFirewall
    <3> QED
      BY <3>5, <3>6, <3>7, <3>8, Zenon DEF GateInv
  <2> QED
    BY <1>1, <2>2, <2>3, Zenon DEF beginLifecycle
<1>2. ASSUME wrap[p] \in Early,
             UNCHANGED <<mode, started, closed, cancel, cleaner, server, timers, closer,
                         sawCancel>>,
             installed' \in BOOLEAN, closeErr' \in BOOLEAN, knockOpen' \in BOOLEAN,
             NEW pc \in {"knock", "init failed", "knock failed", "failed", "set cancel"},
             Goto(p, pc),
             pc \in {"init failed", "knock failed"} => UsesFirewall,
             wrap[p] # "spawn", wrap[p] # "set cancel",
             knockOpen' = knockOpen \/ pc = "set cancel",
             rules' # {} => installed', installed' => UsesFirewall
      PROVE  GateInv'
  <2>1. /\ wrap' \in [Starters -> WrapPCs] /\ wrap'[p] = pc
        /\ \A q \in Starters \ {p} : wrap'[q] = wrap[q]
    BY <1>0, <1>2, Goes, Zenon DEF WrapPCs
  <2>2. closer = "idle" /\ cleaner = "none"
    BY <1>0, <1>2, Zenon DEF WrapInv
  <2>3. TypeInv'
    BY <1>0, <1>2, <2>1, Zenon DEF TypeInv
  <2>4. WrapInv'
    BY <1>0, <1>2, <2>1, <2>2, Zenon DEF WrapInv, Fresh, Early
  <2>5. SocketInv'
    BY <1>0, <1>2, <2>1, <2>2, Zenon DEF SocketInv, GoroutinesGone
  <2>6. FirewallInv'
    BY <1>0, <1>2, <2>1, <2>2, Zenon DEF FirewallInv, UsesFirewall
  <2> QED
    BY <2>3, <2>4, <2>5, <2>6, Zenon DEF GateInv
<1>3. CASE InitFirewall(p)
  <2>1. PICK pc \in {"knock", "init failed"} : Goto(p, pc)
    BY <1>3, Zenon DEF InitFirewall
  <2>2. /\ wrap[p] = "init" /\ installed' \in {installed, TRUE}
        /\ UNCHANGED <<mode, started, closed, cancel, closeErr, knockOpen, rules, cleaner,
                       server, timers, closer, sawCancel>>
    BY <1>3, Zenon DEF InitFirewall, gateVars, timerVars
  <2>3. UsesFirewall
    BY <1>0, <2>2, Zenon DEF FirewallInv
  <2> QED
    BY <1>0, <1>2, <2>1, <2>2, <2>3, Zenon DEF TypeInv, FirewallInv, Early
<1>4. CASE WrapCleanup(p)
  <2>1. /\ wrap[p] \in {"init failed", "knock failed"} /\ Goto(p, "failed")
        /\ UNCHANGED <<mode, started, closed, cancel, knockOpen, cleaner,
                       server, timers, closer, sawCancel>>
        /\ Cleanup(wrap[p] = "knock failed")
    BY <1>4, Zenon DEF WrapCleanup, gateVars, timerVars
  <2>2. /\ closeErr' \in BOOLEAN /\ installed' \in BOOLEAN
        /\ (rules' # {} => installed') /\ (installed' => installed)
    BY <1>0, <2>1, CleanedUp, Zenon
  <2>3. installed' => UsesFirewall
    BY <1>0, <2>2, Zenon DEF FirewallInv
  <2> QED
    BY <1>0, <1>2, <2>1, <2>2, <2>3, Zenon DEF TypeInv, Early
<1>5. CASE openKnockListener(p)
  <2>1. /\ wrap[p] = "knock"
        /\ UNCHANGED <<mode, started, closed, cancel, closeErr, installed, rules, cleaner,
                       server, timers, closer, sawCancel>>
    BY <1>5, Zenon DEF openKnockListener, gateVars, timerVars
  <2>2. PICK pc \in {"set cancel", "knock failed", "failed"} :
          /\ Goto(p, pc) /\ (pc = "knock failed" => UsesFirewall)
          /\ knockOpen' = (knockOpen \/ pc = "set cancel")
    BY <1>0, <1>5, Zenon DEF openKnockListener, TypeInv
  <2> QED
    BY <1>0, <1>2, <2>1, <2>2, Zenon DEF TypeInv, FirewallInv, Early
<1> QED
  BY <1>1, <1>3, <1>4, <1>5, Zenon

\* The steps of Wrap from setting cancel on.
LEMMA WrapEnds ==
  ASSUME GateInv, NEW p \in Starters,
         SetCancel(p) \/ Spawn(p) \/ WrapListener(p) \/ WrapClosed(p)
  PROVE  GateInv'
<1>0. TypeInv /\ WrapInv /\ SocketInv /\ FirewallInv
  BY Zenon DEF GateInv
<1>1. CASE SetCancel(p)
  <2>1. /\ wrap[p] = "set cancel" /\ cancel' = TRUE /\ Goto(p, "spawn")
        /\ UNCHANGED <<mode, started, closed, closeErr, knockOpen, installed, rules, cleaner,
                       server, timers, closer, sawCancel>>
    BY <1>1, Zenon DEF SetCancel, timerVars
  <2>2. /\ wrap' \in [Starters -> WrapPCs] /\ wrap'[p] = "spawn"
        /\ \A q \in Starters \ {p} : wrap'[q] = wrap[q]
    BY <1>0, <2>1, Goes, Zenon DEF WrapPCs
  <2>3. TypeInv'
    BY <1>0, <2>1, <2>2, Zenon DEF TypeInv
  <2>4. WrapInv'
    BY <1>0, <2>1, <2>2, Zenon DEF WrapInv, Fresh, Early
  <2>5. SocketInv'
    BY <1>0, <2>1, <2>2, Zenon DEF SocketInv, GoroutinesGone
  <2>6. FirewallInv'
    BY <1>0, <2>1, <2>2, Zenon DEF FirewallInv, UsesFirewall
  <2> QED
    BY <2>3, <2>4, <2>5, <2>6, Zenon DEF GateInv
<1>2. CASE Spawn(p)
  <2>1. /\ wrap[p] = "spawn" /\ cleaner' = "waiting" /\ server' = "serving"
        /\ Goto(p, "listener")
        /\ UNCHANGED <<mode, started, closed, cancel, closeErr, knockOpen, installed, rules,
                       timers, closer, sawCancel>>
    BY <1>2, Zenon DEF Spawn, gateVars, timerVars
  <2>2. /\ wrap' \in [Starters -> WrapPCs] /\ wrap'[p] = "listener"
        /\ \A q \in Starters \ {p} : wrap'[q] = wrap[q]
    BY <1>0, <2>1, Goes, Zenon DEF WrapPCs
  <2>3. /\ started /\ closer = "idle"
        /\ \A q \in Starters \ {p} : wrap'[q] \in Fresh
    BY <1>0, <2>1, <2>2, Zenon DEF WrapInv, Fresh, Early
  <2>4. TypeInv'
    BY <1>0, <2>1, <2>2, Zenon DEF TypeInv, ServerPCs
  <2>5. WrapInv'
    BY <2>1, <2>2, <2>3, Zenon DEF WrapInv, Fresh, Early
  <2>6. SocketInv'
    BY <2>1, <2>3, Zenon DEF SocketInv
  <2>7. FirewallInv'
    BY <1>0, <2>1, <2>2, <2>3, Zenon DEF FirewallInv, UsesFirewall
  <2> QED
    BY <2>4, <2>5, <2>6, <2>7, Zenon DEF GateInv
<1>3. CASE WrapListener(p) \/ WrapClosed(p)
  <2>1. /\ wrap[p] \in {"listener", "close"}
        /\ UNCHANGED <<mode, started, closed, cancel, closeErr, knockOpen, installed, rules,
                       cleaner, server, timers, closer, sawCancel>>
    BY <1>3, Zenon DEF WrapListener, WrapClosed, gateVars, timerVars
  <2>2. PICK pc \in {"returned", "failed", "close"} : Goto(p, pc)
    BY <1>3, Zenon DEF WrapListener, WrapClosed
  <2>3. /\ wrap' \in [Starters -> WrapPCs] /\ wrap'[p] = pc
        /\ \A q \in Starters \ {p} : wrap'[q] = wrap[q]
    BY <1>0, <2>2, Goes, Zenon DEF WrapPCs
  <2>4. TypeInv'
    BY <1>0, <2>1, <2>3, Zenon DEF TypeInv
  <2>5. WrapInv'
    BY <1>0, <2>1, <2>3, Zenon DEF WrapInv, Fresh, Early
  <2>6. SocketInv'
    BY <1>0, <2>1, <2>3, Zenon DEF SocketInv, GoroutinesGone
  <2>7. FirewallInv'
    BY <1>0, <2>1, <2>3, Zenon DEF FirewallInv, UsesFirewall
  <2> QED
    BY <2>4, <2>5, <2>6, <2>7, Zenon DEF GateInv
<1> QED
  BY <1>1, <1>2, <1>3, Zenon

\* The two goroutines: the one that cleans up drops the managed chain or records
\* why not, the one that serves knocks closes its socket when it ends.
LEMMA GoroutinesKeep ==
  ASSUME GateInv, Cleaner \/ ServeKnock \/ Server \/ ServeFails
  PROVE  GateInv'
<1>0. TypeInv /\ WrapInv /\ SocketInv /\ FirewallInv
  BY Zenon DEF GateInv
<1>1. CASE Cleaner
  <2>1. /\ UNCHANGED <<mode, started, closed, cancel, wrap, server, timers, closer, sawCancel>>
        /\ cleaner' \in {"cleanup", "sockets", "exit"}
        /\ cleaner \in {"waiting", "cleanup", "sockets"}
        /\ knockOpen' = knockOpen \/ knockOpen' = FALSE
    BY <1>1, Zenon DEF Cleaner, CleanerWakes, CleanerCleans, CleanerCloses, gateVars, timerVars
  <2>2. /\ closeErr' \in BOOLEAN /\ installed' \in BOOLEAN
        /\ installed' => installed
        /\ rules' # {} => installed'
        /\ cleaner' \in {"sockets", "exit"} => ~installed' \/ closeErr'
    <3>1. CASE CleanerWakes
      <4>1. UNCHANGED <<closeErr, installed, rules>> /\ (cleaner' = "sockets" => ~UsesFirewall)
            /\ cleaner' \in {"cleanup", "sockets"}
        BY <3>1, Zenon DEF CleanerWakes
      <4> QED
        BY <1>0, <4>1, Zenon DEF TypeInv, FirewallInv
    <3>2. CASE CleanerCleans
      BY <1>0, <3>2, CleanedUp, Zenon DEF CleanerCleans, CleanerCleanup
    <3>3. CASE CleanerCloses
      BY <1>0, <3>3, Zenon DEF CleanerCloses, TypeInv, FirewallInv
    <3> QED
      BY <1>1, <3>1, <3>2, <3>3, Zenon DEF Cleaner
  <2>3. closer \notin {"cleanup", "returned"}
    BY <1>0, <2>1, Zenon DEF SocketInv, GoroutinesGone
  <2>4. TypeInv'
    BY <1>0, <2>1, <2>2, Zenon DEF TypeInv
  <2>5. WrapInv'
    BY <1>0, <2>1, Zenon DEF WrapInv
  <2>6. SocketInv'
    <3>1. knockOpen' => knockOpen
      BY <1>0, <2>1, Zenon DEF TypeInv
    <3> QED
      BY <1>0, <2>1, <2>3, <3>1, Zenon DEF SocketInv
  <2>7. FirewallInv'
    <3>1. UsesFirewall' = UsesFirewall
      BY <2>1, Zenon DEF UsesFirewall
    <3>2. installed' => UsesFirewall
      BY <1>0, <2>2, Zenon DEF FirewallInv
    <3>3. \A p \in Starters :
            wrap'[p] \in {"init", "init failed", "knock failed"} => UsesFirewall
      BY <1>0, <2>1, Zenon DEF FirewallInv
    <3> QED
      BY <2>1, <2>2, <2>3, <3>1, <3>2, <3>3, Zenon DEF FirewallInv
  <2> QED
    BY <2>4, <2>5, <2>6, <2>7, Zenon DEF GateInv
<1>2. CASE ServeKnock \/ Server \/ ServeFails
  <2>1. /\ UNCHANGED <<mode, started, closed, cancel, closeErr, installed, wrap, cleaner,
                       closer, sawCancel>>
        /\ server \in {"serving", "allow", "mark", "arm", "register"}
    BY <1>2, Zenon DEF ServeKnock, Server, ServeAllow, ServeMark, ServeCounts, ServeArms, ServeEnds, ServeFails,
                gateVars
  <2>2. /\ server' \in {"serving", "allow", "mark", "arm", "register", "exit"}
        /\ knockOpen' = knockOpen \/ knockOpen' = FALSE
        /\ server' = "exit" => ~knockOpen'
    BY <1>2, Zenon DEF ServeKnock, Server, ServeAllow, ServeMark, ServeCounts, ServeArms, ServeEnds, ServeFails
  <2>3. rules' # {} => installed
    BY <1>0, <1>2, Zenon DEF ServeKnock, Server, ServeAllow, ServeMark, ServeCounts, ServeArms, ServeEnds,
                      ServeFails, FirewallInv
  <2>4. timers' \in [Knocks -> TimerStates]
    <3>1. CASE ServeCounts \/ ServeArms
      BY <1>0, <3>1, Zenon DEF ServeCounts, ServeArms, TypeInv, TimerStates
    <3>2. CASE ~(ServeCounts \/ ServeArms)
      <4>1. UNCHANGED timers
        BY <1>2, <3>2, Zenon DEF ServeKnock, Server, ServeAllow, ServeMark, ServeEnds, ServeFails,
                          timerVars
      <4> QED
        BY <1>0, <4>1, Zenon DEF TypeInv
    <3> QED
      BY <3>1, <3>2, Zenon
  <2>5. closer \notin {"cleanup", "returned"}
    BY <1>0, <2>1, Zenon DEF SocketInv, GoroutinesGone
  <2>6. TypeInv'
    BY <1>0, <2>1, <2>2, <2>4, Zenon DEF TypeInv, ServerPCs
  <2>7. WrapInv'
    BY <1>0, <2>1, <2>2, Zenon DEF WrapInv
  <2>8. SocketInv'
    BY <1>0, <2>1, <2>2, <2>5, Zenon DEF SocketInv
  <2>9. FirewallInv'
    BY <1>0, <2>1, <2>3, Zenon DEF FirewallInv, UsesFirewall
  <2> QED
    BY <2>6, <2>7, <2>8, <2>9, Zenon DEF GateInv
<1> QED
  BY <1>1, <1>2, Zenon

\* The timers only take rules away.
LEMMA TimersKeep ==
  ASSUME GateInv, NEW n \in Knocks, Timer(n) PROVE GateInv'
<1>0. TypeInv /\ WrapInv /\ SocketInv /\ FirewallInv
  BY Zenon DEF GateInv
<1>1. /\ UNCHANGED <<mode, started, closed, cancel, knockOpen, installed, wrap, cleaner, server,
                     sawCancel>>
      /\ closer' = closer \/ (closer = "asleep" /\ closer' = "woken")
      /\ closeErr' = closeErr \/ closeErr' = TRUE
      /\ rules' \subseteq rules
  BY Zenon DEF Timer, TimerFires, TimerLeaves, TimerRevokes, TimerDone, gateVars
<1>2. timers' \in [Knocks -> TimerStates]
  BY <1>0, Zenon DEF Timer, TimerFires, TimerLeaves, TimerRevokes, TimerDone, TypeInv, TimerStates
<1>3. TypeInv'
  BY <1>0, <1>1, <1>2, Zenon DEF TypeInv, CloserPCs
<1>4. WrapInv'
  BY <1>0, <1>1, Zenon DEF WrapInv
<1>5. SocketInv'
  BY <1>0, <1>1, Zenon DEF SocketInv, GoroutinesGone
<1>6. FirewallInv'
  <2>1. UsesFirewall' = UsesFirewall
    BY <1>1, Zenon DEF UsesFirewall
  <2>2. closeErr => closeErr'
    BY <1>0, <1>1, Zenon DEF TypeInv
  <2> QED
    BY <1>0, <1>1, <2>1, <2>2, Zenon DEF FirewallInv
<1> QED
  BY <1>3, <1>4, <1>5, <1>6, Zenon DEF GateInv

\* Close, when it is not called while Wrap runs: it waits for the goroutines, and
\* where there were none it cleans up itself.
LEMMA CloseKeeps ==
  ASSUME ~ConcurrentClose, GateInv, CloseBegins \/ CloseStep \/ ParentCancelled
  PROVE  GateInv'
<1>0. TypeInv /\ WrapInv /\ SocketInv /\ FirewallInv
  BY Zenon DEF GateInv
<1>1. UNCHANGED <<mode, started, cancel, knockOpen, wrap, cleaner, server>>
  BY Zenon DEF CloseBegins, CloseStep, CloseCancels, StopTakes, StopOne, StopWaits, StopWakes, CloseWaits,
         CloseCleans, ParentCancelled, gateVars
<1>2. timers' \in [Knocks -> TimerStates]
  <2>1. ASSUME NEW n \in Knocks, StopOne(n) PROVE timers' \in [Knocks -> TimerStates]
    BY <1>0, <2>1, Zenon DEF StopOne, TypeInv, TimerStates
  <2>2. CASE UNCHANGED timers
    BY <1>0, <2>2, Zenon DEF TypeInv, CloserPCs
  <2> QED
    BY <2>1, <2>2, Zenon DEF CloseBegins, CloseStep, CloseCancels, StopTakes, StopWaits, StopWakes, CloseWaits,
         CloseCleans, ParentCancelled, timerVars
<1>3. CASE CloseBegins
  <2>1. /\ closer = "idle" /\ closer' = "cancel" /\ closed' = TRUE /\ sawCancel' = cancel
        /\ UNCHANGED <<closeErr, installed, rules>>
        /\ \A p \in Starters : WrapRuns(p) => wrap[p] = "close"
    BY <1>3, Zenon DEF CloseBegins, MayClose
  <2>2. \A p \in Starters : wrap[p] \notin Early \cup {"listener"}
    BY <2>1, Zenon DEF WrapRuns, Early
  <2>3. TypeInv'
    BY <1>0, <1>1, <1>2, <2>1, Zenon DEF TypeInv, CloserPCs
  <2>4. WrapInv'
    BY <1>0, <1>1, <2>1, <2>2, Zenon DEF WrapInv
  <2>5. SocketInv' /\ FirewallInv'
    BY <1>0, <1>1, <2>1, Zenon DEF SocketInv, FirewallInv, UsesFirewall
  <2> QED
    BY <2>3, <2>4, <2>5, Zenon DEF GateInv
<1>4. CASE CloseCancels \/ StopTakes \/ (\E n \in Knocks : StopOne(n)) \/ StopWaits
           \/ StopWakes \/ CloseWaits \/ ParentCancelled
  <2>1. /\ UNCHANGED <<closed, closeErr, installed, rules, sawCancel>>
        /\ \/ closer' = closer
           \/ closer # "idle" /\ closer' \in {"take", "stop", "asleep", "panicked", "wait"}
           \/ closer # "idle" /\ closer' = "cleanup" /\ GoroutinesGone
    BY <1>4, Zenon DEF CloseCancels, StopTakes, StopOne, StopWaits, StopWakes, CloseWaits, ParentCancelled,
                gateVars
  <2>2. TypeInv'
    BY <1>0, <1>1, <1>2, <2>1, Zenon DEF TypeInv, CloserPCs
  <2>3. WrapInv'
    BY <1>0, <1>1, <2>1, Zenon DEF WrapInv
  <2>4. SocketInv'
    BY <1>0, <1>1, <2>1, Zenon DEF SocketInv, GoroutinesGone
  <2>5. FirewallInv'
    BY <1>0, <1>1, <2>1, Zenon DEF FirewallInv, UsesFirewall
  <2> QED
    BY <2>2, <2>3, <2>4, <2>5, Zenon DEF GateInv
<1>5. CASE CloseCleans
  <2>1. closer = "cleanup" /\ closer' = "returned" /\ UNCHANGED <<closed, sawCancel>>
    BY <1>5, Zenon DEF CloseCleans, gateVars
  <2>2. GoroutinesGone
    BY <1>0, <2>1, Zenon DEF SocketInv
  <2>3. /\ closeErr' \in BOOLEAN /\ installed' \in BOOLEAN
        /\ closeErr => closeErr'
        /\ installed' => installed
        /\ rules' # {} => installed'
        /\ ~installed' \/ closeErr'
    <3>1. CASE UsesFirewall /\ ~sawCancel
      BY <1>0, <1>5, <3>1, CleanedUp, Zenon DEF CloseCleans
    <3>2. CASE ~(UsesFirewall /\ ~sawCancel)
      <4>1. UNCHANGED <<installed, rules, closeErr>>
        BY <1>5, <3>2, Zenon DEF CloseCleans
      <4>2. ~installed \/ closeErr
        <5>1. CASE ~UsesFirewall
          BY <1>0, <5>1, Zenon DEF FirewallInv
        <5>2. CASE sawCancel
          <6>1. cancel /\ \A p \in Starters : wrap[p] # "spawn"
            BY <1>0, <2>1, <5>2, Zenon DEF WrapInv, Early
          <6>2. cleaner = "exit"
            BY <1>0, <2>2, <6>1, Zenon DEF WrapInv, GoroutinesGone
          <6> QED
            BY <1>0, <6>2, Zenon DEF FirewallInv
        <5> QED
          BY <1>0, <3>2, <5>1, <5>2, Zenon
      <4> QED
        BY <1>0, <4>1, <4>2, Zenon DEF TypeInv, FirewallInv
    <3> QED
      BY <3>1, <3>2, Zenon
  <2>4. TypeInv'
    BY <1>0, <1>1, <1>2, <2>1, <2>3, Zenon DEF TypeInv, CloserPCs
  <2>5. WrapInv'
    BY <1>0, <1>1, <2>1, Zenon DEF WrapInv
  <2>6. SocketInv'
    BY <1>0, <1>1, <2>1, <2>2, Zenon DEF SocketInv, GoroutinesGone
  <2>7. FirewallInv'
    BY <1>0, <1>1, <2>1, <2>3, Zenon DEF FirewallInv, UsesFirewall
  <2> QED
    BY <2>4, <2>5, <2>6, <2>7, Zenon DEF GateInv
<1> QED
  BY <1>3, <1>4, <1>5, Zenon DEF CloseStep

\* Without concurrent Closes, every step of Wrap, its goroutines, the timers and Close keeps
\* the gate's invariant.
LEMMA GateNext ==
  ASSUME ~ConcurrentClose PROVE GateInv /\ [Next]_vars => GateInv'
<1> SUFFICES ASSUME GateInv, [Next]_vars PROVE GateInv'
  BY Zenon
<1>1. CASE UNCHANGED vars
  <2>1. UNCHANGED <<mode, started, closed, cancel, closeErr, knockOpen, installed, rules, wrap,
                    cleaner, server, timers, closer, sawCancel>>
    BY <1>1, Zenon DEF vars, gateVars, timerVars
  <2>2. TypeInv'
    BY <2>1, Zenon DEF GateInv, TypeInv
  <2>3. WrapInv'
    BY <2>1, Zenon DEF GateInv, WrapInv
  <2>4. SocketInv'
    BY <2>1, Zenon DEF GateInv, SocketInv, GoroutinesGone
  <2>5. FirewallInv'
    BY <2>1, Zenon DEF GateInv, FirewallInv, UsesFirewall
  <2> QED
    BY <2>2, <2>3, <2>4, <2>5, Zenon DEF GateInv
<1>2. CASE Next
  BY <1>2, WrapBegins, WrapEnds, GoroutinesKeep, TimersKeep, CloseKeeps, Zenon DEF Next, Wrap
<1> QED
  BY <1>1, <1>2, Zenon

\* A gate that Wrap has not begun satisfies the invariant.
LEMMA GateInit == Init => GateInv
<1> SUFFICES ASSUME Init PROVE GateInv
  BY Zenon
<1>1. TypeInv
  BY Zenon DEF Init, TypeInv, WrapPCs, ServerPCs, TimerStates, CloserPCs
<1>2. \A p \in Starters : wrap[p] = "begin"
  BY Zenon DEF Init
<1>3. WrapInv /\ SocketInv /\ FirewallInv
  BY <1>2, Zenon DEF Init, WrapInv, SocketInv, FirewallInv, Fresh, GoroutinesGone
<1> QED
  BY <1>1, <1>3, Zenon DEF GateInv

\* CloseReleases of the gate: a Close that returned nil, and was not called while
\* Wrap was at work, left no managed firewall state, no rule, no knock socket and
\* no goroutine, whatever failed in Wrap, Serve and the firewall before.
THEOREM CloseLeavesNothing ==
  ASSUME ~ConcurrentClose PROVE Spec => []CloseReleases
<1>1. Init => GateInv
  BY GateInit, Zenon
<1>2. GateInv /\ [Next]_vars => GateInv'
  BY GateNext, Zenon
<1>3. GateInv => CloseReleases
  <2> SUFFICES ASSUME GateInv, closer = "returned", ~closeErr PROVE Released
    BY Zenon DEF CloseReleases
  <2>0. WrapInv /\ SocketInv /\ FirewallInv
    BY Zenon DEF GateInv
  <2>1. GoroutinesGone
    BY <2>0, Zenon DEF SocketInv
  <2>2. ~knockOpen
    BY <2>0, <2>1, Zenon DEF SocketInv, WrapInv, Early, GoroutinesGone
  <2>3. ~installed /\ rules = {}
    BY <2>0, Zenon DEF FirewallInv
  <2> QED
    BY <2>1, <2>2, <2>3, Zenon DEF Released
<1> QED
  BY <1>1, <1>2, <1>3, PTL DEF Spec
-----------------------------------------------------------------------------
Ended == {"stopped", "done"}
\* The timers a state t of them leaves to be counted down.
Pending(t) == {n \in Knocks : t[n] \notin Ended \cup {"none"}}

\* wg counts the pending timers and done names those at their end; the knock that is
\* handled has no timer yet, or one that is counted and not armed.
TimerInv ==
  /\ timers \in [Knocks -> TimerStates]
  /\ knocks \in 0..MaxKnocks
  /\ wg = Cardinality(Pending(timers))
  /\ \A n \in Knocks : n \in done <=> timers[n] \in Ended
  /\ \A n \in Knocks : n > knocks => timers[n] = "none"
  /\ server \in {"allow", "mark", "arm"} => knocks \in Knocks /\ timers[knocks] = "none"
  /\ server = "register" => knocks \in Knocks /\ timers[knocks] = "counted"
  /\ before \subseteq {n \in Knocks : timers[n] # "none"}
  /\ StopAllStops

\* A timer that moves on: the others stay, and the pending ones grow or shrink by it.
LEMMA TimerMoves ==
  ASSUME NEW t \in [Knocks -> TimerStates], NEW n \in Knocks, NEW st \in TimerStates
  PROVE  LET u == [t EXCEPT ![n] = st] IN
         /\ u \in [Knocks -> TimerStates] /\ u[n] = st
         /\ \A m \in Knocks : m # n => u[m] = t[m]
         /\ IsFiniteSet(Pending(t))
         /\ n \in Pending(t) /\ n \in Pending(u) => Pending(u) = Pending(t)
         /\ n \in Pending(t) /\ n \notin Pending(u) =>
              Cardinality(Pending(u)) = Cardinality(Pending(t)) - 1
         /\ n \notin Pending(t) /\ n \in Pending(u) =>
              Cardinality(Pending(u)) = Cardinality(Pending(t)) + 1
<1> DEFINE u == [t EXCEPT ![n] = st]
<1>1. u \in [Knocks -> TimerStates] /\ u[n] = st /\ \A m \in Knocks : m # n => u[m] = t[m]
  BY Zenon
<1>2. IsFiniteSet(Knocks)
  BY ConstantsAssumption, FS_Interval DEF Knocks
<1>3. IsFiniteSet(Pending(t)) /\ IsFiniteSet(Pending(u))
  BY <1>2, FS_Subset, Zenon DEF Pending
<1>4. ASSUME n \in Pending(t), n \in Pending(u) PROVE Pending(u) = Pending(t)
  BY <1>1, <1>4, Zenon DEF Pending
<1>5. ASSUME n \in Pending(t), n \notin Pending(u)
      PROVE Cardinality(Pending(u)) = Cardinality(Pending(t)) - 1
  <2>1. Pending(u) = Pending(t) \ {n}
    BY <1>1, <1>5, Zenon DEF Pending
  <2> QED
    BY <1>3, <1>5, <2>1, FS_RemoveElement, Zenon
<1>6. ASSUME n \notin Pending(t), n \in Pending(u)
      PROVE Cardinality(Pending(u)) = Cardinality(Pending(t)) + 1
  <2>1. Pending(u) = Pending(t) \cup {n}
    BY <1>1, <1>6, Zenon DEF Pending
  <2> QED
    BY <1>3, <1>6, <2>1, FS_AddElement, Zenon
<1> HIDE DEF u
<1> QED
  BY <1>1, <1>3, <1>4, <1>5, <1>6, Zenon DEF u

\* A step that moves no timer keeps the invariant if it begins no handler and the
\* StopAll that returns by it has returned, or found wg at zero.
LEMMA TimersStay ==
  ASSUME TimerInv, UNCHANGED <<timers, wg, done, knocks>>,
         before' \subseteq {n \in Knocks : timers[n] # "none"},
         server' \in {"allow", "mark", "arm"} => server \in {"allow", "mark", "arm"},
         server' = "register" => server = "register",
         StopAllReturned' => wg = 0 \/ (StopAllReturned /\ before' = before)
  PROVE  TimerInv'
<1>1. StopAllStops'
  <2>1. CASE wg = 0
    <3>1. IsFiniteSet(Pending(timers))
      <4>1. IsFiniteSet(Knocks)
        BY ConstantsAssumption, FS_Interval DEF Knocks
      <4> QED
        BY <4>1, FS_Subset, Zenon DEF Pending
    <3>2. Cardinality(Pending(timers)) = 0
      BY <2>1, Zenon DEF TimerInv
    <3>3. Pending(timers) = {}
      BY <3>1, <3>2, FS_EmptySet, Zenon
    <3> QED
      BY <3>3, Zenon DEF Pending, Ended, StopAllStops
  <2>2. CASE ~StopAllReturned'
    BY <2>2, Zenon DEF StopAllStops
  <2>3. CASE StopAllReturned /\ before' = before
    BY <2>3, Zenon DEF StopAllStops, TimerInv
  <2> QED
    BY <2>1, <2>2, <2>3, Zenon
<1> QED
  BY <1>1, Zenon DEF TimerInv

\* The steps that concern no timer.
LEMMA OthersKeepTimers ==
  ASSUME TimerInv,
         \/ \E p \in Starters : Wrap(p)
         \/ Cleaner \/ ServeAllow \/ ServeMark \/ ServeEnds \/ ServeFails
         \/ CloseBegins \/ CloseCancels \/ StopTakes \/ StopWaits \/ StopWakes
         \/ CloseWaits \/ CloseCleans \/ ParentCancelled
  PROVE  TimerInv'
<1>1. UNCHANGED <<timers, wg, done, knocks>>
  BY Zenon DEF Wrap, beginLifecycle, InitFirewall, WrapCleanup, openKnockListener, SetCancel,
       Spawn, WrapListener, WrapClosed, Cleaner, CleanerWakes, CleanerCleans, CleanerCloses,
       ServeAllow, ServeMark, ServeEnds, ServeFails, CloseBegins, CloseCancels, StopTakes,
       StopWaits, StopWakes, CloseWaits, CloseCleans, ParentCancelled, timerVars
<1>2. before' \subseteq {n \in Knocks : timers[n] # "none"}
  <2>1. CASE StopTakes
    BY <2>1, Zenon DEF StopTakes
  <2>2. CASE ~StopTakes
    <3>1. before' = before
      BY <2>2, Zenon DEF Wrap, beginLifecycle, InitFirewall, WrapCleanup, openKnockListener,
           SetCancel, Spawn, WrapListener, WrapClosed, Cleaner, CleanerWakes, CleanerCleans,
           CleanerCloses, ServeAllow, ServeMark, ServeEnds, ServeFails, CloseBegins, CloseCancels,
           StopWaits, StopWakes, CloseWaits, CloseCleans, ParentCancelled, timerVars
    <3> QED
      BY <3>1, Zenon DEF TimerInv
  <2> QED
    BY <2>1, <2>2, Zenon
<1>3. /\ server' \in {"allow", "mark", "arm"} => server \in {"allow", "mark", "arm"}
      /\ server' = "register" => server = "register"
  BY Zenon DEF Wrap, beginLifecycle, InitFirewall, WrapCleanup, openKnockListener, SetCancel,
       Spawn, WrapListener, WrapClosed, Cleaner, CleanerWakes, CleanerCleans, CleanerCloses,
       ServeAllow, ServeMark, ServeEnds, ServeFails, CloseBegins, CloseCancels, StopTakes,
       StopWaits, StopWakes, CloseWaits, CloseCleans, ParentCancelled, timerVars
<1>4. StopAllReturned' => wg = 0 \/ (StopAllReturned /\ before' = before)
  <2>1. CASE CloseBegins \/ CloseCancels \/ StopTakes
    BY <2>1, Zenon DEF CloseBegins, CloseCancels, StopTakes, StopAllReturned
  <2>2. CASE StopWaits \/ StopWakes
    BY <2>2, Zenon DEF StopWaits, StopWakes, StopAllReturned
  <2>3. CASE CloseWaits \/ CloseCleans
    BY <2>3, Zenon DEF CloseWaits, CloseCleans, StopAllReturned, timerVars
  <2>4. CASE UNCHANGED <<closer, before>>
    BY <2>4, Zenon DEF StopAllReturned
  <2> QED
    BY <2>1, <2>2, <2>3, <2>4, Zenon DEF Wrap, beginLifecycle, InitFirewall, WrapCleanup,
         openKnockListener, SetCancel, Spawn, WrapListener, WrapClosed, Cleaner, CleanerWakes,
         CleanerCleans, CleanerCloses, ServeAllow, ServeMark, ServeEnds, ServeFails,
         ParentCancelled, timerVars
<1> QED
  BY <1>1, <1>2, <1>3, <1>4, TimersStay, Zenon

\* AfterFunc counts the timer up and then arms it.
LEMMA ServeKeepsTimers ==
  ASSUME TimerInv, ServeKnock \/ ServeCounts \/ ServeArms PROVE TimerInv'
<1>0. /\ timers \in [Knocks -> TimerStates] /\ knocks \in 0..MaxKnocks
      /\ MaxKnocks \in Nat
  BY ConstantsAssumption, Zenon DEF TimerInv
<1>1. CASE ServeKnock
  <2>1. /\ UNCHANGED <<timers, wg, done, before, closer>> /\ knocks' = knocks + 1
        /\ server' \in {"allow", "arm"} /\ knocks < MaxKnocks
    BY <1>1, Zenon DEF ServeKnock, timerVars
  <2>2. knocks' \in Knocks /\ knocks' > knocks /\ knocks' \in 0..MaxKnocks
        /\ \A n \in Knocks : n > knocks' => n > knocks
    BY <1>0, <2>1 DEF Knocks
  <2>3. timers[knocks'] = "none"
    BY <2>2, Zenon DEF TimerInv
  <2>4. StopAllStops'
    BY <2>1, Zenon DEF TimerInv, StopAllStops, StopAllReturned
  <2> QED
    BY <2>1, <2>2, <2>3, <2>4, Zenon DEF TimerInv
<1>2. CASE ServeCounts
  <2>1. /\ timers' = [timers EXCEPT ![knocks] = "counted"] /\ wg' = wg + 1
        /\ UNCHANGED <<knocks, done, before, closer>> /\ server' = "register"
        /\ knocks \in Knocks /\ timers[knocks] = "none"
    BY <1>2, Zenon DEF ServeCounts, TimerInv
  <2>2. /\ timers' \in [Knocks -> TimerStates] /\ timers'[knocks] = "counted"
        /\ \A m \in Knocks : m # knocks => timers'[m] = timers[m]
        /\ Cardinality(Pending(timers')) = Cardinality(Pending(timers)) + 1
    <3>1. knocks \notin Pending(timers)
      BY <2>1, Zenon DEF Pending
    <3>2. knocks \in Pending([timers EXCEPT ![knocks] = "counted"])
      BY <1>0, <2>1, Zenon DEF Pending, Ended
    <3>3. "counted" \in TimerStates
      BY Zenon DEF TimerStates
    <3> QED
      BY <1>0, <2>1, <3>1, <3>2, <3>3, TimerMoves, Zenon
  <2>3. \A n \in Knocks : n \in done' <=> timers'[n] \in Ended
    BY <2>1, <2>2, Zenon DEF TimerInv, Ended
  <2>4. ~(knocks > knocks)
    BY <1>0
  <2>5. StopAllStops'
    BY <2>1, <2>2, Zenon DEF TimerInv, StopAllStops, StopAllReturned
  <2> QED
    BY <2>1, <2>2, <2>3, <2>4, <2>5, Zenon DEF TimerInv
<1>3. CASE ServeArms
  <2>1. /\ timers' = [timers EXCEPT ![knocks] = "armed"]
        /\ UNCHANGED <<knocks, wg, done, before, closer>> /\ server' = "serving"
        /\ knocks \in Knocks /\ timers[knocks] = "counted"
    BY <1>3, Zenon DEF ServeArms, TimerInv
  <2>2. /\ timers' \in [Knocks -> TimerStates] /\ timers'[knocks] = "armed"
        /\ \A m \in Knocks : m # knocks => timers'[m] = timers[m]
        /\ Pending(timers') = Pending(timers)
    <3>1. knocks \in Pending(timers)
      BY <2>1, Zenon DEF Pending, Ended
    <3>2. knocks \in Pending([timers EXCEPT ![knocks] = "armed"])
      BY <1>0, <2>1, Zenon DEF Pending, Ended
    <3>3. "armed" \in TimerStates
      BY Zenon DEF TimerStates
    <3> QED
      BY <1>0, <2>1, <3>1, <3>2, <3>3, TimerMoves, Zenon
  <2>3. \A n \in Knocks : n \in done' <=> timers'[n] \in Ended
    BY <2>1, <2>2, Zenon DEF TimerInv, Ended
  <2>4. ~(knocks > knocks)
    BY <1>0
  <2>5. StopAllStops'
    BY <2>1, <2>2, Zenon DEF TimerInv, StopAllStops, StopAllReturned
  <2> QED
    BY <2>1, <2>2, <2>3, <2>4, <2>5, Zenon DEF TimerInv
<1> QED
  BY <1>1, <1>2, <1>3, Zenon

\* A callback moves on, and StopAll stops it before it starts: each counts the timer
\* down as it ends.
LEMMA CallbackKeepsTimers ==
  ASSUME TimerInv, NEW n \in Knocks, Timer(n) \/ StopOne(n) PROVE TimerInv'
<1>0. timers \in [Knocks -> TimerStates] /\ (n \in done <=> timers[n] \in Ended)
  BY Zenon DEF TimerInv
<1>1. UNCHANGED <<knocks, server, before>> /\ (StopAllReturned' => StopAllReturned)
  BY Zenon DEF Timer, TimerFires, TimerLeaves, TimerRevokes, TimerDone, StopOne, StopAllReturned
<1>2. CASE StopOne(n) /\ timers[n] # "armed"
  <2>1. UNCHANGED <<timers, wg, done>>
    BY <1>0, <1>2, Zenon DEF StopOne, Stopped
  <2> QED
    BY <1>1, <2>1, TimersStay, Zenon DEF TimerInv
<1>3. CASE Timer(n) \/ timers[n] = "armed"
  <2>0. \/ TimerFires(n) \/ TimerLeaves(n) \/ TimerRevokes(n) \/ TimerDone(n)
        \/ StopOne(n) /\ timers[n] = "armed"
    BY <1>3, Zenon DEF Timer
  <2>1. timers[n] \in {"armed", "fired", "running", "returned"}
    BY <2>0, Zenon DEF TimerFires, TimerLeaves, TimerRevokes, TimerDone
  <2>2. n \in Pending(timers) /\ n \notin done
    BY <1>0, <2>1, Zenon DEF Pending, Ended
  <2>3. PICK st \in {"fired", "running", "returned", "done", "stopped"} :
          /\ timers' = [timers EXCEPT ![n] = st]
          /\ \/ st \in Ended /\ wg' = wg - 1 /\ done' = done \cup {n}
             \/ st \notin Ended /\ UNCHANGED <<wg, done>>
    <3>1. CASE TimerFires(n)
      BY <3>1, Zenon DEF TimerFires, Ended
    <3>2. CASE TimerLeaves(n)
      BY <3>2, Zenon DEF TimerLeaves, Ended
    <3>3. CASE TimerRevokes(n)
      BY <3>3, Zenon DEF TimerRevokes, Ended
    <3>4. CASE TimerDone(n)
      BY <2>2, <3>4, Zenon DEF TimerDone, Once, Ended
    <3>5. CASE StopOne(n) /\ timers[n] = "armed"
      BY <2>2, <3>5, Zenon DEF StopOne, Stopped, Once, Ended
    <3> QED
      BY <2>0, <3>1, <3>2, <3>3, <3>4, <3>5, Zenon
  <2>4. st \in TimerStates
    BY Zenon DEF TimerStates
  <2>5. /\ timers' \in [Knocks -> TimerStates] /\ timers'[n] = st
        /\ \A m \in Knocks : m # n => timers'[m] = timers[m]
    BY <1>0, <2>3, <2>4, TimerMoves, Zenon
  <2>6. wg' = Cardinality(Pending(timers'))
    <3>0. wg = Cardinality(Pending(timers))
      BY Zenon DEF TimerInv
    <3>1. CASE st \in Ended
      <4>1. n \notin Pending(timers') /\ wg' = wg - 1
        BY <2>3, <2>5, <3>1, Zenon DEF Pending
      <4>2. Cardinality(Pending(timers')) = Cardinality(Pending(timers)) - 1
        BY <1>0, <2>2, <2>3, <2>4, <4>1, TimerMoves, Zenon
      <4> QED
        BY <3>0, <4>1, <4>2, Zenon
    <3>2. CASE st \notin Ended
      <4>1. n \in Pending(timers') /\ wg' = wg
        BY <2>3, <2>5, <3>2, Zenon DEF Pending
      <4>2. Pending(timers') = Pending(timers)
        BY <1>0, <2>2, <2>3, <2>4, <4>1, TimerMoves, Zenon
      <4> QED
        BY <3>0, <4>1, <4>2, Zenon
    <3> QED
      BY <3>1, <3>2, Zenon
  <2>7. \A m \in Knocks : m \in done' <=> timers'[m] \in Ended
    <3>1. \A m \in Knocks : m \in done <=> timers[m] \in Ended
      BY Zenon DEF TimerInv
    <3> QED
      BY <2>2, <2>3, <2>5, <3>1, Zenon
  <2>8. \A m \in Knocks : m > knocks' => timers'[m] = "none"
    <3>1. \A m \in Knocks : m > knocks => timers[m] = "none"
      BY Zenon DEF TimerInv
    <3> QED
      BY <1>1, <2>1, <2>5, <3>1, Zenon
  <2>9. /\ server' \in {"allow", "mark", "arm"} => knocks' \in Knocks /\ timers'[knocks'] = "none"
        /\ server' = "register" => knocks' \in Knocks /\ timers'[knocks'] = "counted"
    <3>1. /\ server \in {"allow", "mark", "arm"} => knocks \in Knocks /\ timers[knocks] = "none"
          /\ server = "register" => knocks \in Knocks /\ timers[knocks] = "counted"
      BY Zenon DEF TimerInv
    <3> QED
      BY <1>1, <2>1, <2>5, <3>1, Zenon
  <2>10. before' \subseteq {m \in Knocks : timers'[m] # "none"}
    <3>1. before \subseteq {m \in Knocks : timers[m] # "none"}
      BY Zenon DEF TimerInv
    <3> QED
      BY <1>1, <2>3, <2>5, <3>1, Zenon
  <2>11. StopAllStops'
    <3>1. StopAllReturned => \A m \in before : timers[m] \in {"stopped", "done"}
      BY Zenon DEF TimerInv, StopAllStops
    <3>2. before \subseteq Knocks
      BY Zenon DEF TimerInv
    <3> QED
      BY <1>1, <2>1, <2>5, <3>1, <3>2, Zenon DEF StopAllStops
  <2>12. knocks' \in 0..MaxKnocks
    BY <1>1, Zenon DEF TimerInv
  <2> QED
    BY <2>5, <2>6, <2>7, <2>8, <2>9, <2>10, <2>11, <2>12, Zenon DEF TimerInv
<1> QED
  BY <1>2, <1>3, Zenon

\* StopAllStops of the gate, for any number of knocks and any steps of Wrap, the server
\* and the callbacks between those of StopAll: the WaitGroup counts the timers that
\* are not at their end, so a StopAll that found it at zero leaves none it began with.
THEOREM StopAllEndsTimers == Spec => []StopAllStops
<1>1. Init => TimerInv
  <2> SUFFICES ASSUME Init PROVE TimerInv
    BY Zenon
  <2>1. Pending(timers) = {}
    BY Zenon DEF Init, Pending
  <2>2. wg = Cardinality(Pending(timers))
    BY <2>1, FS_EmptySet, Zenon DEF Init
  <2>3. knocks \in 0..MaxKnocks
    BY ConstantsAssumption DEF Init
  <2>4. timers \in [Knocks -> TimerStates] /\ \A n \in Knocks : timers[n] = "none"
    BY Zenon DEF Init, TimerStates
  <2>5. \A n \in Knocks : n \in done <=> timers[n] \in Ended
    BY <2>4, Zenon DEF Init, Ended
  <2>6. StopAllStops
    BY Zenon DEF Init, StopAllStops
  <2> QED
    BY <2>2, <2>3, <2>4, <2>5, <2>6, Zenon DEF Init, TimerInv
<1>2. TimerInv /\ [Next]_vars => TimerInv'
  <2> SUFFICES ASSUME TimerInv, [Next]_vars PROVE TimerInv'
    BY Zenon
  <2>1. CASE UNCHANGED vars
    <3>1. UNCHANGED <<timers, wg, done, knocks, before, server, closer>>
      BY <2>1, Zenon DEF vars, timerVars
    <3> QED
      BY <3>1, TimersStay, Zenon DEF TimerInv, StopAllReturned
  <2>2. CASE Next
    BY <2>2, OthersKeepTimers, ServeKeepsTimers, CallbackKeepsTimers, Zenon
      DEF Next, Server, CloseStep
  <2> QED
    BY <2>1, <2>2, Zenon
<1>3. TimerInv => StopAllStops
  BY Zenon DEF TimerInv
<1> QED
  BY <1>1, <1>2, <1>3, PTL DEF Spec
-----------------------------------------------------------------------------
Ports == {r.port : r \in Requests}
SessionIDs == {0} \cup {r.sid : r \in Requests}
Senders == Clients \cup Strangers
Frames == [client : Senders, port : Ports, seq : 1..MaxSends, idx : PartsOf(method),
           ts : Int, sid : SessionIDs]
\* Only SYN sequences have a legacy form.
Forms == IF method = "tcp-syn-seq" THEN BOOLEAN ELSE {FALSE}
SYNs == [client : Senders, port : Ports, slot : Slots, idx : PartsOf(method), legacy : Forms]
Packets == IF IsSYN(method) THEN SYNs ELSE Frames
KnockRecords == [client : Senders, port : Ports, slot : Slots, sid : SessionIDs,
                 legacy : Forms, next : Nat]
States == [first : Nat, parts : SUBSET PartsOf(method), sid : SessionIDs]

\* The sequence of a tracker's key is that of a knock.
IDOf(k) == <<k[2], k[3]>>
KeyOf(p, s) == <<s, KnockID(p)[1], KnockID(p)[2]>>
Keys == Sources \X Clients \X (Slots \cup 1..MaxSends)

\* What the clocks, the senders and the network are.
SenderInv ==
  /\ method \in Methods /\ skew \in 0..MaxSkew /\ now \in 0..MaxTime
  /\ \E m \in 0..MaxSends : begun \in [1..m -> KnockRecords]
  /\ net \subseteq Packets
  /\ ~IsSYN(method) =>
       \A p \in net : /\ p.seq \in DOMAIN begun
                      /\ p.idx < begun[p.seq].next
                      /\ p.client = begun[p.seq].client
\* A packet is not of the legacy form; frames never are.
Current(p) == IsSYN(method) => ~p.legacy
\* A knock has one packet for each of its parts.
OnePacket ==
  \A p, q \in net :
    KnockID(p) = KnockID(q) /\ p.port = q.port /\ p.idx = q.idx /\ Current(p) /\ Current(q)
    => p = q

\* The packet's time is over at time t, and for good.
Late(p, t) == IF IsSYN(method) THEN SlotFor(t) > p.slot + 1 ELSE t > p.ts + TimeWindow
\* The checks of the listener but for the replay cache.
Accepted(p) ==
  Current(p) /\ IF IsSYN(method) THEN VerifySYNFields(p) ELSE OpenKnockFrame(p)
Spent(p) == Late(p, now) \/ (p \in DOMAIN replay /\ Late(p, replay[p]))
SpentPart(id, i) ==
  \E q \in net : KnockID(q) = id /\ q.port = Port /\ q.idx = i /\ Current(q) /\ Spent(q)
\* The parts of which the replay cache hears.
Marked == IF IsSYN(method) THEN {0} ELSE PartsOf(method)

ListenerType ==
  /\ replay \in [DOMAIN replay -> Nat] /\ arrived \in [DOMAIN arrived -> Nat]
  /\ DOMAIN tracker.states \subseteq Keys
  /\ \A a \in DOMAIN arrived : arrived[a] <= now
  /\ \A k \in DOMAIN tracker.states :
       tracker.states[k] \in States /\ tracker.states[k].first <= now
  /\ fired \in [KnockIDs -> Nat]

\* The nonces behind the sequences in flight and behind the knocks that fired.
SpentInv ==
  /\ \A k \in DOMAIN tracker.states :
       /\ \A i \in tracker.states[k].parts \cap Marked : SpentPart(IDOf(k), i)
       /\ IsSYN(method) => 0 \in tracker.states[k].parts /\ fired[IDOf(k)] = 0
  /\ IsSYN(method) => \A j, k \in DOMAIN tracker.states : IDOf(j) = IDOf(k) => j = k
  /\ \A id \in KnockIDs :
       fired[id] <= 1 /\ (fired[id] = 1 => \A i \in Marked : SpentPart(id, i))

\* The parts of a sequence in its window have come within it, from its source.
Came(k, i) ==
  \E q \in net : /\ KnockID(q) = IDOf(k) /\ q.idx = i
                 /\ <<q, k[1]>> \in DOMAIN arrived
                 /\ arrived[<<q, k[1]>>] >= tracker.states[k].first
CameInv ==
  \A k \in DOMAIN tracker.states : now - tracker.states[k].first <= SeqWindow =>
    \A i \in tracker.states[k].parts : Came(k, i)

\* The counters of tracker t are right, and the limits kept.
Exact(t) ==
  /\ IsFiniteSet(DOMAIN t.states)
  /\ t.total = Cardinality(DOMAIN t.states) /\ t.total <= MaxTotalInflight
  /\ DOMAIN t.perIP = Sources
  /\ \A s \in Sources : /\ t.perIP[s] = Cardinality({k \in DOMAIN t.states : k[1] = s})
                        /\ t.perIP[s] <= MaxInflightPerIP
Bounded(c) == IsFiniteSet(DOMAIN c) /\ Cardinality(DOMAIN c) <= MaxTotalInflight
CountInv == Exact(tracker) /\ Bounded(completed)

ListenerInv ==
  SenderInv /\ OnePacket /\ ListenerType /\ SpentInv /\ CameInv /\ CountInv
-----------------------------------------------------------------------------
(* The counters: decInflightLocked, removeLocked, add, markCompletedLocked. *)

\* The limits and times of a listener are natural numbers, and ReplayTTL covers
\* both sides of the TimeWindow and three slots.
LEMMA Numbers ==
  /\ {MaxInflightPerIP, MaxTotalInflight, SeqWindow, TimeWindow} \subseteq Nat
  /\ {MaxSkew, MaxSends, MaxTime, NonceTTL} \subseteq Nat
  /\ TimeWindow > 0 /\ Length \in 2..5
  /\ \A m : SlotLength(m) \in Nat \ {0} /\ ReplayTTL(m) \in Nat
  /\ \A m : ~IsSYN(m) => ReplayTTL(m) > 2 * TimeWindow
  BY ListenerAssumption DEF ReplayTTL, SlotLength, IsSYN

\* Taking the keys K out of a finite set of keys leaves the rest, which Less counts.
LEMMA LessCounts ==
  ASSUME NEW S, IsFiniteSet(S), NEW K \in SUBSET S
  PROVE  IsFiniteSet(S \ K) /\ Cardinality(S \ K) = Less(Cardinality(S), K)
         /\ Cardinality(S \ K) <= Cardinality(S)
<1>1. IsFiniteSet(K) /\ S \cap K = K
  BY FS_Subset, Zenon
<1>2. IsFiniteSet(S \ K) /\ Cardinality(S \ K) = Cardinality(S) - Cardinality(S \cap K)
  BY <1>1, FS_Difference, Zenon
<1>3. Cardinality(S) \in Nat /\ Cardinality(K) \in Nat /\ Cardinality(S \ K) \in Nat
  BY <1>1, <1>2, FS_CardinalityType, Zenon
<1>4. Cardinality(S \cap K) = Cardinality(K)
  BY <1>1, Zenon
<1> DEFINE a == Cardinality(S)
           b == Cardinality(K)
           c == Cardinality(S \ K)
<1>5. a \in Nat /\ b \in Nat /\ c \in Nat /\ c = a - b
  BY <1>2, <1>3, <1>4, Zenon
<1>6. Less(a, K) = IF a > b THEN a - b ELSE 0
  BY Zenon DEF Less
<1> HIDE DEF a, b, c
<1>7. c = Less(a, K) /\ c <= a
  BY <1>5, <1>6
<1> QED
  BY <1>2, <1>7, Zenon DEF a, c

\* removeLocked and pruneLocked keep the counters exact.
LEMMA WithoutExact ==
  ASSUME NEW t, Exact(t), NEW K \in SUBSET DOMAIN t.states
  PROVE  Exact(Without(t, K))
<1> DEFINE S == DOMAIN t.states
           Of(T, s) == {k \in T : k[1] = s}
           u == Without(t, K)
<1> USE Numbers
<1>1. DOMAIN u.states = S \ K /\ u.total = Less(t.total, K) /\ DOMAIN u.perIP = Sources
      /\ \A s \in Sources : u.perIP[s] = Less(t.perIP[s], Of(K, s))
  BY Zenon DEF Without, Restrict
<1>2. IsFiniteSet(S \ K) /\ u.total = Cardinality(S \ K) /\ u.total <= MaxTotalInflight
  <2>1. Cardinality(S) \in Nat /\ Cardinality(S \ K) \in Nat
    BY LessCounts, FS_CardinalityType, Zenon DEF Exact
  <2>2. IsFiniteSet(S \ K) /\ Cardinality(S \ K) = Less(Cardinality(S), K)
        /\ Cardinality(S \ K) <= Cardinality(S)
    BY LessCounts, Zenon DEF Exact
  <2>3. t.total = Cardinality(S) /\ t.total <= MaxTotalInflight
    BY Zenon DEF Exact
  <2> HIDE DEF S, u
  <2> QED
    BY <1>1, <2>1, <2>2, <2>3
<1>3. ASSUME NEW s \in Sources
      PROVE  u.perIP[s] = Cardinality(Of(S \ K, s)) /\ u.perIP[s] <= MaxInflightPerIP
  <2>1. IsFiniteSet(Of(S, s)) /\ Of(K, s) \in SUBSET Of(S, s)
        /\ Of(S \ K, s) = Of(S, s) \ Of(K, s)
    <3>1. Of(S, s) \in SUBSET S
      BY Zenon
    <3> QED
      BY <3>1, FS_Subset, Zenon DEF Exact
  <2>2. Cardinality(Of(S, s)) \in Nat /\ Cardinality(Of(S \ K, s)) \in Nat
    BY <2>1, LessCounts, FS_CardinalityType, Zenon
  <2>3. t.perIP[s] = Cardinality(Of(S, s)) /\ t.perIP[s] <= MaxInflightPerIP
    BY Zenon DEF Exact
  <2>4. Cardinality(Of(S \ K, s)) = Less(Cardinality(Of(S, s)), Of(K, s))
        /\ Cardinality(Of(S \ K, s)) <= Cardinality(Of(S, s))
    BY <2>1, LessCounts, Zenon
  <2> HIDE DEF Of, S, u
  <2> QED
    BY <1>1, <2>2, <2>3, <2>4
<1> QED
  BY <1>1, <1>2, <1>3, Zenon DEF Exact

\* So does the start of a sequence, when there is room.
LEMMA WithExact ==
  ASSUME NEW t, Exact(t), NEW s \in Sources, NEW key, key \notin DOMAIN t.states, key[1] = s,
         HasRoom(t, s), NEW st
  PROVE  Exact(With(t, s, key, st))
<1> DEFINE S == DOMAIN t.states
           Of(T, r) == {k \in T : k[1] = r}
           u == With(t, s, key, st)
<1> USE Numbers
<1>1. DOMAIN u.states = S \cup {key} /\ u.total = t.total + 1 /\ DOMAIN u.perIP = Sources
      /\ u.perIP[s] = t.perIP[s] + 1
      /\ \A r \in Sources \ {s} : u.perIP[r] = t.perIP[r]
  BY Zenon DEF With, Put, Exact
<1>2. IsFiniteSet(S \cup {key}) /\ u.total = Cardinality(S \cup {key}) /\ u.total <= MaxTotalInflight
  <2>1. IsFiniteSet(S) /\ Cardinality(S) \in Nat /\ t.total = Cardinality(S)
        /\ t.total < MaxTotalInflight
    BY FS_CardinalityType, Zenon DEF Exact, HasRoom
  <2>2. IsFiniteSet(S \cup {key}) /\ Cardinality(S \cup {key}) = Cardinality(S) + 1
    BY <2>1, FS_AddElement, Zenon
  <2> HIDE DEF S, u
  <2> QED
    BY <1>1, <2>1, <2>2
<1>3. ASSUME NEW r \in Sources
      PROVE  u.perIP[r] = Cardinality(Of(S \cup {key}, r)) /\ u.perIP[r] <= MaxInflightPerIP
  <2>1. IsFiniteSet(Of(S, r)) /\ key \notin Of(S, r)
    <3>1. Of(S, r) \in SUBSET S
      BY Zenon
    <3> QED
      BY <3>1, FS_Subset, Zenon DEF Exact
  <2>2. t.perIP[r] = Cardinality(Of(S, r)) /\ t.perIP[r] <= MaxInflightPerIP
        /\ Cardinality(Of(S, r)) \in Nat
    BY <2>1, FS_CardinalityType, Zenon DEF Exact
  <2>3. CASE r = s
    <3>1. Of(S \cup {key}, r) = Of(S, r) \cup {key}
      BY <2>3, Zenon
    <3>2. u.perIP[r] = Cardinality(Of(S, r)) + 1 /\ Cardinality(Of(S, r)) < MaxInflightPerIP
      BY <1>1, <2>2, <2>3, Zenon DEF HasRoom
    <3>3. Cardinality(Of(S, r) \cup {key}) = Cardinality(Of(S, r)) + 1
      BY <2>1, FS_AddElement, Zenon
    <3>4. Cardinality(Of(S \cup {key}, r)) = Cardinality(Of(S, r)) + 1
      BY <3>1, <3>3, Zenon
    <3> HIDE DEF Of, S, u
    <3> QED
      BY <2>2, <3>2, <3>4
  <2>4. CASE r # s
    <3>1. Of(S \cup {key}, r) = Of(S, r)
      BY <2>4, Zenon
    <3> QED
      BY <1>1, <2>2, <2>4, <3>1, Zenon
  <2> QED
    BY <2>3, <2>4, Zenon
<1> QED
  BY <1>1, <1>2, <1>3, Zenon DEF Exact

\* markCompletedLocked stops at the limit.
LEMMA MarkCompletedBounded ==
  ASSUME NEW c, Bounded(c), NEW K, IsFiniteSet(K), NEW d \in MarkCompleted(c, K)
  PROVE  Bounded(d)
<1> DEFINE live == {k \in DOMAIN c : c[k] > now}
           room == MaxTotalInflight - Cardinality(live)
<1> USE Numbers
<1>1. PICK M \in SUBSET K :
        /\ Cardinality(M) = room \/ (M = K /\ Cardinality(K) <= room)
        /\ DOMAIN d = live \cup M
  BY Zenon DEF MarkCompleted
<1>2. IsFiniteSet(live) /\ IsFiniteSet(M)
  <2>1. live \in SUBSET DOMAIN c
    BY Zenon
  <2> QED
    BY <2>1, FS_Subset, Zenon DEF Bounded
<1>3. Cardinality(live) \in Nat /\ Cardinality(M) \in Nat /\ Cardinality(live \cap M) \in Nat
  <2>1. live \cap M \in SUBSET M
    BY Zenon
  <2> QED
    BY <1>2, <2>1, FS_Subset, FS_CardinalityType, Zenon
<1>4. IsFiniteSet(live \cup M)
      /\ Cardinality(live \cup M) = Cardinality(live) + Cardinality(M) - Cardinality(live \cap M)
  BY <1>2, FS_Union, Zenon
<1>5. Cardinality(M) <= room
  BY <1>1, <1>3
<1> HIDE DEF live
<1> QED
  BY <1>1, <1>3, <1>4, <1>5 DEF Bounded
-----------------------------------------------------------------------------
(* The acceptance span of a packet, and the replay cache that outlives it. *)

\* SlotFor never goes back.
LEMMA SlotForMonotone ==
  ASSUME NEW t \in Nat, NEW u \in Nat, t <= u
  PROVE  SlotFor(t) \in Nat /\ SlotFor(u) \in Nat /\ SlotFor(t) <= SlotFor(u)
  BY Numbers DEF SlotFor

\* With a SYN method, the replay cache keeps a tag over three slots.
LEMMA SlotForTTL ==
  ASSUME NEW t \in Nat, method \in Methods, IsSYN(method)
  PROVE  SlotFor(t + ReplayTTL(method)) >= SlotFor(t) + 3
<1>1. \A w \in Nat \ {0}, x, y \in Nat : y >= 3 * w => (x + y) \div w >= (x \div w) + 3
  OBVIOUS
<1>2. PICK w, y : w = SlotLength(method) /\ y = ReplayTTL(method)
  BY Zenon
<1>3. w \in Nat \ {0} /\ y \in Nat /\ 3 * w <= y
  BY <1>2, Numbers, ListenerAssumption, Zenon
<1>4. y >= 3 * w
  BY <1>3
<1> QED
  BY <1>1, <1>2, <1>3, <1>4, Zenon DEF SlotFor

\* The fields of a packet that the listener compares.
LEMMA PacketFields ==
  ASSUME SenderInv, NEW p \in net
  PROVE  /\ p.client \in Senders /\ p.idx \in PartsOf(method)
         /\ p.idx \in 0..(Length - 1)
         /\ IsSYN(method) => p \in SYNs /\ p.slot \in Slots /\ p.slot \in Nat
         /\ ~IsSYN(method) => p \in Frames /\ p.seq \in 1..MaxSends /\ p.ts \in Int
<1>1. p \in Packets
  BY Zenon DEF SenderInv
<1>2. p.client \in Senders /\ p.idx \in PartsOf(method)
  BY <1>1, Zenon DEF Packets, SYNs, Frames
<1>3. p.idx \in 0..(Length - 1)
  BY <1>2, Numbers DEF PartsOf
<1>4. Slots \subseteq Nat
  BY DEF Slots
<1> QED
  BY <1>1, <1>2, <1>3, <1>4, Zenon DEF Packets, SYNs, Frames

\* The knock of a packet that a client sent is one that is counted.
LEMMA KnockIDType ==
  ASSUME SenderInv, NEW p \in net, p.client \in Clients
  PROVE  KnockID(p) \in KnockIDs
  BY PacketFields, Zenon DEF KnockID, KnockIDs

\* Once late, a packet stays late.
LEMMA LateMonotone ==
  ASSUME SenderInv, NEW p \in net, NEW t \in Nat, NEW u \in Nat, t <= u, Late(p, t)
  PROVE  Late(p, u)
<1>1. CASE IsSYN(method)
  BY <1>1, PacketFields, SlotForMonotone DEF Late
<1>2. CASE ~IsSYN(method)
  BY <1>2, PacketFields, Numbers DEF Late
<1> QED
  BY <1>1, <1>2, Zenon

\* A packet the listener accepts is not late, and is late when a nonce marked now
\* expires: the span of OpenKnockFrame and of VerifySYNFields is shorter.
LEMMA AcceptedSpan ==
  ASSUME SenderInv, NEW p \in net, Accepted(p)
  PROVE  /\ p.client \in Clients /\ p.port = Port
         /\ ~Late(p, now) /\ Late(p, now + ReplayTTL(method))
<1>0. now \in Nat /\ method \in Methods
  BY Numbers DEF SenderInv
<1>1. CASE IsSYN(method)
  <2>1. p.client \in Clients /\ p.port = Port /\ p.slot - SlotFor(now) \in -1..1
    BY <1>1, Zenon DEF Accepted, VerifySYNFields, Authentic
  <2>2. PICK y \in Nat : y = ReplayTTL(method)
    BY Numbers, Zenon
  <2>3. SlotFor(now) \in Nat /\ SlotFor(now + y) \in Nat
    BY <1>0, <2>2, SlotForMonotone
  <2>4. SlotFor(now + y) >= SlotFor(now) + 3
    BY <1>0, <1>1, <2>2, SlotForTTL, Zenon
  <2>5. p.slot \in Nat
    BY <1>1, PacketFields, Zenon
  <2> QED
    BY <1>1, <2>1, <2>2, <2>3, <2>4, <2>5 DEF Late
<1>2. CASE ~IsSYN(method)
  BY <1>0, <1>2, PacketFields, Numbers DEF Accepted, OpenKnockFrame, Authentic, Late
<1> QED
  BY <1>1, <1>2, Zenon

\* A packet that passes the checks and the replay cache is not spent.
LEMMA TakenUnspent ==
  ASSUME SenderInv, ListenerType, NEW p \in net, Accepted(p), ~Replayed(p)
  PROVE  ~Spent(p)
<1>1. now \in Nat
  BY Numbers DEF SenderInv
<1>2. CASE p \in DOMAIN replay
  <2>1. replay[p] \in Nat /\ replay[p] <= now
    BY <1>1, <1>2 DEF ListenerType, Replayed
  <2> QED
    BY <1>1, <2>1, AcceptedSpan, LateMonotone, Zenon DEF Spent
<1>3. CASE p \notin DOMAIN replay
  BY <1>3, AcceptedSpan, Zenon DEF Spent
<1> QED
  BY <1>2, <1>3, Zenon

\* Marking an accepted packet spends it, and nothing else is forgotten.
LEMMA MarkSpends ==
  ASSUME SenderInv, ListenerType, NEW p \in net, Accepted(p), Mark(p),
         method' = method, now' = now
  PROVE  /\ Spent(p)'
         /\ \A q \in net : Spent(q) => Spent(q)'
         /\ replay' \in [DOMAIN replay' -> Nat]
<1>1. now \in Nat /\ ReplayTTL(method) \in Nat /\ replay \in [DOMAIN replay -> Nat]
  BY Numbers DEF SenderInv, ListenerType
<1>2. replay' = [y \in DOMAIN replay \cup {p} |-> IF y = p THEN now + ReplayTTL(method) ELSE replay[y]]
  BY Zenon DEF Mark, Put
<1>3. \A q : Late(q, now)' <=> Late(q, now)
  BY Zenon DEF Late, SlotFor, IsSYN
<1>4. Spent(p)'
  <2>1. p \in DOMAIN replay' /\ replay'[p] = now + ReplayTTL(method)
    BY <1>2, Zenon
  <2> QED
    BY <2>1, AcceptedSpan, Zenon DEF Spent, Late, SlotFor, IsSYN
<1>5. ASSUME NEW q \in net, Spent(q)
      PROVE  Spent(q)'
  BY <1>2, <1>4, <1>5, Zenon DEF Spent, Late, SlotFor, IsSYN
<1>6. replay' \in [DOMAIN replay' -> Nat]
  BY <1>1, <1>2
<1> QED
  BY <1>4, <1>5, <1>6, Zenon

\* Time lets go of a nonce only when its packet is late.
LEMMA TickSpends ==
  ASSUME SenderInv, ListenerType, Tick, NEW q \in net, Spent(q)
  PROVE  Spent(q)'
<1>0. now \in Nat
  BY Numbers DEF SenderInv
<1>1. now' \in Nat /\ now <= now' /\ method' = method
  BY <1>0 DEF Tick
<1>2. CASE Late(q, now)
  <2>1. Late(q, now')
    BY <1>0, <1>1, <1>2, LateMonotone, Zenon
  <2> QED
    BY <1>1, <2>1, Zenon DEF Spent, Late, SlotFor, IsSYN
<1>3. CASE q \in DOMAIN replay /\ Late(q, replay[q])
  <2>1. replay[q] \in Nat
    BY <1>3, Zenon DEF ListenerType
  <2>2. CASE replay[q] > now'
    <3>1. q \in DOMAIN replay' /\ replay'[q] = replay[q]
      BY <1>3, <2>2, Zenon DEF Tick, Restrict
    <3> QED
      BY <1>1, <1>3, <3>1, Zenon DEF Spent, Late, SlotFor, IsSYN
  <2>3. CASE ~(replay[q] > now')
    BY <1>1, <1>3, <2>1, <2>3, LateMonotone DEF Spent, Late, SlotFor, IsSYN
  <2> QED
    BY <2>2, <2>3, Zenon
<1> QED
  BY <1>2, <1>3, Zenon DEF Spent
-----------------------------------------------------------------------------
(* The senders. *)

\* SYN packets with the same fields are the same packet.
LEMMA SameSYN ==
  ASSUME NEW p \in SYNs, NEW q \in SYNs, p.client = q.client, p.port = q.port,
         p.slot = q.slot, p.idx = q.idx, p.legacy = q.legacy
  PROVE  p = q
  BY DEF SYNs

\* The packet written as part k.next of the n-th knock.
Written(n, k) ==
  IF IsSYN(method) THEN ComputeSYNFields(k, k.next) ELSE BuildKnockFrame(n, k, k.next)

\* What every method's sender puts on the wire is that packet.
LEMMA SentWrites ==
  ASSUME SenderInv, NEW n, NEW k, k.next \in PartsOf(method), Sent(n, k)
  PROVE  net' = net \cup {Written(n, k)}
<1>1. method \in {"udp", "udp-seq", "udp-passive", "udp-passive-seq", "tcp-syn", "tcp-syn-seq"}
  BY ListenerAssumption, Zenon DEF SenderInv
<1>2. ~IsSequence(method) => k.next = 0
  BY Zenon DEF PartsOf
<1> QED
  BY <1>1, <1>2, Zenon DEF Sent, Written, IsSYN, IsSequence, SendUDPMethod, SendUDPSequenceMethod,
       Send, SendSYNSequence

\* A sender writes the part that is due, once.
LEMMA SentStep ==
  ASSUME SenderInv, OnePacket, NEW n \in 1..MaxSends, NEW k \in KnockRecords,
         k.next \in PartsOf(method), Sent(n, k),
         \/ n \in DOMAIN begun /\ begun[n] = k
         \/ DOMAIN begun = 1..(n - 1)
  PROVE  (SenderInv /\ OnePacket)' /\ net \subseteq net'
<1> DEFINE w == Written(n, k)
<1>1. method' = method /\ skew' = skew /\ now' = now
      /\ begun' = Put(begun, n, [k EXCEPT !.next = @ + 1])
  BY Zenon DEF Sent
<1>2. net' = net \cup {w}
  BY SentWrites, Zenon
<1>3. w.client = k.client /\ w.port = k.port /\ w.idx = k.next
      /\ (IsSYN(method) => w.slot = k.slot) /\ (~IsSYN(method) => w.seq = n)
  BY Zenon DEF Written, ComputeSYNFields, BuildKnockFrame
<1>4. w \in Packets
  <2>1. now + skew \in Int
    BY Numbers DEF SenderInv
  <2> QED
    BY <2>1, Zenon DEF Written, Packets, SYNs, Frames, ComputeSYNFields, BuildKnockFrame, KnockRecords
<1>5. PICK m \in 0..MaxSends : begun \in [1..m -> KnockRecords]
  BY Zenon DEF SenderInv
<1>6. PICK j \in 0..MaxSends : begun' \in [1..j -> KnockRecords] /\ DOMAIN begun' = DOMAIN begun \cup {n}
  <2>1. [k EXCEPT !.next = @ + 1] \in KnockRecords
    BY DEF KnockRecords
  <2>2. CASE n \in 1..m
    <3>1. begun' \in [1..m -> KnockRecords]
      BY <1>1, <1>5, <2>1, <2>2, Zenon DEF Put
    <3> QED
      BY <1>5, <2>2, <3>1, Zenon
  <2>3. CASE n \notin 1..m
    <3>1. n = m + 1
      <4>1. 1..m = 1..(n - 1)
        BY <1>5, <2>3, Zenon
      <4>2. m \in Nat /\ n - 1 \in Nat
        BY Numbers
      <4> QED
        BY <4>1, <4>2
    <3>2. 1..n = 1..m \cup {n} /\ n \in 0..MaxSends
      BY <3>1, Numbers
    <3>3. begun' \in [1..n -> KnockRecords]
      BY <1>1, <1>5, <2>1, <3>2, Zenon DEF Put
    <3> QED
      BY <1>5, <3>2, <3>3, Zenon
  <2> QED
    BY <2>2, <2>3, Zenon
<1>7. begun'[n].next = k.next + 1 /\ begun'[n].client = k.client
      /\ \A i \in DOMAIN begun \ {n} : begun'[i] = begun[i]
  BY <1>1, Zenon DEF Put, KnockRecords
<1>8. Packets' = Packets /\ KnockRecords' = KnockRecords
  BY <1>1, Zenon DEF Packets, SYNs, Forms, KnockRecords, Frames, PartsOf, IsSYN, IsSequence
<1>9. k.next \in Nat
  BY Zenon DEF KnockRecords
<1>10. ASSUME ~IsSYN(method), NEW p \in net'
       PROVE  p.seq \in DOMAIN begun' /\ p.idx < begun'[p.seq].next
              /\ p.client = begun'[p.seq].client
  <2>1. CASE p = w
    BY <1>3, <1>6, <1>7, <1>9, <1>10, <2>1
  <2>2. CASE p # w
    <3>1. p \in net /\ p.seq \in DOMAIN begun /\ p.idx < begun[p.seq].next
          /\ p.client = begun[p.seq].client
      BY <1>2, <1>10, <2>2, Zenon DEF SenderInv
    <3>2. CASE p.seq = n
      <4>1. begun[n] = k
        BY <1>5, <3>1, <3>2
      <4>2. p.idx \in Nat
        BY <3>1, PacketFields, Numbers
      <4> QED
        BY <1>6, <1>7, <1>9, <3>1, <3>2, <4>1, <4>2
    <3>3. CASE p.seq # n
      BY <1>6, <1>7, <3>1, <3>3, Zenon
    <3> QED
      BY <3>2, <3>3, Zenon
  <2> QED
    BY <2>1, <2>2, Zenon
<1>11. SenderInv'
  <2>1. method' \in Methods /\ skew' \in 0..MaxSkew /\ now' \in 0..MaxTime
    BY <1>1, Zenon DEF SenderInv
  <2>2. net' \subseteq Packets'
    BY <1>2, <1>4, <1>8, Zenon DEF SenderInv
  <2>3. IsSYN(method)' = IsSYN(method)
    BY <1>1, Zenon DEF IsSYN
  <2> HIDE DEF w
  <2> QED
    BY <1>6, <1>8, <1>10, <2>1, <2>2, <2>3, Zenon DEF SenderInv
<1>12. ASSUME NEW q \in net, KnockID(q) = KnockID(w), q.port = w.port, q.idx = w.idx,
             Current(q), Current(w)
       PROVE  q = w
  <2>1. CASE IsSYN(method)
    <3>1. q \in SYNs /\ w \in SYNs
      BY <1>4, <2>1, PacketFields, Zenon DEF Packets
    <3>2. q.client = w.client /\ q.slot = w.slot /\ q.legacy = w.legacy
      <4>1. q.legacy \in BOOLEAN /\ w.legacy \in BOOLEAN
        BY <3>1, Zenon DEF SYNs, Forms
      <4> QED
        BY <1>12, <2>1, <4>1, Zenon DEF KnockID, Current
    <3> QED
      BY <1>12, <3>1, <3>2, SameSYN, Zenon
  <2>2. CASE ~IsSYN(method)
    <3>1. q.seq = n /\ q.idx = k.next
      BY <1>3, <1>12, <2>2, Zenon DEF KnockID
    <3>2. n \in DOMAIN begun /\ k.next < begun[n].next
      BY <2>2, <3>1, Zenon DEF SenderInv
    <3>3. begun[n] = k
      BY <3>2
    <3> QED
      BY <1>9, <3>2, <3>3
  <2> QED
    BY <2>1, <2>2, Zenon
<1>13. OnePacket'
  <2>1. \A p : KnockID(p)' = KnockID(p) /\ (Current(p)' <=> Current(p))
    BY <1>1, Zenon DEF KnockID, Current, IsSYN
  <2> HIDE DEF w
  <2> QED
    BY <1>2, <1>12, <2>1, Zenon DEF OnePacket
<1> QED
  BY <1>2, <1>11, <1>13, Zenon

\* Both kinds of send, and the steps that send nothing.
LEMMA SenderStep ==
  ASSUME SenderInv, OnePacket, [ListenerNext]_listenerVars
  PROVE  (SenderInv /\ OnePacket)' /\ net \subseteq net' /\ method' = method
<1>1. ASSUME NEW r \in Requests, SendMethod(r)
      PROVE  (SenderInv /\ OnePacket)' /\ net \subseteq net' /\ method' = method
  <2> DEFINE n == Cardinality(DOMAIN begun) + 1
             k == [client |-> r.client, port |-> r.port, slot |-> SlotFor(now + skew),
                   sid |-> IF IsSYN(method) THEN 0 ELSE r.sid,
                   legacy |-> method = "tcp-syn-seq" /\ r.legacy, next |-> 0]
  <2>1. n <= MaxSends /\ r.client \in Senders /\ Sent(n, k)
    BY <1>1, Zenon DEF SendMethod, Senders
  <2>2. PICK m \in 0..MaxSends : begun \in [1..m -> KnockRecords]
    BY Zenon DEF SenderInv
  <2>3. n = m + 1
    BY <2>2, FS_Interval
  <2>4. n \in 1..MaxSends /\ DOMAIN begun = 1..(n - 1)
    <3>1. m \in Nat /\ MaxSends \in Nat /\ m = n - 1 /\ DOMAIN begun = 1..m
      BY <2>2, <2>3, Numbers
    <3> HIDE DEF n
    <3> QED
      BY <2>1, <2>3, <3>1
  <2>5. SlotFor(now + skew) \in Slots
    <3>0. now \in 0..MaxTime /\ skew \in 0..MaxSkew
      BY Zenon DEF SenderInv
    <3>1. now + skew \in Nat /\ MaxTime + MaxSkew \in Nat /\ now + skew <= MaxTime + MaxSkew
      BY <3>0, Numbers
    <3>2. \A t \in Nat, w \in Nat \ {0} : t \div w \in Nat /\ t \div w <= t
      OBVIOUS
    <3>3. SlotFor(now + skew) \in Nat /\ SlotFor(now + skew) <= now + skew
      BY <3>1, <3>2, Numbers, Zenon DEF SlotFor
    <3> QED
      BY <3>1, <3>3 DEF Slots
  <2>6. k \in KnockRecords /\ k.next \in PartsOf(method)
    <3>1. k.legacy \in Forms
      BY Zenon DEF Forms
    <3> QED
      BY <2>1, <2>5, <3>1, Numbers DEF KnockRecords, Ports, SessionIDs, PartsOf
  <2>7. method' = method
    BY <2>1, Zenon DEF Sent
  <2> HIDE DEF n, k
  <2> QED
    BY <2>1, <2>4, <2>6, <2>7, SentStep, Zenon
<1>2. ASSUME NEW n \in DOMAIN begun, SendPart(n)
      PROVE  (SenderInv /\ OnePacket)' /\ net \subseteq net' /\ method' = method
  <2>1. PICK m \in 0..MaxSends : begun \in [1..m -> KnockRecords]
    BY Zenon DEF SenderInv
  <2>2. n \in 1..MaxSends /\ begun[n] \in KnockRecords
    BY <2>1, Numbers
  <2>3. begun[n].next \in PartsOf(method) /\ Sent(n, begun[n]) /\ method' = method
    BY <1>2, Zenon DEF SendPart, Sent
  <2> QED
    BY <2>2, <2>3, SentStep, Zenon
<1>3. ASSUME UNCHANGED <<method, skew, begun, net>>, now' \in 0..MaxTime
      PROVE  (SenderInv /\ OnePacket)' /\ net \subseteq net' /\ method' = method
  <2>1. Packets' = Packets /\ IsSYN(method)' = IsSYN(method)
        /\ \A p : KnockID(p)' = KnockID(p) /\ (Current(p)' <=> Current(p))
        /\ KnockRecords' = KnockRecords
    BY <1>3, Zenon DEF Packets, SYNs, Forms, KnockRecords, Frames, PartsOf, IsSYN, IsSequence,
         KnockID, Current
  <2>2. SenderInv'
    BY <1>3, <2>1, Zenon DEF SenderInv
  <2>3. OnePacket'
    BY <1>3, <2>1, Zenon DEF OnePacket
  <2> QED
    BY <1>3, <2>2, <2>3, Zenon
<1>4. now \in 0..MaxTime
  BY Zenon DEF SenderInv
<1>5. CASE Tick
  BY <1>3, <1>4, <1>5, Numbers DEF Tick
<1>6. CASE \E p \in net, s \in Sources :
             \/ Serve(p, s) \/ ListenUDPPassive(p, s)
             \/ ServeSequence(p, s) \/ ListenUDPPassiveSequence(p, s)
             \/ Listen(p, s) \/ ListenSYNSequence(p, s)
  <2>1. UNCHANGED <<method, skew, now, begun, net>>
    BY <1>6, Zenon DEF Serve, ListenUDPPassive, ServeSequence, ListenUDPPassiveSequence, Listen,
         ListenSYNSequence, Receive
  <2> QED
    BY <1>3, <1>4, <2>1, Zenon
<1>7. CASE UNCHANGED listenerVars
  BY <1>3, <1>4, <1>7, Zenon DEF listenerVars
<1> QED
  BY <1>1, <1>2, <1>5, <1>6, <1>7, Zenon DEF ListenerNext
-----------------------------------------------------------------------------
(* What a packet makes of the tracker. *)

\* The sequences that are within their window.
Kept == {k \in DOMAIN tracker.states : now - tracker.states[k].first <= SeqWindow}
\* The tracker after pruneLocked.
Base == Without(tracker, Expired)
\* The step holds no more sequences than K, and those of L unchanged.
Holds(K, L) ==
  DOMAIN tracker'.states = K /\ \A k \in L : tracker'.states[k] = tracker.states[k]

Drops == Holds(Kept, Kept) /\ UNCHANGED fired
Adds(p, s) ==
  LET key == KeyOf(p, s)
  IN  /\ key \notin Kept /\ Holds(Kept \cup {key}, Kept) /\ UNCHANGED fired
      /\ tracker'.states[key] \in States
      /\ tracker'.states[key].first = now /\ tracker'.states[key].parts = {p.idx}
      /\ IsSYN(method) => p.idx = 0
Grows(p, s) ==
  LET key == KeyOf(p, s)
  IN  /\ key \in Kept /\ Holds(Kept, Kept \ {key}) /\ UNCHANGED fired
      /\ tracker'.states[key] \in States
      /\ tracker'.states[key].first = tracker.states[key].first
      /\ tracker'.states[key].parts = tracker.states[key].parts \cup {p.idx}
Completes(p, s) ==
  LET key == KeyOf(p, s)
  IN  /\ key \in Kept /\ Holds(Kept \ {key}, Kept \ {key}) /\ Fire(p)
      /\ tracker.states[key].parts \cup {p.idx} = PartsOf(method)

\* The packet counts for a sequence; if its nonce is one to mark, it is new.
Takes(p) ==
  IsSequence(method) /\ Accepted(p) /\ (p.idx \in Marked => ~Replayed(p) /\ Mark(p))
Outcome(p, s) ==
  /\ UNCHANGED replay \/ (Accepted(p) /\ Mark(p))
  /\ \/ UNCHANGED <<tracker, fired>>
     \/ Drops
     \/ Takes(p) /\ (Adds(p, s) \/ Grows(p, s) \/ Completes(p, s))
     \/ /\ ~IsSequence(method) /\ UNCHANGED tracker
        /\ Accepted(p) /\ ~Replayed(p) /\ Mark(p) /\ Fire(p)

\* pruneLocked leaves what is within its window.
LEMMA BaseKeeps ==
  ASSUME SenderInv, ListenerType, CountInv
  PROVE  /\ Exact(Base) /\ Base.states = [k \in Kept |-> tracker.states[k]]
         /\ Expired = DOMAIN tracker.states \ Kept /\ IsFiniteSet(Expired)
         /\ Kept \subseteq DOMAIN tracker.states
<1>1. now \in Nat /\ SeqWindow \in Nat
  BY Numbers DEF SenderInv
<1>2. \A k \in DOMAIN tracker.states : tracker.states[k].first \in Nat
  BY Zenon DEF ListenerType, States
<1>3. Expired = DOMAIN tracker.states \ Kept /\ Kept = DOMAIN tracker.states \ Expired
  BY <1>1, <1>2 DEF Expired, Kept
<1>4. Exact(Base)
  BY <1>3, WithoutExact, Zenon DEF Base, CountInv
<1>5. IsFiniteSet(Expired)
  BY <1>3, FS_Subset, Zenon DEF CountInv, Exact
<1>6. Base.states = [k \in Kept |-> tracker.states[k]]
  BY <1>3, Zenon DEF Base, Without, Restrict
<1> QED
  BY <1>3, <1>4, <1>5, <1>6, Zenon

\* A sequence begun on the pruned tracker.
LEMMA WithHolds ==
  ASSUME SenderInv, ListenerType, CountInv, NEW s, NEW key, key \notin DOMAIN Base.states, NEW st,
         tracker' = With(Base, s, key, st)
  PROVE  key \notin Kept /\ Holds(Kept \cup {key}, Kept) /\ tracker'.states[key] = st
<1>1. Base.states = [k \in Kept |-> tracker.states[k]]
  BY BaseKeeps, Zenon
<1>2. tracker'.states = Put(Base.states, key, st)
  BY Zenon DEF With
<1>3. DOMAIN Base.states = Kept /\ \A k \in Kept : Base.states[k] = tracker.states[k]
  BY <1>1, Zenon
<1>4. DOMAIN tracker'.states = Kept \cup {key} /\ tracker'.states[key] = st
      /\ \A k \in Kept : tracker'.states[k] = tracker.states[k]
  BY <1>2, <1>3, Zenon DEF Put
<1> QED
  BY <1>3, <1>4, Zenon DEF Holds

\* sequenceTracker.add has one of these outcomes, and the counters stay exact.
LEMMA UDPSequenceOutcome ==
  ASSUME SenderInv, ListenerType, CountInv, NEW p \in net, NEW s \in Sources,
         ~IsSYN(method), IsSequence(method), UDPSequencePart(p, s)
  PROVE  Outcome(p, s) /\ CountInv'
<1> DEFINE key   == KeyOf(p, s)
           isNew == key \notin DOMAIN Base.states
           st    == IF isNew THEN [first |-> now, parts |-> {}, sid |-> p.sid]
                             ELSE Base.states[key]
           parts == st.parts \cup {p.idx}
           PartAdded == IF isNew THEN With(Base, s, key, [st EXCEPT !.parts = parts])
                        ELSE [Base EXCEPT !.states[key].parts = parts]
<1>1. CASE ~(OpenKnockFrame(p) /\ ~Replayed(p))
  BY <1>1, Zenon DEF UDPSequencePart, Outcome, CountInv, Exact, Bounded
<1>2. CASE OpenKnockFrame(p) /\ ~Replayed(p) /\ RequireSessionID /\ p.sid = 0
  BY <1>2, Zenon DEF UDPSequencePart, Outcome, CountInv, Exact, Bounded, Accepted, Current
<1>3. CASE OpenKnockFrame(p) /\ ~Replayed(p) /\ ~(RequireSessionID /\ p.sid = 0)
  <2>1. Accepted(p) /\ ~Replayed(p) /\ Mark(p) /\ sequenceTrackerAdd(p, s)
    BY <1>3, Zenon DEF UDPSequencePart, Accepted, Current
  <2>2. key = <<s, p.client, p.seq>> /\ key[1] = s
    BY Zenon DEF KeyOf, KnockID
  <2>3. PICK complete \in MarkCompleted(completed, Expired) :
          \/ tracker' = Base /\ completed' = complete /\ UNCHANGED fired
          \/ /\ ~(isNew /\ ~HasRoom(Base, s)) /\ parts # PartsOf(method)
             /\ tracker' = PartAdded /\ completed' = complete /\ UNCHANGED fired
          \/ /\ parts = PartsOf(method)
             /\ tracker' = Without(Base, {key})
             /\ completed' \in MarkCompleted(complete, {key})
             /\ Fire(p)
    BY <2>1, <2>2, Zenon DEF sequenceTrackerAdd, Base
  <2>4. Takes(p)
    BY <2>1, Zenon DEF Takes
  <2>5. Exact(Base) /\ Base.states = [k \in Kept |-> tracker.states[k]]
        /\ Kept \subseteq DOMAIN tracker.states
    BY BaseKeeps, Zenon
  <2>6. Bounded(complete)
    BY BaseKeeps, MarkCompletedBounded, Zenon DEF CountInv
  <2>7. CASE tracker' = Base /\ completed' = complete /\ UNCHANGED fired
    <3>1. Drops
      BY <2>5, <2>7, Zenon DEF Drops, Holds
    <3>2. CountInv'
      BY <2>5, <2>6, <2>7, Zenon DEF CountInv, Exact, Bounded
    <3> QED
      BY <2>1, <3>1, <3>2, Zenon DEF Outcome
  <2>8. CASE isNew /\ HasRoom(Base, s) /\ tracker' = PartAdded /\ completed' = complete /\ UNCHANGED fired
    <3>1. st = [first |-> now, parts |-> {}, sid |-> p.sid] /\ parts = {p.idx}
      BY <2>8, Zenon
    <3>2. tracker' = With(Base, s, key, [first |-> now, parts |-> {p.idx}, sid |-> p.sid])
      BY <2>8, <3>1
    <3>3. [first |-> now, parts |-> {p.idx}, sid |-> p.sid] \in States
      <4>1. p.idx \in PartsOf(method) /\ p.sid \in SessionIDs
        BY PacketFields, Zenon DEF Frames
      <4>2. now \in Nat
        BY Numbers DEF SenderInv
      <4> QED
        BY <4>1, <4>2, Zenon DEF States
    <3>5. key \notin Kept /\ Holds(Kept \cup {key}, Kept)
          /\ tracker'.states[key] = [first |-> now, parts |-> {p.idx}, sid |-> p.sid]
      <4> HIDE DEF key
      <4> QED
        BY <2>8, <3>2, WithHolds
    <3>6. Adds(p, s)
      <4>1. tracker'.states[key].first = now /\ tracker'.states[key].parts = {p.idx}
        <5> HIDE DEF key, st, parts
        <5> QED
          BY <3>5
      <4> HIDE DEF key, st, parts
      <4> QED
        BY <2>8, <3>3, <3>5, <4>1, Zenon DEF Adds, key
    <3>7. Exact(tracker')
      <4> HIDE DEF key
      <4> QED
        BY <2>2, <2>5, <2>8, <3>2, WithExact
    <3>8. CountInv'
      BY <2>6, <2>8, <3>7, Zenon DEF CountInv, Exact, Bounded
    <3> QED
      BY <2>1, <2>4, <3>6, <3>8, Zenon DEF Outcome
  <2>9. CASE ~isNew /\ tracker' = PartAdded /\ completed' = complete /\ UNCHANGED fired
    <3>1. key \in Kept /\ Base.states[key] = tracker.states[key] /\ tracker.states[key] \in States
      BY <2>5, <2>9, Zenon DEF ListenerType
    <3>2. tracker' = [Base EXCEPT !.states[key].parts = tracker.states[key].parts \cup {p.idx}]
      BY <2>9, <3>1, Zenon
    <3>3. Base = [states |-> Base.states, perIP |-> Base.perIP, total |-> Base.total]
      BY Zenon DEF Base, Without
    <3>4. tracker'.states = [Base.states EXCEPT ![key].parts = tracker.states[key].parts \cup {p.idx}]
          /\ tracker'.perIP = Base.perIP /\ tracker'.total = Base.total
      BY <3>2, <3>3, Zenon
    <3>5. Grows(p, s)
      BY <2>5, <2>9, <3>1, <3>4, PacketFields DEF Grows, Holds, States
    <3>6. DOMAIN tracker'.states = DOMAIN Base.states
      BY <3>4, Zenon
    <3>7. CountInv'
      BY <2>5, <2>6, <2>9, <3>4, <3>6 DEF CountInv, Exact, Bounded
    <3> QED
      BY <2>1, <2>4, <3>5, <3>7, Zenon DEF Outcome
  <2>10. CASE /\ parts = PartsOf(method) /\ tracker' = Without(Base, {key})
              /\ completed' \in MarkCompleted(complete, {key}) /\ Fire(p)
    <3>1. ~isNew
      <4>1. PartsOf(method) = 0..(Length - 1) /\ 0 \in 0..(Length - 1) /\ 1 \in 0..(Length - 1)
        BY Numbers DEF PartsOf
      <4>2. PartsOf(method) # {p.idx}
        BY <4>1
      <4> QED
        BY <2>10, <4>2, Zenon
    <3>2. key \in Kept /\ Base.states[key] = tracker.states[key]
      BY <2>5, <3>1, Zenon
    <3>3. tracker'.states = [k \in Kept \ {key} |-> tracker.states[k]]
      BY <2>5, <2>10, Zenon DEF Without, Restrict
    <3>4. Completes(p, s)
      BY <2>10, <3>1, <3>2, <3>3, Zenon DEF Completes, Holds
    <3>5. Exact(tracker')
      BY <2>5, <2>10, <3>2, WithoutExact, Zenon
    <3>6. Bounded(completed')
      BY <2>6, <2>10, FS_Singleton, MarkCompletedBounded, Zenon
    <3>7. CountInv'
      BY <3>5, <3>6, Zenon DEF CountInv, Exact, Bounded
    <3> QED
      BY <2>1, <2>4, <3>4, <3>7, Zenon DEF Outcome
  <2> QED
    BY <2>3, <2>7, <2>8, <2>9, <2>10, Zenon
<1> QED
  BY <1>1, <1>2, <1>3, Zenon

\* A packet the replay cache lets through is of no part that was marked before.
LEMMA NewPart ==
  ASSUME SenderInv, OnePacket, ListenerType, NEW p \in net, Accepted(p), ~Replayed(p)
  PROVE  ~SpentPart(KnockID(p), p.idx)
<1>1. ~Spent(p) /\ p.port = Port /\ Current(p)
  BY TakenUnspent, AcceptedSpan, Zenon DEF Accepted
<1> QED
  BY <1>1, Zenon DEF SpentPart, OnePacket

\* synSeqTracker.add: the first part of a sequence in flight is a replay, so that
\* none is overwritten.
LEMMA SYNSequenceOutcome ==
  ASSUME SenderInv, OnePacket, ListenerType, SpentInv, CountInv, NEW p \in net, NEW s \in Sources,
         method = "tcp-syn-seq", synSeqTrackerAdd(p, s), UNCHANGED completed, ~AllowLegacySYNSeq
  PROVE  Outcome(p, s) /\ CountInv'
<1> DEFINE key  == KeyOf(p, s)
           next == {k \in DOMAIN Base.states : k = key /\ Base.states[k].parts = 0..(p.idx - 1)}
           PartAdded == [Base EXCEPT !.states[key].parts = @ \cup {p.idx}]
           first == [first |-> now, parts |-> {0}, sid |-> 0]
<1>0. IsSYN(method) /\ IsSequence(method)
  BY Zenon DEF IsSYN, IsSequence
<1>1. key = <<s, p.client, p.slot>> /\ key[1] = s /\ IDOf(key) = KnockID(p)
  BY <1>0, Zenon DEF KeyOf, KnockID, IDOf
<1>2. Exact(Base) /\ Base.states = [k \in Kept |-> tracker.states[k]]
      /\ Kept \subseteq DOMAIN tracker.states
  BY BaseKeeps, Zenon
<1>3. p.idx \in 0..(Length - 1) /\ PartsOf(method) = 0..(Length - 1) /\ Length \in 2..5
  BY <1>0, PacketFields, Numbers, Zenon DEF PartsOf
<1>4. \/ /\ Accepted(p) /\ next # {} /\ p.idx + 1 >= Length
         /\ tracker' = Without(Base, {key}) /\ Fire(p) /\ UNCHANGED replay
      \/ /\ Accepted(p) /\ next # {}
         /\ tracker' = PartAdded /\ UNCHANGED <<replay, fired>>
      \/ /\ Accepted(p) /\ p.idx = 0 /\ HasRoom(Base, s) /\ ~Replayed(p)
         /\ Mark(p) /\ UNCHANGED fired /\ tracker' = With(Base, s, key, first)
      \/ tracker' = Base /\ UNCHANGED <<replay, fired>>
  <2>1. VerifySYNSeqPart(p) => Accepted(p)
    BY <1>0, Zenon DEF VerifySYNSeqPart, Accepted, Current
  <2> QED
    BY <1>1, <2>1, Zenon DEF synSeqTrackerAdd, Base
<1>5. ASSUME next # {}
      PROVE  key \in Kept /\ tracker.states[key] \in States
             /\ Base.states[key] = tracker.states[key]
             /\ tracker.states[key].parts = 0..(p.idx - 1) /\ p.idx \notin Marked
  <2>1. key \in Kept /\ tracker.states[key] \in States
        /\ Base.states[key] = tracker.states[key]
        /\ tracker.states[key].parts = 0..(p.idx - 1)
    BY <1>2, <1>5, Zenon DEF ListenerType
  <2>2. 0 \in 0..(p.idx - 1)
    BY <1>0, <1>2, <2>1, Zenon DEF SpentInv
  <2>3. p.idx # 0
    BY <2>2
  <2> QED
    BY <1>0, <2>1, <2>3, Zenon DEF Marked
<1>6. CASE /\ Accepted(p) /\ next # {} /\ p.idx + 1 >= Length
           /\ tracker' = Without(Base, {key}) /\ Fire(p) /\ UNCHANGED replay
  <2>1. tracker'.states = [k \in Kept \ {key} |-> tracker.states[k]]
    BY <1>2, <1>6, Zenon DEF Without, Restrict
  <2>2. tracker.states[key].parts \cup {p.idx} = PartsOf(method)
    <3>1. p.idx = Length - 1
      BY <1>3, <1>6
    <3>2. \A n \in Nat : 0..(n - 1) \cup {n} = 0..n
      OBVIOUS
    <3>3. 0..(p.idx - 1) \cup {p.idx} = 0..p.idx
      BY <1>3, <3>2
    <3> QED
      BY <1>3, <1>5, <1>6, <3>1, <3>3, Zenon
  <2>3. Completes(p, s)
    BY <1>5, <1>6, <2>1, <2>2, Zenon DEF Completes, Holds
  <2>4. Exact(tracker')
    <3>1. {key} \in SUBSET DOMAIN Base.states
      BY <1>2, <1>5, <1>6, Zenon
    <3> QED
      BY <1>2, <1>6, <3>1, WithoutExact, Zenon
  <2>5. CountInv'
    BY <2>4, Zenon DEF CountInv, Exact, Bounded
  <2> QED
    BY <1>0, <1>5, <1>6, <2>3, <2>5, Zenon DEF Outcome, Takes
<1>7. CASE Accepted(p) /\ next # {} /\ tracker' = PartAdded /\ UNCHANGED <<replay, fired>>
  <2>1. key \in Kept /\ tracker.states[key] \in States
        /\ Base.states[key] = tracker.states[key] /\ p.idx \notin Marked
    BY <1>5, <1>7, Zenon
  <2>2. Base = [states |-> Base.states, perIP |-> Base.perIP, total |-> Base.total]
    BY Zenon DEF Base, Without
  <2>3. tracker'.states = [Base.states EXCEPT ![key].parts = @ \cup {p.idx}]
        /\ tracker'.perIP = Base.perIP /\ tracker'.total = Base.total
    BY <1>7, <2>2, Zenon
  <2>4. Grows(p, s)
    BY <1>2, <1>3, <1>7, <2>1, <2>3 DEF Grows, Holds, States
  <2>5. DOMAIN tracker'.states = DOMAIN Base.states
    BY <2>3, Zenon
  <2>6. CountInv'
    BY <1>2, <2>3, <2>5, Zenon DEF CountInv, Exact, Bounded
  <2> QED
    BY <1>0, <1>7, <2>1, <2>4, <2>6, Zenon DEF Outcome, Takes
<1>8. CASE /\ Accepted(p) /\ p.idx = 0 /\ HasRoom(Base, s) /\ ~Replayed(p)
           /\ Mark(p) /\ UNCHANGED fired /\ tracker' = With(Base, s, key, first)
  <2>1. key \notin DOMAIN tracker.states
    <3>1. SUFFICES ASSUME key \in DOMAIN tracker.states PROVE FALSE
      BY Zenon
    <3>2. 0 \in tracker.states[key].parts \cap Marked
      BY <1>0, <3>1, Zenon DEF SpentInv, Marked
    <3>3. SpentPart(KnockID(p), 0)
      BY <1>1, <3>1, <3>2, Zenon DEF SpentInv
    <3> QED
      BY <1>8, <3>3, NewPart, Zenon
  <2>2. key \notin DOMAIN Base.states
    BY <1>2, <2>1, Zenon
  <2>3. key \notin Kept /\ Holds(Kept \cup {key}, Kept) /\ tracker'.states[key] = first
    <3> HIDE DEF key, first
    <3> QED
      BY <1>8, <2>2, WithHolds, Zenon
  <2>4. first \in States
    <3>1. now \in Nat /\ 0 \in PartsOf(method) /\ 0 \in SessionIDs
      BY <1>3, Numbers DEF SenderInv, SessionIDs
    <3> QED
      BY <3>1, Zenon DEF States
  <2>5. Adds(p, s)
    <3>1. tracker'.states[key].first = now /\ tracker'.states[key].parts = {p.idx}
      <4>1. tracker'.states[key] = first /\ p.idx = 0
        BY <1>8, <2>3, Zenon
      <4> HIDE DEF key
      <4> QED
        BY <4>1
    <3> QED
      BY <1>8, <2>3, <2>4, <3>1, Zenon DEF Adds
  <2>6. Exact(tracker')
    <3> HIDE DEF key
    <3> QED
      BY <1>1, <1>2, <1>8, <2>2, WithExact, Zenon
  <2>7. CountInv'
    BY <2>6, Zenon DEF CountInv, Exact, Bounded
  <2> QED
    BY <1>0, <1>8, <2>5, <2>7, Zenon DEF Outcome, Takes
<1>9. CASE tracker' = Base /\ UNCHANGED <<replay, fired>>
  <2>1. Drops
    BY <1>2, <1>9, Zenon DEF Drops, Holds
  <2>2. CountInv'
    BY <1>2, <1>9, Zenon DEF CountInv, Exact, Bounded
  <2> QED
    BY <1>9, <2>1, <2>2, Zenon DEF Outcome
<1> QED
  BY <1>4, <1>6, <1>7, <1>8, <1>9, Zenon

\* One packet, received by any of the listeners.
Received(p, s) ==
  \/ Serve(p, s) \/ ListenUDPPassive(p, s)
  \/ ServeSequence(p, s) \/ ListenUDPPassiveSequence(p, s)
  \/ Listen(p, s) \/ ListenSYNSequence(p, s)

\* Every listener's handler of a packet drops it, begins a sequence, adds to one or completes
\* one, and leaves the tracker's counters exact.
LEMMA ReceivedOutcome ==
  ASSUME SenderInv, OnePacket, ListenerType, SpentInv, CountInv, NEW p \in net, NEW s \in Sources,
         Received(p, s), ~AllowLegacySYNSeq
  PROVE  Outcome(p, s) /\ CountInv' /\ Receive(p, s)
<1>1. CASE Serve(p, s) \/ ListenUDPPassive(p, s)
  <2>1. ~IsSYN(method) /\ ~IsSequence(method) /\ Receive(p, s) /\ UDPKnock(p)
        /\ UNCHANGED <<tracker, completed>>
    BY <1>1, Zenon DEF Serve, ListenUDPPassive, IsSYN, IsSequence
  <2>2. CountInv'
    BY <2>1, Zenon DEF CountInv, Exact, Bounded
  <2> QED
    BY <2>1, <2>2, Zenon DEF UDPKnock, Outcome, Accepted, Current
<1>2. CASE Listen(p, s)
  <2>1. IsSYN(method) /\ ~IsSequence(method) /\ Receive(p, s) /\ SYNKnock(p)
        /\ UNCHANGED <<tracker, completed>>
    BY <1>2, Zenon DEF Listen, IsSYN, IsSequence
  <2>2. CountInv'
    BY <2>1, Zenon DEF CountInv, Exact, Bounded
  <2>3. Current(p)
    BY <1>2, PacketFields, Zenon DEF Current, SYNs, Forms, Listen
  <2> QED
    BY <2>1, <2>2, <2>3, Zenon DEF SYNKnock, Outcome, Accepted
<1>3. CASE ServeSequence(p, s) \/ ListenUDPPassiveSequence(p, s)
  <2>1. ~IsSYN(method) /\ IsSequence(method) /\ Receive(p, s) /\ UDPSequencePart(p, s)
    BY <1>3, Zenon DEF ServeSequence, ListenUDPPassiveSequence, IsSYN, IsSequence
  <2> QED
    BY <2>1, UDPSequenceOutcome, Zenon
<1>4. CASE ListenSYNSequence(p, s)
  <2>1. method = "tcp-syn-seq" /\ Receive(p, s) /\ synSeqTrackerAdd(p, s) /\ UNCHANGED completed
    BY <1>4, Zenon DEF ListenSYNSequence
  <2> QED
    BY <2>1, SYNSequenceOutcome, Zenon
<1> QED
  BY <1>1, <1>2, <1>3, <1>4, Zenon DEF Received

\* The key of a packet's sequence.
LEMMA KeyFacts ==
  ASSUME SenderInv, NEW p \in net, NEW s \in Sources
  PROVE  /\ IDOf(KeyOf(p, s)) = KnockID(p) /\ KeyOf(p, s)[1] = s
         /\ p.client \in Clients => KeyOf(p, s) \in Keys
<1>1. KeyOf(p, s) = <<s, KnockID(p)[1], KnockID(p)[2]>>
      /\ KnockID(p) = <<KnockID(p)[1], KnockID(p)[2]>>
  BY Zenon DEF KeyOf, KnockID
<1>2. p.client \in Clients => KnockID(p)[1] \in Clients /\ KnockID(p)[2] \in Slots \cup 1..MaxSends
  BY KnockIDType, Zenon DEF KnockIDs
<1> QED
  BY <1>1, <1>2 DEF IDOf, Keys

\* What is left unchanged by a packet, and what it spends.
LEMMA ReceiveSpends ==
  ASSUME SenderInv, ListenerType, NEW p \in net, NEW s \in Sources, Receive(p, s), Outcome(p, s)
  PROVE  /\ UNCHANGED <<method, now, net>> /\ Marked' = Marked /\ PartsOf(method)' = PartsOf(method)
         /\ IsSYN(method)' = IsSYN(method) /\ \A q : KnockID(q)' = KnockID(q)
         /\ replay' \in [DOMAIN replay' -> Nat]
         /\ \A id, i : SpentPart(id, i) => SpentPart(id, i)'
         /\ Accepted(p) /\ Mark(p) => \A id : id = KnockID(p) => SpentPart(id, p.idx)'
<1>1. UNCHANGED <<method, now, net>>
  BY Zenon DEF Receive
<1>2. Marked' = Marked /\ PartsOf(method)' = PartsOf(method) /\ IsSYN(method)' = IsSYN(method)
      /\ \A q : KnockID(q)' = KnockID(q) /\ (Current(q)' <=> Current(q))
  BY <1>1, Zenon DEF Marked, PartsOf, IsSYN, IsSequence, KnockID, Current
<1>3. \A q \in net : Spent(q) => Spent(q)'
  <2>1. CASE UNCHANGED replay
    BY <1>1, <1>2, <2>1, Zenon DEF Spent, Late, SlotFor
  <2>2. CASE Accepted(p) /\ Mark(p)
    BY <1>1, <2>2, MarkSpends, Zenon
  <2> QED
    BY <2>1, <2>2, Zenon DEF Outcome
<1>4. replay' \in [DOMAIN replay' -> Nat]
  <2>1. CASE UNCHANGED replay
    BY <2>1, Zenon DEF ListenerType
  <2>2. CASE Accepted(p) /\ Mark(p)
    BY <1>1, <2>2, MarkSpends, Zenon
  <2> QED
    BY <2>1, <2>2, Zenon DEF Outcome
<1>5. ASSUME NEW id, NEW i, SpentPart(id, i)
      PROVE  SpentPart(id, i)'
  BY <1>1, <1>2, <1>3, <1>5, Zenon DEF SpentPart
<1>6. ASSUME Accepted(p), Mark(p), NEW id, id = KnockID(p)
      PROVE  SpentPart(id, p.idx)'
  <2>1. Spent(p)' /\ p.port = Port /\ Current(p)
    BY <1>1, <1>6, MarkSpends, AcceptedSpan, Zenon DEF Accepted
  <2> QED
    BY <1>1, <1>2, <1>6, <2>1, Zenon DEF SpentPart
<1> QED
  BY <1>1, <1>2, <1>4, <1>5, <1>6, Zenon

\* A received packet keeps the types.
LEMMA ReceiveType ==
  ASSUME SenderInv, ListenerType, NEW p \in net, NEW s \in Sources, Receive(p, s), Outcome(p, s)
  PROVE  ListenerType'
<1> DEFINE key == KeyOf(p, s)
<1>1. UNCHANGED <<method, now, net>> /\ PartsOf(method)' = PartsOf(method)
      /\ replay' \in [DOMAIN replay' -> Nat]
  BY ReceiveSpends, Zenon
<1>2. now \in Nat /\ States' = States
  BY <1>1, Numbers DEF SenderInv, States
<1>3. arrived' \in [DOMAIN arrived' -> Nat] /\ \A a \in DOMAIN arrived' : arrived'[a] <= now
  <2>1. CASE Counts(p)
    <3>1. arrived' = Put(arrived, <<p, s>>, now)
      BY <2>1, Zenon DEF Receive
    <3> QED
      BY <1>2, <3>1 DEF ListenerType, Put
  <2>2. CASE ~Counts(p)
    BY <2>2, Zenon DEF Receive, ListenerType
  <2> QED
    BY <2>1, <2>2, Zenon
<1>4. /\ DOMAIN tracker'.states \subseteq Keys
      /\ \A k \in DOMAIN tracker'.states :
           tracker'.states[k] \in States /\ tracker'.states[k].first <= now
  <2>1. Kept \subseteq DOMAIN tracker.states
    BY Zenon DEF Kept
  <2>2. CASE UNCHANGED tracker
    BY <2>2, Zenon DEF ListenerType
  <2>3. CASE Drops
    BY <2>1, <2>3, Zenon DEF Drops, Holds, ListenerType
  <2>4. CASE Takes(p) /\ Adds(p, s)
    <3>1. key \in Keys
      BY <2>4, KeyFacts, AcceptedSpan, Zenon DEF Takes
    <3>2. /\ DOMAIN tracker'.states = Kept \cup {key}
          /\ \A k \in Kept : tracker'.states[k] = tracker.states[k]
          /\ tracker'.states[key] \in States /\ tracker'.states[key].first = now
      BY <2>4, Zenon DEF Adds, Holds
    <3> HIDE DEF key
    <3> QED
      BY <1>2, <2>1, <3>1, <3>2 DEF ListenerType
  <2>5. CASE Grows(p, s)
    <3>1. /\ DOMAIN tracker'.states = Kept /\ key \in Kept
          /\ \A k \in Kept \ {key} : tracker'.states[k] = tracker.states[k]
          /\ tracker'.states[key] \in States
          /\ tracker'.states[key].first = tracker.states[key].first
      BY <2>5, Zenon DEF Grows, Holds
    <3> HIDE DEF key
    <3> QED
      BY <2>1, <3>1, Zenon DEF ListenerType
  <2>6. CASE Completes(p, s)
    <3>1. /\ DOMAIN tracker'.states = Kept \ {key}
          /\ \A k \in Kept \ {key} : tracker'.states[k] = tracker.states[k]
      BY <2>6, Zenon DEF Completes, Holds
    <3> HIDE DEF key
    <3> QED
      BY <2>1, <3>1, Zenon DEF ListenerType
  <2> QED
    BY <2>2, <2>3, <2>4, <2>5, <2>6, Zenon DEF Outcome
<1>5. fired' \in [KnockIDs -> Nat]
  <2>1. CASE UNCHANGED fired
    BY <2>1, Zenon DEF ListenerType
  <2>2. CASE Fire(p)
    <3>1. PICK id : fired' = [fired EXCEPT ![id] = @ + 1]
      BY <2>2, Zenon DEF Fire
    <3>2. fired \in [KnockIDs -> Nat]
      BY Zenon DEF ListenerType
    <3>3. fired' = [x \in KnockIDs |-> IF x = id THEN fired[x] + 1 ELSE fired[x]]
      BY <3>1, <3>2, Zenon
    <3> QED
      BY <3>2, <3>3
  <2> QED
    BY <2>1, <2>2, Zenon DEF Outcome, Drops, Adds, Grows, Completes
<1> QED
  BY <1>1, <1>2, <1>3, <1>4, <1>5, Zenon DEF ListenerType

\* A knock that fires has not fired before: its part was not spent, or its
\* sequence still in flight.
LEMMA FiresFirst ==
  ASSUME SenderInv, OnePacket, ListenerType, SpentInv, NEW p \in net, Accepted(p),
         ~Replayed(p), p.idx \in Marked
  PROVE  /\ fired[KnockID(p)] = 0 /\ KnockID(p) \in KnockIDs
         /\ IsSYN(method) => \A k \in DOMAIN tracker.states : IDOf(k) # KnockID(p)
<1>1. KnockID(p) \in KnockIDs
  BY AcceptedSpan, KnockIDType, Zenon
<1>2. ~SpentPart(KnockID(p), p.idx)
  BY NewPart, Zenon
<1>3. fired[KnockID(p)] \in Nat /\ fired[KnockID(p)] <= 1 /\ fired[KnockID(p)] # 1
  BY <1>1, <1>2, Zenon DEF ListenerType, SpentInv
<1>4. ASSUME IsSYN(method), NEW k \in DOMAIN tracker.states, IDOf(k) = KnockID(p)
      PROVE  FALSE
  <2>1. p.idx = 0 /\ 0 \in tracker.states[k].parts \cap Marked
    BY <1>4, Zenon DEF Marked, SpentInv
  <2> QED
    BY <1>2, <1>4, <2>1, Zenon DEF SpentInv
<1> QED
  BY <1>1, <1>3, <1>4

\* A received packet keeps SpentInv.
LEMMA ReceiveSpentInv ==
  ASSUME SenderInv, OnePacket, ListenerType, SpentInv, NEW p \in net, NEW s \in Sources,
         Receive(p, s), Outcome(p, s)
  PROVE  SpentInv'
<1>0. PICK id, key : id = KnockID(p) /\ key = KeyOf(p, s)
  BY Zenon
<1> DEFINE \* SpentInv of the step, but for the nonces it was already right about.
           Goal(T, f) ==
             /\ \A k \in DOMAIN T :
                  /\ \A i \in T[k].parts \cap Marked : SpentPart(IDOf(k), i)'
                  /\ IsSYN(method) => 0 \in T[k].parts /\ f[IDOf(k)] = 0
             /\ IsSYN(method) => \A j, k \in DOMAIN T : IDOf(j) = IDOf(k) => j = k
             /\ \A x \in KnockIDs :
                  f[x] <= 1 /\ (f[x] = 1 => \A i \in Marked : SpentPart(x, i)')
<1>1. /\ Marked' = Marked /\ IsSYN(method)' = IsSYN(method)
      /\ \A x, i : SpentPart(x, i) => SpentPart(x, i)'
      /\ Accepted(p) /\ Mark(p) => SpentPart(id, p.idx)'
  BY <1>0, ReceiveSpends, Zenon
<1>2. IDOf(key) = id /\ Kept \subseteq DOMAIN tracker.states
  BY <1>0, KeyFacts, Zenon DEF Kept
<1>3. SUFFICES Goal(tracker'.states, fired')
  BY <1>1, Zenon DEF SpentInv
<1>4. /\ \A k \in DOMAIN tracker.states :
           \A i \in tracker.states[k].parts \cap Marked : SpentPart(IDOf(k), i)'
      /\ \A x \in KnockIDs : fired[x] = 1 => \A i \in Marked : SpentPart(x, i)'
  BY <1>1, Zenon DEF SpentInv
<1>5. CASE UNCHANGED <<tracker, fired>>
  BY <1>4, <1>5, Zenon DEF SpentInv
<1>6. CASE Drops
  BY <1>2, <1>4, <1>6, Zenon DEF SpentInv, Drops, Holds
<1>7. CASE Takes(p) /\ Adds(p, s)
  <2>1. /\ DOMAIN tracker'.states = Kept \cup {key} /\ key \notin Kept
        /\ \A k \in Kept : tracker'.states[k] = tracker.states[k]
        /\ tracker'.states[key].parts = {p.idx} /\ fired' = fired
        /\ IsSYN(method) => p.idx = 0
    BY <1>0, <1>7, Zenon DEF Adds, Holds
  <2>2. p.idx \in Marked => SpentPart(id, p.idx)'
    BY <1>1, <1>7, Zenon DEF Takes
  <2>3. IsSYN(method) => fired[id] = 0 /\ \A k \in DOMAIN tracker.states : IDOf(k) # id
    <3>1. IsSYN(method) => p.idx \in Marked
      BY <2>1, Zenon DEF Marked
    <3> QED
      BY <1>0, <1>7, <3>1, FiresFirst, Zenon DEF Takes
  <2> QED
    BY <1>2, <1>4, <2>1, <2>2, <2>3, Zenon DEF SpentInv
<1>8. CASE Takes(p) /\ Grows(p, s)
  <2>1. /\ DOMAIN tracker'.states = Kept /\ key \in Kept
        /\ \A k \in Kept \ {key} : tracker'.states[k] = tracker.states[k]
        /\ tracker'.states[key].parts = tracker.states[key].parts \cup {p.idx} /\ fired' = fired
    BY <1>0, <1>8, Zenon DEF Grows, Holds
  <2>2. p.idx \in Marked => SpentPart(id, p.idx)'
    BY <1>1, <1>8, Zenon DEF Takes
  <2> QED
    BY <1>2, <1>4, <2>1, <2>2, Zenon DEF SpentInv
<1>9. ASSUME Fire(p), fired[id] = 0, id \in KnockIDs, \A i \in Marked : SpentPart(id, i)'
      PROVE  /\ \A x \in KnockIDs :
                  fired'[x] <= 1 /\ (fired'[x] = 1 => \A i \in Marked : SpentPart(x, i)')
             /\ \A x \in KnockIDs \ {id} : fired'[x] = fired[x]
  <2>1. fired' = [fired EXCEPT ![id] = @ + 1] /\ fired \in [KnockIDs -> Nat]
    BY <1>0, <1>9, Zenon DEF Fire, ListenerType
  <2>2. fired'[id] = 1 /\ \A x \in KnockIDs \ {id} : fired'[x] = fired[x]
    BY <1>9, <2>1
  <2> QED
    BY <1>4, <1>9, <2>2 DEF SpentInv
<1>10. \A k \in DOMAIN tracker.states : IDOf(k) \in KnockIDs
  BY Zenon DEF ListenerType, Keys, IDOf, KnockIDs
<1>11. CASE Takes(p) /\ Completes(p, s)
  <2>1. /\ DOMAIN tracker'.states = Kept \ {key} /\ key \in Kept /\ Fire(p)
        /\ \A k \in Kept \ {key} : tracker'.states[k] = tracker.states[k]
        /\ tracker.states[key].parts \cup {p.idx} = PartsOf(method)
    BY <1>0, <1>11, Zenon DEF Completes, Holds
  <2>2. p.idx \in Marked => SpentPart(id, p.idx)'
    BY <1>1, <1>11, Zenon DEF Takes
  <2>3. fired[id] = 0 /\ id \in KnockIDs
    <3>1. CASE IsSYN(method)
      BY <1>2, <1>10, <2>1, <3>1, Zenon DEF SpentInv
    <3>2. CASE ~IsSYN(method)
      <4>1. p.idx \in Marked
        BY <3>2, PacketFields, Zenon DEF Marked
      <4> QED
        BY <1>0, <1>11, <4>1, FiresFirst, Zenon DEF Takes
    <3> QED
      BY <3>1, <3>2, Zenon
  <2>4. Marked \subseteq PartsOf(method)
    BY Numbers DEF Marked, PartsOf
  <2>5. \A i \in Marked : SpentPart(id, i)'
    BY <1>2, <1>4, <2>1, <2>2, <2>4, Zenon
  <2>6. IsSYN(method) => \A k \in Kept \ {key} : IDOf(k) # id
    BY <1>2, <2>1, Zenon DEF SpentInv
  <2>7. /\ \A x \in KnockIDs :
             fired'[x] <= 1 /\ (fired'[x] = 1 => \A i \in Marked : SpentPart(x, i)')
        /\ \A x \in KnockIDs \ {id} : fired'[x] = fired[x]
    BY <1>9, <2>1, <2>3, <2>5, Zenon
  <2> QED
    BY <1>2, <1>4, <1>10, <2>1, <2>6, <2>7, Zenon DEF SpentInv
<1>12. CASE /\ ~IsSequence(method) /\ UNCHANGED tracker
            /\ Accepted(p) /\ ~Replayed(p) /\ Mark(p) /\ Fire(p)
  <2>1. Marked = {0} /\ p.idx = 0
    BY <1>12, PacketFields, Zenon DEF Marked, PartsOf
  <2>2. fired[id] = 0 /\ id \in KnockIDs
        /\ (IsSYN(method) => \A k \in DOMAIN tracker.states : IDOf(k) # id)
    BY <1>0, <1>12, <2>1, FiresFirst, Zenon
  <2>3. \A i \in Marked : SpentPart(id, i)'
    BY <1>1, <1>12, <2>1, Zenon
  <2>4. /\ \A x \in KnockIDs :
             fired'[x] <= 1 /\ (fired'[x] = 1 => \A i \in Marked : SpentPart(x, i)')
        /\ \A x \in KnockIDs \ {id} : fired'[x] = fired[x]
    BY <1>9, <1>12, <2>2, <2>3, Zenon
  <2> QED
    BY <1>4, <1>10, <1>12, <2>2, <2>4, Zenon DEF SpentInv
<1> QED
  BY <1>5, <1>6, <1>7, <1>8, <1>11, <1>12, Zenon DEF Outcome

\* What a packet does to the record of arrivals: a later arrival replaces an
\* earlier one, and a part that is taken has arrived now.
LEMMA ReceiveArrives ==
  ASSUME SenderInv, ListenerType, NEW p \in net, NEW s \in Sources, Receive(p, s)
  PROVE  /\ \A a \in DOMAIN arrived : a \in DOMAIN arrived' /\ arrived'[a] >= arrived[a]
         /\ \A a \in DOMAIN arrived : arrived[a] \in Nat /\ arrived'[a] \in Nat
         /\ Takes(p) => <<p, s>> \in DOMAIN arrived' /\ arrived'[<<p, s>>] = now
<1>1. now \in Nat
  BY Numbers DEF SenderInv
<1>2. \A a \in DOMAIN arrived : arrived[a] \in Nat /\ arrived[a] <= now
  BY Zenon DEF ListenerType
<1>3. Takes(p) => Counts(p)
  <2>1. CASE IsSYN(method)
    BY <2>1, Zenon DEF Takes, Counts, Accepted, Current, VerifySYNSeqPart
  <2>2. CASE ~IsSYN(method)
    BY <2>2, PacketFields, Zenon DEF Takes, Counts, Accepted, Marked
  <2> QED
    BY <2>1, <2>2, Zenon
<1>4. CASE Counts(p)
  <2>1. arrived' = Put(arrived, <<p, s>>, now)
    BY <1>4, Zenon DEF Receive
  <2> QED
    BY <1>1, <1>2, <2>1 DEF Put
<1>5. CASE ~Counts(p)
  BY <1>2, <1>3, <1>5 DEF Receive
<1> QED
  BY <1>4, <1>5, Zenon

\* A received packet keeps CameInv.
LEMMA ReceiveCame ==
  ASSUME SenderInv, ListenerType, CameInv, NEW p \in net, NEW s \in Sources,
         Receive(p, s), Outcome(p, s)
  PROVE  CameInv'
<1>0. PICK id, key : id = KnockID(p) /\ key = KeyOf(p, s)
  BY Zenon
<1>1. UNCHANGED <<method, now, net>> /\ \A q : KnockID(q)' = KnockID(q)
  BY ReceiveSpends, Zenon
<1>2. IDOf(key) = id /\ key[1] = s /\ Kept \subseteq DOMAIN tracker.states
  BY <1>0, KeyFacts, Zenon DEF Kept
<1>3. /\ \A a \in DOMAIN arrived : a \in DOMAIN arrived' /\ arrived'[a] >= arrived[a]
      /\ \A a \in DOMAIN arrived : arrived[a] \in Nat /\ arrived'[a] \in Nat
      /\ Takes(p) => <<p, s>> \in DOMAIN arrived' /\ arrived'[<<p, s>>] = now
  BY ReceiveArrives, Zenon
<1>4. /\ \A k \in DOMAIN tracker.states :
           tracker.states[k].first \in Nat /\ tracker.states[k].first <= now
      /\ now \in Nat
  BY Numbers DEF ListenerType, States, SenderInv
<1>5. ASSUME NEW k \in DOMAIN tracker.states, NEW i, Came(k, i),
             tracker'.states[k].first = tracker.states[k].first
      PROVE  Came(k, i)'
  <2>1. PICK q \in net : /\ KnockID(q) = IDOf(k) /\ q.idx = i
                        /\ <<q, k[1]>> \in DOMAIN arrived
                        /\ arrived[<<q, k[1]>>] >= tracker.states[k].first
    BY <1>5, Zenon DEF Came
  <2>2. <<q, k[1]>> \in DOMAIN arrived' /\ arrived'[<<q, k[1]>>] >= tracker'.states[k].first
    BY <1>3, <1>4, <1>5, <2>1
  <2> QED
    BY <1>1, <2>1, <2>2, Zenon DEF Came
<1>6. ASSUME Takes(p), tracker'.states[key].first \in Nat, tracker'.states[key].first <= now
      PROVE  Came(key, p.idx)'
  <2>1. <<p, key[1]>> \in DOMAIN arrived' /\ arrived'[<<p, key[1]>>] >= tracker'.states[key].first
    BY <1>2, <1>3, <1>4, <1>6, Zenon
  <2> QED
    BY <1>0, <1>1, <1>2, <2>1, Zenon DEF Came
<1>7. SUFFICES ASSUME NEW k \in DOMAIN tracker'.states,
                      now - tracker'.states[k].first <= SeqWindow,
                      NEW i \in tracker'.states[k].parts
               PROVE  Came(k, i)'
  BY <1>1, Zenon DEF CameInv
<1>8. ASSUME k \in DOMAIN tracker.states, tracker'.states[k].first = tracker.states[k].first,
             i \in tracker.states[k].parts
      PROVE  Came(k, i)'
  BY <1>5, <1>7, <1>8, Zenon DEF CameInv
<1>9. CASE UNCHANGED tracker
  BY <1>7, <1>8, <1>9, Zenon
<1>10. CASE Drops
  BY <1>2, <1>7, <1>8, <1>10, Zenon DEF Drops, Holds
<1>11. CASE Takes(p) /\ Adds(p, s)
  <2>1. /\ DOMAIN tracker'.states = Kept \cup {key}
        /\ \A j \in Kept : tracker'.states[j] = tracker.states[j]
        /\ tracker'.states[key].parts = {p.idx} /\ tracker'.states[key].first = now
    BY <1>0, <1>11, Zenon DEF Adds, Holds
  <2>2. CASE k = key
    BY <1>4, <1>6, <1>7, <1>11, <2>1, <2>2
  <2>3. CASE k # key
    BY <1>2, <1>7, <1>8, <2>1, <2>3, Zenon
  <2> QED
    BY <2>2, <2>3, Zenon
<1>12. CASE Takes(p) /\ Grows(p, s)
  <2>1. /\ DOMAIN tracker'.states = Kept /\ key \in Kept
        /\ \A j \in Kept \ {key} : tracker'.states[j] = tracker.states[j]
        /\ tracker'.states[key].parts = tracker.states[key].parts \cup {p.idx}
        /\ tracker'.states[key].first = tracker.states[key].first
    BY <1>0, <1>12, Zenon DEF Grows, Holds
  <2>2. CASE k = key /\ i = p.idx
    BY <1>2, <1>4, <1>6, <1>12, <2>1, <2>2, Zenon
  <2>3. CASE ~(k = key /\ i = p.idx)
    BY <1>2, <1>7, <1>8, <2>1, <2>3, Zenon
  <2> QED
    BY <2>2, <2>3, Zenon
<1>13. CASE Completes(p, s)
  <2>1. /\ DOMAIN tracker'.states = Kept \ {key}
        /\ \A j \in Kept \ {key} : tracker'.states[j] = tracker.states[j]
    BY <1>0, <1>13, Zenon DEF Completes, Holds
  <2> QED
    BY <1>2, <1>7, <1>8, <2>1, Zenon
<1> QED
  BY <1>9, <1>10, <1>11, <1>12, <1>13, Zenon DEF Outcome
-----------------------------------------------------------------------------
(* The inductive invariant. *)

\* Nonces and arrivals are kept by a step in which the listener does nothing.
LEMMA IdleStep ==
  ASSUME ListenerInv, SenderInv', net \subseteq net',
         UNCHANGED <<method, tracker, completed, fired>>,
         \A q \in net : Spent(q) => Spent(q)',
         replay' \in [DOMAIN replay' -> Nat], arrived' \in [DOMAIN arrived' -> Nat],
         now <= now',
         \A a \in DOMAIN arrived' : a \in DOMAIN arrived /\ arrived'[a] = arrived[a],
         \A a \in DOMAIN arrived : now' - arrived[a] <= SeqWindow => a \in DOMAIN arrived'
  PROVE  ListenerType' /\ SpentInv' /\ CameInv' /\ CountInv'
<1>0. now \in Nat /\ now' \in Nat /\ SeqWindow \in Nat
  BY Numbers DEF ListenerInv, SenderInv
<1>1. Marked' = Marked /\ States' = States /\ IsSYN(method)' = IsSYN(method)
      /\ \A q : KnockID(q)' = KnockID(q) /\ (Current(q)' <=> Current(q))
  BY Zenon DEF Marked, States, PartsOf, IsSYN, IsSequence, KnockID, Current
<1>2. /\ \A k \in DOMAIN tracker.states :
           tracker.states[k] \in States /\ tracker.states[k].first \in Nat
           /\ tracker.states[k].first <= now
      /\ \A a \in DOMAIN arrived : arrived[a] \in Nat /\ arrived[a] <= now
  BY Zenon DEF ListenerInv, ListenerType, States
<1>3. ListenerType'
  <2>1. \A a \in DOMAIN arrived' : arrived'[a] <= now'
    BY <1>0, <1>2
  <2>2. \A k \in DOMAIN tracker.states : tracker.states[k].first <= now'
    BY <1>0, <1>2
  <2> QED
    BY <1>1, <1>2, <2>1, <2>2, Zenon DEF ListenerInv, ListenerType
<1>4. ASSUME NEW id, NEW i, SpentPart(id, i)
      PROVE  SpentPart(id, i)'
  BY <1>1, <1>4, Zenon DEF SpentPart
<1>5. SpentInv'
  BY <1>1, <1>4, Zenon DEF ListenerInv, SpentInv
<1>6. ASSUME NEW k \in DOMAIN tracker.states, now' - tracker.states[k].first <= SeqWindow,
             NEW i \in tracker.states[k].parts
      PROVE  Came(k, i)'
  <2>1. now - tracker.states[k].first <= SeqWindow
    BY <1>0, <1>2, <1>6
  <2>2. PICK q \in net : /\ KnockID(q) = IDOf(k) /\ q.idx = i
                        /\ <<q, k[1]>> \in DOMAIN arrived
                        /\ arrived[<<q, k[1]>>] >= tracker.states[k].first
    BY <1>6, <2>1, Zenon DEF ListenerInv, CameInv, Came
  <2>3. <<q, k[1]>> \in DOMAIN arrived' /\ arrived'[<<q, k[1]>>] = arrived[<<q, k[1]>>]
    BY <1>0, <1>2, <1>6, <2>2
  <2> QED
    BY <1>1, <2>2, <2>3, Zenon DEF Came
<1>7. CameInv'
  BY <1>6, Zenon DEF CameInv
<1>8. CountInv'
  BY Zenon DEF ListenerInv, CountInv, Exact, Bounded
<1> QED
  BY <1>3, <1>5, <1>7, <1>8, Zenon

\* A new listener, with no packet sent, satisfies the invariant.
LEMMA ListenerInvInit == ListenerInit => ListenerInv
<1> SUFFICES ASSUME ListenerInit PROVE ListenerInv
  BY Zenon
<1>1. SenderInv /\ OnePacket
  <2>1. method \in Methods /\ skew \in 0..MaxSkew /\ now \in 0..MaxTime /\ net = {}
    BY Numbers DEF ListenerInit
  <2>2. begun \in [1..0 -> KnockRecords] /\ 0 \in 0..MaxSends
    BY Numbers DEF ListenerInit, Empty
  <2> QED
    BY <2>1, <2>2, Zenon DEF SenderInv, OnePacket
<1>2. DOMAIN tracker.states = {} /\ tracker.total = 0 /\ DOMAIN tracker.perIP = Sources
      /\ DOMAIN completed = {} /\ \A s \in Sources : tracker.perIP[s] = 0
  BY Zenon DEF ListenerInit, Empty
<1>3. ListenerType /\ SpentInv /\ CameInv
  <2>1. SpentInv /\ CameInv
    <3>1. \A id \in KnockIDs : fired[id] = 0
      BY Zenon DEF ListenerInit
    <3>2. \A id \in KnockIDs : fired[id] <= 1 /\ fired[id] # 1
      BY <3>1
    <3> QED
      BY <1>2, <3>2, Zenon DEF SpentInv, CameInv
  <2>2. now = 0 /\ replay = Empty /\ arrived = Empty /\ completed = Empty
        /\ fired = [i \in KnockIDs |-> 0]
    BY Zenon DEF ListenerInit
  <2>3. Empty \in [DOMAIN Empty -> Nat] /\ DOMAIN Empty = {} /\ fired \in [KnockIDs -> Nat]
    BY <2>2 DEF Empty
  <2> QED
    BY <1>2, <2>1, <2>2, <2>3, Zenon DEF ListenerInit, ListenerType
<1>4. CountInv
  <2>1. IsFiniteSet({}) /\ Cardinality({}) = 0
    BY FS_EmptySet, Zenon
  <2>2. \A s \in Sources : {k \in DOMAIN tracker.states : k[1] = s} = {}
    BY <1>2, Zenon
  <2> QED
    BY <1>2, <2>1, <2>2, Numbers DEF CountInv, Exact, Bounded
<1> QED
  BY <1>1, <1>3, <1>4, Zenon DEF ListenerInv

\* Every step of the senders, the listener and the clock keeps the invariant.
LEMMA ListenerInvStep ==
  ASSUME ~AllowLegacySYNSeq, ListenerInv, [ListenerNext]_listenerVars
  PROVE  ListenerInv'
<1>1. (SenderInv /\ OnePacket)' /\ net \subseteq net' /\ method' = method
  BY SenderStep, Zenon DEF ListenerInv
<1>2. SUFFICES ListenerType' /\ SpentInv' /\ CameInv' /\ CountInv'
  BY <1>1, Zenon DEF ListenerInv
<1>3. SenderInv /\ ListenerType
      /\ replay \in [DOMAIN replay -> Nat] /\ arrived \in [DOMAIN arrived -> Nat]
  BY Zenon DEF ListenerInv, ListenerType
<1>4. ASSUME UNCHANGED <<now, replay, tracker, completed, fired, arrived>>
      PROVE  ListenerType' /\ SpentInv' /\ CameInv' /\ CountInv'
  <2>1. \A q \in net : Spent(q) => Spent(q)'
    BY <1>1, <1>4, Zenon DEF Spent, Late, SlotFor, IsSYN
  <2>2. now <= now'
    BY <1>3, <1>4, Numbers DEF SenderInv
  <2> QED
    BY <1>1, <1>3, <1>4, <2>1, <2>2, IdleStep, Zenon
<1>5. CASE Tick
  <2>1. \A q \in net : Spent(q) => Spent(q)'
    BY <1>3, <1>5, TickSpends, Zenon
  <2>2. now \in Nat
    BY <1>3, Numbers DEF SenderInv
  <2>3. now <= now' /\ UNCHANGED <<tracker, completed, fired>>
    BY <1>5, <2>2 DEF Tick
  <2>4. replay' \in [DOMAIN replay' -> Nat]
    BY <1>3, <1>5, Zenon DEF Tick, Restrict
  <2>5. /\ arrived' \in [DOMAIN arrived' -> Nat]
        /\ \A a \in DOMAIN arrived' : a \in DOMAIN arrived /\ arrived'[a] = arrived[a]
        /\ \A a \in DOMAIN arrived : now' - arrived[a] <= SeqWindow => a \in DOMAIN arrived'
    BY <1>3, <1>5, Zenon DEF Tick, Restrict
  <2> QED
    BY <1>1, <2>1, <2>3, <2>4, <2>5, IdleStep, Zenon
<1>6. CASE \E r \in Requests : SendMethod(r)
  BY <1>4, <1>6, Zenon DEF SendMethod, Sent
<1>7. CASE \E n \in DOMAIN begun : SendPart(n)
  BY <1>4, <1>7, Zenon DEF SendPart, Sent
<1>8. ASSUME NEW p \in net, NEW s \in Sources, Received(p, s)
      PROVE  ListenerType' /\ SpentInv' /\ CameInv' /\ CountInv'
  <2>1. Outcome(p, s) /\ CountInv' /\ Receive(p, s)
    BY <1>8, ReceivedOutcome, Zenon DEF ListenerInv
  <2> QED
    BY <1>3, <2>1, ReceiveType, ReceiveSpentInv, ReceiveCame, Zenon DEF ListenerInv
<1>9. CASE UNCHANGED listenerVars
  BY <1>4, <1>9, Zenon DEF listenerVars
<1> QED
  BY <1>5, <1>6, <1>7, <1>8, <1>9, Zenon DEF ListenerNext, Received

\* Everything the listener's properties rest on holds in every reachable state of
\* a listener that takes one form of the SYN sequence, the default.
THEOREM ListenerInvariance == ASSUME ~AllowLegacySYNSeq PROVE ListenerSpec => []ListenerInv
<1>1. ListenerInv /\ [ListenerNext]_listenerVars => ListenerInv'
  BY ListenerInvStep, Zenon
<1> QED
  BY <1>1, ListenerInvInit, PTL DEF ListenerSpec

\* The in-flight counters of both sequence trackers are exact and within their
\* limits, and the list of completed sequences never outgrows its own: for any
\* clients, sources, lengths, windows and limits, without AllowLegacySYNSeq.
THEOREM InflightAlwaysExact == ASSUME ~AllowLegacySYNSeq PROVE ListenerSpec => []InflightExact
<1>1. ListenerInv => InflightExact
  BY Zenon DEF ListenerInv, CountInv, Exact, Bounded, InflightExact
<1> QED
  BY <1>1, ListenerInvariance, PTL

\* No knock calls the handler twice, whatever the network does to its packets and
\* however the clocks differ, with every method, window and cache lifetime and
\* without AllowLegacySYNSeq.
THEOREM HandlerFiresOnce == ASSUME ~AllowLegacySYNSeq PROVE ListenerSpec => []FiresOnce
<1>1. ListenerInv => FiresOnce
  BY Zenon DEF ListenerInv, SpentInv, FiresOnce
<1> QED
  BY <1>1, ListenerInvariance, PTL

\* Only a received packet calls the handler or changes the tracker.
LEMMA QuietUnlessReceived ==
  ASSUME [ListenerNext]_listenerVars, \A p \in net, s \in Sources : ~Received(p, s)
  PROVE  UNCHANGED <<tracker, fired>>
<1>1. CASE Tick
  BY <1>1, Zenon DEF Tick
<1>2. CASE \E r \in Requests : SendMethod(r)
  BY <1>2, Zenon DEF SendMethod, Sent
<1>3. CASE \E n \in DOMAIN begun : SendPart(n)
  BY <1>3, Zenon DEF SendPart, Sent
<1>4. CASE UNCHANGED listenerVars
  BY <1>4, Zenon DEF listenerVars
<1> QED
  BY <1>1, <1>2, <1>3, <1>4, Zenon DEF ListenerNext, Received

\* docs/knock-methods.md's promise: a sequence completes only after every part of
\* it came, from one source and within SeqWindow, for any Length and window,
\* without AllowLegacySYNSeq.
THEOREM CompletionNeedsAllParts ==
  ASSUME ~AllowLegacySYNSeq PROVE ListenerSpec => CompleteNeedsAllParts
<1> DEFINE Arrives(p) ==
             \E s \in Sources : \A i \in PartsOf(method) : \E q \in net :
               /\ KnockID(q) = KnockID(p) /\ q.client = p.client /\ q.idx = i
               /\ <<q, s>> \in DOMAIN arrived' /\ now - arrived'[<<q, s>>] <= SeqWindow
           Step == \A p \in net :
                     (IsSequence(method) /\ p.client \in Clients
                      /\ fired'[KnockID(p)] > fired[KnockID(p)]) => Arrives(p)
<1>1. ASSUME ListenerInv, [ListenerNext]_listenerVars
      PROVE  Step
  <2> SUFFICES ASSUME NEW p \in net, IsSequence(method), p.client \in Clients,
                      fired'[KnockID(p)] > fired[KnockID(p)]
               PROVE  Arrives(p)
    BY Zenon
  <2>0. SenderInv /\ ListenerType /\ OnePacket /\ SpentInv /\ CountInv /\ CameInv
    BY <1>1, Zenon DEF ListenerInv
  <2>1. KnockID(p) \in KnockIDs /\ fired \in [KnockIDs -> Nat]
    BY <2>0, KnockIDType, Zenon DEF ListenerType
  <2>2. fired' # fired
    BY <2>1
  <2>3. PICK r \in net, s \in Sources : Received(r, s)
    BY <1>1, <2>2, QuietUnlessReceived, Zenon
  <2>4. Outcome(r, s) /\ Receive(r, s)
    BY <2>0, <2>3, ReceivedOutcome, Zenon
  <2>5. Takes(r) /\ Completes(r, s)
    BY <2>2, <2>4, Zenon DEF Outcome, Drops, Adds, Grows
  <2>6. KnockID(r) = KnockID(p)
    <3>1. fired' = [fired EXCEPT ![KnockID(r)] = @ + 1]
      BY <2>5, Zenon DEF Completes, Fire
    <3>2. KnockID(r) # KnockID(p) => fired'[KnockID(p)] = fired[KnockID(p)]
      BY <2>1, <3>1, Zenon
    <3>3. fired[KnockID(p)] \in Nat
      BY <2>1, Zenon
    <3> QED
      BY <3>2, <3>3
  <2>7. PICK key : key = KeyOf(r, s)
    BY Zenon
  <2>8. /\ IDOf(key) = KnockID(p) /\ key[1] = s
        /\ key \in DOMAIN tracker.states /\ now - tracker.states[key].first <= SeqWindow
        /\ tracker.states[key].parts \cup {r.idx} = PartsOf(method)
    BY <2>0, <2>5, <2>6, <2>7, KeyFacts, Zenon DEF Completes, Kept
  <2>9. tracker.states[key].first \in Nat /\ now \in Nat /\ SeqWindow \in Nat
    BY <2>0, <2>8, Numbers DEF ListenerType, States, SenderInv
  <2>10. \A q \in net : KnockID(q) = KnockID(p) => q.client = p.client
    BY Zenon DEF KnockID
  <2>11. ASSUME NEW i \in PartsOf(method)
         PROVE  \E q \in net : /\ KnockID(q) = KnockID(p) /\ q.client = p.client /\ q.idx = i
                               /\ <<q, s>> \in DOMAIN arrived'
                               /\ now - arrived'[<<q, s>>] <= SeqWindow
    <3>1. CASE i = r.idx
      <4>1. <<r, s>> \in DOMAIN arrived' /\ arrived'[<<r, s>>] = now
        BY <2>0, <2>4, <2>5, ReceiveArrives, Zenon
      <4>2. now - arrived'[<<r, s>>] <= SeqWindow
        BY <2>9, <4>1
      <4>3. KnockID(r) = KnockID(p) /\ r.client = p.client /\ r.idx = i
        BY <2>6, <2>10, <3>1, Zenon
      <4> QED
        BY <4>1, <4>2, <4>3, Zenon
    <3>2. CASE i \in tracker.states[key].parts
      <4>1. PICK q \in net : /\ KnockID(q) = IDOf(key) /\ q.idx = i
                            /\ <<q, key[1]>> \in DOMAIN arrived
                            /\ arrived[<<q, key[1]>>] >= tracker.states[key].first
        BY <2>0, <2>8, <3>2, Zenon DEF CameInv, Came
      <4>2. <<q, s>> \in DOMAIN arrived' /\ arrived'[<<q, s>>] >= arrived[<<q, s>>]
            /\ arrived'[<<q, s>>] \in Nat /\ arrived[<<q, s>>] \in Nat
        BY <2>0, <2>4, <2>8, <4>1, ReceiveArrives, Zenon
      <4>3. now - arrived'[<<q, s>>] <= SeqWindow
        BY <2>8, <2>9, <4>1, <4>2
      <4>4. KnockID(q) = KnockID(p) /\ q.client = p.client /\ q.idx = i
        BY <2>8, <2>10, <4>1, Zenon
      <4> QED
        BY <4>2, <4>3, <4>4, Zenon
    <3> QED
      BY <2>8, <3>1, <3>2, Zenon
  <2> QED
    BY <2>11, Zenon
<1>2. ListenerInv /\ [ListenerNext]_listenerVars => [Step]_listenerVars
  BY <1>1, Zenon
<1> QED
  BY <1>2, ListenerInvariance, PTL DEF ListenerSpec, CompleteNeedsAllParts

\* A sequence within its window is never dropped, restarted or set back: neither
\* by other sources nor by copies of its own parts, for any limits, without
\* AllowLegacySYNSeq.
THEOREM SequencesAreKept == ASSUME ~AllowLegacySYNSeq PROVE ListenerSpec => InflightKept
<1> DEFINE Step ==
      \A k \in DOMAIN tracker.states : now - tracker.states[k].first <= SeqWindow =>
        \/ /\ k \in DOMAIN tracker'.states
           /\ tracker.states[k].parts \subseteq tracker'.states[k].parts
           /\ tracker.states[k].first = tracker'.states[k].first
        \/ fired'[<<k[2], k[3]>>] > fired[<<k[2], k[3]>>]
<1>1. ASSUME ListenerInv, [ListenerNext]_listenerVars
      PROVE  Step
  <2>0. SenderInv /\ ListenerType /\ OnePacket /\ SpentInv /\ CountInv /\ CameInv
    BY <1>1, Zenon DEF ListenerInv
  <2>1. CASE \A p \in net, s \in Sources : ~Received(p, s)
    BY <1>1, <2>1, QuietUnlessReceived, Zenon
  <2>2. ASSUME NEW p \in net, NEW s \in Sources, Received(p, s)
        PROVE  Step
    <3>1. Outcome(p, s)
      BY <2>0, <2>2, ReceivedOutcome, Zenon
    <3>2. PICK key : key = KeyOf(p, s)
      BY Zenon
    <3>3. ASSUME Fire(p), KnockID(p) \in KnockIDs
          PROVE  fired'[<<key[2], key[3]>>] > fired[<<key[2], key[3]>>]
      <4>1. fired \in [KnockIDs -> Nat] /\ fired[KnockID(p)] \in Nat
        BY <2>0, <3>3, Zenon DEF ListenerType
      <4>2. fired'[KnockID(p)] = fired[KnockID(p)] + 1
        BY <3>3, <4>1, Zenon DEF Fire
      <4>3. <<key[2], key[3]>> = KnockID(p)
        BY <2>0, <3>2, KeyFacts, Zenon DEF IDOf
      <4>4. fired'[KnockID(p)] > fired[KnockID(p)]
        BY <4>1, <4>2
      <4> QED
        BY <4>3, <4>4, Zenon
    <3>4. CASE UNCHANGED tracker
      BY <3>4, Zenon
    <3>5. CASE Drops
      BY <3>5, Zenon DEF Drops, Holds, Kept
    <3>6. CASE Adds(p, s)
      BY <3>6, Zenon DEF Adds, Holds, Kept
    <3>7. CASE Grows(p, s)
      <4>1. /\ DOMAIN tracker'.states = Kept /\ key \in Kept
            /\ \A j \in Kept \ {key} : tracker'.states[j] = tracker.states[j]
            /\ tracker'.states[key].parts = tracker.states[key].parts \cup {p.idx}
            /\ tracker'.states[key].first = tracker.states[key].first
        BY <3>2, <3>7, Zenon DEF Grows, Holds
      <4> QED
        BY <4>1, Zenon DEF Kept
    <3>8. CASE Takes(p) /\ Completes(p, s)
      <4>1. KnockID(p) \in KnockIDs
        BY <2>0, <3>8, AcceptedSpan, KnockIDType, Zenon DEF Takes
      <4>2. \A j \in Kept \ {key} : j \in DOMAIN tracker'.states
                                    /\ tracker'.states[j] = tracker.states[j]
        BY <3>2, <3>8, Zenon DEF Completes, Holds
      <4> QED
        BY <3>3, <3>8, <4>1, <4>2, Zenon DEF Completes, Kept
    <3> QED
      BY <3>1, <3>4, <3>5, <3>6, <3>7, <3>8, Zenon DEF Outcome
  <2> QED
    BY <2>1, <2>2, Zenon
<1>2. ListenerInv /\ [ListenerNext]_listenerVars => [Step]_listenerVars
  BY <1>1, Zenon
<1> QED
  BY <1>2, ListenerInvariance, PTL DEF ListenerSpec, InflightKept
=============================================================================
