--------------------------- MODULE FirewallProofs ---------------------------
(***************************************************************************)
(* The firewall backends, for every configuration, any clients, and any    *)
(* starts, crashes and failing commands, together at most                  *)
(* MaxCleanupDeletes (FirewallAssumption).                                 *)
(*                                                                         *)
(* First what Init and Cleanup of every backend contain, and what a        *)
(* command does to the packet filter and leaves alone (DoneFrame).  A step *)
(* of a goroutine is the command at the head of its program: LifeMove for  *)
(* Init and Cleanup, RunMove for Allow and Revoke.  The invariant says how *)
(* far a Cleanup has come (CleanupInv), which needs that its loops never   *)
(* stop with a rule left (BoundInv) and that Allow and Revoke put nothing  *)
(* into a filter that is gone (KernelInv).                                 *)
(***************************************************************************)
EXTENDS FirewallBackend, TLAPS

\* The kinds, rules, arguments and names a command may have, and what a packet
\* filter looks like.
Kinds == {"must", "try", "quiet", "loop", "unless", "bail"}
Rules == Remotes \cup {"established", "set", "drop"}
Args == Rules \cup {"none", "jump"}
Dos == {"none", "-N", "-F", "-X", "-A", "-C_INPUT", "-I_INPUT", "-D_INPUT", "-C", "-I", "-D",
        "create", "flush", "destroy", "add", "del", "table", "delete_table", "script"}
Commands == [kind : Kinds, do : Dos, fam : Families, arg : Args, undo : BOOLEAN]
Kernels ==
  [chain : [Families -> Seq(Rules) \cup {Absent}],
   input : [Families -> [jump : Nat, drop : Nat]],
   made : [Families -> BOOLEAN], member : [Remotes -> Nat]]

\* The backends that run iptables, and the commands of their Init and Cleanup.
Iptables == {"iptables", "ipset-iptables"}
RuleDos == {"none", "-N", "-F", "-X", "-A", "-C_INPUT", "-I_INPUT", "-D_INPUT"}

\* The commands the backend's Init and Cleanup run.
LifeDos ==
  CASE cfg.backend = "nftables" -> {"none", "delete_table", "table"}
    [] cfg.backend = "iptables" -> RuleDos
    [] cfg.backend = "ipset-iptables" -> RuleDos \cup {"create", "flush", "destroy"}
    [] OTHER -> {"script"}

\* A lifecycle command has the kind the code gives it: only a check may be followed by
\* an optional insertion, only a deletion loops, and nothing but a jump to the chain or
\* the configured drop of UDP packets is put into INPUT.
Suits(c) ==
  /\ (c.kind = "bail") = (c.do = "none")
  /\ (c.kind = "loop") = (c.do = "-D_INPUT")
  /\ (c.kind = "unless") = (c.do = "-C_INPUT")
  /\ c.do \in {"-X", "flush", "destroy", "delete_table"} => c.kind = "quiet"
  /\ c.do \in {"-A", "-I_INPUT", "create", "table"} => c.kind = "must"
  /\ c.do \in {"-C_INPUT", "-I_INPUT", "-D_INPUT"} =>
       c.arg = "jump" \/ (c.arg = "drop" /\ cfg.drop)
  /\ c.do = "-A" => c.arg \in {"established", "set", "drop"}
  /\ c.do \in {"table", "delete_table"} => c.fam = 4

\* The commands of Init and Cleanup, and of Cleanup alone.
LifeCmds == {c \in Commands : Suits(c) /\ c.do \in LifeDos
                              /\ (c.fam \in Managed \/ c.do = "script")}
CleanupCmds == {c \in LifeCmds : c.do \in {"-D_INPUT", "-F", "-X", "flush", "destroy",
                                           "delete_table", "script"}}

\* Command c does this; the program has such a command, after place i or at all.
Names(c, do, f, a) == c.do = do /\ c.fam = f /\ c.arg = a
HasAfter(q, i, do, f, a) == \E j \in (i + 1)..Len(q) : Names(q[j], do, f, a)
Has(q, do, f, a) == HasAfter(q, 0, do, f, a)

\* In a program, a check of INPUT stands right before the insertion it decides about,
\* and an insertion right after its check.
Paired(q) ==
  /\ \A i \in 1..Len(q) : q[i].do = "-C_INPUT" =>
       i < Len(q) /\ Names(q[i + 1], "-I_INPUT", q[i].fam, q[i].arg)
  /\ \A i \in 2..Len(q) : q[i].do = "-I_INPUT" =>
       Names(q[i - 1], "-C_INPUT", q[i].fam, q[i].arg)

\* What Init removes it puts back later: a rule of INPUT, the drop at the end of the
\* chain, the nftables table.
Ordered(q) ==
  \A i \in 1..Len(q) :
    /\ q[i].do = "-D_INPUT" => HasAfter(q, i, "-I_INPUT", q[i].fam, q[i].arg)
    /\ q[i].do \in {"-F", "-X"} => HasAfter(q, i, "-A", q[i].fam, "drop")
    /\ q[i].do = "delete_table" => HasAfter(q, i, "table", 4, "none")

\* A backend call of one of the goroutines.
Ops == {"none", "init", "cleanup", "allow", "revoke"}
Calls == [op : Ops, remote : Remotes \cup {"none"}, todo : Seq(Commands),
          err : BOOLEAN, n : Nat, since : BOOLEAN]

\* Types, and bounds of the counters.
TypeInv ==
  /\ now \in Nat /\ now > 0 /\ kernel \in Kernels /\ cfg \in Configs
  /\ phase \in {"down", "init", "serving", "cleanup"} /\ calls \in [Procs -> Calls]
  /\ starts \in 0..MaxStarts /\ faults \in 0..MaxFaults
  /\ granted \subseteq Remotes /\ doubtful \subseteq Remotes /\ clean \in BOOLEAN

\* The lifecycle goroutine: which call it is in, what is left of its program, and that a
\* Cleanup runs cleanup commands only.
LifeInv ==
  LET c == calls["life"]
  IN  /\ c.op \in {"none", "init", "cleanup"}
      /\ (c.op = "init") = (phase = "init") /\ (c.op = "cleanup") = (phase = "cleanup")
      /\ c.op = "none" => c.todo = <<>>
      /\ c.todo \in Seq(LifeCmds) /\ Paired(c.todo)
      /\ c.op = "cleanup" => c.todo \in Seq(CleanupCmds)
      /\ c.op = "init" /\ ~c.err => Ordered(c.todo)
      /\ phase # "down" => starts > 0

\* The knock handler is idle or has all or the rest of an Allow ahead of it.
HandlerInv ==
  LET c == calls["handler"]
  IN  \/ c.op = "none" /\ c.todo = <<>> /\ c.remote = "none"
      \/ /\ c.op = "allow" /\ c.remote \in Remotes /\ ~Refused(c.remote) /\ phase # "init"
         /\ \/ c.todo = <<>> \/ c.todo = Allow(c.remote)
            \/ cfg.backend = "iptables"
               /\ c.todo = <<Cmd("must", "-I", Family(c.remote), c.remote)>>

\* The timer is idle or in a Revoke.
TimerInv ==
  LET c == calls["timer"]
  IN  \/ c.op = "none" /\ c.todo = <<>> /\ c.remote = "none"
      \/ /\ c.op = "revoke" /\ c.remote \in Remotes /\ ~Refused(c.remote) /\ phase # "init"
         /\ c.todo = <<>> \/ c.todo = Revoke(c.remote)

\* A rule of INPUT is there once, and once more per command that failed: the loop that
\* deletes it never reaches maxCleanupDeletes with a rule left.  An insertion follows a
\* check that found none, or that failed.
BoundInv ==
  LET c == calls["life"]
  IN  /\ \A f \in Families : kernel.input[f].jump <= 1 + faults /\ kernel.input[f].drop <= 1 + faults
      /\ c.todo # <<>> /\ Head(c.todo).do = "-D_INPUT" =>
           kernel.input[Head(c.todo).fam][Head(c.todo).arg] + c.n <= 1 + faults
      /\ c.todo # <<>> /\ Head(c.todo).do = "-I_INPUT" =>
           NoTool(Head(c.todo)) \/ kernel.input[Head(c.todo).fam][Head(c.todo).arg] <= faults
      /\ c.todo = <<>> \/ Head(c.todo).do # "-D_INPUT" => c.n = 0

\* A set that does not exist has no members, nothing exists in a family the backend does
\* not manage, no drop of UDP packets without being configured, the iptables backend has
\* no set, and without its table nftables has nothing.
KernelInv ==
  /\ \A r \in Remotes : ~kernel.made[Family(r)] => kernel.member[r] = 0
  /\ \A f \in Families \ Managed :
       /\ kernel.chain[f] = Absent /\ ~kernel.made[f]
       /\ kernel.input[f].jump = 0 /\ kernel.input[f].drop = 0
  /\ ~cfg.drop => \A f \in Families : kernel.input[f].drop = 0
  /\ cfg.backend = "iptables" => \A f \in Families : ~kernel.made[f]
  /\ cfg.backend = "nftables" /\ kernel.chain[4] = Absent => kernel = Empty

\* The lifecycle goroutine has the command ahead of it.
Pending(do, f, a) == Has(calls["life"].todo, do, f, a)

\* While a Cleanup has met no error, all that it does not have ahead of it is gone.
CleanupInv ==
  phase = "cleanup" /\ ~calls["life"].err =>
    /\ cfg.backend \in Iptables => \A f \in Managed :
         /\ ~Pending("-D_INPUT", f, "jump") => kernel.input[f].jump = 0
         /\ ~Pending("-D_INPUT", f, "drop") => kernel.input[f].drop = 0
         /\ ~Pending("-X", f, "none") => kernel.chain[f] = Absent
         /\ ~Pending("destroy", f, "none") => ~kernel.made[f]
    /\ cfg.backend = "nftables" /\ ~Pending("delete_table", 4, "none") => kernel = Empty

\* A clean end leaves an empty packet filter.
EndInv == clean => phase = "down" /\ kernel = Empty

\* The chain has no rule for a single remote.
Strings(ch) == \A i \in 1..Len(ch) : ch[i] \notin Remotes

\* While an Init has met no error, all that it does not have ahead of it is in place:
\* the rules of INPUT, the drop of the chain, and no rule or member of an earlier process.
InitInv ==
  phase = "init" /\ ~calls["life"].err =>
    /\ cfg.backend \in Iptables => \A f \in Managed :
         /\ ~Pending("-I_INPUT", f, "jump") => kernel.input[f].jump > 0
         /\ cfg.drop /\ ~Pending("-I_INPUT", f, "drop") => kernel.input[f].drop > 0
         /\ ~Pending("-A", f, "drop") => "drop" \in Range(kernel.chain[f])
         /\ ~Pending("-X", f, "none") => Strings(kernel.chain[f])
         /\ ~Pending("flush", f, "none") => \A r \in Remotes : Family(r) = f => kernel.member[r] = 0
    /\ cfg.backend = "nftables" =>
         /\ ~Pending("delete_table", 4, "none") => \A f \in Families : Strings(kernel.chain[f])
         /\ ~Pending("delete_table", 4, "none") => \A r \in Remotes : kernel.member[r] = 0
         /\ ~Pending("table", 4, "none") => \A f \in Families :
              /\ "drop" \in Range(kernel.chain[f]) /\ kernel.input[f].jump > 0
              /\ cfg.drop => kernel.input[f].drop > 0

\* The rules of the chain for r; there is at most one.
At(ch, r) == {i \in 1..Len(ch) : ch[i] = r}
Once(ch, r) == \A i, j \in At(ch, r) : i = j

\* A serving backend's packet filter k, for the granted remotes g: the chain is reached
\* and drops, what it accepts was granted, and a remote has one rule unless a check
\* overlooked it (d).  Only the iptables backend has rules for single remotes.
Sound(k, g, d) ==
  /\ \A f \in Managed : /\ "drop" \in Range(k.chain[f]) /\ k.input[f].jump > 0
                        /\ cfg.drop => k.input[f].drop > 0
  /\ \A r \in Remotes : k.member[r] > now => r \in g
  /\ \A r \in Remotes : r \in Range(k.chain[Family(r)]) => r \in g
  /\ \A r \in Remotes \ d : Once(k.chain[Family(r)], r)
  /\ cfg.backend # "iptables" => \A f \in Families : Strings(k.chain[f])

\* An Allow under way is for a granted remote, and inserts no second rule.
Allowing(h, k, g, d) ==
  h.op = "allow" =>
    /\ h.remote \in g
    /\ h.todo # <<>> /\ Head(h.todo).do = "-I" =>
         h.remote \in d \/ h.remote \notin Range(k.chain[Family(h.remote)])

\* A Revoke that no Allow has overtaken, and that had no error, has removed the access.
Revoking(h, t, k, d) ==
  t.op = "revoke" /\ t.since =>
    /\ h.remote # t.remote
    /\ t.todo = <<>> /\ ~t.err /\ t.remote \notin d /\ Family(t.remote) \in Managed =>
         /\ t.remote \notin Range(k.chain[Family(t.remote)])
         /\ k.member[t.remote] <= now

\* The packet filter of a serving backend is sound, with the calls under way.
GrantInv ==
  phase = "serving" =>
    /\ Sound(kernel, granted, doubtful)
    /\ Allowing(calls["handler"], kernel, granted, doubtful)
    /\ Revoking(calls["handler"], calls["timer"], kernel, doubtful)

\* No member of a set outlives the longer of AllowTTL and a second.
LifetimeInv == \A r \in Remotes : kernel.member[r] <= now + TTL \/ kernel.member[r] <= now + PerSecond

\* The inductive invariant behind Cleanup, and what access needs on top of it.
FirewallInv == /\ TypeInv /\ LifeInv /\ HandlerInv /\ TimerInv /\ BoundInv /\ KernelInv
               /\ CleanupInv /\ EndInv
AccessInv == InitInv /\ GrantInv /\ LifetimeInv
-----------------------------------------------------------------------------
\* A program of lifecycle commands that does not begin with an insertion, so that it may
\* follow any other.
Whole(q) == q \in Seq(LifeCmds) /\ Paired(q) /\ (q # <<>> => q[1].do # "-I_INPUT")

\* The elements of a concatenation: programs are put together with \o.
LEMMA ConcatAt ==
  ASSUME NEW S, NEW p \in Seq(S), NEW q \in Seq(S)
  PROVE  /\ p \o q \in Seq(S) /\ Len(p \o q) = Len(p) + Len(q)
         /\ Len(p) \in Nat /\ Len(q) \in Nat
         /\ \A i \in 1..Len(p) : (p \o q)[i] = p[i]
         /\ \A i \in 1..Len(q) : (p \o q)[Len(p) + i] = q[i]
         /\ \A i \in 1..Len(p \o q) :
              i \notin 1..Len(p) => i - Len(p) \in 1..Len(q) /\ (p \o q)[i] = q[i - Len(p)]
OBVIOUS

\* Every command of cleanupIptablesRules and initCommand is a lifecycle command.
LEMMA RuleCmds ==
  ASSUME cfg \in Configs, cfg.backend \in Iptables, NEW f \in Managed
  PROVE  /\ Cmd("loop", "-D_INPUT", f, "jump") \in CleanupCmds
         /\ cfg.drop => Cmd("loop", "-D_INPUT", f, "drop") \in CleanupCmds
         /\ Cmd("quiet", "-F", f, "none") \in CleanupCmds
         /\ Cmd("quiet", "-X", f, "none") \in CleanupCmds
         /\ Cmd("bail", "none", 4, "none") \in LifeCmds
         /\ Cmd("try", "-N", f, "none") \in LifeCmds
         /\ Cmd("try", "-F", f, "none") \in LifeCmds
         /\ Cmd("must", "-A", f, "established") \in LifeCmds
         /\ Cmd("must", "-A", f, "drop") \in LifeCmds
         /\ Cmd("unless", "-C_INPUT", f, "jump") \in LifeCmds
         /\ Cmd("must", "-I_INPUT", f, "jump") \in LifeCmds
         /\ cfg.drop => Cmd("unless", "-C_INPUT", f, "drop") \in LifeCmds
         /\ cfg.drop => Cmd("must", "-I_INPUT", f, "drop") \in LifeCmds
<1>1. f \in Families /\ 4 \in Families /\ 4 \in Managed
  BY Zenon DEF Managed, Iptables, Families, Configs
<1>2. RuleDos \subseteq LifeDos
  BY Zenon DEF LifeDos, Iptables
<1>3. /\ Cmd("loop", "-D_INPUT", f, "jump") \in CleanupCmds
      /\ cfg.drop => Cmd("loop", "-D_INPUT", f, "drop") \in CleanupCmds
      /\ Cmd("quiet", "-F", f, "none") \in CleanupCmds
      /\ Cmd("quiet", "-X", f, "none") \in CleanupCmds
  BY <1>1, <1>2, Zenon DEF Cmd, CleanupCmds, LifeCmds, Suits, Commands, Kinds, Dos, Args, Rules,
       RuleDos
<1>4. /\ Cmd("bail", "none", 4, "none") \in LifeCmds
      /\ Cmd("try", "-N", f, "none") \in LifeCmds
      /\ Cmd("try", "-F", f, "none") \in LifeCmds
      /\ Cmd("must", "-A", f, "established") \in LifeCmds
      /\ Cmd("must", "-A", f, "drop") \in LifeCmds
  BY <1>1, <1>2, Zenon DEF Cmd, LifeCmds, Suits, Commands, Kinds, Dos, Args, Rules, RuleDos
<1>5. /\ Cmd("unless", "-C_INPUT", f, "jump") \in LifeCmds
      /\ Cmd("must", "-I_INPUT", f, "jump") \in LifeCmds
      /\ cfg.drop => Cmd("unless", "-C_INPUT", f, "drop") \in LifeCmds
      /\ cfg.drop => Cmd("must", "-I_INPUT", f, "drop") \in LifeCmds
  BY <1>1, <1>2, Zenon DEF Cmd, LifeCmds, Suits, Commands, Kinds, Dos, Args, Rules, RuleDos
<1> QED BY <1>3, <1>4, <1>5, Zenon

\* Marking a program to be undone on failure changes none of its commands (Undo).
LEMMA UndoWhole ==
  ASSUME NEW q \in Seq(LifeCmds)
  PROVE  /\ Undo(q) \in Seq(LifeCmds) /\ Len(Undo(q)) = Len(q)
         /\ \A i \in 1..Len(q) : Names(Undo(q)[i], q[i].do, q[i].fam, q[i].arg)
         /\ Whole(q) => Whole(Undo(q))
         /\ Ordered(q) => Ordered(Undo(q))
         /\ \A do, f, a : Has(q, do, f, a) => Has(Undo(q), do, f, a)
<1>1. ASSUME NEW c \in LifeCmds
      PROVE  /\ [c EXCEPT !.undo = TRUE] \in LifeCmds
             /\ Names([c EXCEPT !.undo = TRUE], c.do, c.fam, c.arg)
  BY Zenon DEF LifeCmds, Suits, Commands, Names
<1>2. /\ Undo(q) \in Seq(LifeCmds) /\ Len(Undo(q)) = Len(q)
      /\ \A i \in 1..Len(q) : Names(Undo(q)[i], q[i].do, q[i].fam, q[i].arg)
  BY <1>1 DEF Undo
<1>3. Whole(q) => Whole(Undo(q))
  <2>1. PICK u : u = Undo(q)
    BY Zenon
  <2>2. /\ u \in Seq(LifeCmds) /\ Len(u) = Len(q)
        /\ \A i \in 1..Len(q) : u[i].do = q[i].do /\ u[i].fam = q[i].fam /\ u[i].arg = q[i].arg
    BY <1>2, <2>1, Zenon DEF Names
  <2>3. Whole(q) => Whole(u)
    BY <2>2 DEF Whole, Paired, Names
  <2> QED BY <2>1, <2>3, Zenon
<1>4. Ordered(q) => Ordered(Undo(q))
  <2>1. ASSUME NEW i \in 1..Len(q), NEW do, NEW f, NEW a, HasAfter(q, i, do, f, a)
        PROVE  HasAfter(Undo(q), i, do, f, a)
    BY <1>2, <2>1 DEF HasAfter, Names
  <2> QED BY <1>2, <2>1, Zenon DEF Ordered, Names
<1>5. \A do, f, a : Has(q, do, f, a) => Has(Undo(q), do, f, a)
  BY <1>2 DEF Has, HasAfter, Names
<1> QED BY <1>2, <1>3, <1>4, <1>5, Zenon

\* Two whole programs make a whole one.
LEMMA ConcatWhole ==
  ASSUME NEW p, NEW q, Whole(p), Whole(q)
  PROVE  Whole(p \o q)
<1>1. p \in Seq(LifeCmds) /\ q \in Seq(LifeCmds)
  BY Zenon DEF Whole
<1>2. /\ p \o q \in Seq(LifeCmds) /\ Len(p \o q) = Len(p) + Len(q)
      /\ \A i \in 1..(Len(p) + Len(q)) : (p \o q)[i] = IF i <= Len(p) THEN p[i] ELSE q[i - Len(p)]
  BY <1>1
<1>3. Len(p) \in Nat /\ Len(q) \in Nat
  BY <1>1
<1> DEFINE s == p \o q
<1>4. ASSUME NEW i \in 1..Len(s), s[i].do = "-C_INPUT"
      PROVE  i < Len(s) /\ Names(s[i + 1], "-I_INPUT", s[i].fam, s[i].arg)
  <2>1. CASE i <= Len(p)
    BY <1>2, <1>3, <1>4, <2>1 DEF Whole, Paired
  <2>2. CASE i > Len(p)
    BY <1>2, <1>3, <1>4, <2>2 DEF Whole, Paired
  <2> QED BY <1>2, <1>3, <2>1, <2>2
<1>5. ASSUME NEW i \in 2..Len(s), s[i].do = "-I_INPUT"
      PROVE  Names(s[i - 1], "-C_INPUT", s[i].fam, s[i].arg)
  BY <1>1, <1>2, <1>3, <1>5 DEF Whole, Paired
<1>6. s # <<>> => s[1].do # "-I_INPUT"
  BY <1>1, <1>2, <1>3 DEF Whole
<1> QED BY <1>2, <1>4, <1>5, <1>6, Zenon DEF Whole, Paired

\* A program that removes what the next one puts back is ordered.
LEMMA ConcatOrdered ==
  ASSUME NEW p \in Seq(LifeCmds), NEW q \in Seq(LifeCmds), Ordered(q),
         \A i \in 1..Len(p) :
           /\ p[i].do = "-D_INPUT" => \/ HasAfter(p, i, "-I_INPUT", p[i].fam, p[i].arg)
                                      \/ Has(q, "-I_INPUT", p[i].fam, p[i].arg)
           /\ p[i].do \in {"-F", "-X"} => \/ HasAfter(p, i, "-A", p[i].fam, "drop")
                                          \/ Has(q, "-A", p[i].fam, "drop")
           /\ p[i].do = "delete_table" => \/ HasAfter(p, i, "table", 4, "none")
                                         \/ Has(q, "table", 4, "none")
  PROVE  Ordered(p \o q)
<1> DEFINE s == p \o q
<1>2. /\ s \in Seq(LifeCmds) /\ Len(s) = Len(p) + Len(q)
      /\ \A i \in 1..(Len(p) + Len(q)) : s[i] = IF i <= Len(p) THEN p[i] ELSE q[i - Len(p)]
  OBVIOUS
<1>3. Len(p) \in Nat /\ Len(q) \in Nat /\ \A i \in 1..Len(q) : s[Len(p) + i] = q[i]
  OBVIOUS
<1> HIDE DEF s
<1>4. ASSUME NEW i \in 1..Len(p), NEW do, NEW f, NEW a,
             HasAfter(p, i, do, f, a) \/ Has(q, do, f, a)
      PROVE  HasAfter(s, i, do, f, a)
  <2>1. CASE HasAfter(p, i, do, f, a)
    <3>1. PICK j \in (i + 1)..Len(p) : Names(p[j], do, f, a)
      BY <2>1, Zenon DEF HasAfter
    <3>2. j \in (i + 1)..Len(s) /\ s[j] = p[j]
      BY <1>2, <1>3
    <3> QED BY <3>1, <3>2, Zenon DEF HasAfter
  <2>2. CASE Has(q, do, f, a)
    <3>1. PICK j \in 1..Len(q) : Names(q[j], do, f, a)
      BY <2>2 DEF Has, HasAfter
    <3>2. Len(p) + j \in (i + 1)..Len(s)
      BY <1>2, <1>3
    <3> QED BY <3>1, <3>2, <1>3, Zenon DEF HasAfter
  <2> QED BY <2>1, <2>2, <1>4, Zenon
<1>5. ASSUME NEW i \in 1..Len(s), i > Len(p), NEW do, NEW f, NEW a,
             HasAfter(q, i - Len(p), do, f, a)
      PROVE  HasAfter(s, i, do, f, a)
  <2>1. PICK j \in (i - Len(p) + 1)..Len(q) : Names(q[j], do, f, a)
    BY <1>5, Zenon DEF HasAfter
  <2>2. Len(p) + j \in (i + 1)..Len(s) /\ j \in 1..Len(q)
    BY <1>2, <1>3, <1>5
  <2> QED BY <2>1, <2>2, <1>3, Zenon DEF HasAfter
<1>6. ASSUME NEW i \in 1..Len(s)
      PROVE  /\ s[i].do = "-D_INPUT" => HasAfter(s, i, "-I_INPUT", s[i].fam, s[i].arg)
             /\ s[i].do \in {"-F", "-X"} => HasAfter(s, i, "-A", s[i].fam, "drop")
             /\ s[i].do = "delete_table" => HasAfter(s, i, "table", 4, "none")
  <2>1. CASE i <= Len(p)
    <3>1. i \in 1..Len(p) /\ s[i] = p[i]
      BY <2>1, <1>2, <1>3
    <3> QED BY <3>1, <1>4, Zenon
  <2>2. CASE i > Len(p)
    <3>1. i - Len(p) \in 1..Len(q) /\ s[i] = q[i - Len(p)]
      BY <2>2, <1>2, <1>3
    <3> QED BY <3>1, <2>2, <1>5, Zenon DEF Ordered
  <2> QED BY <2>1, <2>2, <1>3
<1> QED BY <1>6, Zenon DEF Ordered, s

\* A concatenation has the commands of both programs.
LEMMA ConcatHas ==
  ASSUME NEW p \in Seq(LifeCmds), NEW q \in Seq(LifeCmds), NEW do, NEW f, NEW a,
         Has(p, do, f, a) \/ Has(q, do, f, a)
  PROVE  Has(p \o q, do, f, a)
<1>2. /\ Len(p \o q) = Len(p) + Len(q) /\ Len(p) \in Nat /\ Len(q) \in Nat
      /\ \A i \in 1..Len(p) : (p \o q)[i] = p[i]
      /\ \A i \in 1..Len(q) : (p \o q)[Len(p) + i] = q[i]
  BY ConcatAt
<1>3. CASE Has(p, do, f, a)
  BY <1>2, <1>3 DEF Has, HasAfter
<1>4. CASE Has(q, do, f, a)
  <2>1. PICK j \in 1..Len(q) : Names(q[j], do, f, a)
    BY <1>4 DEF Has, HasAfter
  <2>2. Len(p) + j \in 1..Len(p \o q)
    BY <1>2
  <2> QED BY <2>1, <2>2, <1>2 DEF Has, HasAfter
<1> QED BY <1>3, <1>4, Zenon

\* The fields of a command.
LEMMA CmdFields ==
  ASSUME NEW k, NEW do, NEW f, NEW a
  PROVE  /\ Cmd(k, do, f, a).kind = k /\ Cmd(k, do, f, a).do = do
         /\ Cmd(k, do, f, a).fam = f /\ Cmd(k, do, f, a).arg = a
         /\ Cmd(k, do, f, a).undo = FALSE /\ Names(Cmd(k, do, f, a), do, f, a)
BY Zenon DEF Cmd, Names

\* A command that is neither a check nor an insertion is a whole program.
LEMMA SingleWhole ==
  ASSUME NEW c \in LifeCmds, c.do \notin {"-C_INPUT", "-I_INPUT"}
  PROVE  Whole(<<c>>) /\ Has(<<c>>, c.do, c.fam, c.arg)
<1>1. <<c>> \in Seq(LifeCmds) /\ Len(<<c>>) = 1 /\ <<c>>[1] = c
  OBVIOUS
<1> QED BY <1>1 DEF Whole, Paired, Has, HasAfter, Names

\* cleanupIptablesRules removes both rules of INPUT and the chain of its family.
LEMMA CleanupRules ==
  ASSUME cfg \in Configs, cfg.backend \in Iptables, NEW f \in Managed
  PROVE  LET q == cleanupIptablesRules(f)
         IN  /\ q \in Seq(CleanupCmds) /\ Whole(q)
             /\ Has(q, "-D_INPUT", f, "jump") /\ (cfg.drop => Has(q, "-D_INPUT", f, "drop"))
             /\ Has(q, "-X", f, "none")
             /\ \A i \in 1..Len(q) : q[i].fam = f
<1> DEFINE d == Cmd("loop", "-D_INPUT", f, "drop")
           p == If(cfg.drop, <<d>>)
           c1 == Cmd("loop", "-D_INPUT", f, "jump")
           c2 == Cmd("quiet", "-F", f, "none")
           c3 == Cmd("quiet", "-X", f, "none")
           r == <<c1, c2, c3>>
           q == cleanupIptablesRules(f)
<1>1. /\ c1 \in CleanupCmds /\ c2 \in CleanupCmds /\ c3 \in CleanupCmds
      /\ cfg.drop => d \in CleanupCmds
  BY RuleCmds, Zenon
<1>2. /\ Names(d, "-D_INPUT", f, "drop") /\ Names(c1, "-D_INPUT", f, "jump")
      /\ Names(c2, "-F", f, "none") /\ Names(c3, "-X", f, "none")
  BY CmdFields, Zenon
<1>3. q = p \o r
  BY Zenon DEF cleanupIptablesRules
<1>4. \A c \in CleanupCmds : c \in LifeCmds
  BY Zenon DEF CleanupCmds
<1> HIDE DEF d, c1, c2, c3, q
<1>5. /\ p \in Seq(CleanupCmds) /\ p \in Seq(LifeCmds) /\ (\A i \in 1..Len(p) : p[i] = d)
      /\ (cfg.drop => Len(p) = 1)
  BY <1>1, <1>4 DEF If
<1>6. /\ r \in Seq(CleanupCmds) /\ r \in Seq(LifeCmds)
      /\ Len(r) = 3 /\ r[1] = c1 /\ r[2] = c2 /\ r[3] = c3
  BY <1>1, <1>4
<1> HIDE DEF p, r
<1>7. q \in Seq(CleanupCmds) /\ \A i \in 1..Len(q) : q[i] \in {d, c1, c2, c3}
  <2>3. p \in Seq(CleanupCmds) /\ r \in Seq(CleanupCmds)
    BY <1>5, <1>6, Zenon
  <2>1. /\ p \o r \in Seq(CleanupCmds)
        /\ \A i \in 1..Len(p) : (p \o r)[i] = p[i]
        /\ \A i \in 1..Len(p \o r) :
              i \notin 1..Len(p) => i - Len(p) \in 1..Len(r) /\ (p \o r)[i] = r[i - Len(p)]
    BY <2>3, ConcatAt
  <2>2. ASSUME NEW i \in 1..Len(p \o r)
        PROVE  (p \o r)[i] \in {d, c1, c2, c3}
    <3>1. CASE i \in 1..Len(p)
      BY <3>1, <2>1, <1>5, Zenon
    <3>2. CASE i \notin 1..Len(p)
      <4>1. i - Len(p) \in 1..Len(r) /\ (p \o r)[i] = r[i - Len(p)]
        BY <3>2, <2>1, Zenon
      <4>2. \A j \in 1..Len(r) : r[j] \in {c1, c2, c3}
        BY <1>6
      <4> QED BY <4>1, <4>2, Zenon
    <3> QED BY <3>1, <3>2, Zenon
  <2> QED BY <2>1, <2>2, <1>3, Zenon
<1>8. Whole(p)
  BY <1>2, <1>5 DEF Whole, Paired, Names
<1>9. Whole(r)
  BY <1>2, <1>6 DEF Whole, Paired, Names
<1>10. Has(r, "-D_INPUT", f, "jump") /\ Has(r, "-X", f, "none")
  BY <1>2, <1>6 DEF Has, HasAfter
<1>11. ASSUME cfg.drop PROVE Has(p, "-D_INPUT", f, "drop")
  <2>1. p[1] = d /\ 1 \in (0 + 1)..Len(p)
    BY <1>5, <1>11
  <2> QED BY <2>1, <1>2, Zenon DEF Has, HasAfter
<1>12. Whole(q)
  BY <1>3, <1>8, <1>9, ConcatWhole, Zenon
<1>13. /\ Has(q, "-D_INPUT", f, "jump") /\ (cfg.drop => Has(q, "-D_INPUT", f, "drop"))
       /\ Has(q, "-X", f, "none")
  <2>1. \A do, a : Has(p, do, f, a) \/ Has(r, do, f, a) => Has(q, do, f, a)
    BY <1>3, <1>5, <1>6, ConcatHas, Zenon
  <2> QED BY <2>1, <1>10, <1>11, Zenon
<1>14. \A i \in 1..Len(q) : q[i].fam = f
  BY <1>2, <1>7, Zenon DEF Names
<1> QED BY <1>7, <1>12, <1>13, <1>14, Zenon DEF q

\* The commands of initCommand, and what a program that contains it puts in place.
InitCmds(f) ==
  {c \in LifeCmds : c.fam = f /\ c.do \in {"-N", "-F", "-C_INPUT", "-I_INPUT", "-A"}}
Inserts(q, f) ==
  /\ Has(q, "-I_INPUT", f, "jump") /\ (cfg.drop => Has(q, "-I_INPUT", f, "drop"))
  /\ Has(q, "-A", f, "drop")

\* initCommand, with or without the rule that matches the set, jumps to the chain,
\* drops UDP packets if configured, and ends the chain with a drop.
LEMMA InitRules ==
  ASSUME cfg \in Configs, cfg.backend \in Iptables, NEW f \in Managed,
         NEW m \in Seq(InitCmds(f)), Whole(m)
  PROVE  LET q == initCommand(f, m)
         IN  Whole(q) /\ Ordered(q) /\ Inserts(q, f)
<1> DEFINE c1 == Cmd("try", "-N", f, "none")
           c2 == Cmd("try", "-F", f, "none")
           c3 == Cmd("unless", "-C_INPUT", f, "jump")
           c4 == Cmd("must", "-I_INPUT", f, "jump")
           c5 == Cmd("unless", "-C_INPUT", f, "drop")
           c6 == Cmd("must", "-I_INPUT", f, "drop")
           c7 == Cmd("must", "-A", f, "established")
           c8 == Cmd("must", "-A", f, "drop")
           a == <<c1, c2, c3, c4>>
           b == If(cfg.drop, <<c5, c6>>)
           p == a \o b \o <<c7>> \o m
           q == initCommand(f, m)
<1>1. q = p \o <<c8>>
  BY Zenon DEF initCommand
<1>2. /\ Names(c1, "-N", f, "none") /\ Names(c2, "-F", f, "none")
      /\ Names(c3, "-C_INPUT", f, "jump") /\ Names(c4, "-I_INPUT", f, "jump")
      /\ Names(c5, "-C_INPUT", f, "drop") /\ Names(c6, "-I_INPUT", f, "drop")
      /\ Names(c7, "-A", f, "established") /\ Names(c8, "-A", f, "drop")
  BY CmdFields, Zenon
<1>3. /\ c1 \in LifeCmds /\ c2 \in LifeCmds /\ c3 \in LifeCmds /\ c4 \in LifeCmds
      /\ c7 \in LifeCmds /\ c8 \in LifeCmds /\ (cfg.drop => c5 \in LifeCmds /\ c6 \in LifeCmds)
  BY RuleCmds, Zenon
<1> HIDE DEF c1, c2, c3, c4, c5, c6, c7, c8, q
<1>4. /\ c1 \in InitCmds(f) /\ c2 \in InitCmds(f) /\ c3 \in InitCmds(f) /\ c4 \in InitCmds(f)
      /\ c7 \in InitCmds(f) /\ c8 \in InitCmds(f)
      /\ (cfg.drop => c5 \in InitCmds(f) /\ c6 \in InitCmds(f))
  BY <1>2, <1>3, Zenon DEF InitCmds, Names
<1>5. \A c \in InitCmds(f) : c \in LifeCmds
  BY Zenon DEF InitCmds
<1>6. /\ a \in Seq(InitCmds(f)) /\ a \in Seq(LifeCmds) /\ Len(a) = 4
      /\ a[1] = c1 /\ a[2] = c2 /\ a[3] = c3 /\ a[4] = c4
  BY <1>4, <1>5
<1>7. /\ b \in Seq(InitCmds(f)) /\ b \in Seq(LifeCmds)
      /\ cfg.drop => Len(b) = 2 /\ b[1] = c5 /\ b[2] = c6
      /\ ~cfg.drop => Len(b) = 0
  BY <1>4, <1>5 DEF If
<1> HIDE DEF a, b
<1>8. Whole(a) /\ Has(a, "-I_INPUT", f, "jump")
  <2>1. Whole(a)
    BY <1>2, <1>6 DEF Whole, Paired, Names
  <2>2. 4 \in (0 + 1)..Len(a) /\ Names(a[4], "-I_INPUT", f, "jump")
    BY <1>2, <1>6
  <2> QED BY <2>1, <2>2, Zenon DEF Has, HasAfter
<1>9. Whole(b) /\ (cfg.drop => Has(b, "-I_INPUT", f, "drop"))
  <2>1. Whole(b)
    BY <1>2, <1>7 DEF Whole, Paired, Names
  <2>2. ASSUME cfg.drop
        PROVE  2 \in (0 + 1)..Len(b) /\ Names(b[2], "-I_INPUT", f, "drop")
    <3>1. Len(b) = 2 /\ b[2] = c6
      BY <1>7, <2>2, Zenon
    <3>2. 2 \in (0 + 1)..Len(b)
      BY <3>1
    <3> QED BY <1>2, <3>1, <3>2, Zenon
  <2> QED BY <2>1, <2>2, Zenon DEF Has, HasAfter
<1>10. Whole(<<c7>>) /\ Whole(<<c8>>) /\ Has(<<c8>>, "-A", f, "drop")
  BY <1>2, <1>3, SingleWhole, Zenon DEF Names
<1>11. Whole(a \o b) /\ Whole(a \o b \o <<c7>>) /\ Whole(p)
  BY <1>8, <1>9, <1>10, ConcatWhole, Zenon
<1>12. p \in Seq(InitCmds(f)) /\ p \in Seq(LifeCmds)
  BY <1>4, <1>5, <1>6, <1>7
<1>13. /\ Has(p, "-I_INPUT", f, "jump") /\ (cfg.drop => Has(p, "-I_INPUT", f, "drop"))
  <2>1. /\ a \o b \in Seq(LifeCmds) /\ a \o b \o <<c7>> \in Seq(LifeCmds)
        /\ <<c7>> \in Seq(LifeCmds) /\ m \in Seq(LifeCmds) /\ a \in Seq(LifeCmds) /\ b \in Seq(LifeCmds)
    <3>1. \A x : Whole(x) => x \in Seq(LifeCmds)
      BY Zenon DEF Whole
    <3> QED BY <3>1, <1>8, <1>9, <1>10, <1>11, Zenon
  <2>2. /\ Has(a \o b, "-I_INPUT", f, "jump")
        /\ (cfg.drop => Has(a \o b, "-I_INPUT", f, "drop"))
    BY <2>1, <1>8, <1>9, ConcatHas, Zenon
  <2>3. /\ Has(a \o b \o <<c7>>, "-I_INPUT", f, "jump")
        /\ (cfg.drop => Has(a \o b \o <<c7>>, "-I_INPUT", f, "drop"))
    BY <2>1, <2>2, ConcatHas, Zenon
  <2> QED BY <2>1, <2>3, ConcatHas, Zenon
<1> HIDE DEF p
<1>14. <<c8>> \in Seq(LifeCmds) /\ Len(<<c8>>) = 1 /\ <<c8>>[1] = c8
  BY <1>3
<1>15. Ordered(<<c8>>)
  BY <1>2, <1>14 DEF Ordered, Names
<1>16. \A i \in 1..Len(p) : /\ p[i].do \notin {"-D_INPUT", "-X", "delete_table"}
                            /\ p[i].fam = f
  BY <1>12 DEF InitCmds
<1>17. Ordered(p \o <<c8>>)
  BY <1>10, <1>12, <1>14, <1>15, <1>16, ConcatOrdered, Zenon
<1>18. /\ Has(q, "-I_INPUT", f, "jump") /\ (cfg.drop => Has(q, "-I_INPUT", f, "drop"))
       /\ Has(q, "-A", f, "drop")
  BY <1>1, <1>10, <1>12, <1>13, <1>14, ConcatHas, Zenon
<1>19. Whole(q) /\ Ordered(q)
  BY <1>1, <1>10, <1>11, <1>17, ConcatWhole, Zenon DEF p
<1> QED BY <1>18, <1>19, Zenon DEF q, Inserts

\* The part of Init for one family: a clean-up, a stop if it failed, the new rules.
LEMMA Block ==
  ASSUME cfg \in Configs, cfg.backend \in Iptables, NEW f \in Managed,
         NEW x, Whole(x), \A i \in 1..Len(x) : x[i].do = "none" \/ x[i].fam = f,
         NEW y, Whole(y), Ordered(y), Inserts(y, f)
  PROVE  /\ Whole(x \o Bail \o y) /\ Ordered(x \o Bail \o y)
         /\ \A do, g, a : Has(x, do, g, a) => Has(x \o Bail \o y, do, g, a)
         /\ Inserts(x \o Bail \o y, f)
<1> DEFINE c == Cmd("bail", "none", 4, "none")
           p == x \o Bail
<1>1. c \in LifeCmds /\ Names(c, "none", 4, "none")
  BY RuleCmds, CmdFields, Zenon
<1>2. Bail = <<c>>
  BY Zenon DEF Bail
<1> HIDE DEF c
<1>3. Whole(Bail)
  BY <1>1, <1>2, SingleWhole, Zenon DEF Names
<1>4. Whole(p) /\ Whole(p \o y)
  BY <1>3, ConcatWhole, Zenon
<1>5. x \in Seq(LifeCmds) /\ Bail \in Seq(LifeCmds) /\ p \in Seq(LifeCmds) /\ y \in Seq(LifeCmds)
  <2>1. \A s : Whole(s) => s \in Seq(LifeCmds)
    BY Zenon DEF Whole
  <2> QED BY <2>1, <1>3, <1>4, Zenon
<1>6. \A i \in 1..Len(p) : p[i].do = "none" \/ (p[i] \in LifeCmds /\ p[i].fam = f)
  <2>1. /\ \A i \in 1..Len(x) : p[i] = x[i] /\ x[i] \in LifeCmds
        /\ \A i \in 1..Len(p) :
              i \notin 1..Len(x) => i - Len(x) \in 1..Len(Bail) /\ p[i] = Bail[i - Len(x)]
    BY <1>5, ConcatAt
  <2>2. \A i \in 1..Len(Bail) : Bail[i].do = "none"
    BY <1>1, <1>2 DEF Names
  <2> QED BY <2>1, <2>2, Zenon
<1>7. \A d \in LifeCmds : d.do # "delete_table" /\ (d.do = "-D_INPUT" => d.arg = "jump" \/ (d.arg = "drop" /\ cfg.drop))
  BY Zenon DEF LifeCmds, LifeDos, Suits, RuleDos, Iptables
<1>8. ASSUME NEW i \in 1..Len(p)
      PROVE  /\ p[i].do = "-D_INPUT" => Has(y, "-I_INPUT", p[i].fam, p[i].arg)
             /\ p[i].do \in {"-F", "-X"} => Has(y, "-A", p[i].fam, "drop")
             /\ p[i].do # "delete_table"
  <2>1. CASE p[i].do = "none"
    BY <2>1, Zenon
  <2>2. CASE p[i] \in LifeCmds /\ p[i].fam = f
    BY <2>2, <1>7, Zenon DEF Inserts
  <2> QED BY <2>1, <2>2, <1>6, Zenon
<1> HIDE DEF p
<1>9. Ordered(p \o y)
  BY <1>5, <1>8, ConcatOrdered, Zenon
<1>10. \A do, g, a : Has(x, do, g, a) \/ Has(y, do, g, a) => Has(p \o y, do, g, a)
  <2>1. \A do, g, a : Has(x, do, g, a) => Has(p, do, g, a)
    BY <1>5, ConcatHas, Zenon DEF p
  <2> QED BY <2>1, <1>5, ConcatHas, Zenon
<1> QED BY <1>4, <1>9, <1>10, Zenon DEF p, Inserts

\* The commands on an ipset are lifecycle commands of that backend.
LEMMA SetCmds ==
  ASSUME cfg \in Configs, cfg.backend = "ipset-iptables", NEW f \in Managed
  PROVE  /\ Cmd("must", "create", f, "none") \in LifeCmds
         /\ Cmd("quiet", "flush", f, "none") \in CleanupCmds
         /\ Cmd("quiet", "destroy", f, "none") \in CleanupCmds
         /\ Cmd("must", "-A", f, "set") \in LifeCmds
<1>1. f \in Families
  BY Zenon DEF Managed, Families, Configs
<1>2. "create" \in LifeDos /\ "flush" \in LifeDos /\ "destroy" \in LifeDos /\ "-A" \in LifeDos
  BY Zenon DEF LifeDos, RuleDos
<1> QED
  BY <1>1, <1>2, Zenon DEF Cmd, CleanupCmds, LifeCmds, Suits, Commands, Kinds, Dos, Args, Rules

\* CreateSet flushes the set.
LEMMA CreateSetShape ==
  ASSUME cfg \in Configs, cfg.backend = "ipset-iptables", NEW f \in Managed
  PROVE  LET q == CreateSet(f)
         IN  /\ Whole(q) /\ Has(q, "flush", f, "none")
             /\ \A i \in 1..Len(q) : \/ q[i].do = "none"
                                     \/ q[i].fam = f /\ q[i].do \in {"create", "flush"}
<1> DEFINE c == Cmd("must", "create", f, "none")
           d == Cmd("quiet", "flush", f, "none")
           e == Cmd("bail", "none", 4, "none")
           s == <<d>> \o Bail
           u == Undo(s)
           q == CreateSet(f)
<1>1. /\ c \in LifeCmds /\ d \in LifeCmds /\ e \in LifeCmds
      /\ Names(c, "create", f, "none") /\ Names(d, "flush", f, "none")
      /\ Names(e, "none", 4, "none")
  BY SetCmds, RuleCmds, CmdFields, Zenon DEF CleanupCmds, Iptables
<1>2. q = <<c>> \o u /\ Bail = <<e>>
  BY Zenon DEF CreateSet, Bail
<1> HIDE DEF c, d, e, u, q
<1>3. Whole(<<c>>) /\ Whole(<<d>>) /\ Whole(Bail) /\ Has(<<d>>, "flush", f, "none")
  BY <1>1, <1>2, SingleWhole, Zenon DEF Names
<1>4. \A x : Whole(x) => x \in Seq(LifeCmds)
  BY Zenon DEF Whole
<1>5. Whole(s) /\ Has(s, "flush", f, "none")
  BY <1>3, <1>4, ConcatWhole, ConcatHas, Zenon
<1>6. /\ Whole(u) /\ Has(u, "flush", f, "none") /\ Len(u) = Len(s)
      /\ \A i \in 1..Len(s) : Names(u[i], s[i].do, s[i].fam, s[i].arg)
  BY <1>4, <1>5, UndoWhole, Zenon DEF u
<1>7. Whole(q) /\ Has(q, "flush", f, "none")
  BY <1>2, <1>3, <1>4, <1>6, ConcatWhole, ConcatHas, Zenon
<1>8. Len(s) = 2 /\ s[1] = d /\ s[2] = e
  BY <1>1, <1>2
<1>9. Len(u) = 2 /\ Names(u[1], "flush", f, "none") /\ Names(u[2], "none", 4, "none")
  BY <1>1, <1>6, <1>8 DEF Names
<1>10. u \in Seq(LifeCmds) /\ <<c>> \in Seq(LifeCmds)
  BY <1>3, <1>4, <1>6, Zenon
<1>11. Len(q) = 3 /\ q[1] = c /\ q[2] = u[1] /\ q[3] = u[2]
  <2>1. Len(<<c>>) = 1 /\ <<c>>[1] = c
    BY Zenon
  <2>2. /\ Len(q) = Len(<<c>>) + Len(u) /\ (\A i \in 1..Len(<<c>>) : q[i] = <<c>>[i])
        /\ \A i \in 1..Len(u) : q[Len(<<c>>) + i] = u[i]
    BY <1>2, <1>10, ConcatAt
  <2>3. 1 \in 1..Len(<<c>>) /\ 1 \in 1..Len(u) /\ 2 \in 1..Len(u) /\ 1 + 1 = 2 /\ 1 + 2 = 3
    BY <1>9, <2>1
  <2> QED BY <1>9, <2>1, <2>2, <2>3, Zenon
<1>12. \A i \in 1..Len(q) : \/ q[i].do = "none"
                            \/ q[i].fam = f /\ q[i].do \in {"create", "flush"}
  BY <1>1, <1>9, <1>11 DEF Names
<1> QED BY <1>7, <1>12, Zenon DEF q

\* Undo keeps what a program puts in place.
LEMMA UndoInserts ==
  ASSUME NEW q \in Seq(LifeCmds), NEW f, Inserts(q, f)
  PROVE  Inserts(Undo(q), f)
BY UndoWhole, Zenon DEF Inserts

\* Init for IPv4 followed, if IPv6 is enabled, by Init for IPv6.
LEMMA BothFamilies ==
  ASSUME NEW p, Whole(p), Ordered(p), NEW s, cfg.ipv6 => Whole(s) /\ Ordered(s)
  PROVE  LET q == p \o If(cfg.ipv6, Undo(s))
         IN  /\ Whole(q) /\ Ordered(q)
             /\ \A do, f, arg : Has(p, do, f, arg) \/ (cfg.ipv6 /\ Has(s, do, f, arg)) => Has(q, do, f, arg)
<1> DEFINE r == If(cfg.ipv6, Undo(s))
<1>1. \A x : Whole(x) => x \in Seq(LifeCmds)
  BY Zenon DEF Whole
<1>2. CASE cfg.ipv6
  <2>1. r = Undo(s)
    BY <1>2, Zenon DEF If
  <2>2. s \in Seq(LifeCmds) /\ p \in Seq(LifeCmds)
    BY <1>1, <1>2, Zenon
  <2> HIDE DEF r
  <2>3. /\ Whole(r) /\ Ordered(r) /\ r \in Seq(LifeCmds)
        /\ \A do, f, a : Has(s, do, f, a) => Has(r, do, f, a)
    BY <1>1, <1>2, <2>1, <2>2, UndoWhole, Zenon
  <2>4. Whole(p \o r)
    BY <2>3, ConcatWhole, Zenon
  <2>5. \A i \in 1..Len(p) :
          /\ p[i].do = "-D_INPUT" => HasAfter(p, i, "-I_INPUT", p[i].fam, p[i].arg)
          /\ p[i].do \in {"-F", "-X"} => HasAfter(p, i, "-A", p[i].fam, "drop")
          /\ p[i].do = "delete_table" => HasAfter(p, i, "table", 4, "none")
    BY Zenon DEF Ordered
  <2>6. Ordered(p \o r)
    BY <2>2, <2>3, <2>5, ConcatOrdered, Zenon
  <2>7. \A do, f, a : Has(p, do, f, a) \/ Has(s, do, f, a) => Has(p \o r, do, f, a)
    BY <2>2, <2>3, ConcatHas, Zenon
  <2> QED BY <2>4, <2>6, <2>7, Zenon DEF r
<1>3. CASE ~cfg.ipv6
  <2>1. p \o r = p
    <3>1. r = <<>> /\ p \in Seq(LifeCmds)
      BY <1>1, <1>3, Zenon DEF If
    <3> QED BY <3>1
  <2> QED BY <2>1, <1>3, Zenon
<1> QED BY <1>2, <1>3, Zenon

\* IptablesInit of the iptables backend removes an old chain and puts the rules of every
\* managed family in place.
LEMMA IptablesInitShape ==
  ASSUME cfg \in Configs, cfg.backend = "iptables"
  PROVE  LET q == IptablesInit
         IN  /\ Whole(q) /\ Ordered(q)
             /\ \A f \in Managed : Inserts(q, f) /\ Has(q, "-X", f, "none")
<1> DEFINE a == cleanupIptablesRules(4)
           b == Undo(initCommand(4, <<>>))
           p == a \o Bail \o b
           c == cleanupIptablesRules(6)
           d == initCommand(6, <<>>)
           s == c \o Bail \o d
           q == IptablesInit
<1>1. q = p \o If(cfg.ipv6, Undo(s))
  BY Zenon DEF IptablesInit
<1>2. \A x : Whole(x) => x \in Seq(LifeCmds)
  BY Zenon DEF Whole
<1>3. cfg.backend \in Iptables /\ Managed = IF cfg.ipv6 THEN {4, 6} ELSE {4}
  BY Zenon DEF Iptables, Managed, Families
<1>4. \A f \in Managed : <<>> \in Seq(InitCmds(f)) /\ Whole(<<>>)
  BY DEF Whole, Paired
<1> HIDE DEF q
<1>5. Whole(p) /\ Ordered(p) /\ Inserts(p, 4) /\ Has(p, "-X", 4, "none")
  <2>1. /\ Whole(a) /\ Has(a, "-X", 4, "none") /\ \A i \in 1..Len(a) : a[i].fam = 4
    BY <1>3, CleanupRules, Zenon
  <2>2. Whole(b) /\ Ordered(b) /\ Inserts(b, 4)
    BY <1>2, <1>3, <1>4, InitRules, UndoWhole, UndoInserts, Zenon
  <2> HIDE DEF a, b
  <2> QED BY <1>3, <2>1, <2>2, Block, Zenon
<1>6. ASSUME cfg.ipv6
      PROVE  Whole(s) /\ Ordered(s) /\ Inserts(s, 6) /\ Has(s, "-X", 6, "none")
  <2>1. /\ Whole(c) /\ Has(c, "-X", 6, "none") /\ \A i \in 1..Len(c) : c[i].fam = 6
    BY <1>3, <1>6, CleanupRules, Zenon
  <2>2. Whole(d) /\ Ordered(d) /\ Inserts(d, 6)
    BY <1>3, <1>4, <1>6, InitRules, Zenon
  <2> HIDE DEF c, d
  <2> QED BY <1>3, <1>6, <2>1, <2>2, Block, Zenon
<1> HIDE DEF p, s
<1>7. /\ Whole(q) /\ Ordered(q)
      /\ \A do, f, arg : Has(p, do, f, arg) \/ (cfg.ipv6 /\ Has(s, do, f, arg)) => Has(q, do, f, arg)
  BY <1>1, <1>5, <1>6, BothFamilies, Zenon
<1>8. \A f \in Managed : Inserts(q, f) /\ Has(q, "-X", f, "none")
  BY <1>3, <1>5, <1>6, <1>7, Zenon DEF Inserts
<1> QED BY <1>7, <1>8, Zenon DEF q

\* The same for the ipset-iptables backend, which flushes its sets first.
LEMMA IPSetInitShape ==
  ASSUME cfg \in Configs, cfg.backend = "ipset-iptables"
  PROVE  LET q == IPSetInit
         IN  /\ Whole(q) /\ Ordered(q)
             /\ \A f \in Managed : /\ Inserts(q, f) /\ Has(q, "-X", f, "none")
                                   /\ Has(q, "flush", f, "none")
<1> DEFINE a == CreateSet(4)
           b == cleanupIptablesRules(4) \o Bail \o initCommandIPSet(4)
           p == a \o Undo(b)
           c == CreateSet(6) \o cleanupIptablesRules(6)
           s == c \o Bail \o initCommandIPSet(6)
           q == IPSetInit
<1>1. q = p \o If(cfg.ipv6, Undo(s))
  BY Zenon DEF IPSetInit
<1>2. \A x : Whole(x) => x \in Seq(LifeCmds)
  BY Zenon DEF Whole
<1>3. cfg.backend \in Iptables /\ Managed = IF cfg.ipv6 THEN {4, 6} ELSE {4}
  BY Zenon DEF Iptables, Managed, Families
<1>4. ASSUME NEW f \in Managed
      PROVE  LET i == initCommandIPSet(f)
             IN  Whole(i) /\ Ordered(i) /\ Inserts(i, f)
  <2> DEFINE e == Cmd("must", "-A", f, "set")
  <2>1. e \in LifeCmds /\ Names(e, "-A", f, "set")
    BY SetCmds, CmdFields, Zenon
  <2>2. initCommandIPSet(f) = initCommand(f, <<e>>)
    BY Zenon DEF initCommandIPSet
  <2> HIDE DEF e
  <2>3. Whole(<<e>>) /\ <<e>> \in Seq(InitCmds(f))
    BY <2>1, SingleWhole DEF Names, InitCmds
  <2> QED BY <2>2, <2>3, <1>3, InitRules, Zenon
<1> HIDE DEF q
<1>5. /\ Whole(p) /\ Ordered(p) /\ Inserts(p, 4) /\ Has(p, "-X", 4, "none")
      /\ Has(p, "flush", 4, "none")
  <2>0. 4 \in Managed
    BY <1>3, Zenon
  <2>1. /\ Whole(cleanupIptablesRules(4)) /\ Has(cleanupIptablesRules(4), "-X", 4, "none")
        /\ \A i \in 1..Len(cleanupIptablesRules(4)) : cleanupIptablesRules(4)[i].fam = 4
    BY <1>3, <2>0, CleanupRules, Zenon
  <2>2. Whole(b) /\ Ordered(b) /\ Inserts(b, 4) /\ Has(b, "-X", 4, "none")
    BY <1>3, <1>4, <2>0, <2>1, Block, Zenon
  <2> HIDE DEF b
  <2>3. /\ Whole(Undo(b)) /\ Ordered(Undo(b)) /\ Inserts(Undo(b), 4)
        /\ Has(Undo(b), "-X", 4, "none") /\ Undo(b) \in Seq(LifeCmds)
    BY <1>2, <2>2, UndoWhole, UndoInserts, Zenon
  <2>4. /\ Whole(a) /\ Has(a, "flush", 4, "none") /\ a \in Seq(LifeCmds)
        /\ \A i \in 1..Len(a) : \/ a[i].do = "none"
                                \/ a[i].fam = 4 /\ a[i].do \in {"create", "flush"}
    BY <1>2, <2>0, CreateSetShape, Zenon
  <2> HIDE DEF a
  <2>5. Ordered(p)
    <3>1. \A i \in 1..Len(a) : a[i].do \notin {"-D_INPUT", "-F", "-X", "delete_table"}
      BY <2>4, Zenon
    <3> QED BY <2>3, <2>4, <3>1, ConcatOrdered, Zenon
  <2>6. \A do, f, x : Has(a, do, f, x) \/ Has(Undo(b), do, f, x) => Has(p, do, f, x)
    BY <2>3, <2>4, ConcatHas, Zenon
  <2>7. Whole(p)
    BY <2>3, <2>4, ConcatWhole, Zenon
  <2> QED BY <2>3, <2>4, <2>5, <2>6, <2>7, Zenon DEF Inserts
<1>6. ASSUME cfg.ipv6
      PROVE  /\ Whole(s) /\ Ordered(s) /\ Inserts(s, 6) /\ Has(s, "-X", 6, "none")
             /\ Has(s, "flush", 6, "none")
  <2> DEFINE x == CreateSet(6)
             y == cleanupIptablesRules(6)
             z == initCommandIPSet(6)
  <2>0. 6 \in Managed
    BY <1>3, <1>6, Zenon
  <2>1. /\ Whole(y) /\ Has(y, "-X", 6, "none") /\ y \in Seq(LifeCmds)
        /\ \A i \in 1..Len(y) : y[i].fam = 6
    BY <1>2, <1>3, <2>0, CleanupRules, Zenon
  <2>2. /\ Whole(x) /\ Has(x, "flush", 6, "none") /\ x \in Seq(LifeCmds)
        /\ \A i \in 1..Len(x) : x[i].do = "none" \/ x[i].fam = 6
    BY <1>2, <2>0, CreateSetShape
  <2>3. Whole(z) /\ Ordered(z) /\ Inserts(z, 6)
    BY <1>4, <2>0, Zenon
  <2> HIDE DEF x, y, z
  <2>4. Whole(x \o y) /\ \A do, f, w : Has(x, do, f, w) \/ Has(y, do, f, w) => Has(x \o y, do, f, w)
    BY <2>1, <2>2, ConcatWhole, ConcatHas, Zenon
  <2>5. \A i \in 1..Len(x \o y) : (x \o y)[i].do = "none" \/ (x \o y)[i].fam = 6
    <3>1. /\ \A i \in 1..Len(x) : (x \o y)[i] = x[i]
          /\ \A i \in 1..Len(x \o y) :
                i \notin 1..Len(x) => i - Len(x) \in 1..Len(y) /\ (x \o y)[i] = y[i - Len(x)]
      BY <2>1, <2>2, ConcatAt
    <3> QED BY <2>1, <2>2, <3>1, Zenon
  <2>6. s = x \o y \o Bail \o z
    BY Zenon DEF x, y, z
  <2> HIDE DEF s
  <2>7. /\ Whole(s) /\ Ordered(s) /\ Inserts(s, 6)
        /\ \A do, f, w : Has(x \o y, do, f, w) => Has(s, do, f, w)
    BY <1>3, <2>0, <2>3, <2>4, <2>5, <2>6, Block, Zenon
  <2> QED BY <2>1, <2>2, <2>4, <2>7, Zenon
<1> HIDE DEF p, s
<1>7. /\ Whole(q) /\ Ordered(q)
      /\ \A do, f, x : Has(p, do, f, x) \/ (cfg.ipv6 /\ Has(s, do, f, x)) => Has(q, do, f, x)
  BY <1>1, <1>5, <1>6, BothFamilies, Zenon
<1>8. \A f \in Managed : /\ Inserts(q, f) /\ Has(q, "-X", f, "none")
                         /\ Has(q, "flush", f, "none")
  BY <1>3, <1>5, <1>6, <1>7, Zenon DEF Inserts
<1> QED BY <1>7, <1>8, Zenon DEF q

\* nftables' Init deletes the table and loads it, its Cleanup deletes it.
LEMMA NftablesShape ==
  ASSUME cfg \in Configs, cfg.backend = "nftables"
  PROVE  /\ Whole(NftablesInit) /\ Ordered(NftablesInit)
         /\ Has(NftablesInit, "delete_table", 4, "none") /\ Has(NftablesInit, "table", 4, "none")
         /\ Whole(NftablesCleanup) /\ NftablesCleanup \in Seq(CleanupCmds)
         /\ Has(NftablesCleanup, "delete_table", 4, "none")
<1> DEFINE c == Cmd("quiet", "delete_table", 4, "none")
           d == Cmd("bail", "none", 4, "none")
           e == Cmd("must", "table", 4, "none")
           p == NftablesCleanup
           q == NftablesInit
<1>1. /\ Names(c, "delete_table", 4, "none") /\ Names(d, "none", 4, "none")
      /\ Names(e, "table", 4, "none")
  BY CmdFields, Zenon
<1>2. c \in CleanupCmds /\ c \in LifeCmds /\ d \in LifeCmds /\ e \in LifeCmds
  <2>1. 4 \in Families /\ 4 \in Managed
    BY Zenon DEF Managed, Families
  <2>2. "none" \in LifeDos /\ "delete_table" \in LifeDos /\ "table" \in LifeDos
    BY Zenon DEF LifeDos
  <2> QED
    BY <2>1, <2>2, Zenon DEF Cmd, CleanupCmds, LifeCmds, Suits, Commands, Kinds, Dos, Args, Rules
<1>3. p = <<c>> /\ Bail = <<d>> /\ q = p \o Bail \o Undo(<<e>>)
  BY Zenon DEF NftablesCleanup, NftablesInit, Bail
<1> HIDE DEF c, d, e, p, q
<1>4. \A x : Whole(x) => x \in Seq(LifeCmds)
  BY Zenon DEF Whole
<1>5. /\ Whole(p) /\ Has(p, "delete_table", 4, "none") /\ Whole(Bail)
      /\ Whole(<<e>>) /\ Has(<<e>>, "table", 4, "none")
  BY <1>1, <1>2, <1>3, SingleWhole, Zenon DEF Names
<1>6. Ordered(<<e>>)
  BY <1>1 DEF Ordered, Names
<1>7. /\ Whole(Undo(<<e>>)) /\ Has(Undo(<<e>>), "table", 4, "none") /\ Ordered(Undo(<<e>>))
  BY <1>4, <1>5, <1>6, UndoWhole, Zenon
<1>8. Whole(p \o Bail) /\ Whole(q)
  BY <1>3, <1>5, <1>7, ConcatWhole, Zenon
<1>9. /\ p \in Seq(LifeCmds) /\ Bail \in Seq(LifeCmds) /\ p \o Bail \in Seq(LifeCmds)
      /\ Undo(<<e>>) \in Seq(LifeCmds)
  BY <1>4, <1>5, <1>7, <1>8, Zenon
<1>10. Has(q, "delete_table", 4, "none") /\ Has(q, "table", 4, "none")
  BY <1>3, <1>5, <1>7, <1>9, ConcatHas, Zenon
<1>11. \A i \in 1..Len(p \o Bail) : (p \o Bail)[i] \in {c, d}
  <2>1. /\ \A i \in 1..Len(p) : (p \o Bail)[i] = p[i]
        /\ \A i \in 1..Len(p \o Bail) :
              i \notin 1..Len(p) => i - Len(p) \in 1..Len(Bail) /\ (p \o Bail)[i] = Bail[i - Len(p)]
    BY <1>9, ConcatAt
  <2>2. (\A i \in 1..Len(p) : p[i] = c) /\ (\A i \in 1..Len(Bail) : Bail[i] = d)
    <3>1. \A x : \A i \in 1..Len(<<x>>) : <<x>>[i] = x
      OBVIOUS
    <3> QED BY <1>3, <3>1, Zenon
  <2>3. ASSUME NEW i \in 1..Len(p \o Bail)
        PROVE  (p \o Bail)[i] \in {c, d}
    <3>1. CASE i \in 1..Len(p)
      BY <2>1, <2>2, <3>1, Zenon
    <3>2. CASE i \notin 1..Len(p)
      BY <2>1, <2>2, <3>2, Zenon
    <3> QED BY <3>1, <3>2, Zenon
  <2> QED BY <2>3, Zenon
<1>12. Ordered(q)
  <2>1. \A i \in 1..Len(p \o Bail) : (p \o Bail)[i].do \in {"delete_table", "none"}
    BY <1>1, <1>11, Zenon DEF Names
  <2> QED BY <1>3, <1>7, <1>9, <2>1, ConcatOrdered, Zenon
<1>13. p \in Seq(CleanupCmds)
  BY <1>2, <1>3
<1> QED BY <1>5, <1>8, <1>10, <1>12, <1>13, Zenon DEF p, q

\* The program removes the rules of a family.
Removes(q, f) ==
  /\ Has(q, "-D_INPUT", f, "jump") /\ (cfg.drop => Has(q, "-D_INPUT", f, "drop"))
  /\ Has(q, "-X", f, "none")

\* Two cleanup programs make one.
LEMMA ConcatCleanup ==
  ASSUME NEW p, Whole(p), p \in Seq(CleanupCmds), NEW q, Whole(q), q \in Seq(CleanupCmds)
  PROVE  /\ Whole(p \o q) /\ p \o q \in Seq(CleanupCmds)
         /\ \A do, f, a : Has(p, do, f, a) \/ Has(q, do, f, a) => Has(p \o q, do, f, a)
<1>1. p \in Seq(LifeCmds) /\ q \in Seq(LifeCmds)
  BY Zenon DEF Whole
<1> QED BY <1>1, ConcatWhole, ConcatAt, ConcatHas, Zenon

\* Cleanup of the iptables backend removes the rules of every managed family.
LEMMA IptablesCleanupShape ==
  ASSUME cfg \in Configs, cfg.backend \in Iptables
  PROVE  LET q == IptablesCleanup
         IN  Whole(q) /\ q \in Seq(CleanupCmds) /\ \A f \in Managed : Removes(q, f)
<1> DEFINE p == cleanupIptablesRules(4)
           s == cleanupIptablesRules(6)
           r == If(cfg.ipv6, s)
           q == IptablesCleanup
<1>1. Managed = IF cfg.ipv6 THEN {4, 6} ELSE {4}
  BY Zenon DEF Iptables, Managed, Families
<1>2. q = p \o r
  BY Zenon DEF IptablesCleanup
<1>3. Whole(p) /\ p \in Seq(CleanupCmds) /\ Removes(p, 4)
  BY <1>1, CleanupRules, Zenon DEF Removes
<1>4. cfg.ipv6 => Whole(s) /\ s \in Seq(CleanupCmds) /\ Removes(s, 6)
  BY <1>1, CleanupRules, Zenon DEF Removes
<1> HIDE DEF p, s, q
<1>5. Whole(r) /\ r \in Seq(CleanupCmds) /\ (cfg.ipv6 => Removes(r, 6))
  <2>1. Whole(<<>>) /\ <<>> \in Seq(CleanupCmds)
    BY DEF Whole, Paired
  <2> QED BY <1>4, <2>1, Zenon DEF If
<1>6. Whole(q) /\ q \in Seq(CleanupCmds) /\ \A f \in Managed : Removes(q, f)
  BY <1>1, <1>2, <1>3, <1>5, ConcatCleanup, Zenon DEF Removes
<1> QED BY <1>6, Zenon DEF q

\* DestroySet destroys the set.
LEMMA DestroySetShape ==
  ASSUME cfg \in Configs, cfg.backend = "ipset-iptables", NEW f \in Managed
  PROVE  LET q == DestroySet(f)
         IN  Whole(q) /\ q \in Seq(CleanupCmds) /\ Has(q, "destroy", f, "none")
<1> DEFINE c == Cmd("quiet", "flush", f, "none")
           d == Cmd("quiet", "destroy", f, "none")
           q == DestroySet(f)
<1>1. /\ c \in CleanupCmds /\ d \in CleanupCmds /\ c \in LifeCmds /\ d \in LifeCmds
      /\ Names(c, "flush", f, "none") /\ Names(d, "destroy", f, "none")
  BY SetCmds, CmdFields, Zenon DEF CleanupCmds
<1>2. q = <<c, d>>
  BY Zenon DEF DestroySet
<1> HIDE DEF c, d, q
<1>3. /\ q \in Seq(LifeCmds) /\ q \in Seq(CleanupCmds) /\ Len(q) = 2
      /\ q[1] = c /\ q[2] = d
  BY <1>1, <1>2
<1>4. Whole(q)
  BY <1>1, <1>3 DEF Whole, Paired, Names
<1>5. 2 \in (0 + 1)..Len(q) /\ Names(q[2], "destroy", f, "none")
  BY <1>1, <1>3
<1> QED BY <1>3, <1>4, <1>5, Zenon DEF Has, HasAfter, q

\* Cleanup of the ipset-iptables backend removes the rules and the set of every managed
\* family.
LEMMA IPSetCleanupShape ==
  ASSUME cfg \in Configs, cfg.backend = "ipset-iptables"
  PROVE  LET q == IPSetCleanup
         IN  /\ Whole(q) /\ q \in Seq(CleanupCmds)
             /\ \A f \in Managed : Removes(q, f) /\ Has(q, "destroy", f, "none")
<1> DEFINE p == cleanupIptablesRules(4)
           s == cleanupIptablesRules(6) \o DestroySet(6)
           r == If(cfg.ipv6, s)
           d == DestroySet(4)
           q == IPSetCleanup
<1>1. cfg.backend \in Iptables /\ Managed = IF cfg.ipv6 THEN {4, 6} ELSE {4}
  BY Zenon DEF Iptables, Managed, Families
<1>2. q = p \o r \o d
  BY Zenon DEF IPSetCleanup
<1>3. /\ Whole(p) /\ p \in Seq(CleanupCmds) /\ Removes(p, 4)
      /\ Whole(d) /\ d \in Seq(CleanupCmds) /\ Has(d, "destroy", 4, "none")
  BY <1>1, CleanupRules, DestroySetShape, Zenon DEF Removes
<1>4. ASSUME cfg.ipv6
      PROVE  /\ Whole(s) /\ s \in Seq(CleanupCmds) /\ Removes(s, 6)
             /\ Has(s, "destroy", 6, "none")
  <2> DEFINE x == cleanupIptablesRules(6)
             y == DestroySet(6)
  <2>1. /\ Whole(x) /\ x \in Seq(CleanupCmds) /\ Removes(x, 6)
        /\ Whole(y) /\ y \in Seq(CleanupCmds) /\ Has(y, "destroy", 6, "none")
    BY <1>1, <1>4, CleanupRules, DestroySetShape, Zenon DEF Removes
  <2> HIDE DEF x, y
  <2>2. /\ Whole(x \o y) /\ x \o y \in Seq(CleanupCmds)
        /\ \A do, f, a : Has(x, do, f, a) \/ Has(y, do, f, a) => Has(x \o y, do, f, a)
    BY <2>1, ConcatCleanup, Zenon
  <2> QED BY <2>1, <2>2, Zenon DEF Removes, x, y
<1> HIDE DEF p, s, d, q
<1>5. /\ Whole(r) /\ r \in Seq(CleanupCmds)
      /\ (cfg.ipv6 => Removes(r, 6) /\ Has(r, "destroy", 6, "none"))
  <2>1. Whole(<<>>) /\ <<>> \in Seq(CleanupCmds)
    BY DEF Whole, Paired
  <2> QED BY <1>4, <2>1, Zenon DEF If
<1> HIDE DEF r
<1>6. /\ Whole(p \o r) /\ p \o r \in Seq(CleanupCmds)
      /\ \A do, f, a : Has(p, do, f, a) \/ Has(r, do, f, a) => Has(p \o r, do, f, a)
  BY <1>3, <1>5, ConcatCleanup, Zenon
<1>7. /\ Whole(q) /\ q \in Seq(CleanupCmds)
      /\ \A do, f, a : Has(p \o r, do, f, a) \/ Has(d, do, f, a) => Has(q, do, f, a)
  BY <1>2, <1>3, <1>6, ConcatCleanup, Zenon
<1>8. \A f \in Managed : Removes(q, f) /\ Has(q, "destroy", f, "none")
  BY <1>1, <1>3, <1>5, <1>6, <1>7, Zenon DEF Removes
<1> QED BY <1>7, <1>8, Zenon DEF q

\* What Init and Cleanup of every backend contain, for every configuration.
LEMMA Programs ==
  ASSUME cfg \in Configs
  PROVE  LET p == InitProgram(cfg.backend)
             q == Cleanup(cfg.backend)
         IN  /\ Whole(p) /\ Ordered(p) /\ Whole(q) /\ q \in Seq(CleanupCmds)
             /\ cfg.backend \in Iptables => \A f \in Managed :
                  Inserts(p, f) /\ Has(p, "-X", f, "none") /\ Removes(q, f)
             /\ cfg.backend = "ipset-iptables" => \A f \in Managed :
                  Has(p, "flush", f, "none") /\ Has(q, "destroy", f, "none")
             /\ cfg.backend = "nftables" =>
                  /\ Has(p, "delete_table", 4, "none") /\ Has(p, "table", 4, "none")
                  /\ Has(q, "delete_table", 4, "none")
<1>1. CASE cfg.backend = "iptables"
  <2>1. InitProgram(cfg.backend) = IptablesInit /\ Cleanup(cfg.backend) = IptablesCleanup
    BY <1>1, Zenon DEF InitProgram, Cleanup
  <2>2. cfg.backend \in Iptables
    BY <1>1, Zenon DEF Iptables
  <2> QED BY <1>1, <2>1, <2>2, IptablesInitShape, IptablesCleanupShape, Zenon
<1>2. CASE cfg.backend = "ipset-iptables"
  <2>1. InitProgram(cfg.backend) = IPSetInit /\ Cleanup(cfg.backend) = IPSetCleanup
    BY <1>2, Zenon DEF InitProgram, Cleanup
  <2> QED BY <1>2, <2>1, IPSetInitShape, IPSetCleanupShape, Zenon
<1>3. CASE cfg.backend = "nftables"
  <2>1. InitProgram(cfg.backend) = NftablesInit /\ Cleanup(cfg.backend) = NftablesCleanup
    BY <1>3, Zenon DEF InitProgram, Cleanup
  <2>2. cfg.backend \notin Iptables
    BY <1>3, Zenon DEF Iptables
  <2> QED BY <1>3, <2>1, <2>2, NftablesShape, Zenon
<1>4. CASE cfg.backend \in {"script", "noop"}
  <2> DEFINE c == Cmd("must", "script", 4, "none")
  <2>1. InitProgram(cfg.backend) = <<>> /\ Cleanup(cfg.backend) \in {<<>>, <<c>>}
    BY <1>4, Zenon DEF InitProgram, Cleanup, Script
  <2>2. cfg.backend \notin Iptables
    BY <1>4, Zenon DEF Iptables
  <2>3. "script" \in LifeDos /\ 4 \in Families
    BY <1>4, Zenon DEF LifeDos, Families
  <2>4. c \in CleanupCmds /\ c \in LifeCmds /\ c.do = "script"
    BY <2>3, Zenon DEF Cmd, CleanupCmds, LifeCmds, Suits, Commands, Kinds, Dos, Args, Rules
  <2> HIDE DEF c
  <2>5. Whole(<<>>) /\ Ordered(<<>>) /\ <<>> \in Seq(CleanupCmds)
    BY DEF Whole, Paired, Ordered
  <2>6. Whole(<<c>>) /\ <<c>> \in Seq(CleanupCmds)
    BY <2>4, SingleWhole
  <2> QED BY <1>4, <2>1, <2>2, <2>5, <2>6, Zenon
<1> QED BY <1>1, <1>2, <1>3, <1>4, Zenon DEF Configs, Backends

\* A member is added for at least one tick.
LEMMA TicksPositive == ttlSeconds * PerSecond \in Nat /\ ttlSeconds * PerSecond > 0
<1>1. PICK a, b : a = TTL /\ b = PerSecond
  BY Zenon
<1>2. a \in Nat /\ b \in Nat /\ b > 0
  BY <1>1, FirewallAssumption
<1>3. CASE a < b
  BY <1>1, <1>2, <1>3 DEF ttlSeconds
<1>4. CASE ~(a < b)
  <2>1. PICK q, m : q = a \div b /\ m = a % b
    BY Zenon
  <2>2. q \in Int /\ m \in Int /\ m < b /\ a = b * q + m
    BY <1>2, <2>1
  <2>3. q > 0
    BY <1>2, <1>4, <2>2
  <2>4. q * b \in Nat /\ q * b > 0
    BY <1>2, <2>2, <2>3
  <2> QED BY <1>1, <1>4, <2>1, <2>4, Zenon DEF ttlSeconds
<1> QED BY <1>3, <1>4, Zenon

\* ttlSeconds is never zero, the timeout of a member that never ends.
LEMMA TTLExpires == Expiry(ttlSeconds) = now + ttlSeconds * PerSecond
<1>1. PICK n : n = ttlSeconds * PerSecond /\ n > 0 /\ PerSecond \in Nat
  BY TicksPositive, FirewallAssumption
<1>2. ttlSeconds # 0
  BY <1>1
<1> QED BY <1>2, Zenon DEF Expiry

\* What "missing" says about the packet filter k.
Lacks(k, c) ==
  /\ c.do \in {"-F", "-X"} => k.chain[c.fam] = Absent
  /\ c.do \in {"-C", "-D"} => k.chain[c.fam] = Absent \/ c.arg \notin Range(k.chain[c.fam])
  /\ c.do \in {"-C_INPUT", "-D_INPUT"} => k.input[c.fam][c.arg] = 0
  /\ c.do \in {"flush", "destroy"} => ~k.made[c.fam]
  /\ c.do = "del" => k.member[c.arg] <= now
  /\ c.do = "delete_table" => k.chain[4] = Absent

\* A packet filter with one part replaced.
WithChain(k, f, ch) == [k EXCEPT !.chain[f] = ch]
WithInput(k, f, a, n) == [k EXCEPT !.input[f][a] = n]
WithSet(k, f) == [k EXCEPT !.made[f] = TRUE]
WithoutSet(k, f, m) == [k EXCEPT !.made[f] = FALSE, !.member = m]
WithMembers(k, m) == [k EXCEPT !.member = m]
WithMember(k, r, n) == [k EXCEPT !.member[r] = n]

\* What a successful command c makes of k.
Done(k, c, k2) ==
  LET f == c.fam
      a == c.arg
      ch == k.chain[f]
  IN  /\ c.do = "-N" => ch = Absent /\ k2 = WithChain(k, f, <<>>)
      /\ c.do = "-F" => ch # Absent /\ k2 = WithChain(k, f, <<>>)
      /\ c.do = "-X" => ch = <<>> /\ k2 = WithChain(k, f, Absent)
      /\ c.do = "-A" => ch # Absent /\ k2 = WithChain(k, f, Append(ch, a))
      /\ c.do = "-C_INPUT" => k.input[f][a] # 0 /\ k2 = k
      /\ c.do = "-I_INPUT" => k2 = WithInput(k, f, a, k.input[f][a] + 1)
      /\ c.do = "-D_INPUT" => k.input[f][a] # 0 /\ k2 = WithInput(k, f, a, k.input[f][a] - 1)
      /\ c.do = "-C" => ch # Absent /\ a \in Range(ch) /\ k2 = k
      /\ c.do = "-I" => ch # Absent /\ k2 = WithChain(k, f, <<a>> \o ch)
      /\ c.do = "-D" => ch # Absent /\ \E i \in DOMAIN ch :
                          ch[i] = a /\ k2 = WithChain(k, f, Deleted(ch, i))
      /\ c.do = "create" => k2 = WithSet(k, f)
      /\ c.do = "flush" => k2 = WithMembers(k, Flushed(k, f))
      /\ c.do = "destroy" => k2 = WithoutSet(k, f, Flushed(k, f))
      /\ c.do = "add" => k.made[f] /\ k2 = WithMember(k, a, now + ttlSeconds * PerSecond)
      /\ c.do = "del" => ~(k.member[a] <= now) /\ k2 = WithMember(k, a, 0)
      /\ c.do = "table" => k2 = Table(k)
      /\ c.do = "delete_table" => k2 = Empty
      /\ c.do \in {"none", "script"} => k2 = k

\* The packet filter and the outcome in the results of a command.
LEMMA OutcomeFields ==
  ASSUME NEW k
  PROVE  /\ \A o \in Ok(k) : o.k = k /\ o.out = "ok"
         /\ \A o \in Error(k) : o.k = k /\ o.out = "error"
         /\ \A o \in Missing(k) : o.k = k /\ o.out = "missing"
BY DEF Ok, Error, Missing

\* A command changes nothing and fails, changes nothing because what it names is
\* missing, or is done (the cases of Effect).
LEMMA EffectCases ==
  ASSUME NEW k, NEW c, NEW o \in Effect(k, c)
  PROVE  \/ o.k = k /\ o.out = "error"
         \/ o.k = k /\ o.out = "missing" /\ Lacks(k, c)
         \/ o.out = "ok" /\ Done(k, c, o.k)
<1>1. CASE c.do = "-N"
  BY <1>1 DEF Effect, Unless, Ok, Error, Missing, NoChain, Lacks, Done,
    WithChain, WithInput, WithSet, WithoutSet, WithMembers, WithMember
<1>2. CASE c.do = "-F"
  BY <1>2 DEF Effect, Unless, Ok, Error, Missing, NoChain, Lacks, Done,
    WithChain, WithInput, WithSet, WithoutSet, WithMembers, WithMember
<1>3. CASE c.do = "-X"
  BY <1>3 DEF Effect, Unless, Ok, Error, Missing, NoChain, Lacks, Done,
    WithChain, WithInput, WithSet, WithoutSet, WithMembers, WithMember
<1>4. CASE c.do = "-A"
  <2>0. PICK x : x = [k EXCEPT !.chain[c.fam] = Append(@, c.arg)]
    BY Zenon
  <2>1. Effect(k, c) = Unless(k.chain[c.fam] = Absent \/ (c.arg = "set" /\ ~k.made[c.fam]),
                              Error(k), [k EXCEPT !.chain[c.fam] = Append(@, c.arg)])
    BY <1>4, Zenon DEF Effect
  <2>2. \/ o \in Error(k)
        \/ /\ k.chain[c.fam] # Absent
           /\ o \in Ok(x)
    BY <2>0, <2>1, Zenon DEF Unless
  <2>3. \/ o.k = k /\ o.out = "error"
        \/ /\ k.chain[c.fam] # Absent /\ o.out = "ok"
           /\ o.k = x
    BY <2>2, OutcomeFields, Zenon
  <2> QED BY <1>4, <2>0, <2>3, Zenon DEF Done, WithChain
<1>5. CASE c.do = "-C_INPUT"
  BY <1>5 DEF Effect, Unless, Ok, Error, Missing, NoChain, Lacks, Done,
    WithChain, WithInput, WithSet, WithoutSet, WithMembers, WithMember
<1>6. CASE c.do = "-I_INPUT"
  BY <1>6 DEF Effect, Unless, Ok, Error, Missing, NoChain, Lacks, Done,
    WithChain, WithInput, WithSet, WithoutSet, WithMembers, WithMember
<1>7. CASE c.do = "-D_INPUT"
  BY <1>7 DEF Effect, Unless, Ok, Error, Missing, NoChain, Lacks, Done,
    WithChain, WithInput, WithSet, WithoutSet, WithMembers, WithMember
<1>8. CASE c.do = "-C"
  BY <1>8 DEF Effect, Unless, Ok, Error, Missing, NoChain, Lacks, Done,
    WithChain, WithInput, WithSet, WithoutSet, WithMembers, WithMember
<1>9. CASE c.do = "-I"
  <2>0. PICK x : x = [k EXCEPT !.chain[c.fam] = <<c.arg>> \o @]
    BY Zenon
  <2>1. Effect(k, c) = Unless(k.chain[c.fam] = Absent, Error(k),
                              [k EXCEPT !.chain[c.fam] = <<c.arg>> \o @])
    BY <1>9, Zenon DEF Effect
  <2>2. \/ o \in Error(k)
        \/ /\ k.chain[c.fam] # Absent
           /\ o \in Ok(x)
    BY <2>0, <2>1, Zenon DEF Unless
  <2>3. \/ o.k = k /\ o.out = "error"
        \/ /\ k.chain[c.fam] # Absent /\ o.out = "ok"
           /\ o.k = x
    BY <2>2, OutcomeFields, Zenon
  <2> QED BY <1>9, <2>0, <2>3, Zenon DEF Done, WithChain
<1>10. CASE c.do = "-D"
  <2>1. Effect(k, c) =
          IF k.chain[c.fam] = Absent THEN NoChain(k)
          ELSE IF c.arg \notin Range(k.chain[c.fam]) THEN Missing(k)
          ELSE UNION {Ok([k EXCEPT !.chain[c.fam] = Deleted(k.chain[c.fam], i)]) :
                        i \in First(k.chain[c.fam], c.arg)}
    BY <1>10, Zenon DEF Effect
  <2>2. CASE k.chain[c.fam] = Absent \/ c.arg \notin Range(k.chain[c.fam])
    BY <1>10, <2>1, <2>2 DEF Error, Missing, NoChain, Lacks
  <2>3. CASE ~(k.chain[c.fam] = Absent \/ c.arg \notin Range(k.chain[c.fam]))
    <3>1. PICK i \in First(k.chain[c.fam], c.arg) :
                 o \in Ok([k EXCEPT !.chain[c.fam] = Deleted(k.chain[c.fam], i)])
      BY <2>1, <2>3
    <3> QED BY <1>10, <2>3, <3>1 DEF Ok, First, Done, WithChain
  <2> QED BY <2>2, <2>3, Zenon
<1>11. CASE c.do = "create"
  BY <1>11 DEF Effect, Unless, Ok, Error, Missing, NoChain, Lacks, Done,
    WithChain, WithInput, WithSet, WithoutSet, WithMembers, WithMember
<1>12. CASE c.do = "flush"
  BY <1>12 DEF Effect, Unless, Ok, Error, Missing, NoChain, Lacks, Done,
    WithChain, WithInput, WithSet, WithoutSet, WithMembers, WithMember
<1>13. CASE c.do = "destroy"
  BY <1>13 DEF Effect, Unless, Ok, Error, Missing, NoChain, Lacks, Done,
    WithChain, WithInput, WithSet, WithoutSet, WithMembers, WithMember
<1>14. CASE c.do = "add"
  BY <1>14, TTLExpires DEF Effect, Unless, Ok, Error, Missing, NoChain, Lacks, Done,
    WithChain, WithInput, WithSet, WithoutSet, WithMembers, WithMember
<1>15. CASE c.do = "del"
  BY <1>15 DEF Effect, Unless, Ok, Error, Missing, NoChain, Lacks, Done,
    WithChain, WithInput, WithSet, WithoutSet, WithMembers, WithMember
<1>16. CASE c.do = "table"
  BY <1>16 DEF Effect, Unless, Ok, Error, Missing, NoChain, Lacks, Done,
    WithChain, WithInput, WithSet, WithoutSet, WithMembers, WithMember
<1>17. CASE c.do = "delete_table"
  BY <1>17 DEF Effect, Unless, Ok, Error, Missing, NoChain, Lacks, Done,
    WithChain, WithInput, WithSet, WithoutSet, WithMembers, WithMember
<1>18. CASE /\ c.do # "-N" /\ c.do # "-F" /\ c.do # "-X" /\ c.do # "-A" /\ c.do # "-C_INPUT"
            /\ c.do # "-I_INPUT" /\ c.do # "-D_INPUT" /\ c.do # "-C" /\ c.do # "-I" /\ c.do # "-D"
            /\ c.do # "create" /\ c.do # "flush" /\ c.do # "destroy" /\ c.do # "add"
            /\ c.do # "del" /\ c.do # "table" /\ c.do # "delete_table"
  <2>1. Effect(k, c) = Ok(k)
    BY <1>18, Zenon DEF Effect
  <2>2. o.k = k /\ o.out = "ok"
    BY <2>1, OutcomeFields
  <2> QED BY <1>18, <2>2, Zenon DEF Done
<1> QED
  BY <1>1, <1>2, <1>3, <1>4, <1>5, <1>6, <1>7, <1>8, <1>9, <1>10, <1>11, <1>12, <1>13, <1>14,
       <1>15, <1>16, <1>17, <1>18, Zenon

\* A check of INPUT that ends in an error is one that failed without need.
LEMMA CheckOutcome ==
  ASSUME NEW k, NEW c, NEW o \in Effect(k, c), c.do = "-C_INPUT"
  PROVE  o.out # "error"
BY DEF Effect, Unless, Ok, Missing

\* Command c ran and ended with out: faults included, it changed nothing or was done.
Ran(c, out) ==
  /\ out \in {"ok", "error", "missing"}
  /\ kernel' = kernel \/ (~NoTool(c) /\ Done(kernel, c, kernel'))
  /\ out = "ok" => c.kind = "bail" \/ (~NoTool(c) /\ Done(kernel, c, kernel'))
  /\ out = "missing" => kernel' = kernel /\ Lacks(kernel, c)
  /\ faults' \in {faults, faults + 1} /\ faults' <= MaxFaults
  /\ c.do = "-C_INPUT" /\ out = "error" => NoTool(c) \/ faults' = faults + 1
  /\ UNCHANGED <<now, cfg, phase, starts, granted, clean>>

\* A step of a goroutine runs the command at the head of its program (execRunner).
LEMMA StepRan ==
  ASSUME NEW p \in Procs, Step(p), faults \in 0..MaxFaults,
         calls[p].todo # <<>> => (Head(calls[p].todo).kind = "bail") = (Head(calls[p].todo).do = "none")
  PROVE  LET c == Head(calls[p].todo)
         IN  \E out : /\ Ran(c, out) /\ calls' = [calls EXCEPT ![p] = After(@, c, out)]
                     /\ doubtful' = doubtful \cup
                          IF /\ c.do = "-C" /\ out # "ok" /\ kernel.chain[c.fam] # Absent
                             /\ c.arg \in Range(kernel.chain[c.fam])
                          THEN {c.arg} ELSE {}
<1> DEFINE q == calls[p].todo
<1>1. PICK c : c = Head(q)
  BY Zenon
<1>2. PICK o \in Outcomes(c) :
        /\ kernel' = o.k
        /\ calls' = [calls EXCEPT ![p] = After(@, c, o.out)]
        /\ faults' = faults + IF c.kind = "bail" \/ NoTool(c) \/ o \in Effect(kernel, c)
                              THEN 0 ELSE 1
        /\ doubtful' = doubtful \cup IF Overlooked(c, o) THEN {c.arg} ELSE {}
        /\ UNCHANGED <<now, cfg, phase, starts, granted, clean>>
  BY <1>1, Zenon DEF Step
<1>3. Ran(c, o.out)
  <2>0. faults \in Nat /\ MaxFaults \in Nat /\ faults <= MaxFaults
    BY FirewallAssumption
  <2>1. CASE c.kind = "bail"
    <3>1. o \in Ok(kernel)
      BY <1>2, <2>1, Zenon DEF Outcomes
    <3>2. o.k = kernel /\ o.out = "ok"
      BY <3>1, OutcomeFields, Zenon
    <3>3. faults' = faults
      BY <1>2, <2>0, <2>1
    <3> QED BY <1>2, <2>0, <2>1, <3>2, <3>3, Zenon DEF Ran
  <2>2. CASE c.kind # "bail" /\ NoTool(c)
    <3>1. o \in Error(kernel)
      BY <1>2, <2>2, Zenon DEF Outcomes
    <3>2. o.k = kernel /\ o.out = "error"
      BY <3>1, OutcomeFields, Zenon
    <3>3. faults' = faults
      BY <1>2, <2>0, <2>2
    <3> QED BY <1>2, <2>0, <2>2, <3>2, <3>3, Zenon DEF Ran
  <2>3. CASE c.kind # "bail" /\ ~NoTool(c) /\ o \in Effect(kernel, c)
    <3>1. \/ o.k = kernel /\ o.out = "error"
          \/ o.k = kernel /\ o.out = "missing" /\ Lacks(kernel, c)
          \/ o.out = "ok" /\ Done(kernel, c, o.k)
      BY <2>3, EffectCases, Zenon
    <3>2. c.do = "-C_INPUT" => o.out # "error"
      BY <2>3, CheckOutcome, Zenon
    <3>3. faults' = faults
      BY <1>2, <2>0, <2>3
    <3> QED BY <1>2, <2>0, <2>3, <3>1, <3>2, <3>3, Zenon DEF Ran
  <2>4. CASE c.kind # "bail" /\ ~NoTool(c) /\ o \notin Effect(kernel, c)
    <3>1. /\ faults < MaxFaults
          /\ \E e \in Effect(kernel, c) \cup Ok(kernel) : o \in Error(e.k)
      BY <1>2, <2>4, Zenon DEF Outcomes
    <3>2. PICK e \in Effect(kernel, c) \cup Ok(kernel) : o \in Error(e.k)
      BY <3>1, Zenon
    <3>3. o.k = e.k /\ o.out = "error"
      BY <3>2 DEF Error
    <3>4. o.k = kernel \/ Done(kernel, c, o.k)
      BY <3>2, <3>3, EffectCases DEF Ok
    <3>5. faults' = faults + 1
      BY <1>2, <2>4, Zenon
    <3>6. faults' <= MaxFaults
      BY <2>0, <3>1, <3>5
    <3> QED BY <1>2, <2>4, <3>3, <3>4, <3>5, <3>6, Zenon DEF Ran
  <2> QED BY <2>1, <2>2, <2>3, <2>4, Zenon
<1> QED BY <1>1, <1>2, <1>3, Zenon DEF Overlooked

\* What is left of a program after its first command is in order too.
LEMMA TailShape ==
  ASSUME NEW q \in Seq(LifeCmds), q # <<>>, Paired(q)
  PROVE  LET c == Head(q)
             r == Tail(q)
         IN  /\ c \in LifeCmds /\ r \in Seq(LifeCmds) /\ Paired(r)
             /\ q \in Seq(CleanupCmds) => c \in CleanupCmds /\ r \in Seq(CleanupCmds)
             /\ \A do, f, a : Has(q, do, f, a) => Names(c, do, f, a) \/ Has(r, do, f, a)
             /\ c.do = "-C_INPUT" => r # <<>> /\ Names(Head(r), "-I_INPUT", c.fam, c.arg)
             /\ r # <<>> /\ Head(r).do = "-I_INPUT" =>
                  Names(c, "-C_INPUT", Head(r).fam, Head(r).arg)
             /\ Ordered(q) =>
                  /\ Ordered(r)
                  /\ c.do = "-D_INPUT" => Has(r, "-I_INPUT", c.fam, c.arg)
                  /\ c.do \in {"-F", "-X"} => Has(r, "-A", c.fam, "drop")
                  /\ c.do = "delete_table" => Has(r, "table", 4, "none")
<1>1. PICK c, r : c = Head(q) /\ r = Tail(q)
  BY Zenon
<1>2. /\ c \in LifeCmds /\ r \in Seq(LifeCmds) /\ c = q[1] /\ Len(q) \in Nat /\ Len(q) > 0
      /\ Len(r) = Len(q) - 1 /\ \A i \in 1..Len(r) : r[i] = q[i + 1]
  BY <1>1
<1>3. q \in Seq(CleanupCmds) => c \in CleanupCmds /\ r \in Seq(CleanupCmds)
  BY <1>1
<1>4. Paired(r)
  <2>1. ASSUME NEW i \in 1..Len(r), r[i].do = "-C_INPUT"
        PROVE  i < Len(r) /\ Names(r[i + 1], "-I_INPUT", r[i].fam, r[i].arg)
    <3>1. i + 1 \in 1..Len(q) /\ r[i] = q[i + 1]
      BY <1>2
    <3>2. i + 1 < Len(q) /\ Names(q[(i + 1) + 1], "-I_INPUT", r[i].fam, r[i].arg)
      BY <2>1, <3>1, Zenon DEF Paired
    <3>3. i + 1 \in 1..Len(r)
      BY <1>2, <3>2
    <3> QED BY <1>2, <3>2, <3>3
  <2>2. ASSUME NEW i \in 2..Len(r), r[i].do = "-I_INPUT"
        PROVE  Names(r[i - 1], "-C_INPUT", r[i].fam, r[i].arg)
    <3>1. i + 1 \in 2..Len(q) /\ r[i] = q[i + 1] /\ i - 1 \in 1..Len(r) /\ r[i - 1] = q[i]
      BY <1>2
    <3>2. Names(q[(i + 1) - 1], "-C_INPUT", r[i].fam, r[i].arg)
      BY <2>2, <3>1, Zenon DEF Paired
    <3>3. (i + 1) - 1 = i
      OBVIOUS
    <3> QED BY <3>1, <3>2, <3>3, Zenon
  <2> QED BY <2>1, <2>2, Zenon DEF Paired
<1>5. \A do, f, a : Has(q, do, f, a) => Names(c, do, f, a) \/ Has(r, do, f, a)
  <2>1. ASSUME NEW do, NEW f, NEW a, Has(q, do, f, a), ~Names(c, do, f, a)
        PROVE  Has(r, do, f, a)
    <3>1. PICK j \in 1..Len(q) : Names(q[j], do, f, a)
      BY <2>1 DEF Has, HasAfter
    <3>2. j - 1 \in 1..Len(r) /\ r[j - 1] = q[j]
      BY <1>2, <2>1, <3>1
    <3> QED BY <3>1, <3>2 DEF Has, HasAfter
  <2> QED BY <2>1, Zenon
<1>6. c.do = "-C_INPUT" => r # <<>> /\ Names(Head(r), "-I_INPUT", c.fam, c.arg)
  <2>1. ASSUME c.do = "-C_INPUT"
        PROVE  1 < Len(q) /\ Names(q[1 + 1], "-I_INPUT", c.fam, c.arg)
    BY <1>2, <2>1 DEF Paired
  <2>2. 1 < Len(q) => r # <<>> /\ Head(r) = q[1 + 1]
    BY <1>2
  <2> QED BY <2>1, <2>2, Zenon
<1>7. r # <<>> /\ Head(r).do = "-I_INPUT" => Names(c, "-C_INPUT", Head(r).fam, Head(r).arg)
  <2>1. r # <<>> => 2 \in 2..Len(q) /\ Head(r) = q[2] /\ 2 - 1 = 1
    BY <1>2
  <2> QED BY <1>2, <2>1, Zenon DEF Paired
<1>8. ASSUME NEW i \in 1..Len(q), NEW do, NEW f, NEW a, HasAfter(q, i, do, f, a)
      PROVE  HasAfter(r, i - 1, do, f, a)
  <2>1. PICK j \in (i + 1)..Len(q) : Names(q[j], do, f, a)
    BY <1>8, Zenon DEF HasAfter
  <2>2. j - 1 \in ((i - 1) + 1)..Len(r) /\ r[j - 1] = q[j]
    BY <1>2
  <2> QED BY <2>1, <2>2, Zenon DEF HasAfter
<1>9. ASSUME Ordered(q)
      PROVE  /\ Ordered(r)
             /\ c.do = "-D_INPUT" => Has(r, "-I_INPUT", c.fam, c.arg)
             /\ c.do \in {"-F", "-X"} => Has(r, "-A", c.fam, "drop")
             /\ c.do = "delete_table" => Has(r, "table", 4, "none")
  <2>1. 1 \in 1..Len(q) /\ 1 - 1 = 0
    BY <1>2
  <2>2. /\ c.do = "-D_INPUT" => Has(r, "-I_INPUT", c.fam, c.arg)
        /\ c.do \in {"-F", "-X"} => Has(r, "-A", c.fam, "drop")
        /\ c.do = "delete_table" => Has(r, "table", 4, "none")
    BY <1>2, <1>8, <1>9, <2>1, Zenon DEF Ordered, Has
  <2>3. ASSUME NEW i \in 1..Len(r)
        PROVE  /\ r[i].do = "-D_INPUT" => HasAfter(r, i, "-I_INPUT", r[i].fam, r[i].arg)
               /\ r[i].do \in {"-F", "-X"} => HasAfter(r, i, "-A", r[i].fam, "drop")
               /\ r[i].do = "delete_table" => HasAfter(r, i, "table", 4, "none")
    <3>1. i + 1 \in 1..Len(q) /\ r[i] = q[i + 1] /\ (i + 1) - 1 = i
      BY <1>2
    <3>2. \A do, f, a : HasAfter(q, i + 1, do, f, a) => HasAfter(r, i, do, f, a)
      BY <1>8, <3>1, Zenon
    <3> QED BY <1>9, <3>1, <3>2, Zenon DEF Ordered
  <2>4. Ordered(r)
    BY <2>3, Zenon DEF Ordered
  <2> QED BY <2>2, <2>4, Zenon
<1> QED BY <1>1, <1>2, <1>3, <1>4, <1>5, <1>6, <1>7, <1>9, Zenon

\* Where call p goes after c ended with out, r being the call afterwards: once more in the
\* loop, on to the next command, past the next one, or giving up.
Moved(p, c, out, r) ==
  \/ /\ c.kind = "loop" /\ out = "ok" /\ p.n + 1 < MaxCleanupDeletes
     /\ r.todo = p.todo /\ r.n = p.n + 1 /\ r.err = p.err
  \/ /\ r.todo = Tail(p.todo) /\ r.n = 0
     /\ r.err = (p.err \/ (c.kind \in {"quiet", "loop"} /\ out = "error"))
     /\ c.kind = "must" => out = "ok"
     /\ c.kind = "loop" => ~(out = "ok" /\ p.n + 1 < MaxCleanupDeletes)
     /\ c.kind = "unless" => out # "ok"
  \/ /\ c.kind = "unless" /\ out = "ok" /\ r.todo = Tail(Tail(p.todo))
     /\ r.n = 0 /\ r.err = p.err
  \/ /\ c.kind \in {"must", "bail"} /\ r.err = TRUE /\ r.n = 0
     /\ r.todo = IF c.undo THEN Cleanup(cfg.backend) ELSE <<>>

\* The cases of After.
LEMMA AfterCases ==
  ASSUME NEW p \in Calls, NEW c, c.kind \in Kinds, NEW out
  PROVE  LET r == After(p, c, out)
         IN  /\ r.op = p.op /\ r.remote = p.remote /\ r.since = p.since
             /\ Moved(p, c, out, r)
<1>1. CASE c.kind = "must"
  BY <1>1, Zenon DEF After, GivesUp, Calls, Moved
<1>2. CASE c.kind = "try"
  BY <1>2, Zenon DEF After, GivesUp, Calls, Moved
<1>3. CASE c.kind = "quiet"
  BY <1>3, Zenon DEF After, GivesUp, Calls, Moved
<1>4. CASE c.kind = "loop"
  BY <1>4, Zenon DEF After, GivesUp, Calls, Moved
<1>5. CASE c.kind = "unless"
  BY <1>5, Zenon DEF After, GivesUp, Calls, Moved
<1>6. CASE c.kind = "bail"
  BY <1>6, Zenon DEF After, GivesUp, Calls, Moved
<1> QED BY <1>1, <1>2, <1>3, <1>4, <1>5, <1>6, Zenon DEF Kinds

\* The argument of a command fits it.
Proper(c) ==
  /\ c \in Commands
  /\ c.do \in {"-C_INPUT", "-I_INPUT", "-D_INPUT"} => c.arg \in {"jump", "drop"}
  /\ c.do \in {"-A", "-I"} => c.arg \in Rules
  /\ c.do \in {"add", "del"} => c.arg \in Remotes

\* The commands that change each part of the packet filter.
ChainDos == {"-N", "-F", "-X", "-A", "-I", "-D", "table", "delete_table"}
InputDos == {"-I_INPUT", "-D_INPUT", "table", "delete_table"}
MadeDos == {"create", "destroy", "table", "delete_table"}
MemberDos == {"flush", "destroy", "add", "del", "delete_table"}

\* What command c leaves alone: the other parts, and the other family.
Frame(k, c, k2) ==
  /\ c.do \notin ChainDos => k2.chain = k.chain
  /\ c.do \notin InputDos => k2.input = k.input
  /\ c.do \notin MadeDos => k2.made = k.made
  /\ c.do \notin MemberDos => k2.member = k.member
  /\ c.do \notin {"table", "delete_table"} => \A f \in Families : f # c.fam =>
       k2.chain[f] = k.chain[f] /\ k2.input[f] = k.input[f] /\ k2.made[f] = k.made[f]

\* What command c has done to its own part.
Result(k, c, k2) ==
  LET f == c.fam
      a == c.arg
  IN  /\ c.do \in {"-N", "-F"} => k2.chain[f] = <<>>
      /\ c.do = "-F" => k.chain[f] # Absent
      /\ c.do = "-X" => k.chain[f] = <<>> /\ k2.chain[f] = Absent
      /\ c.do = "-A" => k.chain[f] # Absent /\ k2.chain[f] = Append(k.chain[f], a)
      /\ c.do = "-I" => k.chain[f] # Absent /\ k2.chain[f] = <<a>> \o k.chain[f]
      /\ c.do = "-D" => k.chain[f] # Absent /\ \E i \in 1..Len(k.chain[f]) :
           k.chain[f][i] = a /\ k2.chain[f] = Deleted(k.chain[f], i)
      /\ c.do = "-I_INPUT" => k2.input[f][a] = k.input[f][a] + 1
      /\ c.do = "-D_INPUT" => k.input[f][a] > 0 /\ k2.input[f][a] = k.input[f][a] - 1
      /\ c.do \in {"-I_INPUT", "-D_INPUT"} =>
           /\ a = "jump" => k2.input[f].drop = k.input[f].drop
           /\ a = "drop" => k2.input[f].jump = k.input[f].jump
      /\ c.do = "create" => k2.made[f]
      /\ c.do = "destroy" => ~k2.made[f]
      /\ c.do \in {"flush", "destroy"} => k2.member = Flushed(k, f)
      /\ c.do = "add" => k.made[f] /\ k2.member[a] = now + ttlSeconds * PerSecond
      /\ c.do = "del" => ~(k.member[a] <= now) /\ k2.member[a] = 0
      /\ c.do \in {"add", "del"} => \A r \in Remotes : r # a => k2.member[r] = k.member[r]
      /\ c.do = "table" => k2 = Table(k)
      /\ c.do = "delete_table" => k2 = Empty
      /\ c.do = "-C_INPUT" => k.input[f][a] > 0
      /\ c.do = "-C" => a \in Range(k.chain[f])

\* The packet filter without any rule is one.
LEMMA EmptyKernel == Empty \in Kernels
BY Zenon DEF Empty, Kernels, Absent

\* A chain is replaced, and nothing else (-N, -F, -X, -A, -I, -D).
LEMMA SetChain ==
  ASSUME NEW k \in Kernels, NEW f \in Families, NEW ch \in Seq(Rules) \cup {Absent}
  PROVE  LET x == WithChain(k, f, ch)
         IN  /\ x \in Kernels /\ x.chain[f] = ch
             /\ \A g \in Families : g # f => x.chain[g] = k.chain[g]
             /\ x.input = k.input /\ x.made = k.made /\ x.member = k.member
<1>1. PICK x : x = WithChain(k, f, ch)
  BY Zenon
<1>2. k.chain \in [Families -> Seq(Rules) \cup {Absent}]
  BY Zenon DEF Kernels
<1>3. x.chain = [k.chain EXCEPT ![f] = ch]
  BY <1>1, Zenon DEF Kernels, WithChain
<1>4. x.input = k.input /\ x.made = k.made /\ x.member = k.member
  BY <1>1, Zenon DEF Kernels, WithChain
<1>5. x.chain \in [Families -> Seq(Rules) \cup {Absent}]
  BY <1>2, <1>3, Zenon
<1>6. x = [chain |-> x.chain, input |-> k.input, made |-> k.made, member |-> k.member]
  BY <1>1, <1>3, Zenon DEF Kernels, WithChain
<1>7. x \in Kernels
  BY <1>5, <1>6 DEF Kernels
<1> QED BY <1>1, <1>2, <1>3, <1>4, <1>7, Zenon

\* The number of one rule of INPUT changes, and nothing else (-I and -D on INPUT).
LEMMA SetInput ==
  ASSUME NEW k \in Kernels, NEW f \in Families, NEW a \in {"jump", "drop"}, NEW n \in Nat
  PROVE  LET x == WithInput(k, f, a, n)
         IN  /\ x \in Kernels /\ x.input[f][a] = n
             /\ a = "jump" => x.input[f].drop = k.input[f].drop
             /\ a = "drop" => x.input[f].jump = k.input[f].jump
             /\ \A g \in Families : g # f => x.input[g] = k.input[g]
             /\ x.chain = k.chain /\ x.made = k.made /\ x.member = k.member
<1>1. PICK x : x = WithInput(k, f, a, n)
  BY Zenon
<1>2. k.input \in [Families -> [jump : Nat, drop : Nat]]
  BY Zenon DEF Kernels
<1>3. x.input = [k.input EXCEPT ![f][a] = n]
  BY <1>1, Zenon DEF Kernels, WithInput
<1>4. x.chain = k.chain /\ x.made = k.made /\ x.member = k.member
  BY <1>1, Zenon DEF Kernels, WithInput
<1>5. x.input \in [Families -> [jump : Nat, drop : Nat]]
  BY <1>2, <1>3, Zenon
<1>6. x = [chain |-> k.chain, input |-> x.input, made |-> k.made, member |-> k.member]
  BY <1>1, <1>3, Zenon DEF Kernels, WithInput
<1>7. x \in Kernels
  BY <1>5, <1>6 DEF Kernels
<1> QED BY <1>1, <1>2, <1>3, <1>4, <1>7

\* A set is created (ipset create).
LEMMA SetCreated ==
  ASSUME NEW k \in Kernels, NEW f \in Families
  PROVE  LET x == WithSet(k, f)
         IN  /\ x \in Kernels /\ x.chain = k.chain /\ x.input = k.input
             /\ x.made[f] /\ \A g \in Families : g # f => x.made[g] = k.made[g]
             /\ x.member = k.member
<1>1. PICK x : x = WithSet(k, f)
  BY Zenon
<1>2. k.made \in [Families -> BOOLEAN]
  BY Zenon DEF Kernels
<1>3. x.made = [k.made EXCEPT ![f] = TRUE]
  BY <1>1, Zenon DEF Kernels, WithSet
<1>4. x.chain = k.chain /\ x.input = k.input /\ x.member = k.member
  BY <1>1, Zenon DEF Kernels, WithSet
<1>5. x.made \in [Families -> BOOLEAN]
  BY <1>2, <1>3, Zenon
<1>6. x = [chain |-> k.chain, input |-> k.input, made |-> x.made, member |-> k.member]
  BY <1>1, <1>3, Zenon DEF Kernels, WithSet
<1>7. x \in Kernels
  BY <1>5, <1>6 DEF Kernels
<1> QED BY <1>1, <1>2, <1>3, <1>4, <1>7, Zenon

\* A set is destroyed, with its members (ipset destroy).
LEMMA SetDestroyed ==
  ASSUME NEW k \in Kernels, NEW f \in Families, NEW m \in [Remotes -> Nat]
  PROVE  LET x == WithoutSet(k, f, m)
         IN  /\ x \in Kernels /\ x.chain = k.chain /\ x.input = k.input
             /\ ~x.made[f] /\ \A g \in Families : g # f => x.made[g] = k.made[g]
             /\ x.member = m
<1>1. PICK x : x = WithoutSet(k, f, m)
  BY Zenon
<1>2. k.made \in [Families -> BOOLEAN]
  BY Zenon DEF Kernels
<1>3. x.made = [k.made EXCEPT ![f] = FALSE]
  BY <1>1, Zenon DEF Kernels, WithoutSet
<1>4. x.chain = k.chain /\ x.input = k.input /\ x.member = m
  BY <1>1, Zenon DEF Kernels, WithoutSet
<1>5. x.made \in [Families -> BOOLEAN]
  BY <1>2, <1>3, Zenon
<1>6. x = [chain |-> k.chain, input |-> k.input, made |-> x.made, member |-> m]
  BY <1>1, <1>3, Zenon DEF Kernels, WithoutSet
<1>7. x \in Kernels
  BY <1>5, <1>6 DEF Kernels
<1> QED BY <1>1, <1>2, <1>3, <1>4, <1>7, Zenon

\* The members of the sets change (ipset flush).
LEMMA SetFlushed ==
  ASSUME NEW k \in Kernels, NEW m \in [Remotes -> Nat]
  PROVE  LET x == WithMembers(k, m)
         IN  /\ x \in Kernels /\ x.chain = k.chain /\ x.input = k.input
             /\ x.made = k.made
             /\ x.member = m
<1>1. PICK x : x = WithMembers(k, m)
  BY Zenon
<1>2. k.made \in [Families -> BOOLEAN]
  BY Zenon DEF Kernels
<1>3. x.made = k.made
  BY <1>1, Zenon DEF Kernels, WithMembers
<1>4. x.chain = k.chain /\ x.input = k.input /\ x.member = m
  BY <1>1, Zenon DEF Kernels, WithMembers
<1>5. x.made \in [Families -> BOOLEAN]
  BY <1>2, <1>3, Zenon
<1>6. x = [chain |-> k.chain, input |-> k.input, made |-> x.made, member |-> m]
  BY <1>1, <1>3, Zenon DEF Kernels, WithMembers
<1>7. x \in Kernels
  BY <1>5, <1>6 DEF Kernels
<1> QED BY <1>1, <1>2, <1>3, <1>4, <1>7, Zenon

\* One member gets an expiry or is removed (add and del).
LEMMA SetMember ==
  ASSUME NEW k \in Kernels, NEW r \in Remotes, NEW n \in Nat, NEW x, x = WithMember(k, r, n)
  PROVE  /\ x \in Kernels /\ x.member[r] = n
         /\ \A s \in Remotes : s # r => x.member[s] = k.member[s]
         /\ x.chain = k.chain /\ x.input = k.input /\ x.made = k.made
<1>1. x = WithMember(k, r, n)
  BY Zenon
<1>2. k.member \in [Remotes -> Nat]
  BY Zenon DEF Kernels
<1>3. x.member = [k.member EXCEPT ![r] = n]
  BY <1>1, Zenon DEF Kernels, WithMember
<1>4. x.chain = k.chain /\ x.input = k.input /\ x.made = k.made
  BY <1>1, Zenon DEF Kernels, WithMember
<1>5. x.member \in [Remotes -> Nat]
  BY <1>2, <1>3, Zenon
<1>6. x = [chain |-> k.chain, input |-> k.input, made |-> k.made, member |-> x.member]
  BY <1>1, <1>3, Zenon DEF Kernels, WithMember
<1>7. x \in Kernels
  BY <1>5, <1>6 DEF Kernels
<1> QED BY <1>1, <1>2, <1>3, <1>4, <1>7, Zenon

\* The table nftables' Init loads has, for both families, a jump, a chain that ends in a
\* drop, and adds no rule for a single remote.
LEMMA SetTable ==
  ASSUME NEW k \in Kernels, cfg \in Configs
  PROVE  LET x == Table(k)
         IN  /\ x \in Kernels /\ x.member = k.member
             /\ \A f \in Families :
                  /\ x.chain[f] \in Seq(Rules) /\ x.chain[f] # Absent
                  /\ "drop" \in Range(x.chain[f])
                  /\ Strings(k.chain[f]) => Strings(x.chain[f])
                  /\ x.input[f].jump = 1 /\ (cfg.drop => x.input[f].drop = 1)
                  /\ ~cfg.drop => x.input[f].drop = 0
                  /\ k.made[f] => x.made[f]
                  /\ f = 4 => x.made[f]
<1>1. PICK x, ch : x = Table(k) /\ ch = x.chain
  BY Zenon
<1>2. /\ ch = [f \in Families |-> (IF k.chain[f] = Absent THEN <<>> ELSE k.chain[f])
                 \o <<"established">> \o If(f = 4 \/ cfg.ipv6, <<"set">>) \o <<"drop">>]
      /\ x.input = [f \in Families |-> [jump |-> 1, drop |-> IF cfg.drop THEN 1 ELSE 0]]
      /\ x.made = [f \in Families |-> f = 4 \/ cfg.ipv6 \/ k.made[f]]
      /\ x.member = k.member
      /\ x = [chain |-> ch, input |-> x.input, made |-> x.made, member |-> k.member]
  BY <1>1, Zenon DEF Table, Kernels
<1>3. ASSUME NEW f \in Families
      PROVE  /\ ch[f] \in Seq(Rules) /\ ch[f] # Absent /\ "drop" \in Range(ch[f])
             /\ Strings(k.chain[f]) => Strings(ch[f])
  <2>1. PICK p, q : p = (IF k.chain[f] = Absent THEN <<>> ELSE k.chain[f])
                    /\ q = If(f = 4 \/ cfg.ipv6, <<"set">>)
    BY Zenon
  <2>2. p \in Seq(Rules) /\ (k.chain[f] = Absent => p = <<>>)
    BY <2>1 DEF Kernels
  <2>3. q \in {<<>>, <<"set">>}
    BY <2>1, Zenon DEF If
  <2>4. "established" \in Rules /\ "set" \in Rules /\ "drop" \in Rules
    BY Zenon DEF Rules
  <2>5. PICK a : a = p \o <<"established">>
    BY Zenon
  <2>6. PICK b : b = a \o q
    BY Zenon
  <2>7. ch[f] = b \o <<"drop">>
    BY <1>2, <2>1, <2>5, <2>6, Zenon
  <2>8. a \in Seq(Rules) /\ Len(a) \in Nat /\ Len(a) = Len(p) + 1 /\ a[Len(a)] = "established"
    BY <2>2, <2>4, <2>5
  <2>9. b \in Seq(Rules) /\ Len(b) \in Nat /\ Len(b) > 0
    <3>1. CASE q = <<>>
      BY <2>6, <2>8, <2>2, <3>1
    <3>2. CASE q = <<"set">>
      BY <2>4, <2>6, <2>8, <2>2, <3>2
    <3> QED BY <2>3, <3>1, <3>2, Zenon
  <2>10. /\ ch[f] \in Seq(Rules) /\ Len(ch[f]) = Len(b) + 1 /\ ch[f][Len(b) + 1] = "drop"
         /\ \A i \in 1..Len(b) : ch[f][i] = b[i]
    BY <2>4, <2>7, <2>9
  <2>11. ch[f] # Absent
    BY <2>9, <2>10 DEF Absent
  <2>12. "drop" \in Range(ch[f])
    <3>1. Len(b) + 1 \in DOMAIN ch[f]
      BY <2>9, <2>10
    <3> QED BY <2>10, <3>1, Zenon DEF Range
  <2>13. ASSUME Strings(k.chain[f]) PROVE Strings(ch[f])
    <3>1. /\ "established" \notin Remotes /\ "set" \notin Remotes /\ "drop" \notin Remotes
      BY RemotesAssumption, Zenon DEF Remotes
    <3>2. Strings(p)
      BY <2>1, <2>13 DEF Strings
    <3>3. \A i \in 1..Len(a) : a[i] \notin Remotes
      BY <2>2, <2>5, <3>1, <3>2 DEF Strings
    <3>4. \A i \in 1..Len(b) : b[i] \notin Remotes
      <4>1. CASE q = <<>>
        BY <2>6, <2>8, <3>3, <4>1
      <4>2. CASE q = <<"set">>
        BY <2>6, <2>8, <3>1, <3>3, <4>2
      <4> QED BY <2>3, <4>1, <4>2, Zenon
    <3>5. \A i \in 1..Len(ch[f]) : ch[f][i] \notin Remotes
      BY <2>9, <2>10, <3>1, <3>4
    <3> QED BY <3>5, Zenon DEF Strings
  <2> QED BY <2>10, <2>11, <2>12, <2>13, Zenon
<1>4. ch \in [Families -> Seq(Rules) \cup {Absent}]
  <2>1. DOMAIN ch = Families /\ ch = [f \in Families |-> ch[f]]
    BY <1>2, Zenon
  <2> QED BY <1>3, <2>1, Zenon
<1>5. x.input \in [Families -> [jump : Nat, drop : Nat]]
  BY <1>2
<1>6. x.made \in [Families -> BOOLEAN]
  BY <1>2, Zenon DEF Configs, Kernels
<1>7. x \in Kernels
  <2>1. PICK in, m : in = x.input /\ m = x.made
    BY Zenon
  <2>2. x = [chain |-> ch, input |-> in, made |-> m, member |-> k.member]
    BY <1>2, <2>1, Zenon
  <2>3. k.member \in [Remotes -> Nat]
    BY Zenon DEF Kernels
  <2> QED BY <1>4, <1>5, <1>6, <2>1, <2>2, <2>3 DEF Kernels
<1>8. ASSUME NEW f \in Families
      PROVE  /\ x.input[f].jump = 1 /\ (cfg.drop => x.input[f].drop = 1)
             /\ ~cfg.drop => x.input[f].drop = 0
  BY <1>2
<1>9. ASSUME NEW f \in Families
      PROVE  (k.made[f] => x.made[f]) /\ (f = 4 => x.made[f])
  BY <1>2, Zenon
<1> QED BY <1>1, <1>2, <1>3, <1>7, <1>8, <1>9, Zenon

\* A chain without its rule i, rule by rule.
LEMMA DeletedSeq ==
  ASSUME NEW S, NEW q \in Seq(S), NEW i \in 1..Len(q)
  PROVE  LET d == Deleted(q, i)
         IN  /\ d \in Seq(S) /\ Len(d) = Len(q) - 1
             /\ \A j \in 1..(i - 1) : d[j] = q[j]
             /\ \A j \in i..(Len(q) - 1) : d[j] = q[j + 1]
<1>1. PICK a, b : a = SubSeq(q, 1, i - 1) /\ b = SubSeq(q, i + 1, Len(q))
  BY Zenon
<1>2. Len(q) \in Nat /\ i \in Nat /\ i >= 1 /\ i <= Len(q)
  OBVIOUS
<1>3. a \in Seq(S) /\ Len(a) = i - 1 /\ \A j \in 1..(i - 1) : a[j] = q[j]
  BY <1>1, <1>2
<1>4. b \in Seq(S) /\ Len(b) = Len(q) - i /\ \A j \in 1..(Len(q) - i) : b[j] = q[i + j]
  <2>1. CASE i = Len(q)
    BY <1>1, <1>2, <2>1
  <2>2. CASE i < Len(q)
    BY <1>1, <1>2, <2>2
  <2> QED BY <1>2, <2>1, <2>2
<1>5. /\ a \o b \in Seq(S) /\ Len(a \o b) = Len(a) + Len(b)
      /\ \A j \in 1..Len(a) : (a \o b)[j] = a[j]
      /\ \A j \in 1..Len(b) : (a \o b)[Len(a) + j] = b[j]
  <2>1. a \in Seq(S) /\ b \in Seq(S)
    BY <1>3, <1>4, Zenon
  <2> QED BY <2>1, ConcatAt
<1>6. ASSUME NEW j \in i..(Len(q) - 1) PROVE (a \o b)[j] = q[j + 1]
  <2>1. PICK m : m = j - (i - 1)
    BY Zenon
  <2>2. m \in 1..Len(b) /\ Len(a) + m = j /\ i + m = j + 1 /\ m \in 1..(Len(q) - i)
    BY <1>2, <1>3, <1>4, <2>1
  <2> QED BY <1>4, <1>5, <2>2, Zenon
<1>7. Deleted(q, i) = a \o b
  BY <1>1, Zenon DEF Deleted
<1>8. Len(a \o b) = Len(q) - 1
  BY <1>2, <1>3, <1>4, <1>5
<1>9. \A j \in 1..(i - 1) : (a \o b)[j] = q[j]
  BY <1>3, <1>5, Zenon
<1> QED BY <1>5, <1>6, <1>7, <1>8, <1>9, Zenon

\* Lifecycle commands are proper ones and never touch a single remote.
LEMMA LifeProper ==
  ASSUME NEW c \in LifeCmds
  PROVE  Proper(c) /\ c.do \notin {"-C", "-I", "-D", "add", "del"}
<1>1. c \in Commands /\ Suits(c) /\ c.do \in LifeDos
  BY Zenon DEF LifeCmds
<1>2. c.do \notin {"-C", "-I", "-D", "add", "del"}
  BY <1>1, Zenon DEF LifeDos, RuleDos
<1>3. c.do \in {"-C_INPUT", "-I_INPUT", "-D_INPUT"} => c.arg \in {"jump", "drop"}
  BY <1>1, Zenon DEF Suits
<1>4. c.do = "-A" => c.arg \in Rules
  BY <1>1, Zenon DEF Suits, Rules
<1> QED BY <1>1, <1>2, <1>3, <1>4, Zenon DEF Proper

\* A command that is done changes its own part of the packet filter and leaves the rest
\* alone.
LEMMA DoneFrame ==
  ASSUME NEW k \in Kernels, NEW c, Proper(c), NEW k2, Done(k, c, k2), now \in Nat, cfg \in Configs
  PROVE  k2 \in Kernels /\ Frame(k, c, k2) /\ Result(k, c, k2)
<1>0. c.fam \in Families /\ c.do \in Dos
  BY Zenon DEF Proper, Commands
<1>1. ASSUME NEW ch \in Seq(Rules) \cup {Absent}, k2 = WithChain(k, c.fam, ch),
             c.do \in ChainDos
      PROVE  k2 \in Kernels /\ Frame(k, c, k2) /\ k2.chain[c.fam] = ch
  <2>1. /\ k2 \in Kernels /\ k2.chain[c.fam] = ch
        /\ \A g \in Families : g # c.fam => k2.chain[g] = k.chain[g]
        /\ k2.input = k.input /\ k2.made = k.made /\ k2.member = k.member
    BY <1>0, <1>1, SetChain
  <2> QED BY <1>1, <2>1, Zenon DEF Frame
<1>2. CASE c.do \in {"-N", "-F", "-X"}
  <2>1. <<>> \in Seq(Rules) /\ c.do \in ChainDos
    BY <1>2 DEF ChainDos
  <2>2. CASE c.do = "-X"
    <3>1. k2 \in Kernels /\ Frame(k, c, k2) /\ k.chain[c.fam] = <<>> /\ k2.chain[c.fam] = Absent
      BY <1>1, <2>1, <2>2, Zenon DEF Done
    <3> QED BY <2>2, <3>1, Zenon DEF Result
  <2>3. CASE c.do \in {"-N", "-F"}
    <3>1. /\ k2 \in Kernels /\ Frame(k, c, k2) /\ k2.chain[c.fam] = <<>>
          /\ c.do = "-F" => k.chain[c.fam] # Absent
      BY <1>1, <2>1, <2>3, Zenon DEF Done
    <3> QED BY <2>3, <3>1, Zenon DEF Result
  <2> QED BY <1>2, <2>2, <2>3, Zenon
<1>4. CASE c.do = "-A"
  <2>1. k.chain[c.fam] \in Seq(Rules) /\ c.arg \in Rules /\ c.do \in ChainDos
    BY <1>0, <1>4, Zenon DEF Done, Kernels, Proper, ChainDos
  <2>2. PICK ch \in Seq(Rules) : ch = Append(k.chain[c.fam], c.arg)
    <3>1. Append(k.chain[c.fam], c.arg) \in Seq(Rules)
      BY <2>1
    <3> QED BY <3>1, Zenon
  <2>3. k2 = WithChain(k, c.fam, ch)
    BY <1>4, <2>2, Zenon DEF Done
  <2>4. k2 \in Kernels /\ Frame(k, c, k2) /\ k2.chain[c.fam] = ch
    BY <1>1, <2>1, <2>2, <2>3, Zenon
  <2>5. k.chain[c.fam] # Absent
    BY <1>4, Zenon DEF Done
  <2>6. k2.chain[c.fam] = Append(k.chain[c.fam], c.arg)
    BY <2>2, <2>4, Zenon
  <2> QED BY <1>4, <2>4, <2>5, <2>6, Zenon DEF Result
<1>5. CASE c.do = "-I"
  <2>1. k.chain[c.fam] \in Seq(Rules) /\ c.arg \in Rules /\ c.do \in ChainDos
    BY <1>0, <1>5, Zenon DEF Done, Kernels, Proper, ChainDos
  <2>2. PICK ch \in Seq(Rules) : ch = <<c.arg>> \o k.chain[c.fam]
    <3>1. <<c.arg>> \o k.chain[c.fam] \in Seq(Rules)
      BY <2>1
    <3> QED BY <3>1, Zenon
  <2>3. k2 = WithChain(k, c.fam, ch)
    BY <1>5, <2>2, Zenon DEF Done
  <2>4. k2 \in Kernels /\ Frame(k, c, k2) /\ k2.chain[c.fam] = ch
    BY <1>1, <2>1, <2>2, <2>3, Zenon
  <2>5. k.chain[c.fam] # Absent
    BY <1>5, Zenon DEF Done
  <2>6. k2.chain[c.fam] = <<c.arg>> \o k.chain[c.fam]
    BY <2>2, <2>4, Zenon
  <2> QED BY <1>5, <2>4, <2>5, <2>6, Zenon DEF Result
<1>6. CASE c.do = "-D"
  <2>1. PICK i \in DOMAIN k.chain[c.fam] :
          k.chain[c.fam][i] = c.arg /\ k2 = WithChain(k, c.fam, Deleted(k.chain[c.fam], i))
    BY <1>6, Zenon DEF Done
  <2>2. k.chain[c.fam] \in Seq(Rules) /\ i \in 1..Len(k.chain[c.fam]) /\ c.do \in ChainDos
    BY <1>0, <1>6, <2>1 DEF Done, Kernels, ChainDos
  <2>3. PICK ch \in Seq(Rules) : ch = Deleted(k.chain[c.fam], i)
    <3>1. Deleted(k.chain[c.fam], i) \in Seq(Rules)
      BY <2>2, DeletedSeq, Zenon
    <3> QED BY <3>1, Zenon
  <2>4. k2 \in Kernels /\ Frame(k, c, k2) /\ k2.chain[c.fam] = ch
    BY <1>1, <2>1, <2>2, <2>3, Zenon
  <2>5. k.chain[c.fam] # Absent
    BY <1>6, Zenon DEF Done
  <2>6. k2.chain[c.fam] = Deleted(k.chain[c.fam], i)
    BY <2>3, <2>4, Zenon
  <2> QED BY <1>6, <2>1, <2>2, <2>4, <2>5, <2>6, Zenon DEF Result
<1>7. CASE c.do = "-I_INPUT"
  <2>1. c.arg \in {"jump", "drop"} /\ k.input[c.fam][c.arg] \in Nat
    BY <1>0, <1>7, Zenon DEF Proper, Kernels
  <2>2. PICK n \in Nat : n = k.input[c.fam][c.arg] + 1 /\ k2 = WithInput(k, c.fam, c.arg, n)
    BY <1>7, <2>1 DEF Done
  <2>0. k2 = WithInput(k, c.fam, c.arg, n) /\ n \in Nat /\ c.arg \in {"jump", "drop"}
    BY <2>1, <2>2, Zenon
  <2>3. /\ k2 \in Kernels /\ k2.input[c.fam][c.arg] = n
        /\ c.arg = "jump" => k2.input[c.fam].drop = k.input[c.fam].drop
        /\ c.arg = "drop" => k2.input[c.fam].jump = k.input[c.fam].jump
        /\ \A g \in Families : g # c.fam => k2.input[g] = k.input[g]
        /\ k2.chain = k.chain /\ k2.made = k.made /\ k2.member = k.member
    <3>1. PICK f \in Families, a \in {"jump", "drop"} : f = c.fam /\ a = c.arg
      BY <1>0, <2>0, Zenon
    <3>2. k2 = WithInput(k, f, a, n)
      BY <2>0, <3>1, Zenon
    <3>3. k2 \in Kernels /\ k2.input[f][a] = n
      BY <3>2, SetInput
    <3>4. /\ a = "jump" => k2.input[f].drop = k.input[f].drop
          /\ a = "drop" => k2.input[f].jump = k.input[f].jump
      BY <3>2, SetInput
    <3>5. /\ \A g \in Families : g # f => k2.input[g] = k.input[g]
          /\ k2.chain = k.chain /\ k2.made = k.made /\ k2.member = k.member
      BY <3>2, SetInput
    <3> QED BY <3>1, <3>3, <3>4, <3>5, Zenon
  <2>4. Frame(k, c, k2)
    BY <1>7, <2>3, Zenon DEF Frame, ChainDos, InputDos, MadeDos, MemberDos
  <2> QED BY <1>7, <2>2, <2>3, <2>4, Zenon DEF Result
<1>8. CASE c.do = "-D_INPUT"
  <2>1. c.arg \in {"jump", "drop"} /\ k.input[c.fam][c.arg] \in Nat
    BY <1>0, <1>8, Zenon DEF Proper, Kernels
  <2>2. PICK n \in Nat : /\ n = k.input[c.fam][c.arg] - 1 /\ k.input[c.fam][c.arg] > 0
                         /\ k2 = WithInput(k, c.fam, c.arg, n)
    BY <1>8, <2>1 DEF Done
  <2>0. k2 = WithInput(k, c.fam, c.arg, n) /\ n \in Nat /\ c.arg \in {"jump", "drop"}
    BY <2>1, <2>2, Zenon
  <2>3. /\ k2 \in Kernels /\ k2.input[c.fam][c.arg] = n
        /\ c.arg = "jump" => k2.input[c.fam].drop = k.input[c.fam].drop
        /\ c.arg = "drop" => k2.input[c.fam].jump = k.input[c.fam].jump
        /\ \A g \in Families : g # c.fam => k2.input[g] = k.input[g]
        /\ k2.chain = k.chain /\ k2.made = k.made /\ k2.member = k.member
    <3>1. PICK f \in Families, a \in {"jump", "drop"} : f = c.fam /\ a = c.arg
      BY <1>0, <2>0, Zenon
    <3>2. k2 = WithInput(k, f, a, n)
      BY <2>0, <3>1, Zenon
    <3>3. k2 \in Kernels /\ k2.input[f][a] = n
      BY <3>2, SetInput
    <3>4. /\ a = "jump" => k2.input[f].drop = k.input[f].drop
          /\ a = "drop" => k2.input[f].jump = k.input[f].jump
      BY <3>2, SetInput
    <3>5. /\ \A g \in Families : g # f => k2.input[g] = k.input[g]
          /\ k2.chain = k.chain /\ k2.made = k.made /\ k2.member = k.member
      BY <3>2, SetInput
    <3> QED BY <3>1, <3>3, <3>4, <3>5, Zenon
  <2>4. Frame(k, c, k2)
    BY <1>8, <2>3, Zenon DEF Frame, ChainDos, InputDos, MadeDos, MemberDos
  <2> QED BY <1>8, <2>2, <2>3, <2>4, Zenon DEF Result
<1>10. CASE c.do \in {"create", "flush", "destroy"}
  <2>1. Flushed(k, c.fam) \in [Remotes -> Nat]
    BY Zenon DEF Flushed, Kernels
  <2>2. PICK m \in [Remotes -> Nat] : m = Flushed(k, c.fam)
    BY <2>1, Zenon
  <2>3. CASE c.do = "create"
    <3>1. k2 = WithSet(k, c.fam)
      BY <2>3, Zenon DEF Done
    <3>2. k2 \in Kernels /\ k2.chain = k.chain /\ k2.input = k.input /\ k2.made[c.fam] /\ k2.member = k.member
          /\ \A f \in Families : f # c.fam => k2.made[f] = k.made[f]
      BY <1>0, <2>2, <3>1, SetCreated
    <3>3. Frame(k, c, k2)
      BY <2>3, <3>2, Zenon DEF Frame, ChainDos, InputDos, MadeDos, MemberDos
    <3> QED BY <2>3, <2>2, <3>2, <3>3, Zenon DEF Result
  <2>4. CASE c.do = "flush"
    <3>1. k2 = WithMembers(k, m)
      BY <2>2, <2>4, Zenon DEF Done
    <3>2. k2 \in Kernels /\ k2.chain = k.chain /\ k2.input = k.input /\ k2.made = k.made
          /\ k2.member = m
      BY <1>0, <2>2, <3>1, SetFlushed, Zenon
    <3>3. Frame(k, c, k2)
      BY <2>4, <3>2, Zenon DEF Frame, ChainDos, InputDos, MadeDos, MemberDos
    <3> QED BY <2>4, <2>2, <3>2, <3>3, Zenon DEF Result
  <2>5. CASE c.do = "destroy"
    <3>1. k2 = WithoutSet(k, c.fam, m)
      BY <2>2, <2>5, Zenon DEF Done
    <3>2. k2 \in Kernels /\ k2.chain = k.chain /\ k2.input = k.input /\ ~k2.made[c.fam]
          /\ k2.member = m /\ \A f \in Families : f # c.fam => k2.made[f] = k.made[f]
      BY <1>0, <2>2, <3>1, SetDestroyed
    <3>3. Frame(k, c, k2)
      BY <2>5, <3>2, Zenon DEF Frame, ChainDos, InputDos, MadeDos, MemberDos
    <3> QED BY <2>5, <2>2, <3>2, <3>3, Zenon DEF Result
  <2> QED BY <1>10, <2>3, <2>4, <2>5, Zenon
<1>11. CASE c.do \in {"add", "del"}
  <2>1. ttlSeconds \in Nat
    BY FirewallAssumption DEF ttlSeconds
  <2>2. now + ttlSeconds * PerSecond \in Nat /\ c.arg \in Remotes
    BY <1>11, <2>1, FirewallAssumption DEF Proper
  <2>3. PICK n \in Nat : /\ k2 = WithMember(k, c.arg, n)
                         /\ c.do = "add" => k.made[c.fam] /\ n = now + ttlSeconds * PerSecond
                         /\ c.do = "del" => ~(k.member[c.arg] <= now) /\ n = 0
    BY <1>11, <2>2, Zenon DEF Done
  <2>4. /\ k2 \in Kernels /\ k2.member[c.arg] = n
        /\ \A r \in Remotes : r # c.arg => k2.member[r] = k.member[r]
        /\ k2.chain = k.chain /\ k2.input = k.input /\ k2.made = k.made
    <3>1. PICK x : x = WithMember(k, c.arg, n)
      BY Zenon
    <3>0. PICK a : a = c.arg /\ a \in Remotes /\ n \in Nat /\ k \in Kernels
      BY <1>0, <2>2, <2>3, Zenon
    <3>2. x = WithMember(k, a, n)
      BY <3>0, <3>1, Zenon
    <3>3. x \in Kernels /\ x.member[a] = n
      BY <3>0, <3>2, SetMember
    <3>4. x.chain = k.chain /\ x.input = k.input /\ x.made = k.made
      BY <3>0, <3>2, SetMember
    <3>5. \A r \in Remotes : r # a => x.member[r] = k.member[r]
      BY <3>0, <3>2, SetMember
    <3> QED BY <2>3, <3>0, <3>1, <3>3, <3>4, <3>5, Zenon
  <2>5. Frame(k, c, k2)
    BY <1>11, <2>4, Zenon DEF Frame, ChainDos, InputDos, MadeDos, MemberDos
  <2> QED BY <1>11, <2>3, <2>4, <2>5, Zenon DEF Result
<1>12. CASE c.do = "table"
  <2>1. k2 = Table(k)
    BY <1>12, Zenon DEF Done
  <2>2. k2 \in Kernels /\ k2.member = k.member
    BY <2>1, SetTable, Zenon
  <2> QED BY <1>12, <2>1, <2>2, Zenon DEF Frame, Result, ChainDos, InputDos, MadeDos, MemberDos
<1>13. CASE c.do = "delete_table"
  BY <1>13, EmptyKernel, Zenon DEF Done, Frame, Result, ChainDos, InputDos, MadeDos, MemberDos
<1>14. CASE c.do \in {"-C_INPUT", "-C", "none", "script"}
  <2>1. k2 = k
    BY <1>14, Zenon DEF Done
  <2>2. c.do = "-C_INPUT" => k.input[c.fam][c.arg] > 0
    BY <1>0 DEF Proper, Kernels, Done
  <2>3. c.do = "-C" => c.arg \in Range(k.chain[c.fam])
    BY Zenon DEF Done
  <2> QED BY <1>14, <2>1, <2>2, <2>3, Zenon DEF Frame, Result
<1> QED BY <1>0, <1>2, <1>4, <1>5, <1>6, <1>7, <1>8, <1>10, <1>11, <1>12, <1>13, <1>14,
     Zenon DEF Dos

\* The call after a command is a call.
LEMMA AfterType ==
  ASSUME NEW p \in Calls, NEW c, c.kind \in Kinds, NEW out, After(p, c, out).todo \in Seq(Commands)
  PROVE  After(p, c, out) \in Calls
<1>1. CASE c.kind = "must"
  BY <1>1, Zenon DEF After, GivesUp, Calls
<1>2. CASE c.kind = "try"
  BY <1>2, Zenon DEF After, GivesUp, Calls
<1>3. CASE c.kind = "quiet"
  BY <1>3, Zenon DEF After, GivesUp, Calls
<1>4. CASE c.kind = "loop"
  <2>1. CASE out = "ok" /\ p.n + 1 < MaxCleanupDeletes
    <3>1. After(p, c, out) = [p EXCEPT !.n = @ + 1]
      BY <1>4, <2>1, Zenon DEF After
    <3> QED BY <3>1 DEF Calls
  <2>2. CASE ~(out = "ok" /\ p.n + 1 < MaxCleanupDeletes)
    <3>1. PICK e, t : e \in BOOLEAN /\ e = (p.err \/ out = "error") /\ t = Tail(p.todo)
      BY Zenon
    <3>2. After(p, c, out) = [p EXCEPT !.todo = t, !.n = 0, !.err = e]
      BY <1>4, <2>2, <3>1, Zenon DEF After, Calls
    <3>3. After(p, c, out).todo = t
      BY <3>2, Zenon DEF Calls
    <3>4. After(p, c, out) = [op |-> p.op, remote |-> p.remote, todo |-> t, err |-> e, n |-> 0,
                              since |-> p.since]
      BY <3>2, Zenon DEF Calls
    <3>5. t \in Seq(Commands) /\ e \in BOOLEAN /\ 0 \in Nat
      BY <3>1, <3>3, Zenon
    <3>6. p.op \in Ops /\ p.remote \in Remotes \cup {"none"} /\ p.since \in BOOLEAN
      BY Zenon DEF Calls
    <3> QED BY <3>4, <3>5, <3>6 DEF Calls
  <2> QED BY <2>1, <2>2, Zenon
<1>5. CASE c.kind = "unless"
  BY <1>5, Zenon DEF After, GivesUp, Calls
<1>6. CASE c.kind = "bail"
  BY <1>6, Zenon DEF After, GivesUp, Calls
<1> QED BY <1>1, <1>2, <1>3, <1>4, <1>5, <1>6, Zenon DEF Kinds

\* A step of the lifecycle goroutine: it runs c, which ends with out, and its call becomes
\* r.
LifeMove(c, out, r) ==
  LET p == calls["life"]
  IN  /\ p \in Calls /\ r \in Calls /\ p.todo # <<>> /\ c = Head(p.todo) /\ c \in LifeCmds
      /\ p.todo \in Seq(LifeCmds) /\ Paired(p.todo)
      /\ Ran(c, out) /\ Moved(p, c, out, r) /\ r.op = p.op
      /\ calls' = [calls EXCEPT !["life"] = r] /\ doubtful' = doubtful
      /\ r.todo \in Seq(LifeCmds) /\ Paired(r.todo)
      /\ p.todo \in Seq(CleanupCmds) => r.todo \in Seq(CleanupCmds)
      /\ Ordered(p.todo) /\ ~r.err => Ordered(r.todo)
      /\ kernel' \in Kernels
      /\ kernel' = kernel \/ (Frame(kernel, c, kernel') /\ Result(kernel, c, kernel'))
      /\ out = "ok" /\ c.kind # "bail" => Frame(kernel, c, kernel') /\ Result(kernel, c, kernel')

\* Every step of the lifecycle goroutine is such a move.
LEMMA LifeStep ==
  ASSUME TypeInv, LifeInv, Step("life")
  PROVE  \E c, out, r : LifeMove(c, out, r)
<1>1. PICK p, c : p = calls["life"] /\ c = Head(p.todo)
  BY Zenon
<1>2. /\ p \in Calls /\ p.todo # <<>> /\ p.todo \in Seq(LifeCmds) /\ Paired(p.todo)
      /\ faults \in 0..MaxFaults /\ "life" \in Procs /\ kernel \in Kernels /\ cfg \in Configs
      /\ now \in Nat
  BY <1>1, Zenon DEF TypeInv, LifeInv, Step, Procs
<1>3. c \in LifeCmds /\ c \in Commands /\ c.kind \in Kinds /\ Proper(c) /\ c.do # "-C"
      /\ (c.kind = "bail") = (c.do = "none")
  <2>1. c \in LifeCmds
    BY <1>1, <1>2, TailShape, Zenon
  <2>2. c \in Commands /\ Suits(c)
    BY <2>1, Zenon DEF LifeCmds
  <2> QED BY <2>1, <2>2, LifeProper, Zenon DEF Commands, Suits
<1>4. PICK out : /\ Ran(c, out) /\ calls' = [calls EXCEPT !["life"] = After(@, c, out)]
                 /\ doubtful' = doubtful
  <2>1. \E o : /\ Ran(c, o) /\ calls' = [calls EXCEPT !["life"] = After(@, c, o)]
               /\ doubtful' = doubtful \cup
                          IF /\ c.do = "-C" /\ o # "ok" /\ kernel.chain[c.fam] # Absent
                             /\ c.arg \in Range(kernel.chain[c.fam])
                          THEN {c.arg} ELSE {}
    BY <1>1, <1>2, <1>3, StepRan, Zenon
  <2> QED BY <1>3, <2>1, Zenon
<1>5. PICK r : r = After(p, c, out)
  BY Zenon
<1>6. calls' = [calls EXCEPT !["life"] = r]
  BY <1>1, <1>4, <1>5, Zenon
<1>7. Moved(p, c, out, r) /\ r.op = p.op
  BY <1>2, <1>3, <1>5, AfterCases, Zenon
<1>8. /\ r.todo \in Seq(LifeCmds) /\ Paired(r.todo)
      /\ p.todo \in Seq(CleanupCmds) => r.todo \in Seq(CleanupCmds)
      /\ Ordered(p.todo) /\ ~r.err => Ordered(r.todo)
  <2>1. CASE r.todo = p.todo
    BY <1>2, <2>1, Zenon
  <2>2. CASE r.todo = Tail(p.todo)
    BY <1>1, <1>2, <2>2, TailShape, Zenon
  <2>3. CASE c.kind = "unless" /\ r.todo = Tail(Tail(p.todo))
    <3>1. PICK q : q = Tail(p.todo)
      BY Zenon
    <3>2. c.do = "-C_INPUT"
      BY <1>3, <2>3, Zenon DEF LifeCmds, Suits
    <3>3. /\ q \in Seq(LifeCmds) /\ Paired(q) /\ q # <<>>
          /\ p.todo \in Seq(CleanupCmds) => q \in Seq(CleanupCmds)
          /\ Ordered(p.todo) => Ordered(q)
      BY <1>1, <1>2, <3>1, <3>2, TailShape, Zenon
    <3>4. /\ Tail(q) \in Seq(LifeCmds) /\ Paired(Tail(q))
          /\ q \in Seq(CleanupCmds) => Tail(q) \in Seq(CleanupCmds)
          /\ Ordered(q) => Ordered(Tail(q))
      BY <3>3, TailShape, Zenon
    <3> QED BY <2>3, <3>1, <3>3, <3>4, Zenon
  <2>4. CASE r.err = TRUE /\ r.todo = IF c.undo THEN Cleanup(cfg.backend) ELSE <<>>
    <3>1. Whole(Cleanup(cfg.backend)) /\ Cleanup(cfg.backend) \in Seq(CleanupCmds)
      BY <1>2, Programs, Zenon
    <3>2. <<>> \in Seq(LifeCmds) /\ <<>> \in Seq(CleanupCmds) /\ Paired(<<>>)
      BY DEF Paired
    <3>3. r.todo = Cleanup(cfg.backend) \/ r.todo = <<>>
      BY <2>4, Zenon
    <3> QED BY <2>4, <3>1, <3>2, <3>3, Zenon DEF Whole
  <2> QED BY <1>7, <2>1, <2>2, <2>3, <2>4, Zenon DEF Moved
<1>9. r \in Calls
  <2>1. r.todo \in Seq(Commands)
    BY <1>8 DEF LifeCmds
  <2> QED BY <1>2, <1>3, <1>5, <2>1, AfterType, Zenon
<1>10. Done(kernel, c, kernel') => kernel' \in Kernels /\ Frame(kernel, c, kernel')
                                   /\ Result(kernel, c, kernel')
  BY <1>2, <1>3, DoneFrame, Zenon
<1>11. kernel' = kernel \/ Done(kernel, c, kernel')
  BY <1>4, Zenon DEF Ran
<1>12. out = "ok" /\ c.kind # "bail" => Done(kernel, c, kernel')
  BY <1>4, Zenon DEF Ran
<1>13. LifeMove(c, out, r)
  <2>1. /\ kernel' \in Kernels
        /\ kernel' = kernel \/ (Frame(kernel, c, kernel') /\ Result(kernel, c, kernel'))
        /\ out = "ok" /\ c.kind # "bail" => Frame(kernel, c, kernel') /\ Result(kernel, c, kernel')
    BY <1>2, <1>10, <1>11, <1>12, Zenon
  <2> QED BY <1>1, <1>2, <1>3, <1>4, <1>6, <1>7, <1>8, <1>9, <2>1, Zenon DEF LifeMove
<1> QED BY <1>13, Zenon

\* What depends on the configuration alone stays while the configuration does.
LEMMA CfgKept ==
  ASSUME cfg' = cfg
  PROVE  /\ Managed' = Managed /\ LifeCmds' = LifeCmds /\ CleanupCmds' = CleanupCmds
         /\ \A c : NoTool(c)' = NoTool(c)
         /\ \A r : Refused(r)' = Refused(r) /\ Allow(r)' = Allow(r) /\ Revoke(r)' = Revoke(r)
<1>1. Managed' = Managed
  BY Zenon DEF Managed
<1>2. LifeDos' = LifeDos /\ \A c : Suits(c)' = Suits(c)
  BY Zenon DEF LifeDos, Suits
<1>3. LifeCmds' = LifeCmds
  BY <1>1, <1>2, Zenon DEF LifeCmds
<1>4. CleanupCmds' = CleanupCmds
  BY <1>3, Zenon DEF CleanupCmds
<1>5. \A c : NoTool(c)' = NoTool(c)
  BY Zenon DEF NoTool
<1>6. \A r : Refused(r)' = Refused(r)
  BY Zenon DEF Refused
<1>7. \A r : Allow(r)' = Allow(r) /\ Revoke(r)' = Revoke(r)
  BY Zenon DEF Allow, Revoke
<1> QED BY <1>1, <1>3, <1>4, <1>5, <1>6, <1>7, Zenon

\* A lifecycle move changes the lifecycle call, the packet filter and faults, nothing else.
LEMMA LifeCall ==
  ASSUME TypeInv, NEW c, NEW out, NEW r, LifeMove(c, out, r)
  PROVE  /\ calls'["life"] = r /\ calls'["handler"] = calls["handler"]
         /\ calls'["timer"] = calls["timer"] /\ calls' \in [Procs -> Calls]
         /\ faults' \in 0..MaxFaults /\ faults' >= faults
         /\ UNCHANGED <<now, cfg, phase, starts, granted, doubtful, clean>>
<1>1. calls' = [calls EXCEPT !["life"] = r] /\ r \in Calls /\ doubtful' = doubtful
  BY Zenon DEF LifeMove
<1>2. calls \in [Procs -> Calls] /\ faults \in 0..MaxFaults
  BY Zenon DEF TypeInv
<1>3. /\ faults' \in {faults, faults + 1} /\ faults' <= MaxFaults
      /\ UNCHANGED <<now, cfg, phase, starts, granted, clean>>
  BY Zenon DEF LifeMove, Ran
<1>4. "life" \in Procs /\ "handler" \in Procs /\ "timer" \in Procs
  BY Zenon DEF Procs
<1>5. /\ calls'["life"] = r /\ calls'["handler"] = calls["handler"]
      /\ calls'["timer"] = calls["timer"] /\ calls' \in [Procs -> Calls]
  BY <1>1, <1>2, <1>4, Zenon
<1>6. faults' \in 0..MaxFaults /\ faults' >= faults
  BY <1>2, <1>3, FirewallAssumption
<1> QED BY <1>1, <1>3, <1>5, <1>6, Zenon

\* A lifecycle move keeps the types and the shape of the program left to run.
LEMMA LifeKeepsLife ==
  ASSUME TypeInv, LifeInv, NEW c, NEW out, NEW r, LifeMove(c, out, r)
  PROVE  TypeInv' /\ LifeInv'
<1>1. /\ calls'["life"] = r /\ calls' \in [Procs -> Calls] /\ faults' \in 0..MaxFaults
      /\ UNCHANGED <<now, cfg, phase, starts, granted, doubtful, clean>>
  BY LifeCall, Zenon
<1>2. kernel' \in Kernels
  BY Zenon DEF LifeMove
<1>3. TypeInv'
  BY <1>1, <1>2, Zenon DEF TypeInv
<1>4. PICK p : p = calls["life"]
  BY Zenon
<1>5. /\ p.op \in {"none", "init", "cleanup"} /\ p \in Calls /\ r \in Calls
      /\ (p.op = "init") = (phase = "init") /\ (p.op = "cleanup") = (phase = "cleanup")
      /\ p.op = "none" => p.todo = <<>>
      /\ p.op = "cleanup" => p.todo \in Seq(CleanupCmds)
      /\ p.op = "init" /\ ~p.err => Ordered(p.todo)
      /\ phase # "down" => starts > 0
  BY <1>4, Zenon DEF LifeInv, LifeMove
<1>6. /\ p.todo # <<>> /\ r.op = p.op /\ r.todo \in Seq(LifeCmds) /\ Paired(r.todo)
      /\ p.todo \in Seq(CleanupCmds) => r.todo \in Seq(CleanupCmds)
      /\ Ordered(p.todo) /\ ~r.err => Ordered(r.todo)
  BY <1>4, Zenon DEF LifeMove
<1>7. ~r.err => ~p.err
  BY <1>4, <1>5, Zenon DEF LifeMove, Moved
<1>8. LifeCmds' = LifeCmds /\ CleanupCmds' = CleanupCmds
  BY <1>1, CfgKept, Zenon
<1>9. LifeInv'
  BY <1>1, <1>5, <1>6, <1>7, <1>8, Zenon DEF LifeInv
<1> QED BY <1>3, <1>9, Zenon

\* A lifecycle move leaves the handler's and the timer's calls as they are.
LEMMA LifeKeepsOthers ==
  ASSUME TypeInv, LifeInv, HandlerInv, TimerInv, EndInv,
         NEW c, NEW out, NEW r, LifeMove(c, out, r)
  PROVE  HandlerInv' /\ TimerInv' /\ EndInv'
<1>1. /\ calls'["handler"] = calls["handler"] /\ calls'["timer"] = calls["timer"]
      /\ UNCHANGED <<now, cfg, phase, starts, granted, doubtful, clean>>
  BY LifeCall, Zenon
<1>2. \A x : Refused(x)' = Refused(x) /\ Allow(x)' = Allow(x) /\ Revoke(x)' = Revoke(x)
  BY <1>1, CfgKept, Zenon
<1>3. HandlerInv'
  <2>1. PICK h : h = calls["handler"] /\ h = calls'["handler"]
    BY <1>1, Zenon
  <2>2. CASE h.op = "none"
    BY <2>1, <2>2 DEF HandlerInv
  <2>3. CASE h.op # "none"
    <3>1. /\ h.op = "allow" /\ h.remote \in Remotes /\ ~Refused(h.remote) /\ phase # "init"
          /\ \/ h.todo = <<>> \/ h.todo = Allow(h.remote)
             \/ cfg.backend = "iptables"
                /\ h.todo = <<Cmd("must", "-I", Family(h.remote), h.remote)>>
      BY <2>1, <2>3, Zenon DEF HandlerInv
    <3> QED BY <1>1, <1>2, <2>1, <3>1, Zenon DEF HandlerInv
  <2> QED BY <2>2, <2>3, Zenon
<1>4. TimerInv'
  <2>1. PICK h : h = calls["timer"] /\ h = calls'["timer"]
    BY <1>1, Zenon
  <2>2. CASE h.op = "none"
    BY <2>1, <2>2 DEF TimerInv
  <2>3. CASE h.op # "none"
    <3>1. /\ h.op = "revoke" /\ h.remote \in Remotes /\ ~Refused(h.remote) /\ phase # "init"
          /\ h.todo = <<>> \/ h.todo = Revoke(h.remote)
      BY <2>1, <2>3, Zenon DEF TimerInv
    <3> QED BY <1>1, <1>2, <2>1, <3>1, Zenon DEF TimerInv
  <2> QED BY <2>2, <2>3, Zenon
<1>5. phase # "down"
  BY Zenon DEF LifeInv, LifeMove
<1>6. EndInv'
  BY <1>1, <1>5, Zenon DEF EndInv, TypeInv
<1> QED BY <1>3, <1>4, <1>6, Zenon

\* The kinds of the lifecycle commands that change INPUT.
LEMMA LifeFields ==
  ASSUME NEW c \in LifeCmds
  PROVE  /\ c.fam \in Families /\ c.kind \in Kinds /\ Suits(c)
         /\ c.do = "-D_INPUT" => c.kind = "loop" /\ c.arg \in {"jump", "drop"}
         /\ c.do = "-I_INPUT" => c.kind = "must" /\ c.arg \in {"jump", "drop"}
         /\ c.do = "-C_INPUT" => c.kind = "unless" /\ c.arg \in {"jump", "drop"}
         /\ c.kind = "loop" => c.do = "-D_INPUT"
         /\ c.kind = "unless" => c.do = "-C_INPUT"
         /\ c.kind = "bail" => c.do = "none"
BY Zenon DEF LifeCmds, Commands, Suits

\* The rules of INPUT are counted.
LEMMA InputTypes ==
  ASSUME NEW k \in Kernels, NEW f \in Families
  PROVE  /\ k.input[f].jump \in Nat /\ k.input[f].drop \in Nat
         /\ \A a \in {"jump", "drop"} : k.input[f][a] \in Nat
BY Zenon DEF Kernels

\* A lifecycle move inserts a rule of INPUT once, and once more per fault.
LEMMA LifeInput ==
  ASSUME TypeInv, BoundInv, NEW c, NEW out, NEW r, LifeMove(c, out, r)
  PROVE  \A f \in Families : kernel'.input[f].jump <= 1 + faults' /\ kernel'.input[f].drop <= 1 + faults'
<1>1. faults' \in Nat /\ faults \in Nat /\ faults' >= faults /\ c \in LifeCmds
  <2>1. faults' \in 0..MaxFaults /\ faults' >= faults /\ faults \in 0..MaxFaults
    BY LifeCall, Zenon DEF TypeInv
  <2>2. c \in LifeCmds
    BY Zenon DEF LifeMove
  <2> QED BY <2>1, <2>2, FirewallAssumption
<1>2. kernel \in Kernels /\ kernel' \in Kernels
  BY Zenon DEF TypeInv, LifeMove
<1>3. \A f \in Families : kernel.input[f].jump <= 1 + faults /\ kernel.input[f].drop <= 1 + faults
  BY Zenon DEF BoundInv
<1>4. CASE kernel'.input = kernel.input
  BY <1>1, <1>2, <1>3, <1>4, InputTypes
<1>5. CASE kernel' # kernel /\ c.do \in InputDos
  <2>1. ~NoTool(c) /\ Frame(kernel, c, kernel') /\ Result(kernel, c, kernel')
    BY <1>5, Zenon DEF LifeMove, Ran
  <2>2. ASSUME NEW f \in Families, f # c.fam, c.do \in {"-I_INPUT", "-D_INPUT"}
        PROVE  kernel'.input[f].jump <= 1 + faults' /\ kernel'.input[f].drop <= 1 + faults'
    <3>1. kernel'.input[f] = kernel.input[f]
      BY <2>1, <2>2, Zenon DEF Frame
    <3> QED BY <1>1, <1>2, <1>3, <3>1, InputTypes
  <2>3. CASE c.do = "-D_INPUT"
    <3>1. PICK f \in Families : f = c.fam
      BY <1>1, LifeFields, Zenon
    <3>2. c.arg \in {"jump", "drop"}
      BY <1>1, <2>3, LifeFields, Zenon
    <3>3. /\ kernel'.input[f][c.arg] = kernel.input[f][c.arg] - 1
          /\ c.arg = "jump" => kernel'.input[f].drop = kernel.input[f].drop
          /\ c.arg = "drop" => kernel'.input[f].jump = kernel.input[f].jump
      BY <2>1, <2>3, <3>1, Zenon DEF Result
    <3>4. /\ kernel.input[f].jump <= 1 + faults /\ kernel.input[f].drop <= 1 + faults
          /\ kernel.input[f].jump \in Nat /\ kernel.input[f].drop \in Nat
      BY <1>2, <1>3, InputTypes, Zenon
    <3>5. kernel'.input[f].jump <= 1 + faults' /\ kernel'.input[f].drop <= 1 + faults'
      <4>1. CASE c.arg = "jump"
        BY <1>1, <3>3, <3>4, <4>1
      <4>2. CASE c.arg = "drop"
        BY <1>1, <3>3, <3>4, <4>2
      <4> QED BY <3>2, <4>1, <4>2, Zenon
    <3> QED BY <2>2, <2>3, <3>1, <3>5, Zenon
  <2>4. CASE c.do = "-I_INPUT"
    <3>1. PICK f \in Families : f = c.fam
      BY <1>1, LifeFields, Zenon
    <3>2. c.arg \in {"jump", "drop"}
      BY <1>1, <2>4, LifeFields, Zenon
    <3>3. /\ kernel'.input[f][c.arg] = kernel.input[f][c.arg] + 1
          /\ c.arg = "jump" => kernel'.input[f].drop = kernel.input[f].drop
          /\ c.arg = "drop" => kernel'.input[f].jump = kernel.input[f].jump
      BY <2>1, <2>4, <3>1, Zenon DEF Result
    <3>4. /\ kernel.input[f].jump <= 1 + faults /\ kernel.input[f].drop <= 1 + faults
          /\ kernel.input[f].jump \in Nat /\ kernel.input[f].drop \in Nat
      BY <1>2, <1>3, InputTypes, Zenon
    <3>5. kernel.input[f][c.arg] <= faults
      BY <2>1, <2>4, <3>1, Zenon DEF BoundInv, LifeMove
    <3>6. kernel'.input[f].jump <= 1 + faults' /\ kernel'.input[f].drop <= 1 + faults'
      <4>1. CASE c.arg = "jump"
        BY <1>1, <3>3, <3>4, <3>5, <4>1
      <4>2. CASE c.arg = "drop"
        BY <1>1, <3>3, <3>4, <3>5, <4>2
      <4> QED BY <3>2, <4>1, <4>2, Zenon
    <3> QED BY <2>2, <2>4, <3>1, <3>6, Zenon
  <2>5. CASE c.do = "table"
    <3>1. kernel' = Table(kernel) /\ cfg \in Configs
      BY <2>1, <2>5, Zenon DEF Result, TypeInv
    <3>2. \A f \in Families : kernel'.input[f].jump = 1 /\ kernel'.input[f].drop \in {0, 1}
      BY <1>2, <3>1, SetTable, Zenon
    <3> QED BY <1>1, <3>2
  <2>6. CASE c.do = "delete_table"
    <3>1. kernel' = Empty
      BY <2>1, <2>6, Zenon DEF Result
    <3> QED BY <1>1, <3>1 DEF Empty
  <2> QED BY <1>5, <2>3, <2>4, <2>5, <2>6, Zenon DEF InputDos
<1>6. kernel' # kernel /\ c.do \notin InputDos => kernel'.input = kernel.input
  BY Zenon DEF LifeMove, Frame
<1> QED BY <1>4, <1>5, <1>6, Zenon

\* So the number of equal rules of INPUT stays within the deletions of the loop.
LEMMA LifeKeepsBound ==
  ASSUME TypeInv, LifeInv, BoundInv, NEW c, NEW out, NEW r, LifeMove(c, out, r)
  PROVE  BoundInv'
<1>1. PICK p : p = calls["life"]
  BY Zenon
<1>2. /\ faults' \in Nat /\ faults \in Nat /\ faults' >= faults /\ c \in LifeCmds
      /\ kernel \in Kernels /\ kernel' \in Kernels /\ calls'["life"] = r
      /\ p \in Calls /\ p.todo # <<>> /\ c = Head(p.todo) /\ p.n \in Nat
      /\ p.todo \in Seq(LifeCmds) /\ Paired(p.todo) /\ Moved(p, c, out, r)
      /\ r.todo \in Seq(LifeCmds) /\ Paired(r.todo)
  <2>1. faults' \in 0..MaxFaults /\ faults' >= faults /\ faults \in 0..MaxFaults /\ calls'["life"] = r
    BY LifeCall, Zenon DEF TypeInv
  <2>2. faults' \in Nat /\ faults \in Nat
    BY <2>1, FirewallAssumption
  <2> QED BY <1>1, <2>1, <2>2, Zenon DEF TypeInv, LifeMove, Calls
<1>3. \A f \in Families : kernel'.input[f].jump <= 1 + faults' /\ kernel'.input[f].drop <= 1 + faults'
  BY LifeInput, Zenon
<1>4. r.todo # <<>> => Head(r.todo) \in LifeCmds
  BY <1>2, TailShape, Zenon
<1>5. r.todo # <<>> /\ Head(r.todo).do = "-D_INPUT" =>
        kernel'.input[Head(r.todo).fam][Head(r.todo).arg] + r.n <= 1 + faults'
  <2>1. ASSUME r.todo # <<>>, Head(r.todo).do = "-D_INPUT", r.n = 0
        PROVE  kernel'.input[Head(r.todo).fam][Head(r.todo).arg] + r.n <= 1 + faults'
    <3>1. PICK f \in Families, a \in {"jump", "drop"} : f = Head(r.todo).fam /\ a = Head(r.todo).arg
      BY <1>4, <2>1, LifeFields, Zenon
    <3>2. kernel'.input[f][a] \in Nat /\ kernel'.input[f][a] <= 1 + faults'
      BY <1>2, <1>3, <3>1, InputTypes, Zenon
    <3>3. kernel'.input[Head(r.todo).fam][Head(r.todo).arg] = kernel'.input[f][a]
      BY <3>1, Zenon
    <3> QED BY <1>2, <2>1, <3>2, <3>3
  <2>2. ASSUME c.kind = "loop", out = "ok", r.todo = p.todo, r.n = p.n + 1
        PROVE  kernel'.input[Head(r.todo).fam][Head(r.todo).arg] + r.n <= 1 + faults'
    <3>1. c.do = "-D_INPUT" /\ c.fam \in Families /\ c.arg \in {"jump", "drop"}
      BY <1>2, <2>2, LifeFields, Zenon
    <3>2. kernel'.input[c.fam][c.arg] = kernel.input[c.fam][c.arg] - 1
      BY <2>2, <3>1, Zenon DEF LifeMove, Result
    <3>3. kernel.input[c.fam][c.arg] + p.n <= 1 + faults
      BY <1>1, <1>2, <3>1, Zenon DEF BoundInv
    <3>4. kernel.input[c.fam][c.arg] \in Nat
      BY <1>2, <3>1, InputTypes, Zenon
    <3>5. PICK x, y : x = kernel.input[c.fam][c.arg] /\ y = kernel'.input[c.fam][c.arg]
      BY Zenon
    <3>8. PICK g, n : g = faults' /\ n = p.n
      BY Zenon
    <3>9. /\ x \in Nat /\ y = x - 1 /\ x + n <= 1 + faults /\ faults \in Nat /\ g \in Nat
          /\ g >= faults /\ n \in Nat /\ r.n = n + 1
      BY <1>2, <2>2, <3>2, <3>3, <3>4, <3>5, <3>8, Zenon
    <3>6. y + r.n <= 1 + faults'
      BY <3>8, <3>9
    <3>7. Head(r.todo) = c
      BY <1>2, <2>2, Zenon
    <3> QED BY <3>5, <3>6, <3>7, Zenon
  <2> QED BY <1>2, <2>1, <2>2, Zenon DEF Moved
<1>6. r.todo # <<>> /\ Head(r.todo).do = "-I_INPUT" =>
        NoTool(Head(r.todo)) \/ kernel'.input[Head(r.todo).fam][Head(r.todo).arg] <= faults'
  <2>1. SUFFICES ASSUME r.todo # <<>>, Head(r.todo).do = "-I_INPUT"
                 PROVE  NoTool(Head(r.todo)) \/ kernel'.input[Head(r.todo).fam][Head(r.todo).arg] <= faults'
    BY Zenon
  <2>2. CASE r.todo = p.todo /\ c.kind = "loop"
    BY <1>2, <2>1, <2>2, LifeFields, Zenon
  <2>3. CASE r.todo = Tail(p.todo) /\ (c.kind = "unless" => out # "ok")
    <3>1. Names(c, "-C_INPUT", Head(r.todo).fam, Head(r.todo).arg)
      BY <1>2, <2>1, <2>3, TailShape, Zenon
    <3>2. c.do = "-C_INPUT" /\ c.fam = Head(r.todo).fam /\ c.arg = Head(r.todo).arg
      BY <3>1, Zenon DEF Names
    <3>3. c.kind = "unless" /\ c.fam \in Families /\ c.arg \in {"jump", "drop"}
      BY <1>2, <3>2, LifeFields, Zenon
    <3>4. kernel'.input = kernel.input
      BY <3>2, Zenon DEF LifeMove, Frame, InputDos
    <3>5. kernel.input[c.fam][c.arg] \in Nat /\ kernel.input[c.fam][c.arg] <= 1 + faults
      BY <1>2, <3>3, InputTypes, Zenon DEF BoundInv
    <3>6. CASE out = "missing"
      <4>1. kernel.input[c.fam][c.arg] = 0
        BY <3>2, <3>6, Zenon DEF LifeMove, Ran, Lacks
      <4>2. PICK x, g : x = kernel'.input[c.fam][c.arg] /\ g = faults'
        BY Zenon
      <4>3. x = 0 /\ g \in Nat
        BY <1>2, <3>4, <4>1, <4>2, Zenon
      <4>4. x <= g
        BY <4>3
      <4> QED BY <3>2, <4>2, <4>4, Zenon
    <3>7. CASE out = "error"
      <4>1. NoTool(c) \/ faults' = faults + 1
        BY <3>2, <3>7, Zenon DEF LifeMove, Ran
      <4>2. NoTool(c) => NoTool(Head(r.todo))
        BY <2>1, <3>2, Zenon DEF NoTool
      <4>3. PICK x, g : x = kernel'.input[c.fam][c.arg] /\ g = faults'
        BY Zenon
      <4>4. x \in Nat /\ x <= 1 + faults /\ faults \in Nat
        BY <1>2, <3>4, <3>5, <4>3, Zenon
      <4>5. g = faults + 1 => x <= g
        BY <4>4
      <4> QED BY <3>2, <4>1, <4>2, <4>3, <4>5, Zenon
    <3> QED BY <2>3, <3>3, <3>6, <3>7, Zenon DEF LifeMove, Ran
  <2>4. CASE c.kind = "unless" /\ r.todo = Tail(Tail(p.todo))
    <3>1. PICK q : q = Tail(p.todo)
      BY Zenon
    <3>2. c.do = "-C_INPUT"
      BY <1>2, <2>4, LifeFields, Zenon
    <3>3. q \in Seq(LifeCmds) /\ Paired(q) /\ q # <<>> /\ Head(q).do = "-I_INPUT"
      BY <1>2, <3>1, <3>2, TailShape, Zenon DEF Names
    <3>4. Head(q).do = "-C_INPUT"
      BY <2>1, <2>4, <3>1, <3>3, TailShape, Zenon DEF Names
    <3> QED BY <3>3, <3>4, Zenon
  <2>5. CASE r.todo = IF c.undo THEN Cleanup(cfg.backend) ELSE <<>>
    <3>1. Cleanup(cfg.backend) \in Seq(CleanupCmds)
      BY Programs, Zenon DEF TypeInv
    <3>2. r.todo \in Seq(CleanupCmds)
      BY <2>1, <2>5, <3>1, Zenon
    <3>3. Head(r.todo) \in CleanupCmds
      BY <2>1, <3>2
    <3> QED BY <2>1, <3>3, Zenon DEF CleanupCmds
  <2> QED BY <1>2, <2>2, <2>3, <2>4, <2>5, Zenon DEF Moved
<1>7. r.todo = <<>> \/ Head(r.todo).do # "-D_INPUT" => r.n = 0
  <2>1. r.todo = p.todo /\ c.kind = "loop" => r.todo # <<>> /\ Head(r.todo).do = "-D_INPUT"
    BY <1>2, LifeFields, Zenon
  <2> QED BY <1>2, <2>1, Zenon DEF Moved
<1>8. \A x : NoTool(x)' = NoTool(x)
  BY LifeCall, CfgKept, Zenon
<1> QED BY <1>2, <1>3, <1>5, <1>6, <1>7, <1>8, Zenon DEF BoundInv

\* A lifecycle command acts on a managed family, and only nftables has a table.
LEMMA LifePlace ==
  ASSUME NEW c \in LifeCmds, cfg \in Configs
  PROVE  /\ c.do # "script" => c.fam \in Managed
         /\ c.do \in {"table", "delete_table"} => cfg.backend = "nftables" /\ Managed = Families
         /\ cfg.backend = "nftables" => c.do \in {"none", "table", "delete_table"}
         /\ cfg.backend = "iptables" => c.do \notin {"create", "table", "delete_table"}
         /\ c.do = "-I_INPUT" /\ ~cfg.drop => c.arg # "drop"
         /\ Managed \subseteq Families
<1>1. c.do \in LifeDos /\ Suits(c) /\ (c.fam \in Managed \/ c.do = "script")
  BY Zenon DEF LifeCmds
<1>2. /\ c.do \in {"table", "delete_table"} => cfg.backend = "nftables"
      /\ cfg.backend = "nftables" => c.do \in {"none", "table", "delete_table"}
      /\ cfg.backend = "iptables" => c.do \notin {"create", "table", "delete_table"}
  BY <1>1, Zenon DEF LifeDos, RuleDos
<1>3. cfg.backend = "nftables" => Managed = Families
  BY Zenon DEF Managed
<1>4. Managed \subseteq Families
  BY Zenon DEF Managed, Families, Configs
<1>5. c.do = "-I_INPUT" /\ ~cfg.drop => c.arg # "drop"
  BY <1>1, Zenon DEF Suits
<1> QED BY <1>1, <1>2, <1>3, <1>4, <1>5, Zenon

\* The parts of the empty packet filter.
LEMMA EmptyFields ==
  /\ \A f \in Families : Empty.chain[f] = Absent /\ Empty.made[f] = FALSE
                         /\ Empty.input[f].jump = 0 /\ Empty.input[f].drop = 0
  /\ \A r \in Remotes : Empty.member[r] = 0
BY Zenon DEF Empty

\* A lifecycle move keeps what holds of the packet filter.
LEMMA LifeKeepsKernel ==
  ASSUME TypeInv, KernelInv, NEW c, NEW out, NEW r, LifeMove(c, out, r)
  PROVE  KernelInv'
<1>1. /\ kernel \in Kernels /\ kernel' \in Kernels /\ cfg \in Configs /\ c \in LifeCmds
  BY Zenon DEF TypeInv, LifeMove
<1>2. cfg' = cfg /\ Managed' = Managed
  BY LifeCall, CfgKept, Zenon
<1>3. kernel' = kernel \/ (Frame(kernel, c, kernel') /\ Result(kernel, c, kernel'))
  BY Zenon DEF LifeMove
<1>4. CASE kernel' = kernel
  BY <1>2, <1>4, Zenon DEF KernelInv
<1>5. CASE Frame(kernel, c, kernel') /\ Result(kernel, c, kernel')
  <2>0. \A s \in Remotes : Family(s) \in Families
    BY Zenon DEF Family, Families
  <2>1. ASSUME NEW s \in Remotes, ~kernel'.made[Family(s)]
        PROVE  kernel'.member[s] = 0
    <3>1. CASE c.do \notin MadeDos /\ c.do \notin MemberDos
      BY <1>5, <2>1, <3>1, Zenon DEF Frame, KernelInv
    <3>2. CASE c.do = "create"
      <4>1. kernel'.member = kernel.member /\ kernel'.made[c.fam]
        BY <1>5, <3>2, Zenon DEF Frame, Result, MemberDos
      <4>2. kernel'.made[Family(s)] = kernel.made[Family(s)]
        BY <1>5, <2>0, <2>1, <3>2, <4>1, Zenon DEF Frame
      <4> QED BY <2>1, <4>1, <4>2 DEF KernelInv
    <3>3. CASE c.do \in {"flush", "destroy"}
      <4>1. kernel'.member[s] = IF Family(s) = c.fam THEN 0 ELSE kernel.member[s]
        BY <1>5, <3>3, Zenon DEF Result, Flushed
      <4>2. Family(s) # c.fam => kernel'.made[Family(s)] = kernel.made[Family(s)]
        BY <1>5, <2>0, <3>3, Zenon DEF Frame
      <4> QED BY <2>1, <4>1, <4>2, Zenon DEF KernelInv
    <3>4. CASE c.do = "table"
      <4>1. kernel' = Table(kernel)
        BY <1>5, <3>4, Zenon DEF Result
      <4>2. kernel'.member = kernel.member /\ (kernel.made[Family(s)] => kernel'.made[Family(s)])
        BY <1>1, <2>0, <4>1, SetTable, Zenon
      <4> QED BY <2>1, <4>2, Zenon DEF KernelInv
    <3>5. CASE c.do = "delete_table"
      BY <1>5, <3>5, EmptyFields, Zenon DEF Result
    <3> QED BY <1>1, <3>1, <3>2, <3>3, <3>4, <3>5, LifeProper, Zenon DEF MadeDos, MemberDos
  <2>2. ASSUME NEW f \in Families, f \notin Managed
        PROVE  /\ kernel'.chain[f] = Absent /\ ~kernel'.made[f]
               /\ kernel'.input[f].jump = 0 /\ kernel'.input[f].drop = 0
    <3>1. c.do \notin {"table", "delete_table"} /\ (c.do # "script" => f # c.fam)
      BY <1>1, <2>2, LifePlace, Zenon
    <3>2. CASE c.do = "script"
      BY <1>5, <2>2, <3>2, Zenon DEF Frame, KernelInv, ChainDos, InputDos, MadeDos, MemberDos
    <3>3. CASE c.do # "script"
      BY <1>5, <2>2, <3>1, <3>3 DEF Frame, KernelInv
    <3> QED BY <3>2, <3>3, Zenon
  <2>3. ASSUME ~cfg.drop, NEW f \in Families PROVE kernel'.input[f].drop = 0
    <3>1. kernel.input[f].drop = 0
      BY <2>3, Zenon DEF KernelInv
    <3>2. CASE c.do \notin InputDos
      BY <1>5, <3>1, <3>2, Zenon DEF Frame
    <3>3. CASE c.do \in {"-I_INPUT", "-D_INPUT"}
      <4>1. c.arg \in {"jump", "drop"} /\ (c.do = "-I_INPUT" => c.arg # "drop")
        BY <1>1, <2>3, <3>3, LifeFields, LifePlace, Zenon
      <4>2. CASE f # c.fam
        BY <1>5, <3>1, <3>3, <4>2, Zenon DEF Frame
      <4>3. CASE f = c.fam /\ c.arg = "jump"
        BY <1>5, <3>1, <3>3, <4>3, Zenon DEF Result
      <4>4. CASE f = c.fam /\ c.arg = "drop"
        <5>1. c.do = "-D_INPUT" /\ kernel.input[f].drop > 0
          BY <1>5, <3>3, <4>1, <4>4, Zenon DEF Result
        <5> QED BY <3>1, <5>1
      <4> QED BY <4>1, <4>2, <4>3, <4>4, Zenon
    <3>4. CASE c.do = "table"
      <4>1. kernel' = Table(kernel)
        BY <1>5, <3>4, Zenon DEF Result
      <4> QED BY <1>1, <2>3, <4>1, SetTable, Zenon
    <3>5. CASE c.do = "delete_table"
      BY <1>5, <3>5, EmptyFields, Zenon DEF Result
    <3> QED BY <3>2, <3>3, <3>4, <3>5, Zenon DEF InputDos
  <2>4. ASSUME cfg.backend = "iptables", NEW f \in Families PROVE ~kernel'.made[f]
    <3>1. c.do \notin {"create", "table", "delete_table"} /\ ~kernel.made[f]
      BY <1>1, <2>4, LifePlace, Zenon DEF KernelInv
    <3>2. CASE c.do = "destroy"
      BY <1>5, <3>1, <3>2, Zenon DEF Frame, Result
    <3>3. CASE c.do # "destroy"
      BY <1>5, <3>1, <3>3, Zenon DEF Frame, MadeDos
    <3> QED BY <3>2, <3>3, Zenon
  <2>5. ASSUME cfg.backend = "nftables", kernel'.chain[4] = Absent PROVE kernel' = Empty
    <3>1. c.do \in {"none", "table", "delete_table"} /\ 4 \in Families
      BY <1>1, <2>5, LifePlace, Zenon DEF Families
    <3>2. CASE c.do = "table"
      <4>1. kernel' = Table(kernel)
        BY <1>5, <3>2, Zenon DEF Result
      <4> QED BY <1>1, <2>5, <3>1, <4>1, SetTable
    <3>3. CASE c.do = "delete_table"
      BY <1>5, <3>3, Zenon DEF Result
    <3>4. CASE c.do = "none"
      <4>1. kernel' = kernel
        BY <3>4, Zenon DEF LifeMove, Ran, Done
      <4> QED BY <2>5, <4>1, Zenon DEF KernelInv
    <3> QED BY <3>1, <3>2, <3>3, <3>4, Zenon
  <2> QED BY <1>2, <2>1, <2>2, <2>3, <2>4, <2>5, Zenon DEF KernelInv
<1> QED BY <1>3, <1>4, <1>5, Zenon

\* cleanupIptablesRules' loop ends without an error only when no rule is left: it never
\* stops at maxCleanupDeletes.
LEMMA LoopEmpties ==
  ASSUME TypeInv, LifeInv, BoundInv, NEW c, NEW out, NEW r, LifeMove(c, out, r),
         c.do = "-D_INPUT", ~r.err, r.todo # calls["life"].todo
  PROVE  kernel'.input[c.fam][c.arg] = 0
<1>1. PICK p, x : p = calls["life"] /\ x = kernel.input[c.fam][c.arg]
  BY Zenon
<1>2. c \in LifeCmds /\ kernel \in Kernels
  BY Zenon DEF LifeMove, TypeInv
<1>3. c.kind = "loop" /\ c.fam \in Families /\ c.arg \in {"jump", "drop"}
  BY <1>2, LifeFields, Zenon
<1>4. x \in Nat
  BY <1>1, <1>2, <1>3, InputTypes, Zenon
<1>5. Moved(p, c, out, r) /\ out \in {"ok", "error", "missing"} /\ p.n \in Nat
  BY <1>1, Zenon DEF LifeMove, Ran, Calls
<1>6. ~(out = "ok" /\ p.n + 1 < MaxCleanupDeletes) /\ out # "error"
  BY <1>1, <1>3, <1>5, Zenon DEF Moved
<1>7. CASE out = "missing"
  BY <1>7, Zenon DEF LifeMove, Ran, Lacks
<1>8. CASE out = "ok"
  <2>1. x > 0 /\ kernel'.input[c.fam][c.arg] = x - 1
    BY <1>1, <1>3, <1>8, Zenon DEF LifeMove, Result
  <2>2. x + p.n <= 1 + faults
    BY <1>1, Zenon DEF BoundInv, LifeMove
  <2>3. starts > 0 /\ starts \in 0..MaxStarts /\ faults \in 0..MaxFaults
    BY Zenon DEF TypeInv, LifeInv, LifeMove
  <2>4. PICK n \in Nat : n = p.n
    BY <1>5, Zenon
  <2>5. n + 1 >= MaxCleanupDeletes
    BY <1>6, <1>8, <2>4, FirewallAssumption
  <2>6. x <= 1
    BY <1>4, <2>2, <2>3, <2>4, <2>5, FirewallAssumption
  <2> QED BY <1>4, <2>1, <2>6
<1> QED BY <1>5, <1>6, <1>7, <1>8, Zenon

\* A lifecycle move keeps: what a Cleanup without error has behind it is gone.
LEMMA LifeKeepsCleanup ==
  ASSUME TypeInv, LifeInv, BoundInv, KernelInv, CleanupInv,
         NEW c, NEW out, NEW r, LifeMove(c, out, r)
  PROVE  CleanupInv'
<1>1. PICK p : p = calls["life"]
  BY Zenon
<1>2. cfg' = cfg /\ Managed' = Managed /\ phase' = phase /\ calls'["life"] = r
  BY LifeCall, CfgKept, Zenon
<1>3. SUFFICES ASSUME phase = "cleanup", ~r.err
               PROVE  /\ cfg.backend \in Iptables => \A f \in Managed :
                           /\ ~Has(r.todo, "-D_INPUT", f, "jump") => kernel'.input[f].jump = 0
                           /\ ~Has(r.todo, "-D_INPUT", f, "drop") => kernel'.input[f].drop = 0
                           /\ ~Has(r.todo, "-X", f, "none") => kernel'.chain[f] = Absent
                           /\ ~Has(r.todo, "destroy", f, "none") => ~kernel'.made[f]
                      /\ cfg.backend = "nftables" /\ ~Has(r.todo, "delete_table", 4, "none") =>
                           kernel' = Empty
  BY <1>2, Zenon DEF CleanupInv, Pending
<1>4. /\ p.todo \in Seq(CleanupCmds) /\ p.todo # <<>> /\ c = Head(p.todo)
      /\ p.todo \in Seq(LifeCmds) /\ Paired(p.todo) /\ p \in Calls
  BY <1>1, <1>3, Zenon DEF LifeInv, LifeMove
<1>5. c \in CleanupCmds /\ c \in LifeCmds
  BY <1>4, TailShape, Zenon
<1>6. /\ c.do \in {"-D_INPUT", "-F", "-X", "flush", "destroy", "delete_table", "script"}
      /\ c.kind \notin {"bail", "unless"} /\ (c.do \in {"-X", "destroy", "delete_table"} => c.kind = "quiet")
  BY <1>5, Zenon DEF CleanupCmds, LifeCmds, Suits
<1>7. Moved(p, c, out, r) /\ out \in {"ok", "error", "missing"}
  BY <1>1, Zenon DEF LifeMove, Ran
<1>8. ~p.err /\ (r.todo = p.todo \/ r.todo = Tail(p.todo)) /\ (r.todo # p.todo => (c.kind = "quiet" => out # "error"))
  BY <1>3, <1>4, <1>6, <1>7, Zenon DEF Moved
<1>9. ASSUME NEW do, NEW f, NEW a, ~Has(r.todo, do, f, a)
      PROVE  ~Has(p.todo, do, f, a) \/ (Names(c, do, f, a) /\ r.todo # p.todo)
  BY <1>4, <1>8, <1>9, TailShape, Zenon
<1>10. kernel' = kernel \/ (Frame(kernel, c, kernel') /\ Result(kernel, c, kernel'))
  BY Zenon DEF LifeMove
<1>11. /\ out = "ok" => Frame(kernel, c, kernel') /\ Result(kernel, c, kernel')
       /\ out = "missing" => kernel' = kernel /\ Lacks(kernel, c)
  BY <1>6, Zenon DEF LifeMove, Ran
<1>12. cfg \in Configs /\ kernel \in Kernels /\ Managed \subseteq Families
  BY <1>5, LifePlace, Zenon DEF TypeInv
<1>13. ASSUME cfg.backend \in Iptables, NEW f \in Managed
       PROVE  /\ ~Has(r.todo, "-D_INPUT", f, "jump") => kernel'.input[f].jump = 0
              /\ ~Has(r.todo, "-D_INPUT", f, "drop") => kernel'.input[f].drop = 0
  <2>0. f \in Families /\ c.do \notin {"table", "delete_table"}
    BY <1>5, <1>12, <1>13, LifePlace, Zenon DEF Iptables
  <2>1. ASSUME NEW a \in {"jump", "drop"}, ~Has(r.todo, "-D_INPUT", f, a)
        PROVE  kernel'.input[f][a] = 0
    <3>1. CASE Names(c, "-D_INPUT", f, a) /\ r.todo # p.todo
      BY <1>1, <1>3, <3>1, LoopEmpties, Zenon DEF Names
    <3>2. CASE ~Has(p.todo, "-D_INPUT", f, a)
      <4>1. kernel.input[f][a] = 0
        BY <1>1, <1>3, <1>8, <1>13, <2>1, <3>2, Zenon DEF CleanupInv, Pending
      <4>2. CASE kernel'.input[f] = kernel.input[f]
        BY <4>1, <4>2, Zenon
      <4>3. CASE f = c.fam /\ c.do = "-D_INPUT" /\ kernel' # kernel
        <5>1. c.arg # a /\ c.arg \in {"jump", "drop"}
          BY <1>5, <1>10, <4>1, <4>3, LifeFields DEF Result
        <5> QED BY <1>10, <2>1, <4>1, <4>3, <5>1, Zenon DEF Result
      <4>4. kernel'.input[f] = kernel.input[f] \/ (f = c.fam /\ c.do = "-D_INPUT" /\ kernel' # kernel)
        BY <1>6, <1>10, <2>0, Zenon DEF Frame, InputDos
      <4> QED BY <4>2, <4>3, <4>4, Zenon
    <3> QED BY <1>9, <2>1, <3>1, <3>2, Zenon
  <2> QED BY <2>1, Zenon
<1>14. ASSUME cfg.backend \in Iptables, NEW f \in Managed, ~Has(r.todo, "-X", f, "none")
       PROVE  kernel'.chain[f] = Absent
  <2>0. f \in Families /\ c.do \notin {"table", "delete_table"}
    BY <1>5, <1>12, <1>14, LifePlace, Zenon DEF Iptables
  <2>1. CASE Names(c, "-X", f, "none") /\ r.todo # p.todo
    <3>1. c.do = "-X" /\ c.fam = f /\ out # "error"
      BY <1>6, <1>8, <2>1, Zenon DEF Names
    <3> QED BY <1>7, <1>11, <3>1, Zenon DEF Result, Lacks
  <2>2. CASE ~Has(p.todo, "-X", f, "none")
    <3>1. kernel.chain[f] = Absent
      BY <1>1, <1>3, <1>8, <1>14, <2>2, Zenon DEF CleanupInv, Pending
    <3>2. c.do \in {"-F", "-X"} /\ c.fam = f => kernel' = kernel \/ c.do = "-X"
      BY <1>10, <3>1, Zenon DEF Result
    <3>3. c.do = "-X" /\ c.fam = f => kernel'.chain[f] = Absent
      BY <1>10, <3>1, Zenon DEF Result
    <3>4. ~(c.do \in {"-F", "-X"} /\ c.fam = f) => kernel'.chain[f] = kernel.chain[f]
      BY <1>6, <1>10, <2>0, Zenon DEF Frame, ChainDos
    <3> QED BY <3>1, <3>2, <3>3, <3>4, Zenon
  <2> QED BY <1>9, <1>14, <2>1, <2>2, Zenon
<1>15. ASSUME cfg.backend \in Iptables, NEW f \in Managed, ~Has(r.todo, "destroy", f, "none")
       PROVE  ~kernel'.made[f]
  <2>0. f \in Families /\ c.do \notin {"table", "delete_table"}
    BY <1>5, <1>12, <1>15, LifePlace, Zenon DEF Iptables
  <2>1. CASE Names(c, "destroy", f, "none") /\ r.todo # p.todo
    <3>1. c.do = "destroy" /\ c.fam = f /\ out # "error"
      BY <1>6, <1>8, <2>1, Zenon DEF Names
    <3> QED BY <1>7, <1>11, <3>1, Zenon DEF Result, Lacks
  <2>2. CASE ~Has(p.todo, "destroy", f, "none")
    <3>1. ~kernel.made[f]
      BY <1>1, <1>3, <1>8, <1>15, <2>2, Zenon DEF CleanupInv, Pending
    <3>2. CASE c.do = "destroy" /\ c.fam = f
      BY <1>10, <3>1, <3>2, Zenon DEF Result
    <3>3. CASE ~(c.do = "destroy" /\ c.fam = f)
      BY <1>6, <1>10, <2>0, <3>1, <3>3, Zenon DEF Frame, MadeDos
    <3> QED BY <3>2, <3>3, Zenon
  <2> QED BY <1>9, <1>15, <2>1, <2>2, Zenon
<1>16. ASSUME cfg.backend = "nftables", ~Has(r.todo, "delete_table", 4, "none")
       PROVE  kernel' = Empty
  <2>1. c.do = "delete_table"
    BY <1>5, <1>6, <1>12, <1>16, LifePlace, Zenon
  <2>2. CASE Names(c, "delete_table", 4, "none") /\ r.todo # p.todo
    <3>1. out # "error"
      BY <1>6, <1>8, <2>1, <2>2, Zenon
    <3>2. out = "missing" => kernel' = kernel /\ kernel.chain[4] = Absent
      BY <1>11, <2>1, Zenon DEF Lacks
    <3>3. kernel.chain[4] = Absent => kernel = Empty
      BY <1>16, Zenon DEF KernelInv
    <3> QED BY <1>7, <1>11, <2>1, <3>1, <3>2, <3>3, Zenon DEF Result
  <2>3. CASE ~Has(p.todo, "delete_table", 4, "none")
    <3>1. kernel = Empty
      BY <1>1, <1>3, <1>8, <1>16, <2>3, Zenon DEF CleanupInv, Pending
    <3> QED BY <1>10, <2>1, <3>1, Zenon DEF Result
  <2> QED BY <1>9, <1>16, <2>2, <2>3, Zenon
<1> QED BY <1>13, <1>14, <1>15, <1>16, Zenon

\* The commands of Allow and Revoke.
RunCmds ==
  {c \in Commands :
     /\ Proper(c) /\ c.do \in {"-C", "-I", "-D", "add", "del", "script"}
     /\ c.arg \in Remotes /\ ~c.undo
     /\ c.do # "script" => c.fam = Family(c.arg) /\ c.fam \in Managed
     /\ c.do \in {"-C", "-I", "-D"} => cfg.backend = "iptables"
     /\ c.do \in {"add", "del"} => cfg.backend \in {"nftables", "ipset-iptables"}
     /\ c.kind = CASE c.do = "-C" -> "unless" [] c.do \in {"-D", "del"} -> "quiet"
                   [] OTHER -> "must"}

\* A step of the handler or the timer, x: it runs c for its remote, which ends with out,
\* and its call becomes r.
RunMove(x, c, out, r) ==
  LET p == calls[x]
  IN  /\ p \in Calls /\ r \in Calls /\ c \in RunCmds /\ c.arg = p.remote /\ Ran(c, out)
      /\ p.op # "none" /\ p.todo # <<>> /\ c = Head(p.todo)
      /\ r.op = p.op /\ r.remote = p.remote /\ r.since = p.since
      /\ calls' = [calls EXCEPT ![x] = r]
      /\ \/ r.todo = <<>>
         \/ /\ x = "handler" /\ c.do = "-C" /\ out # "ok"
            /\ r.todo = <<Cmd("must", "-I", Family(p.remote), p.remote)>>
      /\ x = "handler" => c.do \in {"-C", "-I", "add", "script"}
      /\ x = "timer" => c.do \in {"-D", "del", "script"} /\ (~r.err => out # "error")
      /\ kernel' \in Kernels
      /\ kernel' = kernel \/ (Frame(kernel, c, kernel') /\ Result(kernel, c, kernel'))
      /\ out = "ok" => Frame(kernel, c, kernel') /\ Result(kernel, c, kernel')
      /\ doubtful' = doubtful \cup
           IF /\ c.do = "-C" /\ out # "ok" /\ kernel.chain[c.fam] # Absent
              /\ c.arg \in Range(kernel.chain[c.fam])
           THEN {c.arg} ELSE {}

\* The commands for a remote that is not refused are such commands.
LEMMA RemoteCmd ==
  ASSUME NEW s \in Remotes, ~Refused(s), cfg \in Configs
  PROVE  /\ cfg.backend \in {"nftables", "ipset-iptables"} =>
              /\ Cmd("must", "add", Family(s), s) \in RunCmds
              /\ Cmd("quiet", "del", Family(s), s) \in RunCmds
         /\ cfg.backend = "iptables" =>
              /\ Cmd("unless", "-C", Family(s), s) \in RunCmds
              /\ Cmd("must", "-I", Family(s), s) \in RunCmds
              /\ Cmd("quiet", "-D", Family(s), s) \in RunCmds
         /\ Cmd("must", "script", 4, s) \in RunCmds
         /\ cfg.backend \in {"nftables", "ipset-iptables", "iptables"} => Family(s) \in Managed
<1>1. cfg.backend \in {"nftables", "ipset-iptables", "iptables"} => Family(s) \in Managed
  BY Zenon DEF Refused, Managed, Family, Families, Configs
<1>2. Family(s) \in Families /\ 4 \in Families /\ s \in Args /\ s \in Rules
  BY Zenon DEF Family, Families, Args, Rules
<1>3. cfg.backend \in {"nftables", "ipset-iptables"} =>
              /\ Cmd("must", "add", Family(s), s) \in RunCmds
              /\ Cmd("quiet", "del", Family(s), s) \in RunCmds
  BY <1>1, <1>2, Zenon DEF Cmd, RunCmds, Commands, Proper, Kinds, Dos
<1>4. cfg.backend = "iptables" =>
              /\ Cmd("unless", "-C", Family(s), s) \in RunCmds
              /\ Cmd("must", "-I", Family(s), s) \in RunCmds
              /\ Cmd("quiet", "-D", Family(s), s) \in RunCmds
  BY <1>1, <1>2, Zenon DEF Cmd, RunCmds, Commands, Proper, Kinds, Dos
<1>5. Cmd("must", "script", 4, s) \in RunCmds
  BY <1>2, Zenon DEF Cmd, RunCmds, Commands, Proper, Kinds, Dos
<1> QED BY <1>1, <1>3, <1>4, <1>5, Zenon

\* Allow and Revoke of every backend, command by command.
LEMMA AllowForms ==
  ASSUME NEW s, cfg \in Configs
  PROVE  /\ Allow(s) = CASE cfg.backend \in {"nftables", "ipset-iptables"} ->
                              <<Cmd("must", "add", Family(s), s)>>
                         [] cfg.backend = "iptables" ->
                              <<Cmd("unless", "-C", Family(s), s), Cmd("must", "-I", Family(s), s)>>
                         [] cfg.backend = "script" -> <<Cmd("must", "script", 4, s)>>
                         [] OTHER -> <<>>
         /\ Revoke(s) = CASE cfg.backend \in {"nftables", "ipset-iptables"} ->
                              <<Cmd("quiet", "del", Family(s), s)>>
                         [] cfg.backend = "iptables" -> <<Cmd("quiet", "-D", Family(s), s)>>
                         [] cfg.backend = "script" -> <<Cmd("must", "script", 4, s)>>
                         [] OTHER -> <<>>
<1>1. CASE cfg.backend = "nftables"
  BY <1>1, Zenon DEF Allow, Revoke, NftablesAllow, NftablesRevoke, Renew
<1>2. CASE cfg.backend = "ipset-iptables"
  BY <1>2, Zenon DEF Allow, Revoke, IPSetAllow, IPSetRevoke, Renew
<1>3. CASE cfg.backend = "iptables"
  BY <1>3, Zenon DEF Allow, Revoke, IptablesAllow, IptablesRevoke
<1>4. CASE cfg.backend = "script"
  BY <1>4, Zenon DEF Allow, Revoke, Script
<1>5. CASE cfg.backend = "noop"
  BY <1>5, Zenon DEF Allow, Revoke
<1> QED BY <1>1, <1>2, <1>3, <1>4, <1>5, Zenon DEF Configs, Backends

\* What the handler or the timer has ahead of it when it is not done.
RunHead(x, c) ==
  LET p == calls[x]
  IN  /\ p.op # "none" /\ c \in RunCmds /\ c.arg = p.remote /\ c = Head(p.todo)
      /\ \/ Tail(p.todo) = <<>> /\ c.do # "-C"
         \/ /\ x = "handler" /\ c.do = "-C"
            /\ Tail(p.todo) = <<Cmd("must", "-I", Family(p.remote), p.remote)>>
            /\ Tail(Tail(p.todo)) = <<>>
      /\ x = "handler" => c.do \in {"-C", "-I", "add", "script"}
      /\ x = "timer" => c.do \in {"-D", "del", "script"}

\* The kind, name, family and remote of a command, without the rest of CmdFields.
LEMMA CmdIs ==
  ASSUME NEW k, NEW do, NEW f, NEW a
  PROVE  /\ Cmd(k, do, f, a).do = do /\ Cmd(k, do, f, a).arg = a /\ Cmd(k, do, f, a).fam = f
         /\ Cmd(k, do, f, a).kind = k
BY Zenon DEF Cmd

\* The handler is about to run a command of Allow.
LEMMA HandlerHead ==
  ASSUME TypeInv, HandlerInv, calls["handler"].todo # <<>>
  PROVE  RunHead("handler", Head(calls["handler"].todo))
<1>1. PICK p, s : p = calls["handler"] /\ s = p.remote
  BY Zenon
<1>2. /\ p.op = "allow" /\ s \in Remotes /\ ~Refused(s) /\ cfg \in Configs /\ p.todo # <<>>
      /\ \/ p.todo = Allow(s)
         \/ cfg.backend = "iptables" /\ p.todo = <<Cmd("must", "-I", Family(s), s)>>
  BY <1>1, Zenon DEF HandlerInv, TypeInv
<1>3. ASSUME NEW c \in RunCmds, c.arg = s, p.todo = <<c>>, c.do \in {"-I", "add", "script"}
      PROVE  RunHead("handler", Head(calls["handler"].todo))
  <2>1. Head(p.todo) = c /\ Tail(p.todo) = <<>>
    BY <1>3
  <2> QED BY <1>1, <1>2, <1>3, <2>1, Zenon DEF RunHead
<1>4. CASE cfg.backend = "iptables" /\ p.todo = <<Cmd("must", "-I", Family(s), s)>>
  <2>1. Cmd("must", "-I", Family(s), s) \in RunCmds
    BY <1>2, <1>4, RemoteCmd, Zenon
  <2> QED BY <1>3, <1>4, <2>1, CmdIs
<1>5. CASE cfg.backend \in {"nftables", "ipset-iptables"} /\ p.todo = Allow(s)
  <2>1. Cmd("must", "add", Family(s), s) \in RunCmds
    BY <1>2, <1>5, RemoteCmd, Zenon
  <2>2. p.todo = <<Cmd("must", "add", Family(s), s)>>
    BY <1>2, <1>5, AllowForms, Zenon
  <2> QED BY <1>3, <2>1, <2>2, CmdIs
<1>6. CASE cfg.backend = "script" /\ p.todo = Allow(s)
  <2>1. Cmd("must", "script", 4, s) \in RunCmds
    BY <1>2, RemoteCmd, Zenon
  <2>2. p.todo = <<Cmd("must", "script", 4, s)>>
    BY <1>2, <1>6, AllowForms, Zenon
  <2> QED BY <1>3, <2>1, <2>2, CmdIs
<1>7. CASE cfg.backend = "iptables" /\ p.todo = Allow(s)
  <2>1. PICK c, d : c = Cmd("unless", "-C", Family(s), s) /\ d = Cmd("must", "-I", Family(s), s)
    BY Zenon
  <2>2. c \in RunCmds /\ c.do = "-C" /\ c.arg = s
    BY <1>2, <1>7, <2>1, RemoteCmd, CmdIs
  <2>3. p.todo = <<c, d>>
    BY <1>2, <1>7, <2>1, AllowForms, Zenon
  <2>4. Head(p.todo) = c /\ Tail(p.todo) = <<d>> /\ Tail(Tail(p.todo)) = <<>>
    BY <2>3
  <2> QED BY <1>1, <1>2, <2>1, <2>2, <2>4, Zenon DEF RunHead
<1>8. p.todo = Allow(s) => cfg.backend # "noop"
  BY <1>2, AllowForms, Zenon
<1> QED BY <1>2, <1>4, <1>5, <1>6, <1>7, <1>8, Zenon DEF Configs, Backends

\* The timer is about to run the command of Revoke.
LEMMA TimerHead ==
  ASSUME TypeInv, TimerInv, calls["timer"].todo # <<>>
  PROVE  RunHead("timer", Head(calls["timer"].todo))
<1>1. PICK p, s : p = calls["timer"] /\ s = p.remote
  BY Zenon
<1>2. /\ p.op = "revoke" /\ s \in Remotes /\ ~Refused(s) /\ cfg \in Configs /\ p.todo # <<>>
      /\ p.todo = Revoke(s)
  BY <1>1, Zenon DEF TimerInv, TypeInv
<1>3. ASSUME NEW c \in RunCmds, c.arg = s, p.todo = <<c>>, c.do \in {"-D", "del", "script"}
      PROVE  RunHead("timer", Head(calls["timer"].todo))
  <2>1. Head(p.todo) = c /\ Tail(p.todo) = <<>>
    BY <1>3
  <2> QED BY <1>1, <1>2, <1>3, <2>1, Zenon DEF RunHead
<1>4. CASE cfg.backend = "iptables"
  <2>1. Cmd("quiet", "-D", Family(s), s) \in RunCmds
    BY <1>2, <1>4, RemoteCmd, Zenon
  <2>2. p.todo = <<Cmd("quiet", "-D", Family(s), s)>>
    BY <1>2, <1>4, AllowForms, Zenon
  <2> QED BY <1>3, <2>1, <2>2, CmdIs
<1>5. CASE cfg.backend \in {"nftables", "ipset-iptables"}
  <2>1. Cmd("quiet", "del", Family(s), s) \in RunCmds
    BY <1>2, <1>5, RemoteCmd, Zenon
  <2>2. p.todo = <<Cmd("quiet", "del", Family(s), s)>>
    BY <1>2, <1>5, AllowForms, Zenon
  <2> QED BY <1>3, <2>1, <2>2, CmdIs
<1>6. CASE cfg.backend = "script"
  <2>1. Cmd("must", "script", 4, s) \in RunCmds
    BY <1>2, RemoteCmd, Zenon
  <2>2. p.todo = <<Cmd("must", "script", 4, s)>>
    BY <1>2, <1>6, AllowForms, Zenon
  <2> QED BY <1>3, <2>1, <2>2, CmdIs
<1>8. cfg.backend # "noop"
  BY <1>2, AllowForms, Zenon
<1> QED BY <1>2, <1>4, <1>5, <1>6, <1>8, Zenon DEF Configs, Backends

\* Every step of the handler and of the timer is a run move.
LEMMA RunStep ==
  ASSUME TypeInv, NEW x \in {"handler", "timer"}, Step(x), RunHead(x, Head(calls[x].todo))
  PROVE  \E c, out, r : RunMove(x, c, out, r)
<1>1. PICK p, c : p = calls[x] /\ c = Head(p.todo)
  BY Zenon
<1>2. /\ x \in Procs /\ p \in Calls /\ p.todo # <<>> /\ faults \in 0..MaxFaults
      /\ kernel \in Kernels /\ cfg \in Configs /\ now \in Nat
  BY <1>1, Zenon DEF TypeInv, Procs, Step
<1>3. RunHead(x, c)
  BY <1>1, Zenon
<1>4. c \in RunCmds
  BY <1>3, Zenon DEF RunHead
<1>5. /\ c \in Commands /\ Proper(c) /\ c.kind \in {"unless", "quiet", "must"} /\ ~c.undo
      /\ c.do # "none" /\ (c.kind = "unless" <=> c.do = "-C")
      /\ c.kind = "quiet" <=> c.do \in {"-D", "del"}
  BY <1>4, Zenon DEF RunCmds
<1>6. PICK out : /\ Ran(c, out) /\ calls' = [calls EXCEPT ![x] = After(@, c, out)]
                 /\ doubtful' = doubtful \cup
                      IF /\ c.do = "-C" /\ out # "ok" /\ kernel.chain[c.fam] # Absent
                         /\ c.arg \in Range(kernel.chain[c.fam])
                      THEN {c.arg} ELSE {}
  BY <1>1, <1>2, <1>5, StepRan, Zenon
<1>7. PICK r : r = After(p, c, out)
  BY Zenon
<1>8. calls' = [calls EXCEPT ![x] = r]
  BY <1>1, <1>6, <1>7, Zenon
<1>9. Moved(p, c, out, r) /\ r.op = p.op /\ r.remote = p.remote /\ r.since = p.since
  BY <1>2, <1>5, <1>7, AfterCases DEF Kinds
<1>10. \/ r.todo = <<>>
       \/ /\ x = "handler" /\ c.do = "-C" /\ out # "ok"
          /\ r.todo = <<Cmd("must", "-I", Family(p.remote), p.remote)>>
  BY <1>1, <1>3, <1>5, <1>9, Zenon DEF Moved, RunHead
<1>11. c.do \in {"-D", "del", "script"} /\ ~r.err => out # "error"
  BY <1>5, <1>9, Zenon DEF Moved
<1>12. r \in Calls
  <2>1. r.todo \in Seq(Commands)
    <3>1. Tail(p.todo) \in Seq(Commands)
      BY <1>2 DEF Calls
    <3>2. <<>> \in Seq(Commands)
      OBVIOUS
    <3>3. r.todo = <<>> \/ r.todo = Tail(p.todo)
      BY <1>1, <1>3, <1>10, Zenon DEF RunHead
    <3> QED BY <3>1, <3>2, <3>3, Zenon
  <2> QED BY <1>2, <1>5, <1>7, <2>1, AfterType DEF Kinds
<1>13. Done(kernel, c, kernel') => kernel' \in Kernels /\ Frame(kernel, c, kernel')
                                   /\ Result(kernel, c, kernel')
  BY <1>2, <1>5, DoneFrame, Zenon
<1>14. /\ kernel' = kernel \/ Done(kernel, c, kernel')
       /\ out = "ok" => Done(kernel, c, kernel')
  BY <1>5, <1>6, Zenon DEF Ran
<1>15. /\ kernel' \in Kernels
       /\ kernel' = kernel \/ (Frame(kernel, c, kernel') /\ Result(kernel, c, kernel'))
       /\ out = "ok" => Frame(kernel, c, kernel') /\ Result(kernel, c, kernel')
  BY <1>2, <1>13, <1>14, Zenon
<1>16. /\ p.op # "none" /\ c.arg = p.remote
       /\ x = "handler" => c.do \in {"-C", "-I", "add", "script"}
       /\ x = "timer" => c.do \in {"-D", "del", "script"}
  BY <1>1, <1>3, Zenon DEF RunHead
<1>17. RunMove(x, c, out, r)
  BY <1>1, <1>2, <1>4, <1>6, <1>8, <1>9, <1>10, <1>11, <1>12, <1>15, <1>16, Zenon DEF RunMove
<1> QED BY <1>17, Zenon

\* A run move changes the goroutine's own call, the packet filter, faults and doubtful.
LEMMA RunCall ==
  ASSUME TypeInv, NEW x \in {"handler", "timer"}, NEW c, NEW out, NEW r, RunMove(x, c, out, r)
  PROVE  /\ calls'[x] = r /\ calls' \in [Procs -> Calls]
         /\ \A y \in Procs : y # x => calls'[y] = calls[y]
         /\ faults' \in 0..MaxFaults /\ faults' >= faults /\ kernel' \in Kernels
         /\ doubtful' \subseteq Remotes
         /\ UNCHANGED <<now, cfg, phase, starts, granted, clean>>
<1>1. /\ calls' = [calls EXCEPT ![x] = r] /\ r \in Calls /\ kernel' \in Kernels /\ c \in RunCmds
      /\ doubtful' \subseteq doubtful \cup {c.arg}
  BY Zenon DEF RunMove
<1>2. calls \in [Procs -> Calls] /\ faults \in 0..MaxFaults /\ doubtful \subseteq Remotes /\ x \in Procs
  BY Zenon DEF TypeInv, Procs
<1>3. /\ faults' \in {faults, faults + 1} /\ faults' <= MaxFaults
      /\ UNCHANGED <<now, cfg, phase, starts, granted, clean>>
  BY Zenon DEF RunMove, Ran
<1>4. c.arg \in Remotes
  BY <1>1, Zenon DEF RunCmds
<1>5. /\ calls'[x] = r /\ calls' \in [Procs -> Calls]
      /\ \A y \in Procs : y # x => calls'[y] = calls[y]
  BY <1>1, <1>2, Zenon
<1>6. faults' \in 0..MaxFaults /\ faults' >= faults
  BY <1>2, <1>3, FirewallAssumption
<1>7. doubtful' \subseteq Remotes
  BY <1>1, <1>2, <1>4, Zenon
<1> QED BY <1>1, <1>3, <1>5, <1>6, <1>7, Zenon

\* Allow and Revoke change no rule of INPUT, create no chain and no set, and put a member
\* only into a set that is there: after a Cleanup they change nothing.
LEMMA RunKernel ==
  ASSUME TypeInv, NEW x \in {"handler", "timer"}, NEW c, NEW out, NEW r, RunMove(x, c, out, r)
  PROVE  /\ kernel'.input = kernel.input /\ kernel'.made = kernel.made
         /\ \A f \in Families : kernel.chain[f] = Absent => kernel'.chain[f] = Absent
         /\ cfg.backend # "iptables" => kernel'.chain = kernel.chain
         /\ kernel = Empty => kernel' = Empty
         /\ \A s \in Remotes : kernel'.member[s] # kernel.member[s] =>
              s = c.arg /\ (kernel'.member[s] = 0 \/ kernel.made[Family(s)])
<1>1. c \in RunCmds /\ (kernel' = kernel \/ (Frame(kernel, c, kernel') /\ Result(kernel, c, kernel')))
  BY Zenon DEF RunMove
<1>2. /\ c.do \in {"-C", "-I", "-D", "add", "del", "script"} /\ c.arg \in Remotes
      /\ c.do # "script" => c.fam = Family(c.arg)
      /\ c.do \in {"-C", "-I", "-D"} => cfg.backend = "iptables"
      /\ c.fam \in Families
  BY <1>1, Zenon DEF RunCmds, Commands
<1>3. kernel'.input = kernel.input /\ kernel'.made = kernel.made
  BY <1>1, <1>2, Zenon DEF Frame, InputDos, MadeDos
<1>4. ASSUME NEW f \in Families, kernel.chain[f] = Absent PROVE kernel'.chain[f] = Absent
  <2>1. CASE c.do \in {"-I", "-D"} /\ c.fam = f
    BY <1>1, <1>4, <2>1, Zenon DEF Result
  <2>2. CASE c.do \in {"-I", "-D"} /\ c.fam # f
    BY <1>1, <1>4, <2>2, Zenon DEF Frame
  <2>3. CASE c.do \notin {"-I", "-D"}
    BY <1>1, <1>2, <1>4, <2>3, Zenon DEF Frame, ChainDos
  <2> QED BY <2>1, <2>2, <2>3, Zenon
<1>5. cfg.backend # "iptables" => kernel'.chain = kernel.chain
  BY <1>1, <1>2, Zenon DEF Frame, ChainDos
<1>6. ASSUME kernel = Empty, kernel' # kernel PROVE FALSE
  <2>1. Result(kernel, c, kernel') /\ Done(kernel, c, kernel') /\ now \in Nat
    BY <1>6, Zenon DEF RunMove, Ran, TypeInv
  <2>2. c.do \notin {"-C", "script"}
    BY <1>6, <2>1, Zenon DEF Done
  <2>3. c.do \notin {"-I", "-D"}
    BY <1>2, <1>6, <2>1, EmptyFields, Zenon DEF Result
  <2>4. c.do # "add"
    <3>1. c.do = "add" => kernel.made[c.fam]
      BY <2>1, Zenon DEF Result
    <3> QED BY <1>2, <1>6, <3>1, EmptyFields, Zenon
  <2>5. c.do # "del"
    <3>1. c.do = "del" => ~(kernel.member[c.arg] <= now)
      BY <2>1, Zenon DEF Result
    <3>2. kernel.member[c.arg] = 0
      BY <1>2, <1>6, EmptyFields, Zenon
    <3> QED BY <2>1, <3>1, <3>2
  <2> QED BY <1>2, <2>2, <2>3, <2>4, <2>5, Zenon
<1>7. ASSUME NEW s \in Remotes, kernel'.member[s] # kernel.member[s]
      PROVE  s = c.arg /\ (kernel'.member[s] = 0 \/ kernel.made[Family(s)])
  <2>1. CASE c.do \in {"add", "del"}
    BY <1>1, <1>2, <1>7, <2>1, Zenon DEF Result
  <2>2. CASE c.do \notin {"add", "del"}
    BY <1>1, <1>2, <1>7, <2>2, Zenon DEF Frame, MemberDos
  <2> QED BY <2>1, <2>2, Zenon
<1> QED BY <1>3, <1>4, <1>5, <1>6, <1>7, Zenon

\* A step of the handler or the timer keeps the invariant, during a Cleanup as well.
LEMMA RunKeeps ==
  ASSUME FirewallInv, NEW x \in {"handler", "timer"}, NEW c, NEW out, NEW r, RunMove(x, c, out, r)
  PROVE  FirewallInv'
<1>0. /\ TypeInv /\ LifeInv /\ HandlerInv /\ TimerInv /\ BoundInv /\ KernelInv /\ CleanupInv /\ EndInv
  BY Zenon DEF FirewallInv
<1>1. /\ calls'[x] = r /\ calls' \in [Procs -> Calls]
      /\ \A y \in Procs : y # x => calls'[y] = calls[y]
      /\ faults' \in 0..MaxFaults /\ faults' >= faults /\ kernel' \in Kernels
      /\ doubtful' \subseteq Remotes
      /\ UNCHANGED <<now, cfg, phase, starts, granted, clean>>
  BY <1>0, RunCall, Zenon
<1>2. /\ kernel'.input = kernel.input /\ kernel'.made = kernel.made
      /\ \A f \in Families : kernel.chain[f] = Absent => kernel'.chain[f] = Absent
      /\ cfg.backend # "iptables" => kernel'.chain = kernel.chain
      /\ kernel = Empty => kernel' = Empty
      /\ \A s \in Remotes : kernel'.member[s] # kernel.member[s] =>
           s = c.arg /\ (kernel'.member[s] = 0 \/ kernel.made[Family(s)])
  BY <1>0, RunKernel, Zenon
<1>3. calls'["life"] = calls["life"] /\ "handler" \in Procs /\ "timer" \in Procs
  BY <1>1, Zenon DEF Procs
<1>4. /\ Managed' = Managed /\ LifeCmds' = LifeCmds /\ CleanupCmds' = CleanupCmds
      /\ \A y : NoTool(y)' = NoTool(y)
      /\ \A s : Refused(s)' = Refused(s) /\ Allow(s)' = Allow(s) /\ Revoke(s)' = Revoke(s)
  BY <1>1, CfgKept, Zenon
<1>5. TypeInv'
  BY <1>0, <1>1, Zenon DEF TypeInv
<1>6. LifeInv'
  BY <1>0, <1>1, <1>3, <1>4, Zenon DEF LifeInv
<1>7. /\ c \in RunCmds /\ calls[x].op # "none" /\ r.op = calls[x].op /\ r.remote = calls[x].remote
      /\ \/ r.todo = <<>>
         \/ /\ x = "handler" /\ c.do = "-C"
            /\ r.todo = <<Cmd("must", "-I", Family(calls[x].remote), calls[x].remote)>>
  BY Zenon DEF RunMove
<1>8. c.do = "-C" => cfg.backend = "iptables"
  BY <1>7, Zenon DEF RunCmds
<1>9. HandlerInv'
  <2>1. CASE x = "handler"
    <3>1. PICK p : p = calls["handler"]
      BY Zenon
    <3>2. p.op = "allow" /\ p.remote \in Remotes /\ ~Refused(p.remote) /\ phase # "init"
      BY <1>0, <1>7, <2>1, <3>1, Zenon DEF HandlerInv
    <3>3. r.todo = <<>> \/ (cfg.backend = "iptables"
               /\ r.todo = <<Cmd("must", "-I", Family(r.remote), r.remote)>>)
      BY <1>7, <1>8, Zenon
    <3> QED BY <1>1, <1>4, <1>7, <2>1, <3>1, <3>2, <3>3, Zenon DEF HandlerInv
  <2>2. CASE x # "handler"
    BY <1>0, <1>1, <1>3, <1>4, <2>2, Zenon DEF HandlerInv
  <2> QED BY <2>1, <2>2, Zenon
<1>10. TimerInv'
  <2>1. CASE x = "timer"
    <3>1. PICK p : p = calls["timer"]
      BY Zenon
    <3>2. p.op = "revoke" /\ p.remote \in Remotes /\ ~Refused(p.remote) /\ phase # "init"
      BY <1>0, <1>7, <2>1, <3>1, Zenon DEF TimerInv
    <3> QED BY <1>1, <1>4, <1>7, <2>1, <3>1, <3>2, Zenon DEF TimerInv
  <2>2. CASE x # "timer"
    BY <1>0, <1>1, <1>3, <1>4, <2>2, Zenon DEF TimerInv
  <2> QED BY <2>1, <2>2, Zenon
<1>11. BoundInv'
  <2>1. faults \in Nat /\ faults' \in Nat /\ kernel \in Kernels
    BY <1>0, <1>1, FirewallAssumption DEF TypeInv
  <2>2. PICK p : p = calls["life"]
    BY Zenon
  <2>3. p.todo \in Seq(LifeCmds) /\ Paired(p.todo) /\ p.n \in Nat
    BY <1>0, <2>2, Zenon DEF LifeInv, TypeInv, Calls, Procs
  <2>4. p.todo # <<>> => Head(p.todo) \in LifeCmds
    BY <2>3, TailShape, Zenon
  <2>5. \A f \in Families : kernel.input[f].jump <= 1 + faults' /\ kernel.input[f].drop <= 1 + faults'
    <3>1. PICK g : g = faults'
      BY Zenon
    <3>2. ASSUME NEW f \in Families
          PROVE  kernel.input[f].jump <= 1 + g /\ kernel.input[f].drop <= 1 + g
      <4>1. PICK y, z : y = kernel.input[f].jump /\ z = kernel.input[f].drop
        BY Zenon
      <4>2. y \in Nat /\ z \in Nat /\ y <= 1 + faults /\ z <= 1 + faults
        BY <1>0, <2>1, <4>1, InputTypes, Zenon DEF BoundInv
      <4>3. g \in Nat /\ g >= faults
        BY <1>1, <2>1, <3>1, Zenon
      <4> QED BY <2>1, <4>1, <4>2, <4>3
    <3> QED BY <3>1, <3>2, Zenon
  <2>6. p.todo # <<>> /\ Head(p.todo).do = "-D_INPUT" =>
          kernel.input[Head(p.todo).fam][Head(p.todo).arg] + p.n <= 1 + faults'
    <3>1. SUFFICES ASSUME p.todo # <<>>, Head(p.todo).do = "-D_INPUT"
                   PROVE  kernel.input[Head(p.todo).fam][Head(p.todo).arg] + p.n <= 1 + faults'
      BY Zenon
    <3>2. PICK y, g : y = kernel.input[Head(p.todo).fam][Head(p.todo).arg] /\ g = faults'
      BY Zenon
    <3>3. y \in Nat /\ g \in Nat /\ g >= faults
      BY <1>1, <2>1, <2>4, <3>1, <3>2, LifeFields, InputTypes, Zenon
    <3>4. PICK n : n = p.n
      BY Zenon
    <3>5. y + n <= 1 + faults /\ n \in Nat
      BY <1>0, <2>2, <2>3, <3>1, <3>2, <3>4, Zenon DEF BoundInv
    <3>6. y + n <= 1 + g
      <4>1. faults \in Nat
        BY <2>1, Zenon
      <4> QED BY <3>3, <3>5, <4>1
    <3> QED BY <3>2, <3>4, <3>6, Zenon
  <2>7. p.todo # <<>> /\ Head(p.todo).do = "-I_INPUT" =>
          NoTool(Head(p.todo)) \/ kernel.input[Head(p.todo).fam][Head(p.todo).arg] <= faults'
    <3>1. SUFFICES ASSUME p.todo # <<>>, Head(p.todo).do = "-I_INPUT", ~NoTool(Head(p.todo))
                   PROVE  kernel.input[Head(p.todo).fam][Head(p.todo).arg] <= faults'
      BY Zenon
    <3>2. PICK y, g : y = kernel.input[Head(p.todo).fam][Head(p.todo).arg] /\ g = faults'
      BY Zenon
    <3>3. y \in Nat /\ g \in Nat /\ g >= faults
      BY <1>1, <2>1, <2>4, <3>1, <3>2, LifeFields, InputTypes, Zenon
    <3>4. y <= faults
      BY <1>0, <2>2, <3>1, <3>2, Zenon DEF BoundInv
    <3> QED BY <2>1, <3>2, <3>3, <3>4
  <2>8. p.todo = <<>> \/ Head(p.todo).do # "-D_INPUT" => p.n = 0
    BY <1>0, <2>2, Zenon DEF BoundInv
  <2> QED BY <1>2, <1>3, <1>4, <2>2, <2>5, <2>6, <2>7, <2>8, Zenon DEF BoundInv
<1>12. KernelInv'
  <2>1. \A s \in Remotes : ~kernel'.made[Family(s)] => kernel'.member[s] = 0
    BY <1>0, <1>2, Zenon DEF KernelInv
  <2>2. \A f \in Families \ Managed :
       /\ kernel'.chain[f] = Absent /\ ~kernel'.made[f]
       /\ kernel'.input[f].jump = 0 /\ kernel'.input[f].drop = 0
    BY <1>0, <1>2, Zenon DEF KernelInv
  <2>3. cfg.backend = "nftables" /\ kernel'.chain[4] = Absent => kernel' = Empty
    BY <1>0, <1>2, Zenon DEF KernelInv
  <2>4. /\ ~cfg.drop => \A f \in Families : kernel'.input[f].drop = 0
        /\ cfg.backend = "iptables" => \A f \in Families : ~kernel'.made[f]
    BY <1>0, <1>2, Zenon DEF KernelInv
  <2> QED BY <1>1, <1>4, <2>1, <2>2, <2>3, <2>4, Zenon DEF KernelInv
<1>13. CleanupInv'
  <2>1. Managed \subseteq Families
    BY <1>0, Zenon DEF Managed, Families, TypeInv, Configs
  <2> QED BY <1>0, <1>1, <1>2, <1>3, <1>4, <2>1, Zenon DEF CleanupInv, Pending
<1>14. EndInv'
  BY <1>0, <1>1, <1>2, Zenon DEF EndInv
<1> QED BY <1>5, <1>6, <1>9, <1>10, <1>11, <1>12, <1>13, <1>14, Zenon DEF FirewallInv

\* A step that leaves the packet filter and the lifecycle call alone keeps their invariants.
LEMMA SameLife ==
  ASSUME FirewallInv, UNCHANGED <<kernel, cfg, phase, starts, faults, clean>>,
         calls'["life"] = calls["life"]
  PROVE  LifeInv' /\ BoundInv' /\ KernelInv' /\ CleanupInv' /\ EndInv'
<1>1. LifeInv /\ BoundInv /\ KernelInv /\ CleanupInv /\ EndInv
  BY Zenon DEF FirewallInv
<1>2. /\ Managed' = Managed /\ LifeCmds' = LifeCmds /\ CleanupCmds' = CleanupCmds
      /\ \A y : NoTool(y)' = NoTool(y)
  BY CfgKept, Zenon
<1>3. LifeInv'
  BY <1>1, <1>2, Zenon DEF LifeInv
<1>4. BoundInv'
  BY <1>1, <1>2, Zenon DEF BoundInv
<1>5. KernelInv'
  BY <1>1, <1>2, Zenon DEF KernelInv
<1>6. CleanupInv'
  BY <1>1, <1>2, Zenon DEF CleanupInv, Pending
<1>7. EndInv'
  BY <1>1, Zenon DEF EndInv
<1> QED BY <1>3, <1>4, <1>5, <1>6, <1>7, Zenon

\* A new lifecycle call begins with its loop counter at zero.
LEMMA NewLife ==
  ASSUME FirewallInv, UNCHANGED <<kernel, cfg, faults>>, NEW p, calls'["life"] = p,
         Whole(p.todo), p.n = 0
  PROVE  BoundInv' /\ KernelInv'
<1>1. TypeInv /\ BoundInv /\ KernelInv
  BY Zenon DEF FirewallInv
<1>2. /\ Managed' = Managed /\ \A y : NoTool(y)' = NoTool(y)
  BY CfgKept, Zenon
<1>3. p.todo \in Seq(LifeCmds) /\ Paired(p.todo)
  BY Zenon DEF Whole
<1>4. p.todo # <<>> => Head(p.todo) \in LifeCmds /\ Head(p.todo).do # "-I_INPUT"
  <2>1. p.todo # <<>> => Head(p.todo) = p.todo[1] /\ p.todo[1].do # "-I_INPUT"
    <3>1. \A s \in Seq(LifeCmds) : s # <<>> => Head(s) = s[1]
      OBVIOUS
    <3> QED BY <1>3, <3>1, Zenon DEF Whole
  <2> QED BY <1>3, <2>1, TailShape, Zenon
<1>5. p.todo # <<>> /\ Head(p.todo).do = "-D_INPUT" =>
        kernel.input[Head(p.todo).fam][Head(p.todo).arg] + p.n <= 1 + faults
  <2>1. SUFFICES ASSUME p.todo # <<>>, Head(p.todo).do = "-D_INPUT"
                 PROVE  kernel.input[Head(p.todo).fam][Head(p.todo).arg] + p.n <= 1 + faults
    BY Zenon
  <2>2. PICK f \in Families, a \in {"jump", "drop"} : f = Head(p.todo).fam /\ a = Head(p.todo).arg
    BY <1>4, <2>1, LifeFields, Zenon
  <2>3. kernel.input[f].jump <= 1 + faults /\ kernel.input[f].drop <= 1 + faults
    BY <1>1, Zenon DEF BoundInv
  <2>4. kernel.input[f][a] \in Nat /\ kernel.input[f][a] <= 1 + faults
    BY <1>1, <2>2, <2>3, InputTypes, Zenon DEF TypeInv
  <2> QED BY <2>2, <2>4
<1>6. BoundInv'
  <2>1. \A f \in Families : kernel.input[f].jump <= 1 + faults /\ kernel.input[f].drop <= 1 + faults
    BY <1>1, Zenon DEF BoundInv
  <2> QED BY <1>4, <1>5, <2>1, Zenon DEF BoundInv
<1>7. KernelInv'
  BY <1>1, <1>2, Zenon DEF KernelInv
<1> QED BY <1>6, <1>7, Zenon

\* No call.
LEMMA IdleCall ==
  /\ Idle \in Calls /\ Idle.op = "none" /\ Idle.todo = <<>> /\ Idle.remote = "none"
  /\ Idle.n = 0 /\ Whole(Idle.todo)
<1>1. Idle = [op |-> "none", remote |-> "none", todo |-> <<>>, err |-> FALSE, n |-> 0, since |-> TRUE]
  BY Zenon DEF Idle, Call
<1>2. <<>> \in Seq(Commands) /\ Whole(<<>>)
  BY DEF Whole, Paired
<1> QED BY <1>1, <1>2, Zenon DEF Calls, Ops

\* The initial states satisfy the invariant.
LEMMA FirewallInitHolds == FirewallInit => FirewallInv
<1> SUFFICES ASSUME FirewallInit PROVE FirewallInv
  BY Zenon
<1>1. /\ now = 1 /\ kernel = Empty /\ phase = "down" /\ cfg \in Configs
      /\ calls = [p \in Procs |-> Idle] /\ starts = 0 /\ faults = 0
      /\ granted = {} /\ doubtful = {} /\ clean = FALSE
  BY Zenon DEF FirewallInit
<1>2. calls["life"] = Idle /\ calls["handler"] = Idle /\ calls["timer"] = Idle
  BY <1>1, Zenon DEF Procs
<1>3. TypeInv
  <2>1. calls \in [Procs -> Calls]
    BY <1>1, IdleCall, Zenon
  <2>2. 0 \in 0..MaxStarts /\ 0 \in 0..MaxFaults /\ 1 \in Nat /\ 1 > 0 /\ FALSE \in BOOLEAN
        /\ {} \subseteq Remotes
    BY FirewallAssumption
  <2> QED BY <1>1, <2>1, <2>2, EmptyKernel, Zenon DEF TypeInv
<1>4. LifeInv
  BY <1>1, <1>2, IdleCall, Zenon DEF LifeInv, Whole
<1>5. HandlerInv /\ TimerInv
  BY <1>2, IdleCall, Zenon DEF HandlerInv, TimerInv
<1>6. BoundInv
  <2>1. \A f \in Families : kernel.input[f].jump <= 1 + faults /\ kernel.input[f].drop <= 1 + faults
    BY <1>1, EmptyFields
  <2> QED BY <1>2, <2>1, IdleCall, Zenon DEF BoundInv
<1>7. KernelInv
  BY <1>1, EmptyFields, Zenon DEF KernelInv, Families, Family
<1>8. CleanupInv /\ EndInv
  BY <1>1, Zenon DEF CleanupInv, EndInv
<1> QED BY <1>3, <1>4, <1>5, <1>6, <1>7, <1>8, Zenon DEF FirewallInv

\* The clock keeps the invariant.
LEMMA TickKeeps ==
  ASSUME FirewallInv, Tick PROVE FirewallInv'
<1>1. /\ UNCHANGED <<kernel, cfg, phase, calls, starts, faults, granted, doubtful, clean>>
      /\ now' = now + 1
  BY Zenon DEF Tick
<1>2. TypeInv'
  BY <1>1 DEF FirewallInv, TypeInv
<1>3. LifeInv' /\ BoundInv' /\ KernelInv' /\ CleanupInv' /\ EndInv'
  BY <1>1, SameLife, Zenon
<1>4. \A s : Refused(s)' = Refused(s) /\ Allow(s)' = Allow(s) /\ Revoke(s)' = Revoke(s)
  BY <1>1, CfgKept, Zenon
<1>5. HandlerInv' /\ TimerInv'
  BY <1>1, <1>4, Zenon DEF FirewallInv, HandlerInv, TimerInv
<1> QED BY <1>2, <1>3, <1>5, Zenon DEF FirewallInv

\* A lifecycle program is a program.
LEMMA LifeSeq ==
  ASSUME NEW q \in Seq(LifeCmds) PROVE q \in Seq(Commands)
BY DEF LifeCmds

\* InitFirewall keeps the invariant.
LEMMA NewProcessKeeps ==
  ASSUME FirewallInv, NewProcess PROVE FirewallInv'
<1>0. TypeInv /\ HandlerInv /\ TimerInv
  BY Zenon DEF FirewallInv
<1>1. PICK q, p : q = InitProgram(cfg.backend) /\ p = Call("init", "none", q)
  BY Zenon
<1>2. Whole(q) /\ Ordered(q) /\ q \in Seq(LifeCmds) /\ Paired(q)
  BY <1>0, <1>1, Programs, Zenon DEF TypeInv, Whole
<1>3. /\ p \in Calls /\ p.op = "init" /\ p.todo = q /\ p.n = 0
  <2>1. q \in Seq(Commands)
    BY <1>2, LifeSeq, Zenon
  <2>2. "init" \in Ops /\ "none" \in Remotes \cup {"none"}
    BY Zenon DEF Ops
  <2>3. LET w == Call("init", "none", q)
        IN  w \in Calls /\ w.op = "init" /\ w.todo = q /\ w.n = 0
    BY <2>1, <2>2, Zenon DEF Call, Calls
  <2> QED BY <1>1, <2>3, Zenon
<1>4. /\ phase = "down" /\ starts < MaxStarts /\ \A x \in Procs : calls[x].op = "none"
      /\ phase' = "init" /\ starts' = starts + 1 /\ clean' = FALSE
      /\ calls' = [calls EXCEPT !["life"] = p]
      /\ UNCHANGED <<now, kernel, cfg, faults, granted, doubtful>>
  BY <1>1, Zenon DEF NewProcess
<1>5. /\ calls'["life"] = p /\ calls'["handler"] = calls["handler"]
      /\ calls'["timer"] = calls["timer"] /\ calls' \in [Procs -> Calls]
  BY <1>0, <1>3, <1>4, Zenon DEF TypeInv, Procs
<1>6. starts' \in 0..MaxStarts /\ starts' > 0
  BY <1>0, <1>4, FirewallAssumption DEF TypeInv
<1>7. TypeInv'
  BY <1>0, <1>4, <1>5, <1>6, Zenon DEF TypeInv
<1>8. LifeCmds' = LifeCmds /\ CleanupCmds' = CleanupCmds
  BY <1>4, CfgKept, Zenon
<1>9. LifeInv'
  BY <1>2, <1>3, <1>4, <1>5, <1>6, <1>8, Zenon DEF LifeInv
<1>10. calls["handler"].op = "none" /\ calls["timer"].op = "none"
  BY <1>4, Zenon DEF Procs
<1>11. HandlerInv' /\ TimerInv'
  BY <1>0, <1>5, <1>10, Zenon DEF HandlerInv, TimerInv
<1>12. BoundInv' /\ KernelInv'
  BY <1>2, <1>3, <1>4, <1>5, NewLife, Zenon
<1>13. CleanupInv' /\ EndInv'
  BY <1>4, Zenon DEF CleanupInv, EndInv
<1> QED BY <1>7, <1>9, <1>11, <1>12, <1>13, Zenon DEF FirewallInv

\* CleanupFirewallDetached keeps the invariant.
LEMMA ShutdownKeeps ==
  ASSUME FirewallInv, Shutdown PROVE FirewallInv'
<1>0. TypeInv /\ LifeInv /\ HandlerInv /\ TimerInv /\ KernelInv /\ EndInv
  BY Zenon DEF FirewallInv
<1>1. PICK q, p : q = Cleanup(cfg.backend) /\ p = Call("cleanup", "none", q)
  BY Zenon
<1>2. /\ Whole(q) /\ q \in Seq(LifeCmds) /\ Paired(q) /\ q \in Seq(CleanupCmds)
      /\ cfg.backend \in Iptables => \A f \in Managed : Removes(q, f)
      /\ cfg.backend = "ipset-iptables" => \A f \in Managed : Has(q, "destroy", f, "none")
      /\ cfg.backend = "nftables" => Has(q, "delete_table", 4, "none")
  BY <1>0, <1>1, Programs, Zenon DEF TypeInv, Whole
<1>3. /\ p \in Calls /\ p.op = "cleanup" /\ p.todo = q /\ p.n = 0
  <2>1. q \in Seq(Commands)
    BY <1>2, LifeSeq, Zenon
  <2>2. "cleanup" \in Ops /\ "none" \in Remotes \cup {"none"}
    BY Zenon DEF Ops
  <2>3. LET w == Call("cleanup", "none", q)
        IN  w \in Calls /\ w.op = "cleanup" /\ w.todo = q /\ w.n = 0
    BY <2>1, <2>2, Zenon DEF Call, Calls
  <2> QED BY <1>1, <2>3, Zenon
<1>4. /\ phase = "serving" /\ phase' = "cleanup"
      /\ calls' = [calls EXCEPT !["life"] = p]
      /\ UNCHANGED <<now, kernel, cfg, starts, faults, granted, doubtful, clean>>
  BY <1>1, Zenon DEF Shutdown
<1>5. /\ calls'["life"] = p /\ calls'["handler"] = calls["handler"]
      /\ calls'["timer"] = calls["timer"] /\ calls' \in [Procs -> Calls]
  BY <1>0, <1>3, <1>4, Zenon DEF TypeInv, Procs
<1>7. TypeInv'
  BY <1>0, <1>4, <1>5, Zenon DEF TypeInv
<1>8. /\ LifeCmds' = LifeCmds /\ CleanupCmds' = CleanupCmds /\ Managed' = Managed
      /\ \A s : Refused(s)' = Refused(s) /\ Allow(s)' = Allow(s) /\ Revoke(s)' = Revoke(s)
  BY <1>4, CfgKept, Zenon
<1>9. LifeInv'
  BY <1>0, <1>2, <1>3, <1>4, <1>5, <1>8, Zenon DEF LifeInv
<1>11. HandlerInv' /\ TimerInv'
  BY <1>0, <1>4, <1>5, <1>8, Zenon DEF HandlerInv, TimerInv
<1>12. BoundInv' /\ KernelInv'
  BY <1>2, <1>3, <1>4, <1>5, NewLife, Zenon
<1>13. EndInv'
  BY <1>0, <1>4, Zenon DEF EndInv
<1>14. CleanupInv'
  <2>1. ASSUME cfg.backend \in Iptables, NEW f \in Managed
        PROVE  /\ Has(q, "-D_INPUT", f, "jump") /\ Has(q, "-X", f, "none")
               /\ Has(q, "-D_INPUT", f, "drop") \/ kernel.input[f].drop = 0
               /\ Has(q, "destroy", f, "none") \/ ~kernel.made[f]
    <3>1. f \in Families
      BY <1>0, Zenon DEF Managed, Families, TypeInv, Configs
    <3> QED BY <1>0, <1>2, <2>1, <3>1, Zenon DEF Removes, KernelInv, Iptables
  <2> QED BY <1>2, <1>3, <1>4, <1>5, <1>8, <2>1, Zenon DEF CleanupInv, Pending
<1> QED BY <1>7, <1>9, <1>11, <1>12, <1>13, <1>14, Zenon DEF FirewallInv

\* A kill between any two commands keeps the invariant.
LEMMA CrashKeeps ==
  ASSUME FirewallInv, Crash PROVE FirewallInv'
<1>0. TypeInv /\ LifeInv /\ EndInv
  BY Zenon DEF FirewallInv
<1>4. /\ phase # "down" /\ phase' = "down" /\ calls' = [p \in Procs |-> Idle]
      /\ UNCHANGED <<now, kernel, cfg, starts, faults, granted, doubtful, clean>>
  BY Zenon DEF Crash
<1>5. /\ calls'["life"] = Idle /\ calls'["handler"] = Idle
      /\ calls'["timer"] = Idle /\ calls' \in [Procs -> Calls]
  BY <1>4, IdleCall, Zenon DEF Procs
<1>7. TypeInv'
  BY <1>0, <1>4, <1>5, Zenon DEF TypeInv
<1>8. LifeCmds' = LifeCmds
  BY <1>4, CfgKept, Zenon
<1>9. LifeInv'
  BY <1>4, <1>5, <1>8, IdleCall, Zenon DEF LifeInv, Whole
<1>11. HandlerInv' /\ TimerInv'
  BY <1>5, IdleCall, Zenon DEF HandlerInv, TimerInv
<1>12. BoundInv' /\ KernelInv'
  BY <1>4, <1>5, IdleCall, NewLife, Zenon
<1>13. CleanupInv' /\ EndInv'
  BY <1>0, <1>4, Zenon DEF CleanupInv, EndInv
<1> QED BY <1>7, <1>9, <1>11, <1>12, <1>13, Zenon DEF FirewallInv

\* Allow and Revoke of a remote that is not refused are programs.
LEMMA RunPrograms ==
  ASSUME NEW s \in Remotes, ~Refused(s), cfg \in Configs
  PROVE  Allow(s) \in Seq(Commands) /\ Revoke(s) \in Seq(Commands)
<1>1. RunCmds \subseteq Commands
  BY Zenon DEF RunCmds
<1>2. CASE cfg.backend \in {"nftables", "ipset-iptables"}
  <2>1. /\ Allow(s) = <<Cmd("must", "add", Family(s), s)>>
        /\ Revoke(s) = <<Cmd("quiet", "del", Family(s), s)>>
    BY <1>2, AllowForms, Zenon
  <2>2. Cmd("must", "add", Family(s), s) \in Commands /\ Cmd("quiet", "del", Family(s), s) \in Commands
    BY <1>1, <1>2, RemoteCmd, Zenon
  <2> QED BY <2>1, <2>2
<1>3. CASE cfg.backend = "iptables"
  <2>1. /\ Allow(s) = <<Cmd("unless", "-C", Family(s), s), Cmd("must", "-I", Family(s), s)>>
        /\ Revoke(s) = <<Cmd("quiet", "-D", Family(s), s)>>
    BY <1>3, AllowForms, Zenon
  <2>2. /\ Cmd("unless", "-C", Family(s), s) \in Commands /\ Cmd("must", "-I", Family(s), s) \in Commands
        /\ Cmd("quiet", "-D", Family(s), s) \in Commands
    BY <1>1, <1>3, RemoteCmd, Zenon
  <2> QED BY <2>1, <2>2
<1>4. CASE cfg.backend = "script"
  <2>1. Allow(s) = <<Cmd("must", "script", 4, s)>> /\ Revoke(s) = <<Cmd("must", "script", 4, s)>>
    BY <1>4, AllowForms, Zenon
  <2>2. Cmd("must", "script", 4, s) \in Commands
    BY <1>1, RemoteCmd, Zenon
  <2> QED BY <2>1, <2>2
<1>5. CASE cfg.backend = "noop"
  <2>1. Allow(s) = <<>> /\ Revoke(s) = <<>>
    BY <1>5, AllowForms, Zenon
  <2> QED BY <2>1
<1> QED BY <1>2, <1>3, <1>4, <1>5, Zenon DEF Configs, Backends

\* AllowFirewall keeps the invariant.
LEMMA AllowKeeps ==
  ASSUME FirewallInv, NEW s \in Remotes, AllowFirewall(s) PROVE FirewallInv'
<1>0. TypeInv /\ HandlerInv /\ TimerInv
  BY Zenon DEF FirewallInv
<1>1. /\ phase \in {"serving", "cleanup"} /\ ~Refused(s) /\ granted' = granted \cup {s}
      /\ UNCHANGED <<now, kernel, cfg, phase, starts, faults, doubtful, clean>>
      /\ calls' = [calls EXCEPT !["handler"] = Call("allow", s, Allow(s)),
                     !["timer"].since = @ /\ calls["timer"].remote # s]
  BY Zenon DEF AllowFirewall
<1>2. PICK q, h : q = Allow(s) /\ h = Call("allow", s, q)
  BY Zenon
<1>3. q \in Seq(Commands)
  BY <1>0, <1>1, <1>2, RunPrograms, Zenon DEF TypeInv
<1>4. h \in Calls /\ h.op = "allow" /\ h.remote = s /\ h.todo = q
  BY <1>2, <1>3, Zenon DEF Call, Calls, Ops
<1>5. PICK t, b : b = (calls["timer"].since /\ calls["timer"].remote # s)
                  /\ t = [calls["timer"] EXCEPT !.since = b]
  BY Zenon
<1>6. calls' = [calls EXCEPT !["handler"] = h, !["timer"] = t]
  <2>1. calls \in [Procs -> Calls]
    BY <1>0, Zenon DEF TypeInv
  <2> QED BY <1>1, <1>2, <1>5, <2>1, Zenon DEF Procs
<1>7. /\ t \in Calls /\ t.op = calls["timer"].op /\ t.remote = calls["timer"].remote
      /\ t.todo = calls["timer"].todo
  BY <1>0, <1>5, Zenon DEF Calls, TypeInv, Procs
<1>8. /\ calls'["handler"] = h /\ calls'["timer"] = t /\ calls'["life"] = calls["life"]
      /\ calls' \in [Procs -> Calls]
  BY <1>0, <1>4, <1>6, <1>7, Zenon DEF TypeInv, Procs
<1>9. TypeInv'
  BY <1>0, <1>1, <1>8, Zenon DEF TypeInv
<1>10. \A x : Refused(x)' = Refused(x) /\ Allow(x)' = Allow(x) /\ Revoke(x)' = Revoke(x)
  BY <1>1, CfgKept, Zenon
<1>11. HandlerInv'
  BY <1>1, <1>2, <1>4, <1>8, <1>10, Zenon DEF HandlerInv
<1>12. TimerInv'
  BY <1>0, <1>1, <1>7, <1>8, <1>10, Zenon DEF TimerInv
<1>13. LifeInv' /\ BoundInv' /\ KernelInv' /\ CleanupInv' /\ EndInv'
  BY <1>1, <1>8, SameLife, Zenon
<1> QED BY <1>9, <1>11, <1>12, <1>13, Zenon DEF FirewallInv

\* RevokeFirewall keeps the invariant.
LEMMA RevokeKeeps ==
  ASSUME FirewallInv, NEW s \in Remotes, RevokeFirewall(s) PROVE FirewallInv'
<1>0. TypeInv /\ HandlerInv /\ TimerInv
  BY Zenon DEF FirewallInv
<1>1. /\ phase \in {"serving", "cleanup"} /\ ~Refused(s)
      /\ UNCHANGED <<now, kernel, cfg, phase, starts, faults, granted, doubtful, clean>>
      /\ calls' = [calls EXCEPT !["timer"] =
                     [Call("revoke", s, Revoke(s)) EXCEPT !.since = calls["handler"].remote # s]]
  BY Zenon DEF RevokeFirewall
<1>2. PICK q, h, b, t : /\ q = Revoke(s) /\ h = Call("revoke", s, q)
                        /\ b = (calls["handler"].remote # s) /\ t = [h EXCEPT !.since = b]
  BY Zenon
<1>3. q \in Seq(Commands) /\ b \in BOOLEAN
  BY <1>0, <1>1, <1>2, RunPrograms, Zenon DEF TypeInv
<1>4. h \in Calls /\ h.op = "revoke" /\ h.remote = s /\ h.todo = q
  BY <1>2, <1>3, Zenon DEF Call, Calls, Ops
<1>5. t \in Calls /\ t.op = "revoke" /\ t.remote = s /\ t.todo = q
  BY <1>2, <1>3, <1>4, Zenon DEF Calls
<1>6. calls' = [calls EXCEPT !["timer"] = t]
  BY <1>1, <1>2, Zenon
<1>8. /\ calls'["handler"] = calls["handler"] /\ calls'["timer"] = t /\ calls'["life"] = calls["life"]
      /\ calls' \in [Procs -> Calls]
  BY <1>0, <1>5, <1>6, Zenon DEF TypeInv, Procs
<1>9. TypeInv'
  BY <1>0, <1>1, <1>8, Zenon DEF TypeInv
<1>10. \A x : Refused(x)' = Refused(x) /\ Allow(x)' = Allow(x) /\ Revoke(x)' = Revoke(x)
  BY <1>1, CfgKept, Zenon
<1>11. HandlerInv'
  BY <1>0, <1>1, <1>8, <1>10, Zenon DEF HandlerInv
<1>12. TimerInv'
  BY <1>1, <1>2, <1>5, <1>8, <1>10, Zenon DEF TimerInv
<1>13. LifeInv' /\ BoundInv' /\ KernelInv' /\ CleanupInv' /\ EndInv'
  BY <1>1, <1>8, SameLife, Zenon
<1> QED BY <1>9, <1>11, <1>12, <1>13, Zenon DEF FirewallInv

\* A Cleanup that reaches its end without an error has left an empty packet filter.
LEMMA NothingLeft ==
  ASSUME TypeInv, KernelInv, CleanupInv, phase = "cleanup", ~calls["life"].err,
         calls["life"].todo = <<>>
  PROVE  kernel = Empty
<1>1. \A do, f, a : ~Pending(do, f, a)
  BY DEF Pending, Has, HasAfter
<1>2. CASE cfg.backend = "nftables"
  BY <1>1, <1>2, Zenon DEF CleanupInv
<1>3. CASE cfg.backend # "nftables"
  <2>1. cfg.backend \notin Iptables => Managed = {}
    BY <1>3, Zenon DEF Managed, Iptables, TypeInv, Configs, Backends
  <2>2. \A f \in Families : /\ kernel.chain[f] = Absent /\ ~kernel.made[f]
                            /\ kernel.input[f].jump = 0 /\ kernel.input[f].drop = 0
    BY <1>1, <2>1, Zenon DEF KernelInv, CleanupInv
  <2>3. \A r \in Remotes : kernel.member[r] = 0
    BY <2>2, Zenon DEF KernelInv, Family, Families
  <2>4. kernel \in Kernels
    BY Zenon DEF TypeInv
  <2>5. kernel.chain = Empty.chain /\ kernel.made = Empty.made
    BY <2>2, <2>4, Zenon DEF Kernels, Empty
  <2>6. kernel.input = Empty.input
    BY <2>2, <2>4, Zenon DEF Kernels, Empty
  <2>7. kernel.member = Empty.member
    BY <2>3, <2>4, Zenon DEF Kernels, Empty
  <2> QED BY <2>4, <2>5, <2>6, <2>7, Zenon DEF Kernels, Empty
<1> QED BY <1>2, <1>3, Zenon

\* The return of a call keeps the invariant.
LEMMA ReturnKeeps ==
  ASSUME FirewallInv, NEW x \in Procs, Return(x) PROVE FirewallInv'
<1>0. TypeInv /\ LifeInv /\ HandlerInv /\ TimerInv /\ KernelInv /\ CleanupInv /\ EndInv
  BY Zenon DEF FirewallInv
<1>1. PICK c : c = calls[x]
  BY Zenon
<1>2. /\ c.op # "none" /\ c.todo = <<>> /\ calls' = [calls EXCEPT ![x] = Idle]
      /\ UNCHANGED <<now, kernel, cfg, starts, faults>>
      /\ phase' = CASE c.op = "init" /\ ~c.err -> "serving"
                    [] c.op = "cleanup" \/ (c.op = "init" /\ c.err) -> "down"
                    [] OTHER -> phase
      /\ clean' = (clean \/ (c.op = "cleanup" /\ ~c.err))
      /\ granted' = CASE c.op = "init" -> {}
                      [] c.op = "revoke" /\ ~c.err /\ c.since /\ c.remote \notin doubtful ->
                           granted \ {c.remote}
                      [] OTHER -> granted
      /\ doubtful' = IF c.op = "init" THEN {} ELSE doubtful
  BY <1>1, Zenon DEF Return
<1>3. /\ calls'[x] = Idle /\ calls' \in [Procs -> Calls]
      /\ \A y \in Procs : y # x => calls'[y] = calls[y]
  BY <1>0, <1>2, IdleCall, Zenon DEF TypeInv
<1>4. granted' \subseteq Remotes /\ doubtful' \subseteq Remotes
  BY <1>0, <1>2, Zenon DEF TypeInv
<1>5. c.op \in Ops /\ c.err \in BOOLEAN /\ clean' \in BOOLEAN
  BY <1>0, <1>1, <1>2, Zenon DEF TypeInv, Calls
<1>6. \A y : Refused(y)' = Refused(y) /\ Allow(y)' = Allow(y) /\ Revoke(y)' = Revoke(y)
  BY <1>2, CfgKept, Zenon
<1>7. CASE x = "life"
  <2>1. (c.op = "init" /\ phase = "init") \/ (c.op = "cleanup" /\ phase = "cleanup")
    BY <1>0, <1>1, <1>2, <1>7, Zenon DEF LifeInv
  <2>2. phase' \in {"serving", "down"} /\ (c.op = "cleanup" => phase' = "down")
        /\ (phase' = "serving" => phase = "init")
    BY <1>2, <2>1, Zenon
  <2>3. TypeInv'
    BY <1>0, <1>2, <1>3, <1>4, <1>5, <2>2, Zenon DEF TypeInv
  <2>4. LifeInv'
    <3>1. LifeCmds' = LifeCmds /\ CleanupCmds' = CleanupCmds
      BY <1>2, CfgKept, Zenon
    <3>2. calls'["life"] = Idle /\ Idle.op = "none" /\ Idle.todo = <<>>
          /\ <<>> \in Seq(LifeCmds) /\ Paired(<<>>)
      BY <1>3, <1>7, IdleCall, Zenon DEF Whole
    <3>3. starts > 0 /\ starts' = starts
      BY <1>0, <1>2, <2>1, Zenon DEF LifeInv
    <3> QED BY <2>2, <3>1, <3>2, <3>3, Zenon DEF LifeInv
  <2>5. /\ calls'["handler"] = calls["handler"] /\ calls'["timer"] = calls["timer"]
        /\ calls'["life"] = Idle
    BY <1>3, <1>7, Zenon DEF Procs
  <2>6. phase' # "init"
    BY <2>2, Zenon
  <2>7. HandlerInv' /\ TimerInv'
    BY <1>0, <1>2, <1>6, <2>5, <2>6, Zenon DEF HandlerInv, TimerInv
  <2>8. BoundInv' /\ KernelInv'
    BY <1>2, <2>5, IdleCall, NewLife, Zenon
  <2>9. CleanupInv'
    BY <2>2, Zenon DEF CleanupInv
  <2>10. EndInv'
    <3>1. ~clean
      BY <1>0, <2>1, Zenon DEF EndInv
    <3>2. SUFFICES ASSUME clean' PROVE phase' = "down" /\ kernel' = Empty
      BY Zenon DEF EndInv
    <3>3. c.op = "cleanup" /\ ~c.err
      BY <1>2, <3>1, <3>2, Zenon
    <3>4. kernel = Empty
      BY <1>0, <1>1, <1>2, <1>7, <2>1, <3>3, NothingLeft
    <3> QED BY <1>2, <2>2, <3>3, <3>4, Zenon
  <2> QED BY <2>3, <2>4, <2>7, <2>8, <2>9, <2>10, Zenon DEF FirewallInv
<1>8. CASE x # "life"
  <2>1. x \in {"handler", "timer"} /\ c.op \notin {"init", "cleanup"}
    BY <1>0, <1>1, <1>8, Zenon DEF Procs, HandlerInv, TimerInv
  <2>2. phase' = phase /\ clean' = clean
    BY <1>0, <1>2, <2>1, Zenon DEF TypeInv
  <2>3. TypeInv'
    BY <1>0, <1>2, <1>3, <1>4, <2>2, Zenon DEF TypeInv
  <2>4. calls'["life"] = calls["life"]
    BY <1>3, <1>8, Zenon DEF Procs
  <2>5. LifeInv' /\ BoundInv' /\ KernelInv' /\ CleanupInv' /\ EndInv'
    BY <1>2, <2>2, <2>4, SameLife, Zenon
  <2>6. HandlerInv'
    <3>1. x = "handler" => calls'["handler"] = Idle
      BY <1>3, Zenon
    <3>2. x # "handler" => calls'["handler"] = calls["handler"]
      BY <1>3, Zenon DEF Procs
    <3>3. CASE x = "handler"
      BY <3>1, <3>3, IdleCall, Zenon DEF HandlerInv
    <3>4. CASE x # "handler"
      BY <1>0, <1>2, <1>6, <2>2, <3>2, <3>4, Zenon DEF HandlerInv
    <3> QED BY <3>3, <3>4, Zenon
  <2>7. TimerInv'
    <3>1. x = "timer" => calls'["timer"] = Idle
      BY <1>3, Zenon
    <3>2. x # "timer" => calls'["timer"] = calls["timer"]
      BY <1>3, Zenon DEF Procs
    <3>3. CASE x = "timer"
      BY <3>1, <3>3, IdleCall, Zenon DEF TimerInv
    <3>4. CASE x # "timer"
      BY <1>0, <1>2, <1>6, <2>2, <3>2, <3>4, Zenon DEF TimerInv
    <3> QED BY <3>3, <3>4, Zenon
  <2> QED BY <2>3, <2>5, <2>6, <2>7, Zenon DEF FirewallInv
<1> QED BY <1>7, <1>8, Zenon

\* A command of any goroutine keeps the invariant.
LEMMA StepKeeps ==
  ASSUME FirewallInv, NEW x \in Procs, Step(x) PROVE FirewallInv'
<1>0. TypeInv /\ LifeInv /\ HandlerInv /\ TimerInv /\ BoundInv /\ KernelInv /\ CleanupInv /\ EndInv
  BY Zenon DEF FirewallInv
<1>1. CASE x = "life"
  <2>1. PICK c, out, r : LifeMove(c, out, r)
    BY <1>0, <1>1, LifeStep, Zenon
  <2>2. TypeInv' /\ LifeInv'
    BY <1>0, <2>1, LifeKeepsLife, Zenon
  <2>3. HandlerInv' /\ TimerInv' /\ EndInv'
    BY <1>0, <2>1, LifeKeepsOthers, Zenon
  <2>4. BoundInv'
    BY <1>0, <2>1, LifeKeepsBound, Zenon
  <2>5. KernelInv'
    BY <1>0, <2>1, LifeKeepsKernel, Zenon
  <2>6. CleanupInv'
    BY <1>0, <2>1, LifeKeepsCleanup, Zenon
  <2> QED BY <2>2, <2>3, <2>4, <2>5, <2>6, Zenon DEF FirewallInv
<1>2. CASE x \in {"handler", "timer"}
  <2>1. calls[x].todo # <<>>
    BY Zenon DEF Step
  <2>2. RunHead(x, Head(calls[x].todo))
    BY <1>0, <1>2, <2>1, HandlerHead, TimerHead, Zenon
  <2>3. PICK c, out, r : RunMove(x, c, out, r)
    BY <1>0, <1>2, <2>2, RunStep, Zenon
  <2> QED BY <1>2, <2>3, RunKeeps, Zenon
<1> QED BY <1>1, <1>2, Zenon DEF Procs

\* Every step keeps the invariant.
LEMMA FirewallStepHolds ==
  ASSUME FirewallInv, [FirewallNext]_firewallVars PROVE FirewallInv'
<1>1. CASE Tick
  BY <1>1, TickKeeps, Zenon
<1>2. CASE NewProcess
  BY <1>2, NewProcessKeeps, Zenon
<1>3. CASE Shutdown
  BY <1>3, ShutdownKeeps, Zenon
<1>4. CASE Crash
  BY <1>4, CrashKeeps, Zenon
<1>5. ASSUME NEW s \in Remotes, AllowFirewall(s) PROVE FirewallInv'
  BY <1>5, AllowKeeps, Zenon
<1>6. ASSUME NEW s \in Remotes, RevokeFirewall(s) PROVE FirewallInv'
  BY <1>6, RevokeKeeps, Zenon
<1>7. ASSUME NEW x \in Procs, Step(x) PROVE FirewallInv'
  BY <1>7, StepKeeps, Zenon
<1>8. ASSUME NEW x \in Procs, Return(x) PROVE FirewallInv'
  BY <1>8, ReturnKeeps, Zenon
<1>9. CASE UNCHANGED firewallVars
  <2>1. UNCHANGED <<kernel, cfg, phase, calls, starts, faults, granted, doubtful, clean, now>>
    BY <1>9, Zenon DEF firewallVars
  <2>2. LifeInv' /\ BoundInv' /\ KernelInv' /\ CleanupInv' /\ EndInv'
    BY <2>1, SameLife, Zenon
  <2>3. \A s : Refused(s)' = Refused(s) /\ Allow(s)' = Allow(s) /\ Revoke(s)' = Revoke(s)
    BY <2>1, CfgKept, Zenon
  <2>4. TypeInv' /\ HandlerInv' /\ TimerInv'
    BY <2>1, <2>3, Zenon DEF FirewallInv, TypeInv, HandlerInv, TimerInv
  <2> QED BY <2>2, <2>4, Zenon DEF FirewallInv
<1> QED BY <1>1, <1>2, <1>3, <1>4, <1>5, <1>6, <1>7, <1>8, <1>9, Zenon DEF FirewallNext

\* For every configuration, any clients, and any starts, crashes and failing commands that
\* FirewallAssumption allows, the backends keep the inductive invariant.
THEOREM FirewallInvariance == FirewallSpec => []FirewallInv
<1>1. FirewallInit => FirewallInv
  BY FirewallInitHolds, Zenon
<1>2. FirewallInv /\ [FirewallNext]_firewallVars => FirewallInv'
  BY FirewallStepHolds, Zenon
<1> QED BY <1>1, <1>2, PTL DEF FirewallSpec

\* A Cleanup that reports no error has left no rule, chain, set or member, whatever an
\* earlier process left and although the handler and a timer were still at work.
THEOREM NothingIsLeftBehind == FirewallSpec => []CleanupLeavesNothing
<1>1. FirewallInv => CleanupLeavesNothing
  BY Zenon DEF FirewallInv, EndInv, CleanupLeavesNothing
<1> QED BY <1>1, FirewallInvariance, PTL
=============================================================================
