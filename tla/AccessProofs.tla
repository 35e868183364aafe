---------------------------- MODULE AccessProofs ----------------------------
(***************************************************************************)
(* Who gets in while a backend serves, and that all of it holds of the     *)
(* server that knock-proxy configures from a file.                         *)
(*                                                                         *)
(* InitInv says what an Init without error has in place so far, whatever   *)
(* an earlier process left; at its end the filter is sound and accepts     *)
(* nobody.  GrantInv keeps it sound while Allow and Revoke run at the same *)
(* time.                                                                   *)
(***************************************************************************)
EXTENDS FirewallProofs, KnockProxy

\* A command of the rest of a program is one of the program.
LEMMA TailHas ==
  ASSUME NEW q \in Seq(LifeCmds), q # <<>>, NEW do, NEW f, NEW a, Has(Tail(q), do, f, a)
  PROVE  Has(q, do, f, a)
<1>1. PICK j \in 1..Len(Tail(q)) : Names(Tail(q)[j], do, f, a)
  BY DEF Has, HasAfter
<1>2. j + 1 \in 1..Len(q) /\ Tail(q)[j] = q[j + 1]
  BY <1>1
<1> QED BY <1>1, <1>2 DEF Has, HasAfter

\* A step of an Init without error: a command that is no longer ahead has been done, or
\* its check found that there was nothing to do, and what was removed will be put back.
LEMMA InitHead ==
  ASSUME TypeInv, LifeInv, NEW c, NEW out, NEW r, LifeMove(c, out, r), phase = "init", ~r.err
  PROVE  /\ ~calls["life"].err
         /\ \A do, f, a : ~Has(r.todo, do, f, a) =>
              \/ ~Has(calls["life"].todo, do, f, a)
              \/ Names(c, do, f, a) /\ (c.kind = "quiet" => out # "error")
              \/ do = "-I_INPUT" /\ Names(c, "-C_INPUT", f, a) /\ out = "ok"
         /\ c.kind = "must" => out = "ok"
         /\ c.do = "-D_INPUT" => Has(r.todo, "-I_INPUT", c.fam, c.arg)
         /\ c.do \in {"-F", "-X"} => Has(r.todo, "-A", c.fam, "drop")
         /\ c.do = "delete_table" => Has(r.todo, "table", 4, "none")
<1>1. PICK p : p = calls["life"]
  BY Zenon
<1>2. /\ p.todo # <<>> /\ c = Head(p.todo) /\ c \in LifeCmds /\ p \in Calls /\ r \in Calls
      /\ p.todo \in Seq(LifeCmds) /\ Paired(p.todo) /\ Moved(p, c, out, r)
  BY <1>1, Zenon DEF LifeMove
<1>3. ~p.err /\ (c.kind = "must" => out = "ok")
  BY <1>2, Zenon DEF Moved
<1>4. Ordered(p.todo)
  BY <1>1, <1>3, Zenon DEF LifeInv
<1>5. Suits(c)
  BY <1>2, LifeFields, Zenon
<1>6. /\ \A do, f, a : Has(p.todo, do, f, a) => Names(c, do, f, a) \/ Has(Tail(p.todo), do, f, a)
      /\ c.do = "-C_INPUT" => Tail(p.todo) # <<>> /\ Names(Head(Tail(p.todo)), "-I_INPUT", c.fam, c.arg)
      /\ c.do = "-D_INPUT" => Has(Tail(p.todo), "-I_INPUT", c.fam, c.arg)
      /\ c.do \in {"-F", "-X"} => Has(Tail(p.todo), "-A", c.fam, "drop")
      /\ c.do = "delete_table" => Has(Tail(p.todo), "table", 4, "none")
      /\ Tail(p.todo) \in Seq(LifeCmds) /\ Paired(Tail(p.todo))
  BY <1>2, <1>4, TailShape, Zenon
<1>7. CASE c.kind = "loop" /\ r.todo = p.todo
  <2>1. c.do = "-D_INPUT"
    BY <1>5, <1>7, Zenon DEF Suits
  <2>2. Has(r.todo, "-I_INPUT", c.fam, c.arg)
    BY <1>2, <1>6, <1>7, <2>1, TailHas, Zenon
  <2> QED BY <1>1, <1>3, <1>7, <2>1, <2>2, Zenon
<1>8. CASE r.todo = Tail(p.todo) /\ (c.kind = "quiet" => out # "error")
  BY <1>1, <1>3, <1>6, <1>8, Zenon
<1>9. CASE c.kind = "unless" /\ out = "ok" /\ r.todo = Tail(Tail(p.todo))
  <2>1. c.do = "-C_INPUT"
    BY <1>5, <1>9, Zenon DEF Suits
  <2>2. \A do, f, a : Has(Tail(p.todo), do, f, a) =>
          Names(Head(Tail(p.todo)), do, f, a) \/ Has(r.todo, do, f, a)
    BY <1>6, <1>9, <2>1, TailShape, Zenon
  <2>3. \A do, f, a : Names(Head(Tail(p.todo)), do, f, a) =>
          do = "-I_INPUT" /\ Names(c, "-C_INPUT", f, a)
    BY <1>6, <2>1, Zenon DEF Names
  <2>4. c.kind # "quiet" /\ c.do \notin {"-D_INPUT", "-F", "-X", "delete_table"}
    BY <1>9, <2>1, Zenon
  <2> QED BY <1>1, <1>3, <1>6, <1>9, <2>2, <2>3, <2>4, Zenon
<1>10. \/ c.kind = "loop" /\ r.todo = p.todo
       \/ r.todo = Tail(p.todo) /\ (c.kind = "quiet" => out # "error")
       \/ c.kind = "unless" /\ out = "ok" /\ r.todo = Tail(Tail(p.todo))
  BY <1>2, Zenon DEF Moved
<1> QED BY <1>7, <1>8, <1>9, <1>10

\* A rule at the end of a chain keeps its drop and adds no remote.
LEMMA AppendRules ==
  ASSUME NEW ch \in Seq(Rules), NEW a \in Rules
  PROVE  /\ "drop" \in Range(ch) => "drop" \in Range(Append(ch, a))
         /\ "drop" \in Range(Append(ch, "drop"))
         /\ Strings(ch) /\ a \notin Remotes => Strings(Append(ch, a))
<1>1. PICK n : n = Len(ch) /\ n \in Nat
  OBVIOUS
<1>2. /\ Len(Append(ch, a)) = n + 1 /\ Append(ch, a)[n + 1] = a
      /\ \A i \in 1..n : Append(ch, a)[i] = ch[i]
      /\ DOMAIN ch = 1..n /\ DOMAIN Append(ch, a) = 1..(n + 1)
  BY <1>1
<1>3. "drop" \in Range(ch) => "drop" \in Range(Append(ch, a))
  BY <1>1, <1>2 DEF Range
<1>4. "drop" \in Range(Append(ch, "drop"))
  <2>1. Append(ch, "drop")[n + 1] = "drop" /\ n + 1 \in DOMAIN Append(ch, "drop")
    BY <1>1
  <2> QED BY <2>1, Zenon DEF Range
<1>5. Strings(ch) /\ a \notin Remotes => Strings(Append(ch, a))
  BY <1>1, <1>2 DEF Strings
<1> QED BY <1>3, <1>4, <1>5, Zenon

\* An empty or absent chain has no rule for a remote, and no rule is named like one.
LEMMA NoRules ==
  /\ Strings(<<>>) /\ Strings(Absent) /\ "drop" \notin Range(Absent)
  /\ "established" \notin Remotes /\ "set" \notin Remotes /\ "drop" \notin Remotes
<1>1. /\ "established" \notin Remotes /\ "set" \notin Remotes /\ "drop" \notin Remotes
      /\ "absent" \notin Remotes
  BY RemotesAssumption, Zenon DEF Remotes
<1>2. Strings(<<>>)
  BY DEF Strings
<1>3. Strings(Absent)
  BY <1>1 DEF Strings, Absent
<1>4. "drop" \notin Range(Absent)
  BY DEF Absent, Range
<1> QED BY <1>1, <1>2, <1>3, <1>4, Zenon

\* A step of Init on iptables keeps the drop it has appended, and leaves no rule of an
\* earlier process behind the deletion of its chain.
LEMMA InitChains ==
  ASSUME TypeInv, LifeInv, InitInv, NEW c, NEW out, NEW r, LifeMove(c, out, r),
         phase = "init", ~r.err, cfg.backend \in Iptables, NEW f \in Managed
  PROVE  /\ ~Has(r.todo, "-A", f, "drop") => "drop" \in Range(kernel'.chain[f])
         /\ ~Has(r.todo, "-X", f, "none") => Strings(kernel'.chain[f])
<1>1. PICK p, k, ch : p = calls["life"] /\ k = kernel /\ ch = kernel.chain[f]
  BY Zenon
<1>2. /\ ~p.err /\ c \in LifeCmds /\ k \in Kernels /\ cfg \in Configs
      /\ out \in {"ok", "error", "missing"}
  BY <1>1, InitHead, Zenon DEF LifeMove, TypeInv, Ran
<1>3. /\ f \in Families /\ c.do \notin {"table", "delete_table", "-I", "-D"} /\ Suits(c)
      /\ c.fam \in Families
  BY <1>2, LifePlace, LifeProper, LifeFields, Zenon DEF Iptables
<1>4. /\ ~Has(p.todo, "-A", f, "drop") => "drop" \in Range(ch)
      /\ ~Has(p.todo, "-X", f, "none") => Strings(ch)
  BY <1>1, <1>2, Zenon DEF InitInv, Pending
<1>5. ch \in Seq(Rules) \cup {Absent}
  BY <1>1, <1>2, <1>3, Zenon DEF Kernels
<1>6. kernel' = k \/ (Frame(k, c, kernel') /\ Result(k, c, kernel'))
  BY <1>1, Zenon DEF LifeMove
<1>7. kernel' = k \/ Done(k, c, kernel')
  BY <1>1, Zenon DEF LifeMove, Ran
<1>8. /\ out = "ok" /\ c.kind # "bail" => Result(k, c, kernel')
      /\ out = "missing" => kernel' = k /\ Lacks(k, c)
  BY <1>1, Zenon DEF LifeMove, Ran
<1>9. /\ c.do = "-A" => out = "ok" /\ c.kind = "must" /\ c.arg \in {"established", "set", "drop"}
      /\ c.do = "-X" => c.kind = "quiet"
  BY <1>3, InitHead, Zenon DEF Suits
<1>10. CASE ~(c.fam = f /\ c.do \in {"-N", "-F", "-X", "-A"})
  <2>1. kernel'.chain[f] = ch
    BY <1>1, <1>3, <1>6, <1>10, Zenon DEF Frame, ChainDos
  <2>2. ~Has(r.todo, "-A", f, "drop") => ~Has(p.todo, "-A", f, "drop")
    BY <1>1, <1>10, InitHead DEF Names
  <2>3. ~Has(r.todo, "-X", f, "none") => ~Has(p.todo, "-X", f, "none")
    BY <1>1, <1>10, InitHead DEF Names
  <2> QED BY <1>4, <2>1, <2>2, <2>3, Zenon
<1>11. CASE c.fam = f /\ c.do = "-A"
  <2>1. ch # Absent /\ kernel'.chain[f] = Append(ch, c.arg)
    BY <1>1, <1>8, <1>9, <1>11, Zenon DEF Result
  <2>2. c.arg \in Rules /\ c.arg \notin Remotes /\ ch \in Seq(Rules)
    BY <1>5, <1>9, <1>11, <2>1, NoRules, Zenon DEF Rules
  <2>3. ~Has(r.todo, "-A", f, "drop") => ~Has(p.todo, "-A", f, "drop") \/ c.arg = "drop"
    BY <1>1, <1>11, InitHead DEF Names
  <2>4. ~Has(r.todo, "-X", f, "none") => ~Has(p.todo, "-X", f, "none")
    BY <1>1, <1>11, InitHead DEF Names
  <2> QED BY <1>4, <2>1, <2>2, <2>3, <2>4, AppendRules
<1>12. CASE c.fam = f /\ c.do = "-N"
  <2>1. kernel' = k \/ (ch = Absent /\ kernel'.chain[f] = <<>>)
    BY <1>1, <1>6, <1>7, <1>12, Zenon DEF Done, Result
  <2>2. ~Has(r.todo, "-A", f, "drop") => ~Has(p.todo, "-A", f, "drop")
    BY <1>1, <1>12, InitHead DEF Names
  <2>3. ~Has(r.todo, "-X", f, "none") => ~Has(p.todo, "-X", f, "none")
    BY <1>1, <1>12, InitHead DEF Names
  <2> QED BY <1>1, <1>4, <2>1, <2>2, <2>3, NoRules
<1>13. CASE c.fam = f /\ c.do \in {"-F", "-X"}
  <2>1. Has(r.todo, "-A", f, "drop")
    BY <1>13, InitHead, Zenon
  <2>2. ASSUME ~Has(r.todo, "-X", f, "none") PROVE Strings(kernel'.chain[f])
    <3>1. kernel' = k \/ kernel'.chain[f] \in {<<>>, Absent}
      BY <1>6, <1>13, Zenon DEF Result
    <3>2. CASE ~Has(p.todo, "-X", f, "none")
      BY <1>1, <1>4, <3>1, <3>2, NoRules, Zenon
    <3>3. CASE Has(p.todo, "-X", f, "none")
      <4>1. c.do = "-X" /\ out # "error"
        BY <1>1, <1>9, <2>2, <3>3, InitHead DEF Names
      <4>2. kernel'.chain[f] = Absent
        BY <1>2, <1>8, <1>9, <1>13, <4>1, Zenon DEF Result, Lacks
      <4> QED BY <4>2, NoRules, Zenon
    <3> QED BY <3>2, <3>3, Zenon
  <2> QED BY <2>1, <2>2, Zenon
<1> QED BY <1>10, <1>11, <1>12, <1>13, Zenon

\* A step of Init on iptables keeps the rules of INPUT it has inserted or found.
LEMMA InitInput ==
  ASSUME TypeInv, LifeInv, InitInv, NEW c, NEW out, NEW r, LifeMove(c, out, r),
         phase = "init", ~r.err, cfg.backend \in Iptables, NEW f \in Managed,
         NEW a \in {"jump", "drop"}, a = "drop" => cfg.drop, ~Has(r.todo, "-I_INPUT", f, a)
  PROVE  kernel'.input[f][a] > 0
<1>1. PICK p, k, n : p = calls["life"] /\ k = kernel /\ n = kernel.input[f][a]
  BY Zenon
<1>2. /\ ~p.err /\ c \in LifeCmds /\ k \in Kernels /\ cfg \in Configs
      /\ out \in {"ok", "error", "missing"}
  BY <1>1, InitHead, Zenon DEF LifeMove, TypeInv, Ran
<1>3. /\ f \in Families /\ c.do \notin {"table", "delete_table"} /\ Suits(c) /\ c.fam \in Families
      /\ (c.do \in {"-I_INPUT", "-D_INPUT", "-C_INPUT"} => c.arg \in {"jump", "drop"})
  BY <1>2, LifePlace, LifeFields, Zenon DEF Iptables
<1>4. ~Has(p.todo, "-I_INPUT", f, a) => n > 0
  BY <1>1, <1>2, Zenon DEF InitInv, Pending
<1>5. n \in Nat
  BY <1>1, <1>2, <1>3, InputTypes, Zenon
<1>6. kernel' = k \/ (Frame(k, c, kernel') /\ Result(k, c, kernel'))
  BY <1>1, Zenon DEF LifeMove
<1>7. out = "ok" /\ c.kind # "bail" => Frame(k, c, kernel') /\ Result(k, c, kernel')
  BY <1>1, Zenon DEF LifeMove
<1>8. c.do = "-I_INPUT" => out = "ok" /\ c.kind = "must"
  BY <1>2, InitHead, LifeFields, Zenon
<1>9. CASE Names(c, "-I_INPUT", f, a)
  BY <1>1, <1>5, <1>7, <1>8, <1>9 DEF Names, Result
<1>10. CASE Names(c, "-C_INPUT", f, a) /\ out = "ok"
  <2>1. n > 0 /\ kernel'.input = k.input
    BY <1>1, <1>2, <1>7, <1>10, LifeFields, Zenon DEF Names, Result, Frame, InputDos
  <2> QED BY <1>1, <2>1, Zenon
<1>11. CASE ~Has(p.todo, "-I_INPUT", f, a) /\ ~Names(c, "-I_INPUT", f, a)
  <2>1. ~Names(c, "-D_INPUT", f, a)
    BY InitHead DEF Names
  <2>2. CASE c.fam = f /\ c.do \in {"-I_INPUT", "-D_INPUT"}
    <3>1. c.arg # a
      BY <1>11, <2>1, <2>2, Zenon DEF Names
    <3>2. kernel'.input[f][a] = n
      BY <1>1, <1>3, <1>6, <2>2, <3>1, Zenon DEF Result
    <3> QED BY <1>4, <1>11, <3>2, Zenon
  <2>3. CASE ~(c.fam = f /\ c.do \in {"-I_INPUT", "-D_INPUT"})
    <3>1. kernel'.input[f] = k.input[f]
      BY <1>3, <1>6, <2>3, Zenon DEF Frame, InputDos
    <3> QED BY <1>1, <1>4, <1>11, <3>1, Zenon
  <2> QED BY <2>2, <2>3, Zenon
<1> QED BY <1>1, <1>9, <1>10, <1>11, InitHead, Zenon

\* A step of Init keeps a flushed set empty.
LEMMA InitMembers ==
  ASSUME TypeInv, LifeInv, KernelInv, InitInv, NEW c, NEW out, NEW r, LifeMove(c, out, r),
         phase = "init", ~r.err, cfg.backend \in Iptables, NEW s \in Remotes,
         Family(s) \in Managed, ~Has(r.todo, "flush", Family(s), "none")
  PROVE  kernel'.member[s] = 0
<1>1. PICK p, k, f : p = calls["life"] /\ k = kernel /\ f = Family(s)
  BY Zenon
<1>2. /\ ~p.err /\ c \in LifeCmds /\ k \in Kernels /\ cfg \in Configs
      /\ out \in {"ok", "error", "missing"}
  BY <1>1, InitHead, Zenon DEF LifeMove, TypeInv, Ran
<1>3. c.do \notin {"table", "delete_table", "add", "del"} /\ Suits(c)
  BY <1>2, LifePlace, LifeProper, LifeFields DEF Iptables
<1>4. ~Has(p.todo, "flush", f, "none") => k.member[s] = 0
  BY <1>1, <1>2, Zenon DEF InitInv, Pending
<1>5. ~k.made[f] => k.member[s] = 0
  BY <1>1, Zenon DEF KernelInv
<1>6. kernel' = k \/ (Frame(k, c, kernel') /\ Result(k, c, kernel'))
  BY <1>1, Zenon DEF LifeMove
<1>7. /\ out = "ok" /\ c.kind # "bail" => Result(k, c, kernel')
      /\ out = "missing" => kernel' = k /\ Lacks(k, c)
  BY <1>1, Zenon DEF LifeMove, Ran
<1>8. kernel'.member[s] = k.member[s] \/ kernel'.member[s] = 0
  BY <1>3, <1>6, Zenon DEF Frame, MemberDos, Result, Flushed
<1>9. CASE Names(c, "flush", f, "none") /\ (c.kind = "quiet" => out # "error")
  <2>1. c.do = "flush" /\ c.fam = f /\ c.kind = "quiet" /\ out # "error"
    BY <1>3, <1>9, Zenon DEF Names, Suits
  <2>2. CASE out = "ok"
    BY <1>1, <1>7, <2>1, <2>2 DEF Result, Flushed
  <2>3. CASE out = "missing"
    BY <1>5, <1>7, <2>1, <2>3, Zenon DEF Lacks
  <2> QED BY <1>2, <2>1, <2>2, <2>3, Zenon
<1>10. CASE ~Has(p.todo, "flush", f, "none")
  BY <1>4, <1>8, <1>10, Zenon
<1> QED BY <1>1, <1>9, <1>10, InitHead

\* A step of nftables' Init: without the old table no rule and no member of an earlier
\* process is left, and the new one is reached and drops.
LEMMA InitTable ==
  ASSUME TypeInv, LifeInv, KernelInv, InitInv, NEW c, NEW out, NEW r, LifeMove(c, out, r),
         phase = "init", ~r.err, cfg.backend = "nftables"
  PROVE  /\ ~Has(r.todo, "delete_table", 4, "none") => \A f \in Families : Strings(kernel'.chain[f])
         /\ ~Has(r.todo, "delete_table", 4, "none") => \A s \in Remotes : kernel'.member[s] = 0
         /\ ~Has(r.todo, "table", 4, "none") => \A f \in Families :
              /\ "drop" \in Range(kernel'.chain[f]) /\ kernel'.input[f].jump > 0
              /\ cfg.drop => kernel'.input[f].drop > 0
<1>1. PICK p, k : p = calls["life"] /\ k = kernel
  BY Zenon
<1>2. /\ ~p.err /\ c \in LifeCmds /\ k \in Kernels /\ cfg \in Configs
      /\ out \in {"ok", "error", "missing"}
  BY <1>1, InitHead, Zenon DEF LifeMove, TypeInv, Ran
<1>3. c.do \in {"none", "table", "delete_table"} /\ Suits(c)
  BY <1>2, LifePlace, LifeFields, Zenon
<1>4. /\ ~Has(p.todo, "delete_table", 4, "none") =>
           (\A f \in Families : Strings(k.chain[f])) /\ \A s \in Remotes : k.member[s] = 0
      /\ ~Has(p.todo, "table", 4, "none") => \A f \in Families :
           /\ "drop" \in Range(k.chain[f]) /\ k.input[f].jump > 0
           /\ cfg.drop => k.input[f].drop > 0
  BY <1>1, <1>2, Zenon DEF InitInv, Pending
<1>5. /\ kernel' = k \/ (Frame(k, c, kernel') /\ Result(k, c, kernel'))
      /\ kernel' = k \/ Done(k, c, kernel')
      /\ out = "ok" /\ c.kind # "bail" => Result(k, c, kernel')
      /\ out = "missing" => kernel' = k /\ Lacks(k, c)
  BY <1>1, Zenon DEF LifeMove, Ran
<1>6. CASE c.do = "none"
  <2>1. kernel' = k
    BY <1>5, <1>6, Zenon DEF Done
  <2>2. \A do : do # "none" /\ do # "-I_INPUT" /\ ~Has(r.todo, do, 4, "none") => ~Has(p.todo, do, 4, "none")
    BY <1>1, <1>6, InitHead DEF Names
  <2> QED BY <1>4, <2>1, <2>2, Zenon
<1>7. CASE c.do = "table"
  <2>1. out = "ok" /\ c.kind # "bail"
    BY <1>3, <1>7, InitHead, Zenon DEF Suits
  <2>2. kernel' = Table(k)
    BY <1>5, <1>7, <2>1, Zenon DEF Result
  <2>3. ~Has(r.todo, "delete_table", 4, "none") => ~Has(p.todo, "delete_table", 4, "none")
    BY <1>1, <1>7, InitHead DEF Names
  <2>4. /\ Table(k).member = k.member
        /\ \A f \in Families :
             /\ "drop" \in Range(Table(k).chain[f])
             /\ Strings(k.chain[f]) => Strings(Table(k).chain[f])
             /\ Table(k).input[f].jump = 1 /\ (cfg.drop => Table(k).input[f].drop = 1)
    BY <1>2, SetTable, Zenon
  <2> QED BY <1>4, <2>2, <2>3, <2>4
<1>8. CASE c.do = "delete_table"
  <2>1. Has(r.todo, "table", 4, "none") /\ c.kind = "quiet"
    BY <1>3, <1>8, InitHead, Zenon DEF Suits
  <2>2. kernel' = k \/ kernel' = Empty
    BY <1>5, <1>8, Zenon DEF Result
  <2>3. /\ \A f \in Families : Strings(Empty.chain[f])
        /\ \A s \in Remotes : Empty.member[s] = 0
    BY EmptyFields, NoRules, Zenon
  <2>4. CASE ~Has(p.todo, "delete_table", 4, "none")
    BY <1>4, <2>1, <2>2, <2>3, <2>4
  <2>5. CASE out # "error"
    <3>1. out = "missing" => k = Empty
      BY <1>1, <1>5, <1>8, Zenon DEF Lacks, KernelInv
    <3>2. kernel' = Empty
      BY <1>2, <1>5, <1>8, <2>1, <2>5, <3>1 DEF Result
    <3> QED BY <2>1, <2>3, <3>2, Zenon
  <2>6. ~Has(r.todo, "delete_table", 4, "none") =>
          ~Has(p.todo, "delete_table", 4, "none") \/ out # "error"
    BY <1>1, <2>1, InitHead, Zenon
  <2> QED BY <2>1, <2>4, <2>5, <2>6, Zenon
<1> QED BY <1>3, <1>6, <1>7, <1>8, Zenon

\* A step of Init or Cleanup keeps the access invariant.
LEMMA LifeKeepsAccess ==
  ASSUME FirewallInv, AccessInv, NEW c, NEW out, NEW r, LifeMove(c, out, r)
  PROVE  AccessInv'
<1>1. /\ cfg' = cfg /\ Managed' = Managed /\ phase' = phase /\ now' = now
      /\ calls'["life"] = r
  BY LifeCall, CfgKept, Zenon DEF FirewallInv
<1>2. TypeInv /\ LifeInv /\ KernelInv /\ InitInv
  BY Zenon DEF FirewallInv, AccessInv
<1>3. InitInv'
  <2>1. SUFFICES ASSUME phase = "init", ~r.err
                 PROVE  /\ cfg.backend \in Iptables => \A f \in Managed :
                             /\ ~Has(r.todo, "-I_INPUT", f, "jump") => kernel'.input[f].jump > 0
                             /\ cfg.drop /\ ~Has(r.todo, "-I_INPUT", f, "drop") => kernel'.input[f].drop > 0
                             /\ ~Has(r.todo, "-A", f, "drop") => "drop" \in Range(kernel'.chain[f])
                             /\ ~Has(r.todo, "-X", f, "none") => Strings(kernel'.chain[f])
                             /\ ~Has(r.todo, "flush", f, "none") =>
                                  \A s \in Remotes : Family(s) = f => kernel'.member[s] = 0
                        /\ cfg.backend = "nftables" =>
                             /\ ~Has(r.todo, "delete_table", 4, "none") =>
                                  \A f \in Families : Strings(kernel'.chain[f])
                             /\ ~Has(r.todo, "delete_table", 4, "none") =>
                                  \A s \in Remotes : kernel'.member[s] = 0
                             /\ ~Has(r.todo, "table", 4, "none") => \A f \in Families :
                                  /\ "drop" \in Range(kernel'.chain[f]) /\ kernel'.input[f].jump > 0
                                  /\ cfg.drop => kernel'.input[f].drop > 0
    BY <1>1, Zenon DEF InitInv, Pending
  <2>2. ASSUME cfg.backend \in Iptables, NEW f \in Managed
        PROVE  /\ ~Has(r.todo, "-I_INPUT", f, "jump") => kernel'.input[f].jump > 0
               /\ cfg.drop /\ ~Has(r.todo, "-I_INPUT", f, "drop") => kernel'.input[f].drop > 0
    BY <1>2, <2>1, <2>2, InitInput, Zenon
  <2>3. ASSUME cfg.backend \in Iptables, NEW f \in Managed
        PROVE  /\ ~Has(r.todo, "-A", f, "drop") => "drop" \in Range(kernel'.chain[f])
               /\ ~Has(r.todo, "-X", f, "none") => Strings(kernel'.chain[f])
    BY <1>2, <2>1, <2>3, InitChains, Zenon
  <2>4. ASSUME cfg.backend \in Iptables, NEW f \in Managed, ~Has(r.todo, "flush", f, "none"),
               NEW s \in Remotes, Family(s) = f
        PROVE  kernel'.member[s] = 0
    BY <1>2, <2>1, <2>4, InitMembers, Zenon
  <2>5. ASSUME cfg.backend = "nftables"
        PROVE  /\ ~Has(r.todo, "delete_table", 4, "none") =>
                    \A f \in Families : Strings(kernel'.chain[f])
               /\ ~Has(r.todo, "delete_table", 4, "none") =>
                    \A s \in Remotes : kernel'.member[s] = 0
               /\ ~Has(r.todo, "table", 4, "none") => \A f \in Families :
                    /\ "drop" \in Range(kernel'.chain[f]) /\ kernel'.input[f].jump > 0
                    /\ cfg.drop => kernel'.input[f].drop > 0
    BY <1>2, <2>1, <2>5, InitTable, Zenon
  <2> QED BY <2>2, <2>3, <2>4, <2>5, Zenon
<1>4. GrantInv'
  <2>1. phase # "serving"
    BY <1>2, Zenon DEF LifeInv, LifeMove
  <2> QED BY <1>1, <2>1, Zenon DEF GrantInv
<1>5. LifetimeInv'
  <2>1. LifetimeInv /\ kernel \in Kernels /\ cfg \in Configs
    BY <1>2, Zenon DEF AccessInv, TypeInv
  <2>2. c \in LifeCmds /\ (kernel' = kernel \/ (Frame(kernel, c, kernel') /\ Result(kernel, c, kernel')))
    BY Zenon DEF LifeMove
  <2>3. c.do \notin {"add", "del"}
    BY <2>2, LifeProper, Zenon
  <2>4. \A s \in Remotes : kernel'.member[s] = kernel.member[s] \/ kernel'.member[s] = 0
    BY <2>2, <2>3, EmptyFields, Zenon DEF Frame, MemberDos, Result, Flushed
  <2>5. now \in Nat /\ now > 0 /\ TTL \in Nat
    BY <1>2, FirewallAssumption, Zenon DEF TypeInv
  <2> QED BY <1>1, <2>1, <2>4, <2>5 DEF LifetimeInv
<1> QED BY <1>3, <1>4, <1>5, Zenon DEF AccessInv

\* A rule at the front of a chain, rule by rule (-I).
LEMMA InsertRule ==
  ASSUME NEW ch \in Seq(Rules), NEW a \in Rules, NEW d, d = <<a>> \o ch
  PROVE  /\ d \in Seq(Rules) /\ Len(d) = Len(ch) + 1 /\ d[1] = a
         /\ \A i \in 1..Len(ch) : d[i + 1] = ch[i]
         /\ \A x \in Range(d) : x = a \/ x \in Range(ch)
         /\ \A x \in Range(ch) : x \in Range(d)
         /\ \A x : Once(ch, x) /\ (x = a => a \notin Range(ch)) => Once(d, x)
<1>1. PICK n : n = Len(ch) /\ n \in Nat
  OBVIOUS
<1>2. /\ d \in Seq(Rules) /\ Len(d) = n + 1 /\ d[1] = a
      /\ \A i \in 1..n : d[i + 1] = ch[i]
  BY <1>1
<1>3. \A i \in 1..(n + 1) : i = 1 \/ (i - 1 \in 1..n /\ d[i] = ch[i - 1])
  BY <1>1, <1>2
<1>4. DOMAIN d = 1..(n + 1) /\ DOMAIN ch = 1..n
  BY <1>1, <1>2
<1>5. ASSUME NEW x \in Range(d) PROVE x = a \/ x \in Range(ch)
  BY <1>2, <1>3, <1>4 DEF Range
<1>6. ASSUME NEW x \in Range(ch) PROVE x \in Range(d)
  <2>1. PICK i \in 1..n : ch[i] = x
    BY <1>4, Zenon DEF Range
  <2>2. i + 1 \in DOMAIN d /\ d[i + 1] = x
    BY <1>1, <1>2, <1>4, <2>1
  <2> QED BY <2>2, Zenon DEF Range
<1>7. ASSUME NEW x, Once(ch, x), x = a => a \notin Range(ch) PROVE Once(d, x)
  <2>1. SUFFICES ASSUME NEW i \in 1..(n + 1), NEW j \in 1..(n + 1), d[i] = x, d[j] = x
                 PROVE  i = j
    BY <1>2, Zenon DEF Once, At
  <2>2. \A k \in 1..n : ch[k] = a => a \in Range(ch)
    BY <1>4, Zenon DEF Range
  <2>3. \A k, m \in 1..n : ch[k] = x /\ ch[m] = x => k = m
    BY <1>1, <1>7, Zenon DEF Once, At
  <2> QED BY <1>1, <1>2, <1>3, <1>7, <2>1, <2>2, <2>3
<1> QED BY <1>1, <1>2, <1>5, <1>6, <1>7

\* A chain without one of its rules (-D).
LEMMA DeleteRule ==
  ASSUME NEW ch \in Seq(Rules), NEW e \in 1..Len(ch), NEW d, d = Deleted(ch, e)
  PROVE  /\ d \in Seq(Rules) /\ Len(d) = Len(ch) - 1
         /\ \A i \in 1..Len(d) : (i < e /\ d[i] = ch[i]) \/ (i >= e /\ d[i] = ch[i + 1])
         /\ \A x \in Range(d) : x \in Range(ch)
         /\ \A x \in Range(ch) : x # ch[e] => x \in Range(d)
         /\ \A x : Once(ch, x) => Once(d, x)
         /\ Once(ch, ch[e]) => ch[e] \notin Range(d)
<1>1. PICK n : n = Len(ch) /\ n \in Nat
  OBVIOUS
<1>2. /\ d \in Seq(Rules) /\ Len(d) = n - 1
      /\ \A j \in 1..(e - 1) : d[j] = ch[j]
      /\ \A j \in e..(n - 1) : d[j] = ch[j + 1]
  BY <1>1, DeletedSeq, Zenon
<1>3. \A i \in 1..(n - 1) : (i < e /\ d[i] = ch[i]) \/ (i >= e /\ d[i] = ch[i + 1])
  BY <1>1, <1>2
<1>4. DOMAIN d = 1..(n - 1) /\ DOMAIN ch = 1..n
  BY <1>1, <1>2
<1>5. ASSUME NEW x \in Range(d) PROVE x \in Range(ch)
  BY <1>1, <1>3, <1>4 DEF Range
<1>6. ASSUME NEW x \in Range(ch), x # ch[e] PROVE x \in Range(d)
  <2>1. PICK i \in 1..n : ch[i] = x
    BY <1>4, Zenon DEF Range
  <2>2. i # e
    BY <1>6, <2>1, Zenon
  <2>3. CASE i < e
    BY <1>1, <1>2, <1>4, <2>1, <2>3 DEF Range
  <2>4. CASE i > e
    <3>1. i - 1 \in e..(n - 1) /\ (i - 1) + 1 = i
      BY <1>1, <2>1, <2>4
    <3>2. d[i - 1] = x /\ i - 1 \in DOMAIN d
      BY <1>1, <1>2, <1>4, <2>1, <3>1
    <3> QED BY <3>2, Zenon DEF Range
  <2> QED BY <1>1, <2>1, <2>2, <2>3, <2>4
<1>7. ASSUME NEW x, Once(ch, x) PROVE Once(d, x)
  <2>1. SUFFICES ASSUME NEW i \in 1..(n - 1), NEW j \in 1..(n - 1), d[i] = x, d[j] = x
                 PROVE  i = j
    BY <1>2, Zenon DEF Once, At
  <2>2. \A k, m \in 1..n : ch[k] = x /\ ch[m] = x => k = m
    BY <1>1, <1>7, Zenon DEF Once, At
  <2> QED BY <1>1, <1>3, <2>1, <2>2
<1>8. ASSUME Once(ch, ch[e]) PROVE ch[e] \notin Range(d)
  <2>1. SUFFICES ASSUME NEW i \in 1..(n - 1), d[i] = ch[e] PROVE FALSE
    BY <1>4, Zenon DEF Range
  <2>2. \A k, m \in 1..n : ch[k] = ch[e] /\ ch[m] = ch[e] => k = m
    BY <1>1, <1>8, Zenon DEF Once, At
  <2>3. e \in 1..n
    BY <1>1, Zenon
  <2> QED BY <1>1, <1>3, <2>1, <2>2, <2>3
<1> QED BY <1>1, <1>2, <1>3, <1>5, <1>6, <1>7, <1>8

\* What the commands of Allow and Revoke change.
LEMMA RunEffect ==
  ASSUME TypeInv, NEW x \in {"handler", "timer"}, NEW c, NEW out, NEW r, RunMove(x, c, out, r)
  PROVE  /\ c.do \in {"-C", "-I", "-D", "add", "del", "script"} /\ c.arg \in Remotes
         /\ c.do # "script" => c.fam = Family(c.arg) /\ c.fam \in Managed
         /\ c.do \in {"-C", "-I", "-D"} => cfg.backend = "iptables"
         /\ c.do \in {"-C", "script"} => kernel' = kernel
         /\ c.do \in {"add", "del"} => kernel'.chain = kernel.chain
         /\ c.do \in {"-I", "-D"} => kernel'.member = kernel.member
         /\ \A f \in Families : f # c.fam => kernel'.chain[f] = kernel.chain[f]
         /\ c.do # "-C" => doubtful' = doubtful
         /\ doubtful \subseteq doubtful'
<1>1. c \in RunCmds /\ Ran(c, out)
  BY Zenon DEF RunMove
<1>2. /\ c.do \in {"-C", "-I", "-D", "add", "del", "script"} /\ c.arg \in Remotes
      /\ c.do # "script" => c.fam = Family(c.arg) /\ c.fam \in Managed
      /\ c.do \in {"-C", "-I", "-D"} => cfg.backend = "iptables"
  BY <1>1, Zenon DEF RunCmds
<1>3. c.do \in {"-C", "script"} => kernel' = kernel
  BY <1>1, Zenon DEF Ran, Done
<1>4. kernel' = kernel \/ Frame(kernel, c, kernel')
  BY Zenon DEF RunMove
<1>5. c.do \in {"add", "del"} => kernel'.chain = kernel.chain
  BY <1>4, Zenon DEF Frame, ChainDos
<1>6. c.do \in {"-I", "-D"} => kernel'.member = kernel.member
  BY <1>4, Zenon DEF Frame, MemberDos
<1>7. \A f \in Families : f # c.fam => kernel'.chain[f] = kernel.chain[f]
  BY <1>2, <1>4, Zenon DEF Frame
<1>8. (c.do # "-C" => doubtful' = doubtful) /\ doubtful \subseteq doubtful'
  BY Zenon DEF RunMove
<1> QED BY <1>2, <1>3, <1>5, <1>6, <1>7, <1>8

\* A set's entry moves only for the remote a command of Allow or Revoke names: to a full
\* lifetime, or to nothing.
LEMMA RunMembers ==
  ASSUME TypeInv, NEW x \in {"handler", "timer"}, NEW c, NEW out, NEW r, RunMove(x, c, out, r),
         NEW s \in Remotes, kernel'.member[s] # kernel.member[s]
  PROVE  /\ c.do \in {"add", "del"} /\ s = c.arg
         /\ c.do = "add" => kernel'.member[s] = now + ttlSeconds * PerSecond
         /\ c.do = "del" => kernel'.member[s] = 0
<1>1. Result(kernel, c, kernel')
  BY Zenon DEF RunMove
<1>2. c.do \in {"add", "del"}
  BY RunEffect, Zenon
<1>3. /\ c.do = "add" => kernel'.member[c.arg] = now + ttlSeconds * PerSecond
      /\ c.do = "del" => kernel'.member[c.arg] = 0
      /\ \A t \in Remotes : t # c.arg => kernel'.member[t] = kernel.member[t]
  BY <1>1, <1>2, Zenon DEF Result
<1> QED BY <1>2, <1>3, Zenon

\* A chain after a command for remote a: the same, with a rule in front or without one.
Changed(ch, ch2, do, a) ==
  \/ ch2 = ch
  \/ do = "-I" /\ ch # Absent /\ ch2 = <<a>> \o ch
  \/ do = "-D" /\ ch # Absent /\ \E e \in 1..Len(ch) : ch[e] = a /\ ch2 = Deleted(ch, e)

\* So do the chains change in a step of the handler or the timer.
LEMMA RunChain ==
  ASSUME TypeInv, NEW x \in {"handler", "timer"}, NEW c, NEW out, NEW r, RunMove(x, c, out, r)
  PROVE  /\ \A f \in Families : kernel.chain[f] \in Seq(Rules) \cup {Absent}
         /\ \A f \in Families : Changed(kernel.chain[f], kernel'.chain[f], c.do, c.arg)
         /\ c.arg \in Rules
         /\ out = "ok" /\ c.do = "-D" => \E e \in 1..Len(kernel.chain[c.fam]) :
              kernel.chain[c.fam][e] = c.arg /\ kernel'.chain[c.fam] = Deleted(kernel.chain[c.fam], e)
<1>1. /\ c.do \in {"-C", "-I", "-D", "add", "del", "script"} /\ c.arg \in Remotes
      /\ c.do \in {"-C", "script"} => kernel' = kernel
      /\ c.do \in {"add", "del"} => kernel'.chain = kernel.chain
      /\ \A f \in Families : f # c.fam => kernel'.chain[f] = kernel.chain[f]
  BY RunEffect, Zenon
<1>2. kernel' = kernel \/ Result(kernel, c, kernel')
  BY Zenon DEF RunMove
<1>3. \A f \in Families : kernel.chain[f] \in Seq(Rules) \cup {Absent}
  BY Zenon DEF TypeInv, Kernels
<1>4. ASSUME NEW f \in Families
      PROVE  Changed(kernel.chain[f], kernel'.chain[f], c.do, c.arg)
  <2>1. CASE f # c.fam
    BY <1>1, <2>1, Zenon DEF Changed
  <2>2. CASE f = c.fam
    BY <1>1, <1>2, <2>2, Zenon DEF Changed, Result
  <2> QED BY <2>1, <2>2, Zenon
<1>5. c.arg \in Rules
  BY <1>1, Zenon DEF Rules
<1>6. out = "ok" /\ c.do = "-D" => \E e \in 1..Len(kernel.chain[c.fam]) :
        kernel.chain[c.fam][e] = c.arg /\ kernel'.chain[c.fam] = Deleted(kernel.chain[c.fam], e)
  BY Zenon DEF RunMove, Result
<1> QED BY <1>1, <1>3, <1>4, <1>5, <1>6, Zenon

\* The rules of a chain after such a change: only Allow adds one, none but the remote's
\* own is removed, and none is doubled unless a check overlooked it.
LEMMA ChangedRules ==
  ASSUME NEW ch \in Seq(Rules) \cup {Absent}, NEW ch2, NEW do, NEW a \in Rules,
         Changed(ch, ch2, do, a)
  PROVE  /\ \A y \in Range(ch2) : y \in Range(ch) \/ (do = "-I" /\ y = a)
         /\ \A y \in Range(ch) : y # a => y \in Range(ch2)
         /\ \A y : Once(ch, y) /\ (do = "-I" /\ y = a => a \notin Range(ch)) => Once(ch2, y)
<1>1. CASE ch2 = ch
  BY <1>1, Zenon
<1>2. CASE do = "-I" /\ ch # Absent /\ ch2 = <<a>> \o ch
  BY <1>2, InsertRule, Zenon
<1>3. CASE do = "-D" /\ ch # Absent /\ \E e \in 1..Len(ch) : ch[e] = a /\ ch2 = Deleted(ch, e)
  <2>1. PICK e \in 1..Len(ch) : ch[e] = a /\ ch2 = Deleted(ch, e)
    BY <1>3, Zenon
  <2>2. ch \in Seq(Rules)
    BY <1>3, Zenon
  <2> QED BY <1>3, <2>1, <2>2, DeleteRule, Zenon
<1> QED BY <1>1, <1>2, <1>3, Zenon DEF Changed

\* Every remote has a family.
LEMMA FamilyIn == \A s : Family(s) \in Families
BY Zenon DEF Family, Families

\* No remote has a rule in a chain that does not exist.
LEMMA AbsentRange == \A s \in Remotes : s \notin Range(Absent)
BY RemotesAssumption DEF Range, Absent, Remotes

\* A step of the handler or the timer keeps the packet filter sound.
LEMMA RunSound ==
  ASSUME TypeInv, NEW x \in {"handler", "timer"}, NEW c, NEW out, NEW r, RunMove(x, c, out, r),
         Sound(kernel, granted, doubtful),
         c.do \in {"-I", "add"} => c.arg \in granted,
         c.do = "-I" => c.arg \in doubtful \/ c.arg \notin Range(kernel.chain[c.fam])
  PROVE  Sound(kernel', granted, doubtful')
<1>1. PICK k, k2 : k = kernel /\ k2 = kernel'
  BY Zenon
<1>2. /\ \A f \in Families : k.chain[f] \in Seq(Rules) \cup {Absent}
      /\ \A f \in Families : Changed(k.chain[f], k2.chain[f], c.do, c.arg)
      /\ c.arg \in Rules
  BY <1>1, RunChain, Zenon
<1>3. /\ c.do \in {"-C", "-I", "-D", "add", "del", "script"} /\ c.arg \in Remotes
      /\ c.do # "script" => c.fam = Family(c.arg) /\ c.fam \in Managed
      /\ c.do \in {"-C", "-I", "-D"} => cfg.backend = "iptables"
      /\ doubtful \subseteq doubtful'
  BY RunEffect, Zenon
<1>5. \A f \in Families :
        /\ \A y \in Range(k2.chain[f]) : y \in Range(k.chain[f]) \/ (c.do = "-I" /\ y = c.arg)
        /\ \A y \in Range(k.chain[f]) : y # c.arg => y \in Range(k2.chain[f])
        /\ \A y : Once(k.chain[f], y) /\ (c.do = "-I" /\ y = c.arg => c.arg \notin Range(k.chain[f]))
                  => Once(k2.chain[f], y)
  BY <1>2, ChangedRules
<1>6. k2.input = k.input /\ (cfg.backend # "iptables" => k2.chain = k.chain)
  BY <1>1, RunKernel, Zenon
<1>7. Managed \subseteq Families /\ c.arg # "drop"
  BY <1>3, NoRules, Zenon DEF TypeInv, Configs, Managed, Families
<1>8. \A f \in Managed : /\ "drop" \in Range(k2.chain[f]) /\ k2.input[f].jump > 0
                         /\ cfg.drop => k2.input[f].drop > 0
  BY <1>1, <1>5, <1>6, <1>7, Zenon DEF Sound
<1>9. ASSUME NEW s \in Remotes, k2.member[s] > now PROVE s \in granted
  <2>1. kernel' = kernel \/ (Frame(kernel, c, kernel') /\ Result(kernel, c, kernel'))
    BY Zenon DEF RunMove
  <2>2. CASE k2.member[s] = k.member[s]
    BY <1>1, <1>9, <2>2, Zenon DEF Sound
  <2>3. CASE k2.member[s] # k.member[s]
    <3>1. s = c.arg /\ c.do \in {"add", "del"}
      BY <1>1, <1>3, <2>1, <2>3, Zenon DEF Frame, MemberDos, Result
    <3>2. c.do = "del" => k2.member[s] = 0
      BY <1>1, <2>1, <2>3, <3>1, Zenon DEF Result
    <3>3. c.do = "add"
      BY <1>9, <3>1, <3>2 DEF TypeInv
    <3> QED BY <3>1, <3>3, Zenon
  <2> QED BY <2>2, <2>3, Zenon
<1>10. ASSUME NEW s \in Remotes, s \in Range(k2.chain[Family(s)]) PROVE s \in granted
  BY <1>1, <1>5, <1>10, FamilyIn, Zenon DEF Sound
<1>11. ASSUME NEW s \in Remotes \ doubtful' PROVE Once(k2.chain[Family(s)], s)
  <2>1. s \notin doubtful /\ Family(s) \in Families /\ Once(k.chain[Family(s)], s)
    BY <1>1, <1>3, FamilyIn, Zenon DEF Sound
  <2>2. c.do = "-I" /\ s = c.arg => s \notin Range(k.chain[Family(s)])
    BY <1>1, <1>3, <2>1, Zenon
  <2> QED BY <1>5, <2>1, <2>2, Zenon
<1>12. cfg.backend # "iptables" => \A f \in Families : Strings(k2.chain[f])
  BY <1>1, <1>6, Zenon DEF Sound
<1> QED BY <1>1, <1>8, <1>9, <1>10, <1>11, <1>12, Zenon DEF Sound

\* A step of an Allow accepts its own remote only.
LEMMA HandlerKeepsGrants ==
  ASSUME TypeInv, HandlerInv, TimerInv, GrantInv, NEW c, NEW out, NEW r,
         RunMove("handler", c, out, r), phase = "serving"
  PROVE  /\ Sound(kernel', granted, doubtful')
         /\ Allowing(r, kernel', granted, doubtful')
         /\ Revoking(r, calls["timer"], kernel', doubtful')
<1>1. PICK h, t : h = calls["handler"] /\ t = calls["timer"]
  BY Zenon
<1>2. /\ c.arg = h.remote /\ h.op # "none" /\ h.todo # <<>> /\ c = Head(h.todo)
      /\ r.op = h.op /\ r.remote = h.remote
      /\ \/ r.todo = <<>>
         \/ c.do = "-C" /\ out # "ok" /\ r.todo = <<Cmd("must", "-I", Family(h.remote), h.remote)>>
      /\ c.do \in {"-C", "-I", "add", "script"}
  BY <1>1, Zenon DEF RunMove
<1>3. h.op = "allow"
  BY <1>1, <1>2, Zenon DEF HandlerInv
<1>4. /\ c.arg \in Remotes /\ (c.do # "script" => c.fam = Family(c.arg) /\ c.fam \in Managed)
      /\ c.do \in {"-C", "script"} => kernel' = kernel
      /\ c.do \in {"add", "del"} => kernel'.chain = kernel.chain
      /\ c.do \in {"-I", "-D"} => kernel'.member = kernel.member
      /\ doubtful \subseteq doubtful'
  BY RunEffect, Zenon
<1>5. /\ Sound(kernel, granted, doubtful) /\ Allowing(h, kernel, granted, doubtful)
      /\ Revoking(h, t, kernel, doubtful)
  BY <1>1, Zenon DEF GrantInv
<1>6. /\ c.arg \in granted
      /\ c.do = "-I" => c.arg \in doubtful \/ c.arg \notin Range(kernel.chain[c.fam])
  BY <1>2, <1>3, <1>4, <1>5, Zenon DEF Allowing
<1>7. Sound(kernel', granted, doubtful')
  BY <1>5, <1>6, RunSound, Zenon
<1>8. Allowing(r, kernel', granted, doubtful')
  <2>1. CASE r.todo = <<>>
    BY <1>2, <1>6, <2>1, Zenon DEF Allowing
  <2>2. CASE c.do = "-C" /\ out # "ok"
    <3>1. kernel' = kernel /\ c.fam = Family(c.arg)
      BY <1>4, <2>2, Zenon
    <3>2. c.arg \in doubtful' \/ c.arg \notin Range(kernel.chain[c.fam])
      <4>1. kernel.chain[c.fam] = Absent \/ c.arg \notin Range(kernel.chain[c.fam]) \/ c.arg \in doubtful'
        BY <2>2, Zenon DEF RunMove
      <4> QED BY <1>4, <4>1, AbsentRange, Zenon
    <3> QED BY <1>2, <1>6, <3>1, <3>2, Zenon DEF Allowing
  <2> QED BY <1>2, <2>1, <2>2, Zenon
<1>9. Revoking(r, t, kernel', doubtful')
  <2>1. SUFFICES ASSUME t.op = "revoke", t.since
                 PROVE  /\ r.remote # t.remote
                        /\ t.todo = <<>> /\ ~t.err /\ t.remote \notin doubtful' /\ Family(t.remote) \in Managed =>
                             /\ t.remote \notin Range(kernel'.chain[Family(t.remote)])
                             /\ kernel'.member[t.remote] <= now
    BY Zenon DEF Revoking
  <2>2. r.remote # t.remote /\ t.remote \in Remotes
    BY <1>1, <1>2, <1>5, <2>1, Zenon DEF Revoking, TimerInv
  <2>3. SUFFICES ASSUME t.todo = <<>>, ~t.err, t.remote \notin doubtful', Family(t.remote) \in Managed
                 PROVE  /\ t.remote \notin Range(kernel'.chain[Family(t.remote)])
                        /\ kernel'.member[t.remote] <= now
    BY <2>2, Zenon
  <2>4. /\ t.remote \notin Range(kernel.chain[Family(t.remote)])
        /\ kernel.member[t.remote] <= now
    BY <1>4, <1>5, <2>1, <2>3, Zenon DEF Revoking
  <2>5. t.remote # c.arg /\ Family(t.remote) \in Families
    BY <1>2, <2>2, FamilyIn, Zenon
  <2>6. kernel'.member[t.remote] = kernel.member[t.remote]
    BY <2>2, <2>5, RunKernel, Zenon
  <2>7. Changed(kernel.chain[Family(t.remote)], kernel'.chain[Family(t.remote)], c.do, c.arg)
    BY <2>5, RunChain, Zenon
  <2>8. t.remote \notin Range(kernel'.chain[Family(t.remote)])
    BY <2>4, <2>5, <2>7, RunChain, ChangedRules
  <2> QED BY <2>4, <2>6, <2>8, Zenon
<1> QED BY <1>1, <1>7, <1>8, <1>9, Zenon

\* Only a backend that manages no family runs a script.
LEMMA TimerScript ==
  ASSUME TypeInv, TimerInv, NEW c, NEW out, NEW r, RunMove("timer", c, out, r), c.do = "script"
  PROVE  Managed = {}
<1>1. PICK t : t = calls["timer"]
  BY Zenon
<1>2. t.todo = Revoke(t.remote) /\ Head(t.todo).do = "script" /\ cfg \in Configs
  BY <1>1, Zenon DEF TimerInv, RunMove, TypeInv
<1>3. \A k, do, f, a : Head(<<Cmd(k, do, f, a)>>).do = do
  BY DEF Cmd
<1>4. cfg.backend \notin {"nftables", "ipset-iptables", "iptables"}
  BY <1>2, <1>3, AllowForms
<1> QED BY <1>2, <1>4, Zenon DEF Managed, Configs, Backends

\* A step of a Revoke removes the access of its remote, unless an Allow overtook it.
LEMMA TimerKeepsGrants ==
  ASSUME TypeInv, HandlerInv, TimerInv, KernelInv, GrantInv, NEW c, NEW out, NEW r,
         RunMove("timer", c, out, r), phase = "serving"
  PROVE  /\ Sound(kernel', granted, doubtful')
         /\ Allowing(calls["handler"], kernel', granted, doubtful')
         /\ Revoking(calls["handler"], r, kernel', doubtful')
<1>1. PICK h, t : h = calls["handler"] /\ t = calls["timer"]
  BY Zenon
<1>2. /\ c.arg = t.remote /\ r.op = t.op /\ r.remote = t.remote /\ r.since = t.since
      /\ r.todo = <<>> /\ c.do \in {"-D", "del", "script"} /\ (~r.err => out # "error")
      /\ out \in {"ok", "error", "missing"}
  BY <1>1, Zenon DEF RunMove, Ran
<1>3. /\ c.arg \in Remotes /\ (c.do # "script" => c.fam = Family(c.arg) /\ c.fam \in Managed)
      /\ doubtful' = doubtful /\ (c.do = "-D" => cfg.backend = "iptables")
      /\ c.do = "-D" => kernel'.member = kernel.member
      /\ c.do = "del" => kernel'.chain = kernel.chain
  BY <1>2, RunEffect, Zenon
<1>4. /\ Sound(kernel, granted, doubtful) /\ Allowing(h, kernel, granted, doubtful)
      /\ Revoking(h, t, kernel, doubtful)
  BY <1>1, Zenon DEF GrantInv
<1>5. Sound(kernel', granted, doubtful')
  BY <1>2, <1>4, RunSound, Zenon
<1>6. Allowing(h, kernel', granted, doubtful')
  <2>1. \A f \in Families : \A y \in Range(kernel'.chain[f]) : y \in Range(kernel.chain[f])
    <3>1. \A f \in Families : Changed(kernel.chain[f], kernel'.chain[f], c.do, c.arg)
      BY RunChain, Zenon
    <3> QED BY <1>2, <3>1, RunChain, ChangedRules
  <2> QED BY <1>3, <1>4, <2>1, FamilyIn, Zenon DEF Allowing
<1>7. Revoking(h, r, kernel', doubtful')
  <2>1. SUFFICES ASSUME t.op = "revoke", t.since, ~r.err, t.remote \notin doubtful, Family(t.remote) \in Managed
                 PROVE  /\ t.remote \notin Range(kernel'.chain[Family(t.remote)])
                        /\ kernel'.member[t.remote] <= now
    BY <1>2, <1>3, <1>4, Zenon DEF Revoking
  <2>2. c.do # "script" /\ c.fam = Family(c.arg) /\ c.fam \in Families
    BY <1>2, <1>3, <2>1, TimerScript, FamilyIn, Zenon
  <2>3. /\ out = "missing" => kernel' = kernel /\ Lacks(kernel, c)
        /\ out = "ok" => Result(kernel, c, kernel')
        /\ out \in {"ok", "missing"}
    BY <1>2, <2>1, Zenon DEF RunMove, Ran
  <2>4. now \in Nat
    BY Zenon DEF TypeInv
  <2>5. CASE c.do = "del"
    <3>1. kernel'.member[c.arg] <= now
      BY <2>3, <2>4, <2>5 DEF Lacks, Result
    <3>2. cfg.backend # "iptables"
      BY <2>5, Zenon DEF RunMove, RunCmds
    <3>3. Strings(kernel.chain[c.fam])
      BY <1>4, <2>2, <3>2, Zenon DEF Sound
    <3>4. c.arg \notin Range(kernel.chain[c.fam])
      <4>1. kernel.chain[c.fam] \in Seq(Rules) \cup {Absent}
        BY <2>2, RunChain, Zenon
      <4>2. CASE kernel.chain[c.fam] = Absent
        BY <1>3, <4>2, AbsentRange, Zenon
      <4>3. CASE kernel.chain[c.fam] \in Seq(Rules)
        BY <1>3, <3>3, <4>3 DEF Strings, Range
      <4> QED BY <4>1, <4>2, <4>3, Zenon
    <3> QED BY <1>2, <1>3, <2>2, <2>5, <3>1, <3>4
  <2>6. CASE c.do = "-D"
    <3>1. kernel.member[c.arg] = 0
      BY <1>3, <2>2, <2>6, Zenon DEF KernelInv
    <3>2. CASE out = "missing"
      BY <1>2, <1>3, <2>2, <2>3, <2>4, <2>6, <3>1, <3>2, AbsentRange DEF Lacks
    <3>3. CASE out = "ok"
      <4>1. PICK e \in 1..Len(kernel.chain[c.fam]) :
              kernel.chain[c.fam][e] = c.arg /\ kernel'.chain[c.fam] = Deleted(kernel.chain[c.fam], e)
        BY <2>6, <3>3, RunChain
      <4>2. kernel.chain[c.fam] # Absent
        BY <2>3, <2>6, <3>3 DEF Result
      <4>3. kernel.chain[c.fam] \in Seq(Rules)
        BY <2>2, <4>2, RunChain, Zenon
      <4>4. Once(kernel.chain[c.fam], c.arg)
        BY <1>2, <1>3, <1>4, <2>1, <2>2 DEF Sound
      <4>5. c.arg \notin Range(kernel'.chain[c.fam])
        BY <4>1, <4>3, <4>4, DeleteRule
      <4> QED BY <1>2, <1>3, <2>2, <2>4, <2>6, <3>1, <4>5
    <3> QED BY <2>3, <3>2, <3>3, Zenon
  <2> QED BY <1>2, <2>2, <2>5, <2>6, Zenon
<1> QED BY <1>1, <1>5, <1>6, <1>7, Zenon

\* ttlSeconds rounds AllowTTL down to whole seconds, and up to one.
LEMMA WholeSeconds ==
  ttlSeconds * PerSecond <= TTL \/ ttlSeconds * PerSecond <= PerSecond
<1>1. PICK a, b : a = TTL /\ b = PerSecond
  BY Zenon
<1>2. a \in Nat /\ b \in Nat /\ b > 0
  BY <1>1, FirewallAssumption
<1>3. CASE a < b
  BY <1>1, <1>2, <1>3 DEF ttlSeconds
<1>4. CASE ~(a < b)
  <2>1. PICK q, m : q = a \div b /\ m = a % b
    BY Zenon
  <2>2. q \in Int /\ m \in Int /\ 0 <= m /\ a = b * q + m
    BY <1>2, <2>1
  <2>3. q * b <= a
    BY <1>2, <2>2
  <2> QED BY <1>1, <1>4, <2>1, <2>3, Zenon DEF ttlSeconds
<1> QED BY <1>3, <1>4, Zenon

\* A step of the handler or the timer keeps the access invariant.
LEMMA RunKeepsAccess ==
  ASSUME FirewallInv, AccessInv, NEW x \in {"handler", "timer"}, NEW c, NEW out, NEW r,
         RunMove(x, c, out, r)
  PROVE  AccessInv'
<1>1. TypeInv /\ HandlerInv /\ TimerInv /\ KernelInv /\ GrantInv /\ LifetimeInv
  BY Zenon DEF FirewallInv, AccessInv
<1>2. /\ calls'[x] = r /\ (\A y \in Procs : y # x => calls'[y] = calls[y])
      /\ UNCHANGED <<now, cfg, phase, granted>>
  BY <1>1, RunCall, Zenon
<1>3. Managed' = Managed
  BY <1>2, CfgKept, Zenon
<1>4. phase # "init"
  BY <1>1, Zenon DEF RunMove, HandlerInv, TimerInv
<1>5. InitInv'
  BY <1>2, <1>4, Zenon DEF InitInv
<1>6. GrantInv'
  <2>1. CASE phase # "serving"
    BY <1>2, <2>1, Zenon DEF GrantInv
  <2>2. CASE phase = "serving" /\ x = "handler"
    <3>1. calls'["handler"] = r /\ calls'["timer"] = calls["timer"]
      BY <1>2, <2>2, Zenon DEF Procs
    <3>2. /\ Sound(kernel', granted, doubtful')
          /\ Allowing(r, kernel', granted, doubtful')
          /\ Revoking(r, calls["timer"], kernel', doubtful')
      BY <1>1, <2>2, HandlerKeepsGrants, Zenon
    <3> QED BY <1>2, <1>3, <3>1, <3>2, Zenon DEF GrantInv, Sound, Allowing, Revoking
  <2>3. CASE phase = "serving" /\ x = "timer"
    <3>1. calls'["timer"] = r /\ calls'["handler"] = calls["handler"]
      BY <1>2, <2>3, Zenon DEF Procs
    <3>2. /\ Sound(kernel', granted, doubtful')
          /\ Allowing(calls["handler"], kernel', granted, doubtful')
          /\ Revoking(calls["handler"], r, kernel', doubtful')
      BY <1>1, <2>3, TimerKeepsGrants
    <3> QED BY <1>2, <1>3, <3>1, <3>2, Zenon DEF GrantInv, Sound, Allowing, Revoking
  <2> QED BY <2>1, <2>2, <2>3, Zenon
<1>7. LifetimeInv'
  <2>1. kernel' = kernel \/ (Frame(kernel, c, kernel') /\ Result(kernel, c, kernel'))
    BY Zenon DEF RunMove
  <2>2. ASSUME NEW s \in Remotes
        PROVE  kernel'.member[s] <= now + TTL \/ kernel'.member[s] <= now + PerSecond
    <3>1. CASE kernel'.member[s] = kernel.member[s]
      BY <1>1, <3>1, Zenon DEF LifetimeInv
    <3>2. CASE kernel'.member[s] # kernel.member[s]
      <4>1. kernel'.member[s] = 0 \/ kernel'.member[s] = now + ttlSeconds * PerSecond
        BY <1>1, <3>2, RunMembers, Zenon
      <4>2. PICK n \in Nat : n = ttlSeconds * PerSecond
        BY TicksPositive, Zenon
      <4>3. now \in Nat /\ TTL \in Nat /\ PerSecond \in Nat
        BY <1>1, FirewallAssumption, Zenon DEF TypeInv
      <4>4. n <= TTL \/ n <= PerSecond
        BY <4>2, WholeSeconds, Zenon
      <4>5. PICK m : m = kernel'.member[s]
        BY Zenon
      <4>6. m = 0 \/ m = now + n
        BY <4>1, <4>2, <4>5, Zenon
      <4>7. m <= now + TTL \/ m <= now + PerSecond
        BY <4>3, <4>4, <4>6
      <4> QED BY <4>5, <4>7, Zenon
    <3> QED BY <3>1, <3>2, Zenon
  <2> QED BY <1>2, <2>2, Zenon DEF LifetimeInv
<1> QED BY <1>5, <1>6, <1>7, Zenon DEF AccessInv

\* The initial states satisfy the access invariant.
LEMMA AccessInitHolds == FirewallInit => AccessInv
<1> SUFFICES ASSUME FirewallInit PROVE AccessInv
  BY Zenon
<1>1. phase = "down" /\ kernel = Empty /\ now = 1
  BY Zenon DEF FirewallInit
<1>2. LifetimeInv
  BY <1>1, EmptyFields, FirewallAssumption DEF LifetimeInv
<1> QED BY <1>1, <1>2, Zenon DEF AccessInv, InitInv, GrantInv

\* The clock keeps the access invariant: members only expire.
LEMMA TickKeepsAccess ==
  ASSUME FirewallInv, AccessInv, Tick PROVE AccessInv'
<1>1. /\ now' = now + 1 /\ now \in Nat /\ kernel \in Kernels
      /\ UNCHANGED <<kernel, cfg, phase, calls, granted, doubtful>>
  BY Zenon DEF Tick, FirewallInv, TypeInv
<1>2. Managed' = Managed
  BY <1>1, CfgKept, Zenon
<1>3. \A s \in Remotes : kernel.member[s] \in Nat
  BY <1>1, Zenon DEF Kernels
<1>4. InitInv'
  BY <1>1, <1>2, Zenon DEF AccessInv, InitInv, Pending
<1>5. LifetimeInv'
  BY <1>1, <1>3, FirewallAssumption DEF AccessInv, LifetimeInv
<1>6. ASSUME phase = "serving" PROVE GrantInv'
  <2>1. /\ Sound(kernel, granted, doubtful)
        /\ Allowing(calls["handler"], kernel, granted, doubtful)
        /\ Revoking(calls["handler"], calls["timer"], kernel, doubtful)
    BY <1>6, Zenon DEF AccessInv, GrantInv
  <2>2. Sound(kernel, granted, doubtful)'
    BY <1>1, <1>2, <1>3, <2>1 DEF Sound
  <2>3. Allowing(calls["handler"], kernel, granted, doubtful)'
    BY <1>1, <2>1, Zenon DEF Allowing
  <2>4. calls["timer"].op = "revoke" => calls["timer"].remote \in Remotes
    BY Zenon DEF FirewallInv, TimerInv
  <2>5. Revoking(calls["handler"], calls["timer"], kernel, doubtful)'
    <3>1. PICK h, t : h = calls["handler"] /\ t = calls["timer"]
      BY Zenon
    <3>2. Revoking(h, t, kernel, doubtful) /\ (t.op = "revoke" => kernel.member[t.remote] \in Nat)
      BY <1>3, <2>1, <2>4, <3>1
    <3>3. calls'["handler"] = h /\ calls'["timer"] = t
      BY <1>1, <3>1, Zenon
    <3> QED BY <1>1, <1>2, <3>2, <3>3 DEF Revoking
  <2> QED BY <2>2, <2>3, <2>5, Zenon DEF GrantInv
<1>7. GrantInv'
  BY <1>1, <1>6, Zenon DEF GrantInv
<1> QED BY <1>4, <1>5, <1>7, Zenon DEF AccessInv

\* What is said of the packet filter stays while the filter, the clock and the
\* configuration do.
LEMMA SameFilter ==
  ASSUME UNCHANGED <<now, kernel, cfg>>
  PROVE  /\ LifetimeInv => LifetimeInv'
         /\ Managed' = Managed
         /\ \A k, g, d : Sound(k, g, d)' = Sound(k, g, d)
         /\ \A h, t, k, d : Revoking(h, t, k, d)' = Revoking(h, t, k, d)
<1>1. Managed' = Managed
  BY CfgKept, Zenon
<1>2. LifetimeInv => LifetimeInv'
  BY Zenon DEF LifetimeInv
<1>3. \A k, g, d : Sound(k, g, d)' = Sound(k, g, d)
  BY <1>1 DEF Sound
<1>4. \A h, t, k, d : Revoking(h, t, k, d)' = Revoking(h, t, k, d)
  BY <1>1 DEF Revoking
<1> QED BY <1>1, <1>2, <1>3, <1>4, Zenon

\* A new process begins an Init with everything ahead of it, whatever it finds.
LEMMA NewProcessKeepsAccess ==
  ASSUME FirewallInv, AccessInv, NewProcess PROVE AccessInv'
<1>0. TypeInv /\ KernelInv /\ LifetimeInv /\ cfg \in Configs
  BY Zenon DEF FirewallInv, AccessInv, TypeInv
<1>1. PICK q : q = InitProgram(cfg.backend)
  BY Zenon
<1>2. /\ phase' = "init" /\ UNCHANGED <<now, kernel, cfg>>
      /\ calls' = [calls EXCEPT !["life"] = Call("init", "none", q)]
  BY <1>1, Zenon DEF NewProcess
<1>3. calls'["life"].todo = q
  BY <1>0, <1>2, Zenon DEF TypeInv, Procs, Call
<1>4. Managed' = Managed /\ LifetimeInv'
  BY <1>0, <1>2, SameFilter, Zenon
<1>5. /\ cfg.backend \in Iptables => \A f \in Managed : Inserts(q, f) /\ Has(q, "-X", f, "none")
      /\ cfg.backend = "ipset-iptables" => \A f \in Managed : Has(q, "flush", f, "none")
      /\ cfg.backend = "nftables" =>
           Has(q, "delete_table", 4, "none") /\ Has(q, "table", 4, "none")
  BY <1>0, <1>1, Programs, Zenon
<1>6. ASSUME cfg.backend \in Iptables, NEW f \in Managed
      PROVE  /\ Has(q, "-I_INPUT", f, "jump") /\ (cfg.drop => Has(q, "-I_INPUT", f, "drop"))
             /\ Has(q, "-A", f, "drop") /\ Has(q, "-X", f, "none")
             /\ Has(q, "flush", f, "none") \/ \A s \in Remotes : Family(s) = f => kernel.member[s] = 0
  <2>1. CASE cfg.backend = "ipset-iptables"
    BY <1>5, <1>6, <2>1, Zenon DEF Inserts
  <2>2. CASE cfg.backend = "iptables"
    <3>1. \A s \in Remotes : kernel.member[s] = 0
      BY <1>0, <2>2, FamilyIn, Zenon DEF KernelInv
    <3> QED BY <1>5, <1>6, <3>1, Zenon DEF Inserts
  <2> QED BY <1>6, <2>1, <2>2, Zenon DEF Iptables
<1>7. InitInv'
  <2>1. \A do, f, a : Pending(do, f, a)' = Has(q, do, f, a)
    BY <1>3, Zenon DEF Pending
  <2>2. kernel' = kernel /\ cfg' = cfg
    BY <1>2, Zenon
  <2> QED BY <1>4, <1>5, <1>6, <2>1, <2>2, Zenon DEF InitInv, Iptables
<1>8. GrantInv'
  BY <1>2, Zenon DEF GrantInv
<1> QED BY <1>4, <1>7, <1>8, Zenon DEF AccessInv

\* The end of serving keeps the access invariant.
LEMMA EndKeepsAccess ==
  ASSUME AccessInv, UNCHANGED <<now, kernel, cfg>>, phase' \notin {"init", "serving"}
  PROVE  AccessInv'
BY SameFilter, Zenon DEF AccessInv, InitInv, GrantInv

\* AllowFirewall keeps the access invariant.
LEMMA AllowKeepsAccess ==
  ASSUME FirewallInv, AccessInv, NEW s \in Remotes, AllowFirewall(s) PROVE AccessInv'
<1>0. TypeInv /\ LifetimeInv /\ GrantInv /\ cfg \in Configs
  BY Zenon DEF FirewallInv, AccessInv, TypeInv
<1>1. /\ phase \in {"serving", "cleanup"} /\ granted' = granted \cup {s}
      /\ UNCHANGED <<now, kernel, cfg, phase, doubtful>>
      /\ calls' = [calls EXCEPT !["handler"] = Call("allow", s, Allow(s)),
                     !["timer"].since = @ /\ calls["timer"].remote # s]
  BY Zenon DEF AllowFirewall
<1>2. PICK h, t : h = Call("allow", s, Allow(s)) /\ t = calls["timer"]
  BY Zenon
<1>3. PICK u : u = [t EXCEPT !.since = t.since /\ t.remote # s]
  BY Zenon
<1>4. calls \in [Procs -> Calls] /\ t \in Calls
  BY <1>0, <1>2, Zenon DEF TypeInv, Procs
<1>5. calls'["handler"] = h /\ calls'["timer"] = u
  BY <1>1, <1>2, <1>3, <1>4, Zenon DEF Procs
<1>6. /\ u.op = t.op /\ u.remote = t.remote /\ u.todo = t.todo /\ u.err = t.err
      /\ u.since = (t.since /\ t.remote # s)
  BY <1>3, <1>4, Zenon DEF Calls
<1>7. h.op = "allow" /\ h.remote = s /\ h.todo = Allow(s)
  BY <1>2, Zenon DEF Call
<1>8. Allow(s) # <<>> => Head(Allow(s)).do # "-I"
  <2>1. \A k, do, f, a, q : Head(<<Cmd(k, do, f, a)>>).do = do /\ Head(<<Cmd(k, do, f, a), q>>).do = do
    BY DEF Cmd
  <2> QED BY <1>0, <2>1, AllowForms
<1>9. InitInv'
  BY <1>1, Zenon DEF InitInv
<1>10. LifetimeInv'
  BY <1>0, <1>1, SameFilter, Zenon
<1>11. ASSUME phase = "serving" PROVE GrantInv'
  <2>1. Sound(kernel, granted, doubtful) /\ Revoking(calls["handler"], t, kernel, doubtful)
    BY <1>0, <1>2, <1>11, Zenon DEF GrantInv
  <2>2. Sound(kernel, granted \cup {s}, doubtful)
    BY <2>1, Zenon DEF Sound
  <2>3. Allowing(h, kernel, granted \cup {s}, doubtful)
    BY <1>7, <1>8, Zenon DEF Allowing
  <2>4. Revoking(h, u, kernel, doubtful)
    BY <1>6, <1>7, <2>1, Zenon DEF Revoking
  <2>5. /\ Sound(kernel, granted \cup {s}, doubtful)'
        /\ Revoking(h, u, kernel, doubtful)'
    <3>1. /\ \A k, g, d : Sound(k, g, d)' = Sound(k, g, d)
          /\ \A a, b, k, d : Revoking(a, b, k, d)' = Revoking(a, b, k, d)
      BY <1>1, SameFilter, Zenon
    <3> QED BY <1>1, <2>2, <2>4, <3>1, Zenon
  <2> QED BY <1>1, <1>5, <2>3, <2>5 DEF GrantInv
<1> QED BY <1>1, <1>9, <1>10, <1>11, Zenon DEF AccessInv, GrantInv

\* RevokeFirewall keeps the access invariant.
LEMMA RevokeKeepsAccess ==
  ASSUME FirewallInv, AccessInv, NEW s \in Remotes, RevokeFirewall(s) PROVE AccessInv'
<1>0. TypeInv /\ LifetimeInv /\ GrantInv /\ cfg \in Configs
  BY Zenon DEF FirewallInv, AccessInv, TypeInv
<1>1. /\ phase \in {"serving", "cleanup"}
      /\ UNCHANGED <<now, kernel, cfg, phase, granted, doubtful>>
      /\ calls' = [calls EXCEPT !["timer"] =
                     [Call("revoke", s, Revoke(s)) EXCEPT !.since = calls["handler"].remote # s]]
  BY Zenon DEF RevokeFirewall
<1>2. PICK h, b, t : /\ h = calls["handler"] /\ b = (h.remote # s)
                     /\ t = [Call("revoke", s, Revoke(s)) EXCEPT !.since = b]
  BY Zenon
<1>3. calls'["handler"] = h /\ calls'["timer"] = t
  <2>1. calls \in [Procs -> Calls]
    BY <1>0, Zenon DEF TypeInv
  <2>2. calls' = [calls EXCEPT !["timer"] = t]
    BY <1>1, <1>2, Zenon
  <2> QED BY <1>2, <2>1, <2>2, Zenon DEF Procs
<1>4. t.op = "revoke" /\ t.remote = s /\ t.todo = Revoke(s) /\ t.since = b
  BY <1>2, Zenon DEF Call
<1>5. Revoke(s) = <<>> => Managed = {}
  <2>1. \A k, do, f, a : <<Cmd(k, do, f, a)>> # <<>>
    BY Zenon
  <2>2. Revoke(s) = <<>> => cfg.backend \notin {"nftables", "ipset-iptables", "iptables"}
    BY <1>0, <2>1, AllowForms, Zenon
  <2> QED BY <1>0, <2>2, Zenon DEF Managed, Configs, Backends
<1>6. InitInv'
  BY <1>1, Zenon DEF InitInv
<1>7. LifetimeInv'
  BY <1>0, <1>1, SameFilter, Zenon
<1>8. ASSUME phase = "serving" PROVE GrantInv'
  <2>1. Sound(kernel, granted, doubtful) /\ Allowing(h, kernel, granted, doubtful)
    BY <1>0, <1>2, <1>8, Zenon DEF GrantInv
  <2>2. Revoking(h, t, kernel, doubtful)
    BY <1>2, <1>4, <1>5, Zenon DEF Revoking
  <2>3. /\ \A k, g, d : Sound(k, g, d)' = Sound(k, g, d)
        /\ \A x, y, k, d : Revoking(x, y, k, d)' = Revoking(x, y, k, d)
    BY <1>1, SameFilter, Zenon
  <2>4. Sound(kernel, granted, doubtful)' /\ Revoking(h, t, kernel, doubtful)'
    BY <1>1, <2>1, <2>2, <2>3, Zenon
  <2> QED BY <1>1, <1>3, <2>1, <2>4 DEF GrantInv
<1> QED BY <1>1, <1>6, <1>7, <1>8 DEF AccessInv, GrantInv

\* An Init that ends without error has made a sound packet filter that accepts nobody.
LEMMA Initialised ==
  ASSUME TypeInv, KernelInv, InitInv, phase = "init", ~calls["life"].err,
         calls["life"].todo = <<>>
  PROVE  Sound(kernel, {}, {})
<1>1. \A do, f, a : ~Pending(do, f, a)
  BY DEF Pending, Has, HasAfter
<1>2. /\ cfg \in Configs /\ kernel \in Kernels /\ now \in Nat
      /\ (cfg.backend \in Iptables \/ cfg.backend = "nftables" \/ Managed = {})
      /\ (cfg.backend = "nftables" => Managed = Families)
  BY Zenon DEF TypeInv, Managed, Iptables, Configs, Backends
<1>3. \A f \in Managed : /\ "drop" \in Range(kernel.chain[f]) /\ kernel.input[f].jump > 0
                         /\ cfg.drop => kernel.input[f].drop > 0
  BY <1>1, <1>2, Zenon DEF InitInv
<1>4. \A f \in Families : Strings(kernel.chain[f])
  <2>1. \A f \in Managed : Strings(kernel.chain[f])
    BY <1>1, <1>2, Zenon DEF InitInv
  <2> QED BY <2>1, NoRules, Zenon DEF KernelInv
<1>5. \A s \in Remotes : kernel.member[s] = 0
  <2>1. \A s \in Remotes : Family(s) \in Managed => kernel.member[s] = 0
    BY <1>1, <1>2, Zenon DEF InitInv
  <2>2. \A s \in Remotes : Family(s) \notin Managed => ~kernel.made[Family(s)]
    BY FamilyIn, Zenon DEF KernelInv
  <2> QED BY <2>1, <2>2, Zenon DEF KernelInv
<1>6. ASSUME NEW s \in Remotes
      PROVE  /\ s \notin Range(kernel.chain[Family(s)]) /\ Once(kernel.chain[Family(s)], s)
             /\ ~(kernel.member[s] > now)
  <2>1. PICK ch : ch = kernel.chain[Family(s)]
    BY Zenon
  <2>2. ch \in Seq(Rules) \cup {Absent} /\ Strings(ch)
    BY <1>2, <1>4, <2>1, FamilyIn, Zenon DEF Kernels
  <2>3. s \notin Range(ch)
    <3>1. CASE ch = Absent
      BY <3>1, AbsentRange, Zenon
    <3>2. CASE ch \in Seq(Rules)
      BY <2>2, <3>2 DEF Strings, Range
    <3> QED BY <2>2, <3>1, <3>2, Zenon
  <2>4. Once(ch, s)
    BY <2>2, Zenon DEF Once, At, Strings
  <2> QED BY <1>2, <1>5, <2>1, <2>3, <2>4
<1> QED BY <1>3, <1>4, <1>6, Zenon DEF Sound

\* The return of a call keeps the access invariant: a Revoke that reports success has
\* removed the access it withdraws from granted.
LEMMA ReturnKeepsAccess ==
  ASSUME FirewallInv, AccessInv, NEW x \in Procs, Return(x) PROVE AccessInv'
<1>0. TypeInv /\ LifeInv /\ HandlerInv /\ TimerInv /\ KernelInv /\ InitInv /\ GrantInv /\ LifetimeInv
  BY Zenon DEF FirewallInv, AccessInv
<1>1. PICK c, h, t : c = calls[x] /\ h = calls["handler"] /\ t = calls["timer"]
  BY Zenon
<1>2. /\ c.op # "none" /\ c.todo = <<>> /\ calls' = [calls EXCEPT ![x] = Idle]
      /\ UNCHANGED <<now, kernel, cfg, starts, faults>>
      /\ phase' = CASE c.op = "init" /\ ~c.err -> "serving"
                    [] c.op = "cleanup" \/ (c.op = "init" /\ c.err) -> "down"
                    [] OTHER -> phase
      /\ granted' = CASE c.op = "init" -> {}
                      [] c.op = "revoke" /\ ~c.err /\ c.since /\ c.remote \notin doubtful ->
                           granted \ {c.remote}
                      [] OTHER -> granted
      /\ doubtful' = IF c.op = "init" THEN {} ELSE doubtful
  BY <1>1, Zenon DEF Return
<1>3. calls'[x] = Idle /\ \A y \in Procs : y # x => calls'[y] = calls[y]
  BY <1>0, <1>2, Zenon DEF TypeInv
<1>4. /\ LifetimeInv'
      /\ \A k, g, d : Sound(k, g, d)' = Sound(k, g, d)
      /\ \A a, b, k, d : Revoking(a, b, k, d)' = Revoking(a, b, k, d)
  BY <1>0, <1>2, SameFilter, Zenon
<1>5. Idle.op = "none" /\ Idle.remote = "none" /\ "none" \notin Remotes
  BY IdleCall, RemotesAssumption, Zenon DEF Remotes
<1>6. CASE x = "life"
  <2>1. (c.op = "init" /\ phase = "init") \/ (c.op = "cleanup" /\ phase = "cleanup")
    BY <1>0, <1>1, <1>2, <1>6, Zenon DEF LifeInv
  <2>2. CASE c.op = "init" /\ ~c.err
    <3>1. phase' = "serving" /\ granted' = {} /\ doubtful' = {} /\ phase = "init"
      <4>0. phase = "init"
        BY <2>1, <2>2, Zenon
      <4>1. phase' = "serving"
        BY <1>2, <2>2, Zenon
      <4>2. granted' = {}
        BY <1>2, <2>2, Zenon
      <4>3. doubtful' = {}
        BY <1>2, <2>2, Zenon
      <4> QED BY <4>0, <4>1, <4>2, <4>3, Zenon
    <3>2. calls'["handler"] = h /\ calls'["timer"] = t /\ h.op = "none" /\ t.op = "none"
      BY <1>0, <1>1, <1>3, <1>6, <3>1, Zenon DEF Procs, HandlerInv, TimerInv
    <3>3. Sound(kernel, {}, {})
      BY <1>0, <1>1, <1>2, <1>6, <2>2, <3>1, Initialised
    <3>4. PICK g : g = {}
      BY Zenon
    <3>5. Sound(kernel, g, g)'
      BY <1>2, <1>4, <3>3, <3>4, Zenon
    <3>6. GrantInv'
      BY <1>2, <3>1, <3>2, <3>4, <3>5 DEF GrantInv, Allowing, Revoking
    <3> QED BY <1>4, <3>1, <3>6, Zenon DEF AccessInv, InitInv
  <2>3. CASE ~(c.op = "init" /\ ~c.err)
    <3>1. phase' = "down"
      BY <1>2, <2>1, <2>3, Zenon
    <3> QED BY <1>2, <3>1, EndKeepsAccess, Zenon
  <2> QED BY <2>2, <2>3, Zenon
<1>7. CASE x # "life"
  <2>1. x \in {"handler", "timer"} /\ c.op \notin {"init", "cleanup"} /\ phase # "init"
    BY <1>0, <1>1, <1>2, <1>7, Zenon DEF Procs, HandlerInv, TimerInv
  <2>2. phase' = phase /\ doubtful' = doubtful
    BY <1>2, <2>1, Zenon
  <2>3. InitInv'
    BY <2>1, <2>2, Zenon DEF InitInv
  <2>4. ASSUME phase = "serving"
        PROVE  /\ Sound(kernel, granted, doubtful) /\ Allowing(h, kernel, granted, doubtful)
               /\ Revoking(h, t, kernel, doubtful)
    BY <1>0, <1>1, <2>4, Zenon DEF GrantInv
  <2>5. CASE phase = "serving" /\ x = "handler"
    <3>1. calls'["handler"] = Idle /\ calls'["timer"] = t /\ granted' = granted
      BY <1>0, <1>1, <1>2, <1>3, <2>5, Zenon DEF Procs, HandlerInv
    <3>2. Revoking(Idle, t, kernel, doubtful)
      <4>1. t.op = "revoke" => t.remote \in Remotes
        BY <1>0, <1>1, Zenon DEF TimerInv
      <4> QED BY <1>5, <2>4, <2>5, <4>1, Zenon DEF Revoking
    <3>3. Sound(kernel, granted, doubtful)' /\ Revoking(Idle, t, kernel, doubtful)'
      BY <1>2, <1>4, <2>2, <2>4, <2>5, <3>1, <3>2, Zenon
    <3>4. Allowing(Idle, kernel', granted', doubtful')
      BY <1>5, Zenon DEF Allowing
    <3> QED BY <1>2, <1>4, <2>2, <2>3, <3>1, <3>3, <3>4 DEF AccessInv, GrantInv
  <2>6. CASE phase = "serving" /\ x = "timer"
    <3>1. calls'["handler"] = h /\ calls'["timer"] = Idle /\ c = t
      BY <1>1, <1>3, <2>6, Zenon DEF Procs
    <3>2. Sound(kernel, granted', doubtful) /\ Allowing(h, kernel, granted', doubtful)
      <4>1. CASE c.op = "revoke" /\ ~c.err /\ c.since /\ c.remote \notin doubtful
        <5>1. granted' = granted \ {t.remote} /\ h.remote # t.remote
          BY <1>2, <2>4, <2>6, <3>1, <4>1 DEF Revoking
        <5>2. /\ t.remote \in Remotes
              /\ Family(t.remote) \in Managed =>
                   /\ t.remote \notin Range(kernel.chain[Family(t.remote)])
                   /\ kernel.member[t.remote] <= now
          BY <1>0, <1>1, <1>2, <2>4, <2>6, <3>1, <4>1 DEF Revoking, TimerInv
        <5>3. Family(t.remote) \notin Managed =>
                /\ kernel.chain[Family(t.remote)] = Absent /\ kernel.member[t.remote] = 0
          BY <1>0, <5>2, FamilyIn, Zenon DEF KernelInv
        <5>4. t.remote \notin Range(kernel.chain[Family(t.remote)])
          BY <5>2, <5>3, AbsentRange, Zenon
        <5>5. ~(kernel.member[t.remote] > now)
          <6>1. PICK n \in Nat : n = kernel.member[t.remote]
            BY <1>0, <5>2, Zenon DEF TypeInv, Kernels
          <6>2. now \in Nat
            BY <1>0, Zenon DEF TypeInv
          <6> QED BY <5>2, <5>3, <6>1, <6>2
        <5>6. Sound(kernel, granted', doubtful)
          BY <2>4, <2>6, <5>1, <5>4, <5>5 DEF Sound
        <5> QED BY <2>4, <2>6, <5>1, <5>6, Zenon DEF Allowing
      <4>2. CASE ~(c.op = "revoke" /\ ~c.err /\ c.since /\ c.remote \notin doubtful)
        <5>1. granted' = granted
          BY <1>2, <2>1, <4>2, Zenon
        <5> QED BY <2>4, <2>6, <5>1, Zenon
      <4> QED BY <4>1, <4>2, Zenon
    <3>3. Revoking(h, Idle, kernel, doubtful)
      BY <1>5, Zenon DEF Revoking
    <3>4. PICK g : g = granted'
      BY Zenon
    <3>5. Sound(kernel, g, doubtful)' /\ Revoking(h, Idle, kernel, doubtful)'
      BY <1>2, <1>4, <2>2, <3>2, <3>3, <3>4, Zenon
    <3> QED BY <1>2, <1>4, <2>2, <2>3, <3>1, <3>2, <3>4, <3>5, Zenon DEF AccessInv, GrantInv
  <2>7. CASE phase # "serving"
    BY <1>4, <2>2, <2>3, <2>7, Zenon DEF AccessInv, GrantInv
  <2> QED BY <2>1, <2>5, <2>6, <2>7, Zenon
<1> QED BY <1>6, <1>7, Zenon

\* Every step keeps the access invariant.
LEMMA AccessStepHolds ==
  ASSUME FirewallInv, AccessInv, [FirewallNext]_firewallVars PROVE AccessInv'
<1>1. CASE Tick
  BY <1>1, TickKeepsAccess, Zenon
<1>2. CASE NewProcess
  BY <1>2, NewProcessKeepsAccess, Zenon
<1>3. CASE Shutdown
  BY <1>3, EndKeepsAccess, Zenon DEF Shutdown
<1>4. CASE Crash
  BY <1>4, EndKeepsAccess, Zenon DEF Crash
<1>5. ASSUME NEW s \in Remotes, AllowFirewall(s) PROVE AccessInv'
  BY <1>5, AllowKeepsAccess, Zenon
<1>6. ASSUME NEW s \in Remotes, RevokeFirewall(s) PROVE AccessInv'
  BY <1>6, RevokeKeepsAccess, Zenon
<1>7. ASSUME NEW x \in Procs, Step(x) PROVE AccessInv'
  <2>0. TypeInv /\ LifeInv /\ HandlerInv /\ TimerInv
    BY Zenon DEF FirewallInv
  <2>1. CASE x = "life"
    <3>1. PICK c, out, r : LifeMove(c, out, r)
      BY <1>7, <2>0, <2>1, LifeStep
    <3> QED BY <3>1, LifeKeepsAccess, Zenon
  <2>2. CASE x \in {"handler", "timer"}
    <3>1. calls[x].todo # <<>>
      BY <1>7, Zenon DEF Step
    <3>2. RunHead(x, Head(calls[x].todo))
      BY <2>0, <2>2, <3>1, HandlerHead, TimerHead
    <3>3. PICK c, out, r : RunMove(x, c, out, r)
      BY <1>7, <2>0, <2>2, <3>2, RunStep
    <3> QED BY <2>2, <3>3, RunKeepsAccess, Zenon
  <2> QED BY <2>1, <2>2, Zenon DEF Procs
<1>8. ASSUME NEW x \in Procs, Return(x) PROVE AccessInv'
  BY <1>8, ReturnKeepsAccess, Zenon
<1>9. CASE UNCHANGED firewallVars
  <2>1. UNCHANGED <<kernel, cfg, phase, calls, granted, doubtful, now>>
    BY <1>9, Zenon DEF firewallVars
  <2>2. Managed' = Managed
    BY <2>1, CfgKept, Zenon
  <2>3. InitInv' /\ LifetimeInv'
    BY <2>1, <2>2 DEF AccessInv, InitInv, LifetimeInv, Pending
  <2>4. GrantInv'
    BY <2>1, <2>2 DEF AccessInv, GrantInv, Sound, Allowing, Revoking
  <2> QED BY <2>3, <2>4, Zenon DEF AccessInv
<1> QED BY <1>1, <1>2, <1>3, <1>4, <1>5, <1>6, <1>7, <1>8, <1>9 DEF FirewallNext

\* For every configuration, any clients, and any restarts and failing commands that
\* FirewallAssumption allows, a serving backend's packet filter is sound.
THEOREM AccessInvariance == FirewallSpec => []AccessInv
<1>1. FirewallInit => AccessInv
  BY AccessInitHolds, Zenon
<1>2. FirewallInv /\ AccessInv /\ [FirewallNext]_firewallVars => AccessInv'
  BY AccessStepHolds, Zenon
<1> QED BY <1>1, <1>2, FirewallInvariance, PTL DEF FirewallSpec

\* A sound packet filter lets in granted remotes only.
LEMMA OnlyGrantedEnter ==
  ASSUME FirewallInv, AccessInv PROVE OnlyAllowedEnter
<1>1. SUFFICES ASSUME phase = "serving" PROVE OnlyAllowedEnter
  BY Zenon DEF OnlyAllowedEnter
<1>2. Sound(kernel, granted, doubtful) /\ LifetimeInv /\ KernelInv /\ TypeInv
  BY <1>1, Zenon DEF AccessInv, GrantInv, FirewallInv
<1>3. ASSUME NEW r \in Remotes, Family(r) \in Managed, Enters(r) PROVE r \in granted
  <2>1. PICK ch : ch = kernel.chain[Family(r)]
    BY Zenon
  <2>2. "drop" \in Range(ch) /\ kernel.input[Family(r)].jump > 0
    BY <1>2, <1>3, <2>1, Zenon DEF Sound
  <2>3. kernel.input[Family(r)].jump \in Nat
    BY <1>2, FamilyIn, InputTypes, Zenon DEF TypeInv
  <2>4. PICK i \in DOMAIN ch : ch[i] = r \/ kernel.member[r] > now
    BY <1>3, <2>1, <2>2, <2>3 DEF Enters, Range
  <2>5. CASE ch[i] = r
    BY <1>2, <2>1, <2>4, <2>5, Zenon DEF Sound, Range
  <2>6. CASE kernel.member[r] > now
    BY <1>2, <2>6, Zenon DEF Sound
  <2> QED BY <2>4, <2>5, <2>6, Zenon
<1>4. ASSUME NEW f \in Managed PROVE (kernel.input[f].drop > 0) = cfg.drop
  <2>1. Managed \subseteq Families /\ cfg.drop \in BOOLEAN
    BY <1>2, Zenon DEF TypeInv, Configs, Managed, Families
  <2>2. cfg.drop => kernel.input[f].drop > 0
    BY <1>2, Zenon DEF Sound
  <2>3. ~cfg.drop => kernel.input[f].drop = 0
    BY <1>2, <2>1, Zenon DEF KernelInv
  <2> QED BY <2>1, <2>2, <2>3
<1> QED BY <1>2, <1>3, <1>4, Zenon DEF OnlyAllowedEnter, LifetimeInv

\* While a backend serves, a new connection gets in only from a remote that was allowed
\* and not reported as revoked, no member outlives its time, and UDP packets are dropped
\* as configured, whatever crashed and failed before.
THEOREM OnlyAllowedGetIn == FirewallSpec => []OnlyAllowedEnter
BY FirewallInvariance, AccessInvariance, OnlyGrantedEnter, PTL

\* The chain accepts a packet of r; live says whether r is a member of the set.
Lets(ch, r, live) ==
  \/ \A j \in DOMAIN ch : ch[j] # "drop"
  \/ \E i \in DOMAIN ch : /\ ch[i] = r \/ (ch[i] = "set" /\ live)
                          /\ \A j \in DOMAIN ch : ch[j] = "drop" => i < j

\* Whether a connection enters, in these terms.
LEMMA EntersLets ==
  ASSUME NEW r, NEW live \in BOOLEAN, live = (kernel.member[r] > now)
  PROVE  Enters(r) = (kernel.input[Family(r)].jump = 0 \/ Lets(kernel.chain[Family(r)], r, live))
<1>1. PICK ch : ch = kernel.chain[Family(r)]
  BY Zenon
<1>2. Enters(r) =>
        \/ kernel.input[Family(r)].jump = 0
        \/ {i \in DOMAIN ch : ch[i] = "drop"} = {}
        \/ \E i \in {i \in DOMAIN ch : ch[i] = r \/ (ch[i] = "set" /\ live)} :
             \A j \in {j \in DOMAIN ch : ch[j] = "drop"} : i < j
  BY <1>1, Zenon DEF Enters
<1>3. \/ kernel.input[Family(r)].jump = 0
      \/ {i \in DOMAIN ch : ch[i] = "drop"} = {}
      \/ \E i \in {i \in DOMAIN ch : ch[i] = r \/ (ch[i] = "set" /\ live)} :
           \A j \in {j \in DOMAIN ch : ch[j] = "drop"} : i < j
      => Enters(r)
  BY <1>1, Zenon DEF Enters
<1>4. Enters(r) \in BOOLEAN
  BY Zenon DEF Enters
<1> QED BY <1>1, <1>2, <1>3, <1>4, Zenon DEF Lets

\* A member enters where one that is none does.
LEMMA LetsMore ==
  ASSUME NEW ch, NEW r, Lets(ch, r, FALSE) PROVE Lets(ch, r, TRUE)
BY Zenon DEF Lets

\* An accepting rule in front takes no access away.
LEMMA LetsInsert ==
  ASSUME NEW ch \in Seq(Rules), NEW a \in Rules, a # "drop", NEW r, NEW live \in BOOLEAN,
         NEW d, d = <<a>> \o ch, Lets(ch, r, live) \/ r = a
  PROVE  Lets(d, r, live)
<1>1. PICK n : n = Len(ch) /\ n \in Nat
  OBVIOUS
<1>2. /\ d \in Seq(Rules) /\ Len(d) = n + 1 /\ d[1] = a
      /\ \A i \in 1..n : d[i + 1] = ch[i]
  BY <1>1, InsertRule
<1>3. DOMAIN ch = 1..n /\ DOMAIN d = 1..(n + 1)
  BY <1>1, <1>2
<1>4. \A j \in 1..(n + 1) : d[j] = "drop" => j - 1 \in 1..n /\ ch[j - 1] = "drop" /\ j > 1
  BY <1>1, <1>2
<1>5. CASE r = a
  BY <1>1, <1>2, <1>3, <1>4, <1>5 DEF Lets
<1>6. CASE \A j \in 1..n : ch[j] # "drop"
  BY <1>3, <1>4, <1>6, Zenon DEF Lets
<1>7. ASSUME NEW i \in 1..n, ch[i] = r \/ (ch[i] = "set" /\ live),
             \A j \in 1..n : ch[j] = "drop" => i < j
      PROVE  Lets(d, r, live)
  <2>0. PICK m : m = i + 1
    BY Zenon
  <2>1. m \in 1..(n + 1) /\ (d[m] = r \/ (d[m] = "set" /\ live))
    BY <1>1, <1>2, <1>7, <2>0
  <2>2. \A j \in 1..(n + 1) : d[j] = "drop" => m < j
    BY <1>1, <1>4, <1>7, <2>0
  <2>3. m \in DOMAIN d /\ \A j \in DOMAIN d : d[j] = "drop" => m < j
    BY <1>3, <2>1, <2>2, Zenon
  <2> QED BY <2>1, <2>3, Zenon DEF Lets
<1>8. Lets(ch, r, live) => \/ \A j \in 1..n : ch[j] # "drop"
                           \/ \E i \in 1..n : /\ ch[i] = r \/ (ch[i] = "set" /\ live)
                                              /\ \A j \in 1..n : ch[j] = "drop" => i < j
  BY <1>3, Zenon DEF Lets
<1> QED BY <1>5, <1>6, <1>7, <1>8, Zenon

\* Neither does the deletion of another remote's rule.
LEMMA LetsDelete ==
  ASSUME NEW ch \in Seq(Rules), NEW e \in 1..Len(ch), NEW r, NEW live \in BOOLEAN,
         ch[e] \notin {r, "set", "drop"}, NEW d, d = Deleted(ch, e), Lets(ch, r, live)
  PROVE  Lets(d, r, live)
<1>1. PICK n : n = Len(ch) /\ n \in Nat
  OBVIOUS
<1>2. /\ d \in Seq(Rules) /\ Len(d) = n - 1 /\ e \in 1..n
      /\ \A i \in 1..(n - 1) : (i < e /\ d[i] = ch[i]) \/ (i >= e /\ d[i] = ch[i + 1])
  <2>1. /\ d \in Seq(Rules) /\ Len(d) = n - 1
        /\ \A j \in 1..(e - 1) : d[j] = ch[j]
        /\ \A j \in e..(n - 1) : d[j] = ch[j + 1]
    BY <1>1, DeletedSeq, Zenon
  <2> QED BY <1>1, <2>1
<1>3. DOMAIN ch = 1..n /\ DOMAIN d = 1..(n - 1)
  BY <1>1, <1>2
<1>4. ASSUME NEW j \in 1..(n - 1), d[j] = "drop"
      PROVE  (j < e /\ ch[j] = "drop") \/ (j >= e /\ j + 1 \in 1..n /\ ch[j + 1] = "drop")
  BY <1>1, <1>2, <1>4
<1>5. CASE \A j \in 1..n : ch[j] # "drop"
  BY <1>1, <1>3, <1>4, <1>5 DEF Lets
<1>6. ASSUME NEW i \in 1..n, ch[i] = r \/ (ch[i] = "set" /\ live),
             \A j \in 1..n : ch[j] = "drop" => i < j
      PROVE  Lets(d, r, live)
  <2>1. i # e
    BY <1>6, Zenon
  <2>2. CASE i < e
    <3>1. i \in 1..(n - 1) /\ d[i] = ch[i]
      BY <1>1, <1>2, <2>2
    <3>2. \A j \in 1..(n - 1) : d[j] = "drop" => i < j
      BY <1>1, <1>2, <1>4, <1>6, <2>2
    <3> QED BY <1>3, <1>6, <3>1, <3>2, Zenon DEF Lets
  <2>3. CASE i > e
    <3>1. i - 1 \in 1..(n - 1) /\ i - 1 >= e /\ (i - 1) + 1 = i
      BY <1>1, <1>2, <2>3
    <3>2. d[i - 1] = ch[i]
      BY <1>1, <1>2, <3>1
    <3>3. \A j \in 1..(n - 1) : d[j] = "drop" => i - 1 < j
      BY <1>1, <1>2, <1>4, <1>6, <2>3
    <3> QED BY <1>3, <1>6, <3>1, <3>2, <3>3, Zenon DEF Lets
  <2> QED BY <1>1, <1>2, <2>1, <2>2, <2>3
<1>7. \/ \A j \in 1..n : ch[j] # "drop"
      \/ \E i \in 1..n : /\ ch[i] = r \/ (ch[i] = "set" /\ live)
                         /\ \A j \in 1..n : ch[j] = "drop" => i < j
  BY <1>3, Zenon DEF Lets
<1> QED BY <1>5, <1>6, <1>7, Zenon

\* Allow and Revoke take no access away but the one being revoked.
LEMMA RunKeepsEntry ==
  ASSUME TypeInv, NEW x \in {"handler", "timer"}, NEW c, NEW out, NEW r, RunMove(x, c, out, r),
         NEW s \in Remotes, Enters(s), calls["timer"].remote # s
  PROVE  Enters(s)'
<1>1. PICK k, k2, f, live, live2 :
        /\ k = kernel /\ k2 = kernel' /\ f = Family(s)
        /\ live = (k.member[s] > now) /\ live2 = (k2.member[s] > now)
  BY Zenon
<1>2. f \in Families /\ k \in Kernels /\ k2 \in Kernels /\ now \in Nat /\ now' = now
  BY <1>1, FamilyIn, RunCall, Zenon DEF TypeInv
<1>3. live \in BOOLEAN /\ live2 \in BOOLEAN
  BY <1>1
<1>4. k.input[f].jump = 0 \/ Lets(k.chain[f], s, live)
  BY <1>1, <1>3, EntersLets, Zenon
<1>5. k2.input = k.input
  BY <1>1, RunKernel, Zenon
<1>6. c.arg \in Remotes /\ (c.do \in {"-I", "-D"} => c.fam = Family(c.arg))
      /\ (x = "timer" => c.arg # s) /\ (c.do \in {"-D", "del"} => x = "timer")
  <2>1. c.arg \in Remotes /\ (c.do \in {"-I", "-D"} => c.fam = Family(c.arg))
    BY RunEffect, Zenon
  <2>2. (x = "timer" => c.arg # s) /\ (c.do \in {"-D", "del"} => x = "timer")
    BY Zenon DEF RunMove
  <2> QED BY <2>1, <2>2, Zenon
<1>7. live => live2
  <2>1. CASE k2.member[s] = k.member[s]
    BY <1>1, <2>1, Zenon
  <2>2. CASE k2.member[s] # k.member[s]
    <3>1. kernel'.member[s] # kernel.member[s]
      BY <1>1, <2>2, Zenon
    <3>2. /\ c.do \in {"add", "del"} /\ s = c.arg
          /\ c.do = "add" => kernel'.member[s] = now + ttlSeconds * PerSecond
      BY <1>1, <3>1, RunMembers, Zenon
    <3>3. k2.member[s] = now + ttlSeconds * PerSecond
      BY <1>1, <1>6, <3>2, Zenon
    <3>4. PICK n \in Nat : n = ttlSeconds * PerSecond /\ n > 0
      BY TicksPositive, Zenon
    <3>5. k2.member[s] = now + n
      BY <3>3, <3>4, Zenon
    <3>6. now + n > now
      BY <1>2, <3>4
    <3> QED BY <1>1, <3>5, <3>6, Zenon
  <2> QED BY <2>1, <2>2, Zenon
<1>8. Lets(k.chain[f], s, live) => Lets(k.chain[f], s, live2)
  BY <1>3, <1>7, LetsMore, Zenon
<1>9. Lets(k.chain[f], s, live2) => Lets(k2.chain[f], s, live2)
  <2>1. /\ k.chain[f] \in Seq(Rules) \cup {Absent} /\ c.arg \in Rules
        /\ Changed(k.chain[f], k2.chain[f], c.do, c.arg)
    BY <1>1, <1>2, RunChain, Zenon
  <2>2. c.arg # "drop" /\ c.arg # "set"
    <3>1. "drop" \notin Remotes /\ "set" \notin Remotes
      BY NoRules, Zenon
    <3> QED BY <1>6, <3>1, Zenon
  <2>3. CASE c.do = "-I" /\ k.chain[f] # Absent /\ k2.chain[f] = <<c.arg>> \o k.chain[f]
    BY <1>3, <2>1, <2>2, <2>3, LetsInsert, Zenon
  <2>4. CASE c.do = "-D" /\ k.chain[f] # Absent
             /\ \E e \in 1..Len(k.chain[f]) : k.chain[f][e] = c.arg /\ k2.chain[f] = Deleted(k.chain[f], e)
    <3>1. PICK e \in 1..Len(k.chain[f]) : k.chain[f][e] = c.arg /\ k2.chain[f] = Deleted(k.chain[f], e)
      BY <2>4, Zenon
    <3>2. c.arg \notin {s, "set", "drop"} /\ k.chain[f] \in Seq(Rules)
      BY <1>6, <2>1, <2>2, <2>4, Zenon
    <3> QED BY <1>3, <3>1, <3>2, LetsDelete
  <2>5. CASE k2.chain[f] = k.chain[f]
    BY <2>5, Zenon
  <2> QED BY <2>1, <2>3, <2>4, <2>5, Zenon DEF Changed
<1>10. k2.input[f].jump = 0 \/ Lets(k2.chain[f], s, live2)
  BY <1>4, <1>5, <1>8, <1>9
<1>11. Enters(s)'
  <2>1. PICK ch : ch = k2.chain[f]
    BY Zenon
  <2>2. \/ k2.input[f].jump = 0
        \/ {i \in DOMAIN ch : ch[i] = "drop"} = {}
        \/ \E i \in {i \in DOMAIN ch : ch[i] = s \/ (ch[i] = "set" /\ live2)} :
             \A j \in {j \in DOMAIN ch : ch[j] = "drop"} : i < j
    BY <1>10, <2>1, Zenon DEF Lets
  <2> QED BY <1>1, <1>2, <2>1, <2>2, Zenon DEF Enters
<1> QED BY <1>11, Zenon

\* No step takes an access away while a backend serves, except a Revoke for that remote
\* and the clock: renewal never leaves a gap, and commands for one remote do not touch
\* another.
THEOREM AccessIsKept == FirewallSpec => AccessKept
<1>1. ASSUME FirewallInv, [FirewallNext]_firewallVars, phase = "serving", phase' = "serving",
             now' = now, NEW s \in Remotes, Enters(s), calls["timer"].remote # s
      PROVE  Enters(s)'
  <2>1. CASE kernel' = kernel
    BY <1>1, <2>1, Zenon DEF Enters
  <2>2. ASSUME NEW x \in Procs, Step(x) PROVE Enters(s)'
    <3>0. TypeInv /\ LifeInv /\ HandlerInv /\ TimerInv
      BY <1>1, Zenon DEF FirewallInv
    <3>1. calls[x].todo # <<>>
      BY <2>2, Zenon DEF Step
    <3>2. x # "life"
      BY <1>1, <3>0, <3>1, Zenon DEF LifeInv
    <3>3. x \in {"handler", "timer"}
      BY <3>2, Zenon DEF Procs
    <3>4. RunHead(x, Head(calls[x].todo))
      BY <3>0, <3>1, <3>3, HandlerHead, TimerHead
    <3>5. PICK c, out, r : RunMove(x, c, out, r)
      BY <2>2, <3>0, <3>3, <3>4, RunStep
    <3> QED BY <1>1, <3>0, <3>3, <3>5, RunKeepsEntry
  <2>3. kernel' = kernel \/ \E x \in Procs : Step(x)
    BY <1>1, Zenon DEF FirewallNext, Tick, NewProcess, Shutdown, Crash, AllowFirewall,
                       RevokeFirewall, Return, firewallVars
  <2> QED BY <2>1, <2>2, <2>3, Zenon
<1>2. FirewallInv /\ [FirewallNext]_firewallVars =>
        [phase = "serving" /\ phase' = "serving" /\ now' = now =>
           \A r \in Remotes : Enters(r) /\ calls["timer"].remote # r => Enters(r)']_firewallVars
  BY <1>1, Zenon
<1> QED BY <1>2, FirewallInvariance, PTL DEF FirewallSpec, AccessKept

-----------------------------------------------------------------------------
\* A start of the server with a file is a start of the backend it describes, and every
\* step of the server is a step of the backend or none.
LEMMA ProxyImplements ==
  /\ ProxyInit => FirewallInit
  /\ [ProxyNext]_proxyVars => [FirewallNext]_firewallVars
BY Zenon DEF ProxyInit, ProxyNext, proxyVars, firewallVars

\* The server, configured by a file, implements the firewall backend (buildServer,
\* InitFirewall).
THEOREM ProxyRefinesFirewall == ProxySpec => FirewallSpec
<1>1. ProxyInit => FirewallInit
  BY ProxyImplements, Zenon
<1>2. [ProxyNext]_proxyVars => [FirewallNext]_firewallVars
  BY ProxyImplements, Zenon
<1> QED BY <1>1, <1>2, PTL DEF ProxySpec, FirewallSpec

\* The server that cleaned up without an error has left nothing in the packet filter.
THEOREM ProxyLeavesNothing == ProxySpec => []CleanupLeavesNothing
BY ProxyRefinesFirewall, NothingIsLeftBehind, PTL

\* While the server runs, a new connection gets to the protected port only from a
\* remote it has allowed (the server's backend is the one buildServer makes).
THEOREM ProxyAdmitsGranted == ProxySpec => []OnlyAllowedEnter
BY ProxyRefinesFirewall, OnlyAllowedGetIn, PTL

\* No step of the server takes an access away, except a Revoke for that remote.
THEOREM ProxyKeepsAccess == ProxySpec => AccessKept
BY ProxyRefinesFirewall, AccessIsKept, PTL
=============================================================================
