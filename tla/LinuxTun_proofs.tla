--------------------------- MODULE LinuxTun_proofs ---------------------------
(***************************************************************************)
(* Proofs about LinuxTun, for any set of instances and of options: the     *)
(* routing table acts as a lock between the processes that use it; and an  *)
(* instance that runs alone has its own rules while it is up, routes every *)
(* packet by them, and takes them away again.                              *)
(***************************************************************************)
EXTENDS LinuxTun, TLAPS, WellFoundedInduction

(* The kernel has one route per family in the table.                       *)
OneRoute == \A r, q \in routes : r.fam = q.fam => r = q

(* From the end of setRoute to the beginning of Close.                     *)
Keeps(i) ==
    \/ pc[i] \in {"setRules", "addRules", "up"}
    \/ pc[i] \in {"unsetRules", "delRules"} /\ after[i] = "setRules"

(* An instance that configures its link has all of its routes meanwhile.   *)
KeepsRoutes == \A i \in Instances : configured[i] /\ Keeps(i) => Missing(i) = {}

(* Types, and: routes are taken away only on the way out, and a device     *)
(* just opened is not configured.                                          *)
Typed ==
    /\ pc = [i \in Instances |-> pc[i]]
    /\ after \in [Instances -> {"failed", "setRules", "closeFile"}]
    /\ \A i \in Instances : pc[i] = "unsetRoute" => after[i] # "setRules"
    /\ \A i \in Instances : pc[i] = "opened" => configured[i] = FALSE
    /\ configured = [i \in Instances |-> configured[i]]
    /\ opt = [i \in Instances |-> opt[i]]

(* The inductive invariant.                                                *)
LockInv == Typed /\ OneRoute /\ KeepsRoutes

(* It holds while nothing is configured.                                   *)
THEOREM LockInit == Init => LockInv
<1> SUFFICES ASSUME Init PROVE LockInv  OBVIOUS
<1>1. Typed
    <2>1. \A i \in Instances : pc[i] = "down"
        BY DEF Init
    <2> QED  BY <2>1 DEF Init, Typed
<1>2. OneRoute /\ KeepsRoutes
    BY DEF Init, OneRoute, KeepsRoutes
<1> QED  BY <1>1, <1>2 DEF LockInv

(* What a step of one instance must leave alone for another to keep its    *)
(* routes.                                                                 *)
Apart(j) ==
    /\ pc'[j] = pc[j]
    /\ after'[j] = after[j]
    /\ configured'[j] = configured[j]
    /\ opt'[j] = opt[j]
    /\ Own(j) \subseteq Own(j)'

(* An instance that a step leaves alone keeps its routes.                  *)
LEMMA ApartKeeps ==
    ASSUME NEW j \in Instances, KeepsRoutes, Apart(j)
    PROVE  configured'[j] /\ Keeps(j)' => Missing(j)' = {}
BY DEF KeepsRoutes, Apart, Keeps, Missing

(* A step that removes no routes and does not take its instance into the   *)
(* part where it keeps them preserves the invariant.                       *)
LEMMA QuietStep ==
    ASSUME LockInv, NEW i \in Instances, Typed', UNCHANGED routes,
           \A j \in Instances \ {i} : Apart(j),
           configured'[i] /\ Keeps(i)' => Missing(i)' = {}
    PROVE  LockInv'
<1>1. OneRoute'
    BY DEF LockInv, OneRoute
<1>2. KeepsRoutes'
    BY ApartKeeps DEF LockInv, KeepsRoutes
<1> QED  BY <1>1, <1>2 DEF LockInv

(* Removing routes of the instance itself, on its way out, preserves it.   *)
LEMMA DropStep ==
    ASSUME LockInv, NEW i \in Instances, Typed', NEW gone \in SUBSET Own(i),
           routes' = routes \ gone,
           \A j \in Instances \ {i} : /\ pc'[j] = pc[j] /\ after'[j] = after[j]
                                      /\ configured'[j] = configured[j] /\ opt'[j] = opt[j],
           ~Keeps(i)'
    PROVE  LockInv'
<1>1. OneRoute'
    BY DEF LockInv, OneRoute
<1>2. ASSUME NEW j \in Instances \ {i} PROVE Apart(j)
    BY DEF Apart, Own
<1>3. KeepsRoutes'
    BY <1>2, ApartKeeps DEF LockInv, KeepsRoutes
<1> QED  BY <1>1, <1>3 DEF LockInv

(* Every netlink call, failure, Close and crash preserves the invariant.   *)
LEMMA LockStep == LockInv /\ [Next]_vars => LockInv'
<1> SUFFICES ASSUME LockInv, [Next]_vars PROVE LockInv'  OBVIOUS
<1>0. Typed /\ OneRoute /\ KeepsRoutes
    BY DEF LockInv
<1>1. CASE UNCHANGED vars
    BY <1>0, <1>1 DEF LockInv, Typed, OneRoute, KeepsRoutes, Keeps, Missing, Own, vars, kernel,
       local
<1>2. ASSUME NEW i \in Instances,
             \/ NewOpen(i) \/ NewNoLink(i) \/ ConfigureLink(i)
             \/ SetRoute(i) \/ SetRouteDone(i) \/ UnsetRoute(i)
             \/ UnsetRule6(i) \/ UnsetList(i) \/ UnsetDel(i) \/ UnsetDone(i)
             \/ SetRules(i) \/ AddRule(i) \/ NewDone(i)
             \/ CloseCall(i) \/ CloseFile(i) \/ Finalise(i) \/ Crash(i)
      PROVE  LockInv'
    <2>1. CASE NewOpen(i)
        <3>1. Typed'
            BY <1>0, <2>1 DEF NewOpen, Typed
        <3>2. UNCHANGED routes /\ \A j \in Instances \ {i} : Apart(j)
            BY <1>0, <2>1 DEF NewOpen, Typed, Apart, Own
        <3>3. ~Keeps(i)'
            BY <1>0, <2>1 DEF NewOpen, Typed, Keeps
        <3> QED  BY <3>1, <3>2, <3>3, QuietStep
    <2>2. CASE NewNoLink(i)
        <3>1. Typed' /\ UNCHANGED routes /\ \A j \in Instances \ {i} : Apart(j)
            BY <1>0, <2>2 DEF NewNoLink, Typed, Apart, Own, kernel, local
        <3>2. ~Keeps(i)'
            BY <1>0, <2>2 DEF NewNoLink, Typed, Keeps
        <3> QED  BY <3>1, <3>2, QuietStep
    <2>3. CASE ConfigureLink(i)
        <3>1. Typed'
            BY <1>0, <2>3 DEF ConfigureLink, Typed
        <3>2. UNCHANGED routes /\ \A j \in Instances \ {i} : Apart(j)
            BY <1>0, <2>3 DEF ConfigureLink, Typed, Apart, Own, kernel
        <3>3. ~(configured'[i] /\ Keeps(i)')
            <4>1. CASE pc' = [pc EXCEPT ![i] = "setRoute"]
                BY <1>0, <4>1 DEF Typed, Keeps
            <4>2. CASE UNCHANGED configured /\ ~configured[i]
                BY <4>2
            <4>3. CASE pc' = [pc EXCEPT ![i] = "failed"]
                BY <1>0, <4>3 DEF Typed, Keeps
            <4>4. ~configured[i]
                BY <1>0, <2>3 DEF Typed, ConfigureLink
            <4> QED  BY <2>3, <4>1, <4>2, <4>3, <4>4 DEF ConfigureLink
        <3> QED  BY <3>1, <3>2, <3>3, QuietStep
    <2>4. CASE SetRoute(i)
        <3>1. Typed' /\ ~Keeps(i)'
            BY <1>0, <2>4 DEF SetRoute, Typed, Keeps
        <3>2. OneRoute' /\ routes \subseteq routes'
            BY <1>0, <2>4 DEF SetRoute, OneRoute
        <3>3. \A j \in Instances \ {i} : Apart(j)
            BY <1>0, <2>4, <3>2 DEF SetRoute, Typed, Apart, Own
        <3> QED  BY <1>0, <3>1, <3>2, <3>3, ApartKeeps DEF LockInv, KeepsRoutes
    <2>5. CASE SetRouteDone(i)
        <3>1. Typed' /\ UNCHANGED routes /\ \A j \in Instances \ {i} : Apart(j)
            BY <1>0, <2>5 DEF SetRouteDone, Typed, Apart, Own, kernel
        <3>2. Missing(i)' = {}
            BY <2>5 DEF SetRouteDone, Missing, Own, kernel
        <3> QED  BY <3>1, <3>2, QuietStep
    <2>6. CASE UnsetRoute(i)
        <3>1. Typed' /\ ~Keeps(i)'
            BY <1>0, <2>6 DEF UnsetRoute, Typed, Keeps, local
        <3> QED  BY <1>0, <2>6, <3>1, DropStep DEF UnsetRoute, Typed, local
    <2>7. CASE UnsetRulesFails(i)
        <3>1. Typed' /\ UNCHANGED routes /\ \A j \in Instances \ {i} : Apart(j)
            BY <1>0, <2>7 DEF UnsetRulesFails, Typed, Apart, Own, kernel
        <3>2. ~Keeps(i)'
            BY <1>0, <2>7 DEF UnsetRulesFails, Typed, Keeps
        <3> QED  BY <3>1, <3>2, QuietStep
    <2>8. CASE \/ UnsetRule6(i) /\ ~UnsetRulesFails(i)
               \/ UnsetList(i) /\ ~UnsetRulesFails(i)
               \/ UnsetDel(i) /\ ~UnsetRulesFails(i)
        <3>1. /\ pc' \in {pc, [pc EXCEPT ![i] = "delRules"]}
              /\ pc[i] \in {"unsetRules", "delRules"}
              /\ UNCHANGED <<routes, opt, configured, after>>
            BY <1>0, <2>8 DEF UnsetRule6, UnsetList, Listed, UnsetDel, kernel
        <3>2. Typed' /\ \A j \in Instances \ {i} : Apart(j)
            BY <1>0, <3>1 DEF Typed, Apart, Own
        <3>3. configured'[i] /\ Keeps(i)' => Missing(i)' = {}
            BY <1>0, <3>1 DEF Typed, Keeps, KeepsRoutes, Missing, Own
        <3> QED  BY <3>1, <3>2, <3>3, QuietStep
    <2>9. CASE UnsetDone(i) \/ SetRules(i) \/ NewDone(i)
        <3>1. /\ pc' \in {[pc EXCEPT ![i] = t] : t \in {after[i], "addRules", "up"}}
              /\ UNCHANGED <<routes, opt, configured, after>>
            BY <2>9 DEF UnsetDone, SetRules, NewDone, kernel, local
        <3>2. Typed' /\ \A j \in Instances \ {i} : Apart(j)
            BY <1>0, <3>1 DEF Typed, Apart, Own
        <3>3. Keeps(i)' => Keeps(i)
            BY <1>0, <2>9 DEF UnsetDone, SetRules, NewDone, Typed, Keeps, local
        <3>4. configured'[i] /\ Keeps(i)' => Missing(i)' = {}
            BY <1>0, <3>1, <3>3 DEF KeepsRoutes, Missing, Own
        <3> QED  BY <3>1, <3>2, <3>4, QuietStep
    <2>10. CASE AddRule(i)
        <3>1. UNCHANGED <<routes, opt, configured>>
            BY <2>10 DEF AddRule
        <3>2. Typed' /\ \A j \in Instances \ {i} : Apart(j)
            BY <1>0, <2>10 DEF AddRule, Typed, Apart, Own
        <3>3. Keeps(i)' => Keeps(i)
            BY <1>0, <2>10 DEF AddRule, Typed, Keeps
        <3>4. configured'[i] /\ Keeps(i)' => Missing(i)' = {}
            BY <1>0, <3>1, <3>3 DEF KeepsRoutes, Missing, Own
        <3> QED  BY <3>1, <3>2, <3>4, QuietStep
    <2>11. CASE CloseCall(i)
        <3>1. Typed' /\ UNCHANGED routes /\ \A j \in Instances \ {i} : Apart(j)
            BY <1>0, <2>11 DEF CloseCall, Typed, Apart, Own, kernel
        <3>2. ~Keeps(i)'
            BY <1>0, <2>11 DEF CloseCall, Typed, Keeps
        <3> QED  BY <3>1, <3>2, QuietStep
    <2>12. CASE CloseFile(i) \/ Finalise(i) \/ Crash(i)
        <3>1. PICK to \in Down : DropLink(i, to)
            BY <2>12 DEF CloseFile, Finalise, Crash, Down
        <3>2. Typed' /\ ~Keeps(i)'
            BY <1>0, <3>1 DEF DropLink, Typed, Keeps, Down
        <3> QED  BY <1>0, <3>1, <3>2, DropStep DEF DropLink, Typed
    <2> QED
        BY <1>2, <2>1, <2>2, <2>3, <2>4, <2>5, <2>6, <2>7, <2>8, <2>9, <2>10, <2>11, <2>12
<1> QED  BY <1>1, <1>2 DEF Next

(* It holds of every reachable state.                                      *)
LEMMA LockInvariant == Spec => []LockInv
BY LockInit, LockStep, PTL DEF Spec

(* Two processes that configured their devices and serve them never share  *)
(* an address family of the table, for any number of processes, whatever   *)
(* netlink calls fail, and whoever crashes and starts again.               *)
THEOREM TableIsALock == Spec => []ExclusiveTable
<1>1. LockInv => ExclusiveTable
    <2> SUFFICES ASSUME LockInv, NEW i \in Instances, NEW j \in Instances, i # j,
                        Serving(i), Serving(j), NEW f \in opt[i].fams \cap opt[j].fams
                 PROVE  FALSE
        BY DEF ExclusiveTable
    <2>1. Missing(i) = {} /\ Missing(j) = {}
        BY DEF LockInv, KeepsRoutes, Keeps, Serving
    <2>2. PICK r \in routes : r.dev = i /\ r.fam = f
        BY <2>1 DEF Missing, Own
    <2>3. PICK q \in routes : q.dev = j /\ q.fam = f
        BY <2>1 DEF Missing, Own
    <2> QED  BY <2>2, <2>3 DEF LockInv, OneRoute
<1> QED  BY <1>1, LockInvariant, PTL

-----------------------------------------------------------------------------
(***************************************************************************)
(* One instance that runs alone, after any number of earlier runs that     *)
(* ended anywhere.                                                         *)
(***************************************************************************)
Elements(s) == {s[k] : k \in 1..Len(s)}

(* The rules in the range of priorities that AutoRoute uses, and those     *)
(* that an instance wants there.                                           *)
Installed == {r \in rules : r.prio \in Window}
OwnRules(i) == Elements(AutoRules(i, 4 \in opt[i].fams, 6 \in opt[i].fams))

(* Each rule that is left has an entry of its own in the list, with its    *)
(* family and its priority: a deletion may hit another rule than the one   *)
(* listed, but never more rules are left than entries.                     *)
Matched(R, T) ==
    \E f \in [R -> T] :
        /\ \A r \in R : f[r].fam = r.fam /\ f[r].prio = r.prio
        /\ \A r, s \in R : f[r] = f[s] => r = s

(* The rule with the priority that the instance remembers is its own.      *)
Mine(i) ==
    \A n \in ruleIndex6[i] \ {0} :
        \A r \in rules \cup Elements(plan[i]) : r.fam = 6 /\ r.prio = n => r = OifRule(i, n)

(* The rules at each stage of a run that is alone.                         *)
RunInv(i) ==
    /\ opt[i].auto =>
         /\ pc[i] = "delRules" => Matched(Installed, todo[i])
         /\ pc[i] = "setRules" => Installed = {}
         /\ pc[i] = "addRules" => Installed \cup Elements(plan[i]) = OwnRules(i)
         /\ pc[i] = "up" /\ configured[i] => Installed = OwnRules(i)
         /\ pc[i] \in {"closeFile", "closed"} /\ clean[i] /\ configured[i] => Installed = {}
    /\ Mine(i)

(* Types; a run that is alone has the others down; an instance that is     *)
(* down has no routes; one that has listed the rules to delete remembers   *)
(* no priority; and rules outside the range select a device to go out by.  *)
Selectors ==
    [iif : Instances \cup {"any", "lo", "notlo", "oif"}, 
     src : {"any", "unspec", "tun", "lowHalf", "highHalf"},
     dst : Instances \cup {"any", "tun"}, notdns : BOOLEAN]

RuleSet ==
    [fam : {4, 6}, prio : Nat, sel : Selectors,
     act : {Table, TableSuppress, MainSuppress, GotoNop, Nop}]

KernelInv ==
    /\ rules \subseteq RuleSet
    /\ plan \in [Instances -> Seq(RuleSet)]
    /\ \A i \in Instances : \A r \in rules \cup Elements(plan[i]) :
         r.prio \in Window \/ r.sel.iif = "oif"
    /\ todo \in [Instances -> SUBSET {r \in RuleSet : r.prio \in Window}]
    /\ ruleIndex6 = [i \in Instances |-> ruleIndex6[i]]
    /\ clean = [i \in Instances |-> clean[i]]
    /\ \A i \in Instances : pc[i] \in {"delRules", "setRules"} => ruleIndex6[i] = {}
    /\ \A i \in Instances : \A m, n \in ruleIndex6[i] : m = n
    /\ \A i \in Instances : pc[i] \in Down => Own(i) = {}
    /\ opt \in [Instances -> Options]

AloneInv ==
    /\ alone = [i \in Instances |-> alone[i]]
    /\ \A i \in Instances : alone[i] =>
         (\A k \in Instances \ {i} : pc[k] \in Down) /\ RunInv(i)

CleanInv == LockInv /\ KernelInv /\ AloneInv

(* The elements of a concatenation.                                        *)
LEMMA ElementsCat ==
    ASSUME NEW S, NEW a \in Seq(S), NEW b \in Seq(S)
    PROVE  a \o b \in Seq(S) /\ Elements(a \o b) = Elements(a) \cup Elements(b)
<1>1. a \o b \in Seq(S) /\ Len(a \o b) = Len(a) + Len(b)
    OBVIOUS
<1>2. ASSUME NEW k \in 1..Len(a \o b) PROVE (a \o b)[k] \in Elements(a) \cup Elements(b)
    <2>1. CASE k <= Len(a)
        BY <2>1 DEF Elements
    <2>2. CASE k > Len(a)
        <3>1. k - Len(a) \in 1..Len(b) /\ (a \o b)[k] = b[k - Len(a)]
            BY <1>1, <2>2
        <3> QED  BY <3>1 DEF Elements
    <2> QED  BY <2>1, <2>2
<1>3. ASSUME NEW k \in 1..Len(a) PROVE a[k] \in Elements(a \o b)
    <2>1. k \in 1..Len(a \o b) /\ (a \o b)[k] = a[k]  BY <1>1
    <2> QED  BY <2>1 DEF Elements
<1>4. ASSUME NEW k \in 1..Len(b) PROVE b[k] \in Elements(a \o b)
    <2>1. k + Len(a) \in 1..Len(a \o b) /\ (a \o b)[k + Len(a)] = b[k]  BY <1>1
    <2> QED  BY <2>1 DEF Elements
<1> QED  BY <1>1, <1>2, <1>3, <1>4 DEF Elements

(* The elements of a sequence are its head and those of its tail.          *)
LEMMA ElementsTail ==
    ASSUME NEW S, NEW s \in Seq(S), s # <<>>
    PROVE  /\ Head(s) \in S /\ Tail(s) \in Seq(S)
           /\ Elements(s) = {Head(s)} \cup Elements(Tail(s))
<1>1. Head(s) \in S /\ Tail(s) \in Seq(S) /\ Head(s) = s[1] /\ Len(s) \in Nat \ {0}
      /\ Len(Tail(s)) = Len(s) - 1
    OBVIOUS
<1>2. ASSUME NEW k \in 1..Len(s), k # 1 PROVE s[k] \in Elements(Tail(s))
    <2>1. k - 1 \in 1..Len(Tail(s)) /\ Tail(s)[k - 1] = s[k]  BY <1>1, <1>2
    <2> QED  BY <2>1 DEF Elements
<1>3. ASSUME NEW k \in 1..Len(Tail(s)) PROVE Tail(s)[k] \in Elements(s)
    <2>1. k + 1 \in 1..Len(s) /\ Tail(s)[k] = s[k + 1]  BY <1>1
    <2> QED  BY <2>1 DEF Elements
<1>4. s[1] \in Elements(s)  BY <1>1 DEF Elements
<1> QED  BY <1>1, <1>2, <1>3, <1>4 DEF Elements

(* A deletion that finds a rule of the listed family and priority takes    *)
(* one of each away.                                                       *)
LEMMA MatchedStep ==
    ASSUME NEW R, NEW T, Matched(R, T), NEW t \in T, NEW r \in R,
           r.fam = t.fam, r.prio = t.prio
    PROVE  Matched(R \ {r}, T \ {t})
<1>1. PICK f \in [R -> T] : /\ \A s \in R : f[s].fam = s.fam /\ f[s].prio = s.prio
                            /\ \A s, q \in R : f[s] = f[q] => s = q
    BY DEF Matched
<1> DEFINE g == [s \in R \ {r} |-> IF f[s] = t THEN f[r] ELSE f[s]]
<1>2. g \in [R \ {r} -> T \ {t}]  BY <1>1
<1>3. \A s \in R \ {r} : g[s].fam = s.fam /\ g[s].prio = s.prio
    <2> SUFFICES ASSUME NEW s \in R \ {r} PROVE g[s].fam = s.fam /\ g[s].prio = s.prio
        OBVIOUS
    <2>1. CASE f[s] = t
        <3>1. g[s] = f[r] /\ f[r].fam = r.fam /\ f[r].prio = r.prio  BY <1>1, <2>1
        <3>2. t.fam = s.fam /\ t.prio = s.prio  BY <1>1, <2>1
        <3> QED  BY <3>1, <3>2
    <2>2. CASE f[s] # t
        BY <1>1, <2>2
    <2> QED  BY <2>1, <2>2
<1>4. \A s, q \in R \ {r} : g[s] = g[q] => s = q
    BY <1>1
<1> QED  BY <1>2, <1>3, <1>4 DEF Matched

(* The list made of the rules themselves.                                  *)
LEMMA MatchedSelf == ASSUME NEW R PROVE Matched(R, R)
<1>1. [r \in R |-> r] \in [R -> R]  OBVIOUS
<1> QED  BY <1>1 DEF Matched

(* A set of numbers has a least one.                                       *)
LEMMA LeastNumber ==
    ASSUME NEW T \in SUBSET Nat, T # {}
    PROVE  \E n \in T : \A m \in T : n <= m
<1> DEFINE less == OpToRel(<, Nat)
<1>1. IsWellFoundedOn(less, Nat)  BY NatLessThanWellFounded
<1>2. ASSUME NEW m \in Nat, NEW n \in Nat, m < n PROVE <<m, n>> \in less
    BY <1>2 DEF OpToRel
<1> HIDE DEF less
<1>3. PICK n \in T : \A m \in T : ~(<<m, n>> \in less)
    BY <1>1, WFMin
<1>4. ASSUME NEW m \in T PROVE n <= m
    <2>1. m \in Nat /\ n \in Nat  OBVIOUS
    <2>2. ~(m < n)  BY <1>2, <1>3, <2>1, Zenon
    <2> QED  BY <2>1, <2>2
<1> QED  BY <1>4

(* The priority picked is below every positive one in use.                 *)
LEMMA NextIndexBelow ==
    ASSUME rules \subseteq RuleSet
    PROVE  /\ nextIndex6 \in Nat
           /\ \A r \in rules : r.fam = 6 /\ r.prio > 0 => nextIndex6 < r.prio
<1> DEFINE used == {r.prio : r \in {r \in rules : r.fam = 6 /\ r.prio > 0}}
                     \cup {MainPriority}
           min == CHOOSE n \in used : \A m \in used : n <= m
<1>1. used \in SUBSET Nat /\ \A n \in used : n > 0
    BY LinuxAssumption DEF RuleSet
<1>2. min \in used /\ \A m \in used : min <= m
    <2>1. \E n \in used : \A m \in used : n <= m  BY <1>1, LeastNumber
    <2> QED  BY <2>1
<1>3. nextIndex6 = min - 1  BY DEF nextIndex6
<1>4. \A r \in rules : r.fam = 6 /\ r.prio > 0 => r.prio \in used
    OBVIOUS
<1> HIDE DEF min, used
<1>5. min \in Nat /\ min > 0  BY <1>1, <1>2
<1>6. ASSUME NEW r \in rules, r.fam = 6, r.prio > 0 PROVE nextIndex6 < r.prio
    <2>1. r.prio \in Nat /\ min <= r.prio  BY <1>2, <1>4, <1>6 DEF RuleSet
    <2> QED  BY <1>3, <1>5, <2>1
<1> QED  BY <1>3, <1>5, <1>6

(* The rules of each family with AutoRoute, as sets.                       *)
Auto4(i) ==
    {Rule(4, RuleIndex, [AnyPacket EXCEPT !.dst = "tun"], Table),
     Rule(4, RuleIndex + 1, AnyPacket, TableSuppress),
     Rule(4, RuleIndex + 2, NotDNS, MainSuppress),
     Rule(4, RuleIndex + 2, [AnyPacket EXCEPT !.iif = i], GotoNop),
     Rule(4, RuleIndex + 3, [AnyPacket EXCEPT !.iif = "notlo"], Table),
     Rule(4, RuleIndex + 3, [Lo EXCEPT !.src = "unspec"], Table),
     Rule(4, RuleIndex + 3, [Lo EXCEPT !.src = "tun"], Table),
     Rule(4, RuleIndex + 10, AnyPacket, Nop)}

Auto6(i) ==
    {Rule(6, RuleIndex, AnyPacket, TableSuppress),
     Rule(6, RuleIndex + 1, NotDNS, MainSuppress),
     Rule(6, RuleIndex + 1, [AnyPacket EXCEPT !.iif = i], GotoNop),
     Rule(6, RuleIndex + 1, [Lo EXCEPT !.src = "lowHalf"], GotoNop),
     Rule(6, RuleIndex + 1, [Lo EXCEPT !.src = "highHalf"], GotoNop),
     Rule(6, RuleIndex + 2, [Lo EXCEPT !.src = "tun"], Table),
     Rule(6, RuleIndex + 3, AnyPacket, Table),
     Rule(6, RuleIndex + 10, AnyPacket, Nop)}

(* The selectors in use.                                                   *)
LEMMA SelectorsOK ==
    ASSUME NEW i \in Instances
    PROVE  /\ AnyPacket \in Selectors /\ NotDNS \in Selectors /\ Lo \in Selectors
           /\ [AnyPacket EXCEPT !.dst = "tun"] \in Selectors
           /\ [AnyPacket EXCEPT !.iif = i] \in Selectors
           /\ [AnyPacket EXCEPT !.iif = "notlo"] \in Selectors
           /\ \A s \in {"unspec", "tun", "lowHalf", "highHalf"} :
                [Lo EXCEPT !.src = s] \in Selectors
           /\ [AnyPacket EXCEPT !.iif = "oif", !.dst = i] \in Selectors
BY DEF AnyPacket, NotDNS, Lo, Selectors

(* All of them are typed and lie in the range of priorities.               *)
LEMMA AutoOK ==
    ASSUME NEW i \in Instances
    PROVE  \A r \in Auto4(i) \cup Auto6(i) : r \in RuleSet /\ r.prio \in Window
<1>1. {RuleIndex, RuleIndex + 1, RuleIndex + 2, RuleIndex + 3, RuleIndex + 10}
        \subseteq Nat \cap Window
    BY LinuxAssumption DEF Window
<1> DEFINE toTun == [AnyPacket EXCEPT !.dst = "tun"]
           emitted == [AnyPacket EXCEPT !.iif = i]
           notLo == [AnyPacket EXCEPT !.iif = "notlo"]
           from(src) == [Lo EXCEPT !.src = src]
<1>3. /\ {toTun, emitted, notLo, AnyPacket, NotDNS} \subseteq Selectors
      /\ \A src \in {"unspec", "tun", "lowHalf", "highHalf"} : from(src) \in Selectors
    BY SelectorsOK
<1>4. /\ \A r \in Auto4(i) :
           \/ r = Rule(4, RuleIndex, toTun, Table)
           \/ r = Rule(4, RuleIndex + 1, AnyPacket, TableSuppress)
           \/ r = Rule(4, RuleIndex + 2, NotDNS, MainSuppress)
           \/ r = Rule(4, RuleIndex + 2, emitted, GotoNop)
           \/ r = Rule(4, RuleIndex + 3, notLo, Table)
           \/ r = Rule(4, RuleIndex + 3, from("unspec"), Table)
           \/ r = Rule(4, RuleIndex + 3, from("tun"), Table)
           \/ r = Rule(4, RuleIndex + 10, AnyPacket, Nop)
      /\ \A r \in Auto6(i) :
           \/ r = Rule(6, RuleIndex, AnyPacket, TableSuppress)
           \/ r = Rule(6, RuleIndex + 1, NotDNS, MainSuppress)
           \/ r = Rule(6, RuleIndex + 1, emitted, GotoNop)
           \/ r = Rule(6, RuleIndex + 1, from("lowHalf"), GotoNop)
           \/ r = Rule(6, RuleIndex + 1, from("highHalf"), GotoNop)
           \/ r = Rule(6, RuleIndex + 2, from("tun"), Table)
           \/ r = Rule(6, RuleIndex + 3, AnyPacket, Table)
           \/ r = Rule(6, RuleIndex + 10, AnyPacket, Nop)
    BY Zenon DEF Auto4, Auto6
<1> HIDE DEF toTun, emitted, notLo, from
<1>5. \A r \in Auto4(i) : r \in RuleSet /\ r.prio \in Window
    BY <1>1, <1>3, <1>4 DEF Rule, RuleSet
<1>6. \A r \in Auto6(i) : r \in RuleSet /\ r.prio \in Window
    BY <1>1, <1>3, <1>4 DEF Rule, RuleSet
<1> QED  BY <1>5, <1>6

(* The elements of a list that is there on a condition.                    *)
LEMMA ElementsIf ==
    ASSUME NEW S, NEW c \in BOOLEAN, NEW s \in Seq(S)
    PROVE  /\ If(c, s) \in Seq(S)
           /\ Elements(If(c, s)) = IF c THEN Elements(s) ELSE {}
BY DEF If, Elements

(* The list of rules() holds exactly the rules of the families.            *)
LEMMA AutoElements ==
    ASSUME NEW i \in Instances, NEW p4 \in BOOLEAN, NEW p6 \in BOOLEAN
    PROVE  /\ AutoRules(i, p4, p6) \in Seq(RuleSet)
           /\ Elements(AutoRules(i, p4, p6))
                = (IF p4 THEN Auto4(i) ELSE {}) \cup (IF p6 THEN Auto6(i) ELSE {})
<1> DEFINE r1 == Rule(4, RuleIndex, [AnyPacket EXCEPT !.dst = "tun"], Table)
           r2 == Rule(4, RuleIndex + 1, AnyPacket, TableSuppress)
           r3 == Rule(4, RuleIndex + 2, NotDNS, MainSuppress)
           r4 == Rule(4, RuleIndex + 2, [AnyPacket EXCEPT !.iif = i], GotoNop)
           r5 == Rule(4, RuleIndex + 3, [AnyPacket EXCEPT !.iif = "notlo"], Table)
           r6 == Rule(4, RuleIndex + 3, [Lo EXCEPT !.src = "unspec"], Table)
           r7 == Rule(4, RuleIndex + 3, [Lo EXCEPT !.src = "tun"], Table)
           r8 == Rule(4, RuleIndex + 10, AnyPacket, Nop)
           q1 == Rule(6, RuleIndex, AnyPacket, TableSuppress)
           q2 == Rule(6, RuleIndex + 1, NotDNS, MainSuppress)
           q3 == Rule(6, RuleIndex + 1, [AnyPacket EXCEPT !.iif = i], GotoNop)
           q4 == Rule(6, RuleIndex + 1, [Lo EXCEPT !.src = "lowHalf"], GotoNop)
           q5 == Rule(6, RuleIndex + 1, [Lo EXCEPT !.src = "highHalf"], GotoNop)
           q6 == Rule(6, RuleIndex + 2, [Lo EXCEPT !.src = "tun"], Table)
           q7 == Rule(6, RuleIndex + 3, AnyPacket, Table)
           q8 == Rule(6, RuleIndex + 10, AnyPacket, Nop)
           a1 == <<r1, r2>>
           a2 == <<q1>>
           a3 == <<r3>>
           a4 == <<q2>>
           e5 == <<r4>>
           b5 == <<r5, r6, r7>>
           a5 == e5 \o b5
           e6 == <<q3>>
           b6 == <<q4, q5, q6, q7>>
           a6 == e6 \o b6
           a7 == <<r8>>
           a8 == <<q8>>
<1>0. AutoRules(i, p4, p6) = If(p4, a1) \o If(p6, a2) \o If(p4, a3) \o If(p6, a4)
                               \o If(p4, a5) \o If(p6, a6) \o If(p4, a7) \o If(p6, a8)
    BY DEF AutoRules, EmittedSkips
<1>r. Auto4(i) = {r1, r2, r3, r4, r5, r6, r7, r8} /\ Auto6(i) = {q1, q2, q3, q4, q5, q6, q7, q8}
    BY Zenon DEF Auto4, Auto6
<1> HIDE DEF r1, r2, r3, r4, r5, r6, r7, r8, q1, q2, q3, q4, q5, q6, q7, q8
<1>2. /\ a1 \in Seq(RuleSet) /\ a2 \in Seq(RuleSet) /\ a3 \in Seq(RuleSet)
      /\ a4 \in Seq(RuleSet) /\ a7 \in Seq(RuleSet) /\ a8 \in Seq(RuleSet)
      /\ e5 \in Seq(RuleSet) /\ b5 \in Seq(RuleSet)
      /\ e6 \in Seq(RuleSet) /\ b6 \in Seq(RuleSet)
    BY <1>r, AutoOK
<1>3. /\ Elements(a1) \cup Elements(a3) \cup Elements(e5) \cup Elements(b5) \cup Elements(a7)
           = Auto4(i)
      /\ Elements(a2) \cup Elements(a4) \cup Elements(e6) \cup Elements(b6) \cup Elements(a8)
           = Auto6(i)
    <2>1. Elements(a1) = {r1, r2}  BY DEF Elements
    <2>2. Elements(a3) = {r3}  BY DEF Elements
    <2>3. Elements(e5) = {r4}  BY DEF Elements
    <2>4. Elements(b5) = {r5, r6, r7}  BY DEF Elements
    <2>5. Elements(a7) = {r8}  BY DEF Elements
    <2>6. Elements(a2) = {q1}  BY DEF Elements
    <2>7. Elements(a4) = {q2}  BY DEF Elements
    <2>8. Elements(e6) = {q3}  BY DEF Elements
    <2>9. Elements(b6) = {q4, q5, q6, q7}  BY DEF Elements
    <2>10. Elements(a8) = {q8}  BY DEF Elements
    <2> HIDE DEF a1, a2, a3, a4, e5, b5, e6, b6, a7, a8
    <2> QED
        BY <1>r, <2>1, <2>2, <2>3, <2>4, <2>5, <2>6, <2>7, <2>8, <2>9, <2>10
<1> HIDE DEF a1, a2, a3, a4, e5, b5, e6, b6, a7, a8
<1>4. /\ a5 \in Seq(RuleSet) /\ Elements(a5) = Elements(e5) \cup Elements(b5)
      /\ a6 \in Seq(RuleSet) /\ Elements(a6) = Elements(e6) \cup Elements(b6)
    BY <1>2, ElementsCat
<1> HIDE DEF a5, a6
<1> DEFINE s1 == If(p4, a1)
           s2 == s1 \o If(p6, a2)
           s3 == s2 \o If(p4, a3)
           s4 == s3 \o If(p6, a4)
           s5 == s4 \o If(p4, a5)
           s6 == s5 \o If(p6, a6)
           s7 == s6 \o If(p4, a7)
           s8 == s7 \o If(p6, a8)
           On4(s) == IF p4 THEN Elements(s) ELSE {}
           On6(s) == IF p6 THEN Elements(s) ELSE {}
<1>5. s1 \in Seq(RuleSet) /\ Elements(s1) = On4(a1)
    BY <1>2, ElementsIf
<1>6. s2 \in Seq(RuleSet) /\ Elements(s2) = On4(a1) \cup On6(a2)
    <2> HIDE DEF s1, On4, On6
    <2>1. If(p6, a2) \in Seq(RuleSet) /\ Elements(If(p6, a2)) = On6(a2)
        BY <1>2, ElementsIf DEF On6
    <2> QED  BY <1>5, <2>1, ElementsCat
<1>7. s3 \in Seq(RuleSet) /\ Elements(s3) = Elements(s2) \cup On4(a3)
    <2> HIDE DEF s2, On4, On6
    <2>1. If(p4, a3) \in Seq(RuleSet) /\ Elements(If(p4, a3)) = On4(a3)
        BY <1>2, ElementsIf DEF On4
    <2> QED  BY <1>6, <2>1, ElementsCat
<1>8. s4 \in Seq(RuleSet) /\ Elements(s4) = Elements(s3) \cup On6(a4)
    <2> HIDE DEF s3, On4, On6
    <2>1. If(p6, a4) \in Seq(RuleSet) /\ Elements(If(p6, a4)) = On6(a4)
        BY <1>2, ElementsIf DEF On6
    <2> QED  BY <1>7, <2>1, ElementsCat
<1>9. s5 \in Seq(RuleSet) /\ Elements(s5) = Elements(s4) \cup On4(a5)
    <2> HIDE DEF s4, On4, On6
    <2>1. If(p4, a5) \in Seq(RuleSet) /\ Elements(If(p4, a5)) = On4(a5)
        BY <1>4, ElementsIf DEF On4
    <2> QED  BY <1>8, <2>1, ElementsCat
<1>10. s6 \in Seq(RuleSet) /\ Elements(s6) = Elements(s5) \cup On6(a6)
    <2> HIDE DEF s5, On4, On6
    <2>1. If(p6, a6) \in Seq(RuleSet) /\ Elements(If(p6, a6)) = On6(a6)
        BY <1>4, ElementsIf DEF On6
    <2> QED  BY <1>9, <2>1, ElementsCat
<1>11. s7 \in Seq(RuleSet) /\ Elements(s7) = Elements(s6) \cup On4(a7)
    <2> HIDE DEF s6, On4, On6
    <2>1. If(p4, a7) \in Seq(RuleSet) /\ Elements(If(p4, a7)) = On4(a7)
        BY <1>2, ElementsIf DEF On4
    <2> QED  BY <1>10, <2>1, ElementsCat
<1>12. s8 \in Seq(RuleSet) /\ Elements(s8) = Elements(s7) \cup On6(a8)
    <2> HIDE DEF s7, On4, On6
    <2>1. If(p6, a8) \in Seq(RuleSet) /\ Elements(If(p6, a8)) = On6(a8)
        BY <1>2, ElementsIf DEF On6
    <2> QED  BY <1>11, <2>1, ElementsCat
<1>13. AutoRules(i, p4, p6) = s8
    BY <1>0
<1>14. Elements(s8) = On4(a1) \cup On6(a2) \cup On4(a3) \cup On6(a4) \cup On4(a5) \cup On6(a6)
                        \cup On4(a7) \cup On6(a8)
    <2> HIDE DEF s2, s3, s4, s5, s6, s7, s8, On4, On6
    <2> QED  BY <1>6, <1>7, <1>8, <1>9, <1>10, <1>11, <1>12
<1> HIDE DEF s8
<1>15. Elements(s8) = (IF p4 THEN Auto4(i) ELSE {}) \cup (IF p6 THEN Auto6(i) ELSE {})
    BY <1>3, <1>4, <1>14
<1> QED  BY <1>12, <1>13, <1>15

(* The rules that an instance with these families wants.                   *)
LEMMA OwnElements ==
    ASSUME NEW i \in Instances, NEW F
    PROVE  LET own == AutoRules(i, 4 \in F, 6 \in F) IN
           /\ own \in Seq(RuleSet)
           /\ Elements(own) = {r \in Auto4(i) : 4 \in F} \cup {r \in Auto6(i) : 6 \in F}
<1> DEFINE own == AutoRules(i, 4 \in F, 6 \in F)
<1>1. (4 \in F) \in BOOLEAN /\ (6 \in F) \in BOOLEAN
    OBVIOUS
<1>2. /\ own \in Seq(RuleSet)
      /\ Elements(own) = (IF 4 \in F THEN Auto4(i) ELSE {}) \cup (IF 6 \in F THEN Auto6(i) ELSE {})
    BY <1>1, AutoElements, Zenon
<1> HIDE DEF own
<1>3. Elements(own) = {r \in Auto4(i) : 4 \in F} \cup {r \in Auto6(i) : 6 \in F}
    BY <1>2
<1> QED  BY <1>2, <1>3 DEF own

(* Nothing is installed before anything ran.                               *)
LEMMA CleanInit == Init => CleanInv
<1> SUFFICES ASSUME Init PROVE CleanInv  OBVIOUS
<1>1. LockInv  BY LockInit
<1>2. \A i \in Instances : Elements(plan[i]) = {} /\ Own(i) = {} /\ ~alone[i]
    BY DEF Init, Elements, Own
<1>3. KernelInv
    <2>1. plan \in [Instances -> Seq(RuleSet)]  BY DEF Init
    <2> QED  BY <1>2, <2>1 DEF Init, KernelInv
<1>4. AloneInv  BY <1>2 DEF Init, AloneInv
<1> QED  BY <1>1, <1>3, <1>4 DEF CleanInv

Step(i) ==
    \/ NewOpen(i) \/ NewNoLink(i) \/ ConfigureLink(i)
    \/ SetRoute(i) \/ SetRouteDone(i) \/ UnsetRoute(i)
    \/ UnsetRule6(i) \/ UnsetList(i) \/ UnsetDel(i) \/ UnsetDone(i)
    \/ SetRules(i) \/ AddRule(i) \/ NewDone(i)
    \/ CloseCall(i) \/ CloseFile(i) \/ Finalise(i) \/ Crash(i)

(* What a step of an instance leaves of the others: their states and, if   *)
(* one of them is opened, nobody else has been alone.                      *)
LEMMA OneMoves ==
    ASSUME CleanInv, NEW i \in Instances, Step(i)
    PROVE  /\ \A k \in Instances \ {i} :
                /\ pc'[k] = pc[k] /\ plan'[k] = plan[k] /\ todo'[k] = todo[k]
                /\ ruleIndex6'[k] = ruleIndex6[k] /\ opt'[k] = opt[k]
                /\ Own(k)' = Own(k) /\ ~alone'[k]
           /\ alone' = [k \in Instances |-> alone'[k]]
           /\ alone'[i] => \A k \in Instances \ {i} : pc'[k] \in Down
           /\ UNCHANGED alone \/ NewOpen(i)
<1>0. Typed /\ KernelInv /\ AloneInv  BY DEF CleanInv, LockInv
<1>1. CASE NewOpen(i)
    BY <1>0, <1>1 DEF NewOpen, Typed, KernelInv, Own
<1>2. ASSUME ~NewOpen(i)
      PROVE  pc[i] \notin Down /\ UNCHANGED alone
    BY <1>2 DEF Step, NewNoLink, ConfigureLink, SetRoute, SetRouteDone, UnsetRoute, UnsetRule6,
       UnsetList, Listed, UnsetDel, UnsetRulesFails, UnsetDone, SetRules, AddRule, NewDone,
       CloseCall, CloseFile, Finalise, Crash, DropLink, Down, history
<1>3. CASE ~NewOpen(i)
    <2>1. \A k \in Instances \ {i} : ~alone[k]
        BY <1>0, <1>2, <1>3 DEF AloneInv
    <2>2. \A k \in Instances \ {i} : pc'[k] = pc[k]
        BY <1>0, <1>3 DEF Step, NewNoLink, ConfigureLink, SetRoute, SetRouteDone, UnsetRoute,
           UnsetRule6, UnsetList, Listed, UnsetDel, UnsetRulesFails, UnsetDone, SetRules,
           AddRule, NewDone, CloseCall, CloseFile, Finalise, Crash, DropLink, Typed
    <2>3. \A k \in Instances \ {i} : Own(k)' = Own(k)
        BY <1>3 DEF Step, NewNoLink, ConfigureLink, SetRoute, SetRouteDone, UnsetRoute,
           UnsetRule6, UnsetList, Listed, UnsetDel, UnsetRulesFails, UnsetDone, SetRules,
           AddRule, NewDone, CloseCall, CloseFile, Finalise, Crash, DropLink, Own, kernel
    <2>4. \A k \in Instances \ {i} :
            /\ plan'[k] = plan[k] /\ todo'[k] = todo[k]
            /\ ruleIndex6'[k] = ruleIndex6[k] /\ opt'[k] = opt[k]
        BY <1>0, <1>3 DEF Step, NewNoLink, ConfigureLink, SetRoute, SetRouteDone, UnsetRoute,
           UnsetRule6, UnsetList, Listed, UnsetDel, UnsetRulesFails, UnsetDone, SetRules,
           AddRule, NewDone, CloseCall, CloseFile, Finalise, Crash, DropLink, Typed, KernelInv,
           local
    <2> QED  BY <1>0, <1>2, <1>3, <2>1, <2>2, <2>3, <2>4 DEF AloneInv
<1> QED  BY <1>1, <1>3

(* A rule in the range, or one that selects a device to go out by.         *)
Known(r) == r \in RuleSet /\ (r.prio \in Window \/ r.sel.iif = "oif")

(* The list that setRules makes.                                           *)
LEMMA PlanOK ==
    ASSUME CleanInv, NEW i \in Instances, SetRules(i)
    PROVE  /\ plan'[i] \in Seq(RuleSet) /\ \A r \in Elements(plan'[i]) : Known(r)
           /\ plan' = [plan EXCEPT ![i] = plan'[i]]
           /\ opt[i].auto => plan'[i] = AutoRules(i, 4 \in opt[i].fams, 6 \in opt[i].fams)
           /\ ~opt[i].auto => Elements(plan'[i]) \subseteq {OifRule(i, nextIndex6)}
<1>0. KernelInv  BY DEF CleanInv
<1>1. CASE opt[i].auto
    <2> DEFINE own == AutoRules(i, 4 \in opt[i].fams, 6 \in opt[i].fams)
    <2>1. plan' = [plan EXCEPT ![i] = own]
        BY <1>1 DEF SetRules
    <2>2. /\ own \in Seq(RuleSet)
          /\ Elements(own) = {r \in Auto4(i) : 4 \in opt[i].fams}
                              \cup {r \in Auto6(i) : 6 \in opt[i].fams}
        BY OwnElements, Zenon
    <2> HIDE DEF own
    <2>3. plan'[i] = own /\ plan' = [plan EXCEPT ![i] = plan'[i]]
        BY <1>0, <2>1 DEF KernelInv
    <2>4. \A r \in Elements(own) : Known(r)  BY <2>2, AutoOK DEF Known
    <2> QED  BY <1>1, <2>1, <2>2, <2>3, <2>4 DEF own
<1>2. CASE ~opt[i].auto /\ 6 \notin opt[i].fams
    <2>1. plan' = [plan EXCEPT ![i] = <<>>]  BY <1>2 DEF SetRules
    <2>2. plan'[i] = <<>> /\ plan' = [plan EXCEPT ![i] = plan'[i]]
        BY <1>0, <2>1 DEF KernelInv
    <2>3. Elements(<<>>) = {} /\ <<>> \in Seq(RuleSet)  BY DEF Elements
    <2> QED  BY <1>2, <2>2, <2>3
<1>3. CASE ~opt[i].auto /\ 6 \in opt[i].fams
    <2> DEFINE r == OifRule(i, nextIndex6)
    <2>1. plan' = [plan EXCEPT ![i] = <<r>>]  BY <1>3 DEF SetRules
    <2>2. plan'[i] = <<r>> /\ plan' = [plan EXCEPT ![i] = plan'[i]]
        BY <1>0, <2>1 DEF KernelInv
    <2>3. nextIndex6 \in Nat  BY <1>0, NextIndexBelow DEF KernelInv
    <2>4. r \in RuleSet /\ r.sel.iif = "oif"
        BY <2>3 DEF OifRule, Rule, RuleSet, AnyPacket, Selectors
    <2> HIDE DEF r
    <2>6. Elements(<<r>>) = {r}  BY DEF Elements
    <2>7. \A q \in Elements(<<r>>) : Known(q)  BY <2>4, <2>6 DEF Known
    <2>8. <<r>> \in Seq(RuleSet)  BY <2>4
    <2> QED  BY <1>3, <2>2, <2>6, <2>7, <2>8 DEF r
<1> QED  BY <1>1, <1>2, <1>3

(* The steps that add no rule and plan none.                               *)
LEMMA OnlyLess ==
    ASSUME CleanInv, NEW i \in Instances, Step(i), ~SetRules(i), ~AddRule(i)
    PROVE  rules' \subseteq rules /\ plan' \in {plan, [plan EXCEPT ![i] = <<>>]}
BY DEF Step, NewOpen, NewNoLink, ConfigureLink, SetRoute, SetRouteDone, UnsetRoute,
       UnsetRule6, RuleDel, UnsetList, Listed, UnsetDel, UnsetRulesFails, UnsetDone, 
       NewDone, CloseCall, CloseFile, Finalise, Crash, DropLink, kernel, local

(* Rules and plans stay typed.                                             *)
LEMMA RulesKnown ==
    ASSUME CleanInv, NEW i \in Instances, Step(i)
    PROVE  /\ rules' \subseteq RuleSet
           /\ plan' \in [Instances -> Seq(RuleSet)]
           /\ \A k \in Instances : \A r \in rules' \cup Elements(plan'[k]) :
                r.prio \in Window \/ r.sel.iif = "oif"
<1>0. KernelInv  BY DEF CleanInv
<1>1. /\ \A r \in rules : Known(r)
      /\ \A k \in Instances : plan[k] \in Seq(RuleSet) /\ \A r \in Elements(plan[k]) : Known(r)
    <2>1. \A k \in Instances : \A r \in Elements(plan[k]) : r \in RuleSet
        BY <1>0 DEF KernelInv, Elements
    <2> QED  BY <1>0, <2>1 DEF KernelInv, Known
<1> SUFFICES /\ \A r \in rules' : Known(r)
             /\ plan' = [plan EXCEPT ![i] = plan'[i]]
             /\ plan'[i] \in Seq(RuleSet) /\ \A r \in Elements(plan'[i]) : Known(r)
    <2> SUFFICES ASSUME /\ \A r \in rules' : Known(r)
                        /\ plan' = [plan EXCEPT ![i] = plan'[i]]
                        /\ plan'[i] \in Seq(RuleSet)
                        /\ \A r \in Elements(plan'[i]) : Known(r)
                 PROVE  /\ rules' \subseteq RuleSet
                        /\ plan' \in [Instances -> Seq(RuleSet)]
                        /\ \A k \in Instances : \A r \in rules' \cup Elements(plan'[k]) :
                             Known(r)
        BY DEF Known
    <2>1. \A k \in Instances \ {i} : plan'[k] = plan[k]
        BY <1>0 DEF KernelInv
    <2> QED  BY <1>0, <1>1, <2>1 DEF KernelInv, Known
<1>2. CASE SetRules(i)
    BY <1>1, <1>2, PlanOK DEF SetRules, kernel
<1>3. CASE AddRule(i)
    <2>1. plan[i] # <<>> /\ plan[i] \in Seq(RuleSet)  BY <1>1, <1>3 DEF AddRule
    <2>2. /\ Tail(plan[i]) \in Seq(RuleSet)
          /\ Elements(plan[i]) = {Head(plan[i])} \cup Elements(Tail(plan[i]))
        BY <2>1, ElementsTail
    <2>3. /\ rules' \subseteq rules \cup {Head(plan[i])}
          /\ \/ plan' = [plan EXCEPT ![i] = Tail(plan[i])]
             \/ plan' = [plan EXCEPT ![i] = <<>>]
        BY <1>3 DEF AddRule
    <2>4. Elements(<<>>) = {} /\ <<>> \in Seq(RuleSet)  BY DEF Elements
    <2>5. plan'[i] \in {Tail(plan[i]), <<>>} /\ plan' = [plan EXCEPT ![i] = plan'[i]]
        BY <1>0, <2>3 DEF KernelInv
    <2> QED  BY <1>1, <2>2, <2>3, <2>4, <2>5
<1>4. CASE ~SetRules(i) /\ ~AddRule(i)
    <2>1. rules' \subseteq rules /\ plan' \in {plan, [plan EXCEPT ![i] = <<>>]}
        BY <1>4, OnlyLess
    <2>2. plan'[i] \in {plan[i], <<>>} /\ plan' = [plan EXCEPT ![i] = plan'[i]]
        BY <1>0, <2>1 DEF KernelInv
    <2>3. Elements(<<>>) = {} /\ <<>> \in Seq(RuleSet)  BY DEF Elements
    <2> QED  BY <1>1, <2>1, <2>2, <2>3
<1> QED  BY <1>2, <1>3, <1>4

(* Types and what holds of every instance are kept.                        *)
LEMMA KernelStep ==
    ASSUME CleanInv, NEW i \in Instances, Step(i)
    PROVE  KernelInv'
<1>0. Typed /\ KernelInv /\ OneRoute  BY DEF CleanInv, LockInv
<1>1. /\ todo' \in [Instances -> SUBSET {r \in RuleSet : r.prio \in Window}]
      /\ ruleIndex6' = [k \in Instances |-> ruleIndex6'[k]]
      /\ clean' = [k \in Instances |-> clean'[k]]
      /\ opt' \in [Instances -> Options]
    <2> USE DEF Step, NewOpen, NewNoLink, ConfigureLink, SetRoute, SetRouteDone, UnsetRoute,
           UnsetRule6, UnsetList, Listed, UnsetDel, UnsetRulesFails, UnsetDone, SetRules, AddRule,
           NewDone, CloseCall, CloseFile, Finalise, Crash, DropLink, KernelInv, local, history
    <2>1. todo' \in [Instances -> SUBSET {r \in RuleSet : r.prio \in Window}]
        <3>1. \/ todo' = todo
              \/ todo' = [todo EXCEPT ![i] = {}]
              \/ todo' = [todo EXCEPT ![i] = {r \in rules : r.prio \in Window}]
              \/ \E r : todo' = [todo EXCEPT ![i] = @ \ {r}]
            OBVIOUS
        <3> QED  BY <1>0, <3>1
    <2>2. ruleIndex6' = [k \in Instances |-> ruleIndex6'[k]]  BY <1>0
    <2>3. clean' = [k \in Instances |-> clean'[k]]  BY <1>0
    <2>4. opt' \in [Instances -> Options]  BY <1>0
    <2> QED  BY <2>1, <2>2, <2>3, <2>4
<1>2. pc'[i] \in {"delRules", "setRules"} => ruleIndex6'[i] = {}
    <2>1. CASE UnsetRule6(i) \/ UnsetList(i) \/ UnsetDel(i) \/ UnsetDone(i) \/ SetRules(i)
        BY <1>0, <2>1 DEF UnsetRule6, UnsetList, Listed, UnsetDel, UnsetRulesFails, UnsetDone,
           SetRules, KernelInv, Typed, local
    <2>2. CASE \/ NewOpen(i) \/ NewNoLink(i) \/ ConfigureLink(i) \/ SetRoute(i)
               \/ SetRouteDone(i) \/ UnsetRoute(i) \/ AddRule(i) \/ NewDone(i)
               \/ CloseCall(i) \/ CloseFile(i) \/ Finalise(i) \/ Crash(i)
        BY <1>0, <2>2 DEF NewOpen, NewNoLink, ConfigureLink, SetRoute, SetRouteDone, UnsetRoute,
           AddRule, NewDone, CloseCall, CloseFile, Finalise, Crash, DropLink, Typed
    <2> QED  BY <2>1, <2>2 DEF Step
<1>3. \A m, n \in ruleIndex6'[i] : m = n
    <2>1. CASE SetRules(i)
        BY <1>0, <2>1 DEF SetRules, KernelInv
    <2>2. CASE ~SetRules(i)
        <3>1. ruleIndex6' \in {ruleIndex6, [ruleIndex6 EXCEPT ![i] = {}]}
            BY <1>0, <2>2 DEF Step, NewOpen, NewNoLink, ConfigureLink, SetRoute, SetRouteDone,
               UnsetRoute, UnsetRule6, UnsetList, Listed, UnsetDel, UnsetRulesFails, UnsetDone,
               AddRule, NewDone, CloseCall, CloseFile, Finalise, Crash, DropLink, local
        <3> QED  BY <1>0, <3>1 DEF KernelInv
    <2> QED  BY <2>1, <2>2
<1>4. pc'[i] \in Down => Own(i)' = {}
    <2>1. CASE CloseFile(i) \/ Finalise(i) \/ Crash(i)
        BY <2>1 DEF CloseFile, Finalise, Crash, DropLink, Own
    <2>2. CASE ~(CloseFile(i) \/ Finalise(i) \/ Crash(i))
        <3>1. pc'[i] \notin Down
            BY <1>0, <2>2 DEF Step, NewOpen, NewNoLink, ConfigureLink, SetRoute, SetRouteDone,
               UnsetRoute, UnsetRule6, UnsetList, Listed, UnsetDel, UnsetRulesFails, UnsetDone,
               SetRules, AddRule, NewDone, CloseCall, Down, Typed
        <3> QED  BY <3>1
    <2> QED  BY <2>1, <2>2
<1>5. \A k \in Instances \ {i} :
        /\ pc'[k] = pc[k] /\ ruleIndex6'[k] = ruleIndex6[k] /\ Own(k)' = Own(k)
    BY OneMoves
<1> QED  BY <1>0, <1>1, <1>2, <1>3, <1>4, <1>5, RulesKnown DEF KernelInv

(* The priority remembered stays the instance's own.                       *)
LEMMA MineStep ==
    ASSUME CleanInv, NEW i \in Instances, Step(i), alone'[i]
    PROVE  Mine(i)'
<1>0. KernelInv /\ AloneInv  BY DEF CleanInv
<1>1. CASE NewOpen(i)
    <2>1. ruleIndex6'[i] = {}  BY <1>0, <1>1 DEF NewOpen, KernelInv
    <2> QED  BY <2>1 DEF Mine
<1>2. ~NewOpen(i) => Mine(i)
    BY <1>0, OneMoves DEF AloneInv, RunInv
<1>3. CASE SetRules(i)
    <2>1. ~NewOpen(i) /\ ruleIndex6[i] = {} /\ UNCHANGED rules
        BY <1>0, <1>3 DEF NewOpen, SetRules, Down, KernelInv, kernel
    <2>2. CASE opt[i].auto \/ 6 \notin opt[i].fams
        BY <2>1, <2>2, <1>3 DEF SetRules, Mine
    <2>3. CASE ~opt[i].auto /\ 6 \in opt[i].fams
        <3>1. ruleIndex6'[i] \subseteq {nextIndex6}
            BY <1>0, <1>3, <2>1, <2>3 DEF SetRules, KernelInv
        <3>2. Elements(plan'[i]) \subseteq {OifRule(i, nextIndex6)}
            BY <1>3, <2>3, PlanOK
        <3>3. ASSUME NEW r \in rules, r.fam = 6, r.prio = nextIndex6, nextIndex6 # 0
              PROVE  FALSE
            <4>1. r.prio \in Nat /\ nextIndex6 \in Nat
                BY <1>0, NextIndexBelow DEF KernelInv, RuleSet
            <4>2. nextIndex6 < r.prio  BY <1>0, <3>3, <4>1, NextIndexBelow DEF KernelInv
            <4> QED  BY <3>3, <4>1, <4>2
        <3> QED  BY <2>1, <3>1, <3>2, <3>3 DEF Mine
    <2> QED  BY <2>2, <2>3
<1>4. CASE ~NewOpen(i) /\ ~SetRules(i)
    <2>1. ruleIndex6'[i] \in {ruleIndex6[i], {}}
        BY <1>0, <1>4 DEF Step, NewNoLink, ConfigureLink, SetRoute, SetRouteDone, UnsetRoute,
           UnsetRule6, UnsetList, Listed, UnsetDel, UnsetRulesFails, UnsetDone, AddRule,
           NewDone, CloseCall, CloseFile, Finalise, Crash, DropLink, KernelInv, local
    <2>2. rules' \cup Elements(plan'[i]) \subseteq rules \cup Elements(plan[i])
        <3>1. Elements(<<>>) = {}  BY DEF Elements
        <3>2. CASE AddRule(i)
            <4>1. Elements(plan[i]) = {Head(plan[i])} \cup Elements(Tail(plan[i]))
                BY <1>0, <3>2, ElementsTail DEF AddRule, KernelInv
            <4>2. \/ rules' = rules \cup {Head(plan[i])} /\ plan'[i] = Tail(plan[i])
                  \/ rules' = rules /\ plan'[i] = <<>>
                BY <1>0, <3>2 DEF AddRule, KernelInv
            <4> QED  BY <3>1, <4>1, <4>2
        <3>3. CASE ~AddRule(i)
            <4>1. rules' \subseteq rules /\ plan'[i] \in {plan[i], <<>>}
                BY <1>0, <1>4, <3>3, OnlyLess DEF KernelInv
            <4> QED  BY <3>1, <4>1
        <3> QED  BY <3>2, <3>3
    <2> QED  BY <1>2, <1>4, <2>1, <2>2 DEF Mine
<1> QED  BY <1>1, <1>3, <1>4

(* With AutoRoute, the rules are as the stage of the run says.             *)
Stage(i) ==
    /\ pc[i] = "delRules" => Matched(Installed, todo[i])
    /\ pc[i] = "setRules" => Installed = {}
    /\ pc[i] = "addRules" => Installed \cup Elements(plan[i]) = OwnRules(i)
    /\ pc[i] = "up" /\ configured[i] => Installed = OwnRules(i)
    /\ pc[i] \in {"closeFile", "closed"} /\ clean[i] /\ configured[i] => Installed = {}

(* When the list is empty, nothing is left.                                *)
LEMMA MatchedNone == ASSUME NEW R, Matched(R, {}) PROVE R = {}
BY DEF Matched

(* A list has a first element.                                             *)
LEMMA FirstListed ==
    ASSUME NEW T \in SUBSET RuleSet, T # {}
    PROVE  \E r \in T : \A s \in T : ~Before(s, r)
<1>0. \A r \in T : r.fam \in {4, 6} /\ r.prio \in Nat  BY DEF RuleSet
<1>1. PICK f \in {4, 6} : (\E r \in T : r.fam = f) /\ \A r \in T : f <= r.fam
    BY <1>0
<1> DEFINE P == {r.prio : r \in {r \in T : r.fam = f}}
<1>2. PICK n \in P : \A m \in P : n <= m
    <2>1. P \in SUBSET Nat /\ P # {}  BY <1>0, <1>1
    <2> QED  BY <2>1, LeastNumber
<1>3. PICK r \in T : r.fam = f /\ r.prio = n  BY <1>2
<1>4. ASSUME NEW s \in T, Before(s, r) PROVE FALSE
    <2>1. s.fam = f /\ s.prio < n  BY <1>0, <1>1, <1>3, <1>4 DEF Before
    <2>2. s.prio \in P  BY <2>1
    <2>3. n \in Nat /\ s.prio \in Nat  BY <1>0, <1>3
    <2> QED  BY <1>2, <2>1, <2>2, <2>3
<1> QED  BY <1>4

(* Listing, deleting and adding keep the account of the rules.             *)
LEMMA StageStep ==
    ASSUME CleanInv, NEW i \in Instances, Step(i), alone'[i], opt'[i].auto
    PROVE  Stage(i)'
<1>0. Typed /\ KernelInv /\ AloneInv  BY DEF CleanInv, LockInv
<1>1. CASE NewOpen(i)
    BY <1>0, <1>1 DEF NewOpen, Typed, Stage
<1>s. ASSUME ~NewOpen(i) PROVE alone[i] /\ opt[i].auto /\ UNCHANGED opt /\ Stage(i)
    <2>1. UNCHANGED opt
        BY <1>s DEF Step, NewNoLink, ConfigureLink, SetRoute, SetRouteDone, UnsetRoute,
           UnsetRule6, UnsetList, Listed, UnsetDel, UnsetRulesFails, UnsetDone, SetRules, AddRule,
           NewDone, CloseCall, CloseFile, Finalise, Crash, DropLink, local
    <2> QED  BY <1>0, <1>s, <2>1, OneMoves DEF AloneInv, RunInv, Stage
<1>2. CASE \/ NewNoLink(i) \/ ConfigureLink(i) \/ SetRoute(i) \/ SetRouteDone(i)
           \/ UnsetRoute(i) \/ CloseCall(i) \/ Finalise(i) \/ Crash(i)
    <2>1. \/ pc'[i] \in {"leaked", "setRoute", "failed", "unsetRules", "unsetRoute", "down"}
          \/ pc'[i] = "up" /\ ~configured'[i]
        BY <1>0, <1>2 DEF NewNoLink, ConfigureLink, SetRoute, SetRouteDone, UnsetRoute,
           CloseCall, Finalise, Crash, DropLink, Typed, local
    <2> QED  BY <2>1 DEF Stage
<1>3. CASE UnsetRulesFails(i)
    <2>1. pc'[i] \in {"failed", "closeFile"} /\ ~clean'[i]
        BY <1>0, <1>3 DEF UnsetRulesFails, Typed, KernelInv
    <2> QED  BY <2>1 DEF Stage
<1>4. CASE UnsetRule6(i) /\ ~UnsetRulesFails(i)
    <2>1. pc'[i] = "unsetRules"  BY <1>4 DEF UnsetRule6
    <2> QED  BY <2>1 DEF Stage
<1>5. CASE UnsetList(i) /\ ~UnsetRulesFails(i)
    <2>0. ~NewOpen(i)  BY <1>5 DEF UnsetList, NewOpen, Down
    <2>1. pc'[i] = "delRules" /\ todo'[i] = Installed /\ UNCHANGED rules
        BY <1>0, <1>5, <1>s, <2>0 DEF UnsetList, Listed, Typed, KernelInv, Installed, kernel
    <2>2. Installed' = Installed  BY <2>1 DEF Installed
    <2> QED  BY <2>1, <2>2, MatchedSelf DEF Stage
<1>6. CASE UnsetDel(i) /\ ~UnsetRulesFails(i)
    <2>0. ~NewOpen(i)  BY <1>6 DEF UnsetDel, NewOpen, Down
    <2> DEFINE t == CHOOSE r \in todo[i] : \A s \in todo[i] : ~Before(s, r)
    <2>1. /\ pc[i] = "delRules" /\ todo[i] # {} /\ UNCHANGED pc
          /\ RuleDel(i, t.fam, t.prio) /\ todo'[i] = todo[i] \ {t}
        BY <1>0, <1>6 DEF UnsetDel, KernelInv
    <2>2. t \in todo[i] /\ t.prio \in Window
        <3>1. \E r \in todo[i] : \A s \in todo[i] : ~Before(s, r)
            BY <1>0, <2>1, FirstListed DEF KernelInv
        <3>2. t \in todo[i]  BY <3>1
        <3> QED  BY <1>0, <3>2 DEF KernelInv
    <2> HIDE DEF t
    <2>3. PICK r \in rules : r.fam = t.fam /\ r.prio = t.prio /\ rules' = rules \ {r}
        BY <2>1 DEF RuleDel
    <2>4. Matched(Installed, todo[i])  BY <1>s, <2>0, <2>1 DEF Stage
    <2>5. r \in Installed /\ Installed' = Installed \ {r}  BY <2>2, <2>3 DEF Installed
    <2>6. Matched(Installed', todo'[i])
        BY <2>1, <2>2, <2>3, <2>4, <2>5, MatchedStep
    <2> QED  BY <2>1, <2>6 DEF Stage
<1>7. CASE UnsetDone(i)
    <2>0. ~NewOpen(i)  BY <1>7 DEF UnsetDone, NewOpen, Down
    <2>1. pc[i] = "delRules" /\ pc'[i] = after[i] /\ after[i] \in {"failed", "setRules", "closeFile"}
          /\ todo[i] = {} /\ UNCHANGED rules
        BY <1>0, <1>7 DEF UnsetDone, Typed, kernel
    <2>2. Installed = {}  BY <1>s, <2>0, <2>1, MatchedNone DEF Stage
    <2>3. Installed' = {}  BY <2>1, <2>2 DEF Installed
    <2> QED  BY <2>1, <2>3 DEF Stage
<1>8. CASE SetRules(i)
    <2>0. ~NewOpen(i)  BY <1>8 DEF SetRules, NewOpen, Down
    <2>1. pc[i] = "setRules" /\ pc'[i] = "addRules" /\ UNCHANGED rules
        BY <1>0, <1>8 DEF SetRules, Typed, kernel
    <2>2. Installed = {}  BY <1>s, <2>0, <2>1 DEF Stage
    <2>3. Installed' = {}  BY <2>1, <2>2 DEF Installed
    <2>4. plan'[i] = AutoRules(i, 4 \in opt[i].fams, 6 \in opt[i].fams)
        BY <1>8, <1>s, <2>0, PlanOK
    <2>5. Elements(plan'[i]) = OwnRules(i)'  BY <1>s, <2>0, <2>4 DEF OwnRules
    <2> QED  BY <2>1, <2>3, <2>5 DEF Stage
<1>9. CASE AddRule(i)
    <2>0. ~NewOpen(i) /\ pc[i] = "addRules"  BY <1>9 DEF AddRule, NewOpen, Down
    <2>1. Installed \cup Elements(plan[i]) = OwnRules(i) /\ OwnRules(i)' = OwnRules(i)
        BY <1>s, <2>0 DEF Stage, OwnRules
    <2>2. CASE pc'[i] = "unsetRules"
        BY <2>2 DEF Stage
    <2>3. CASE pc'[i] # "unsetRules"
        <3>1. rules' = rules \cup {Head(plan[i])} /\ plan'[i] = Tail(plan[i]) /\ UNCHANGED pc
            BY <1>0, <1>9, <2>3 DEF AddRule, KernelInv, Typed
        <3>2. Elements(plan[i]) = {Head(plan[i])} \cup Elements(Tail(plan[i]))
            BY <1>0, <1>9, ElementsTail DEF AddRule, KernelInv
        <3>3. OwnRules(i) = {r \in Auto4(i) : 4 \in opt[i].fams} \cup {r \in Auto6(i) : 6 \in opt[i].fams}
            BY OwnElements, Zenon DEF OwnRules
        <3>4. Head(plan[i]).prio \in Window  BY <2>1, <3>2, <3>3, AutoOK
        <3>5. Installed' = Installed \cup {Head(plan[i])}  BY <3>1, <3>4 DEF Installed
        <3>6. Installed' \cup Elements(plan'[i]) = OwnRules(i)'  BY <2>1, <3>1, <3>2, <3>5
        <3> QED  BY <2>0, <3>1, <3>6 DEF Stage
    <2> QED  BY <2>2, <2>3
<1>10. CASE NewDone(i)
    <2>0. ~NewOpen(i) /\ pc[i] = "addRules"  BY <1>10 DEF NewDone, NewOpen, Down
    <2>1. pc'[i] = "up" /\ plan[i] = <<>> /\ UNCHANGED rules
        BY <1>0, <1>10 DEF NewDone, Typed, kernel
    <2>2. Elements(<<>>) = {}  BY DEF Elements
    <2>3. Installed = OwnRules(i)  BY <1>s, <2>0, <2>1, <2>2 DEF Stage
    <2>4. Installed' = OwnRules(i)'  BY <1>s, <2>0, <2>1, <2>3 DEF Installed, OwnRules
    <2> QED  BY <2>1, <2>4 DEF Stage
<1>11. CASE CloseFile(i)
    <2>0. ~NewOpen(i) /\ pc[i] = "closeFile"  BY <1>11 DEF CloseFile, NewOpen, Down
    <2>1. pc'[i] = "closed" /\ UNCHANGED <<rules, clean, configured>>
        BY <1>0, <1>11 DEF CloseFile, DropLink, Typed, history
    <2>2. clean[i] /\ configured[i] => Installed = {}  BY <1>s, <2>0 DEF Stage
    <2>3. Installed' = Installed  BY <2>1 DEF Installed
    <2> QED  BY <2>1, <2>2, <2>3 DEF Stage
<1> QED
    BY <1>1, <1>2, <1>3, <1>4, <1>5, <1>6, <1>7, <1>8, <1>9, <1>10, <1>11 DEF Step

(* Every step keeps the invariant.                                         *)
LEMMA CleanStep == CleanInv /\ [Next]_vars => CleanInv'
<1> SUFFICES ASSUME CleanInv, [Next]_vars PROVE CleanInv'  OBVIOUS
<1>0. LockInv'  BY LockStep DEF CleanInv
<1>1. CASE UNCHANGED vars
    BY <1>0, <1>1 DEF CleanInv, KernelInv, AloneInv, RunInv, Mine, Installed, OwnRules, Own, vars,
       kernel, local, history, nextIndex6
<1>2. ASSUME NEW i \in Instances, Step(i) PROVE CleanInv'
    <2>1. KernelInv'  BY <1>2, KernelStep
    <2>2. alone'[i] => RunInv(i)'  BY <1>2, MineStep, StageStep DEF RunInv, Stage
    <2>3. AloneInv'  BY <1>2, <2>2, OneMoves DEF AloneInv
    <2> QED  BY <1>0, <2>1, <2>3 DEF CleanInv
<1> QED  BY <1>1, <1>2 DEF Next, Step

(* It holds of every reachable state.                                      *)
LEMMA CleanInvariant == Spec => []CleanInv
BY CleanInit, CleanStep, PTL DEF Spec

(* A Close that ran alone and met no error leaves no route and no rule in  *)
(* the range of priorities, however the runs before it ended.              *)
THEOREM ClosesClean == Spec => []CloseLeavesNothing
<1>1. CleanInv => CloseLeavesNothing
    BY DEF CleanInv, KernelInv, AloneInv, RunInv, Installed, CloseLeavesNothing, Down
<1> QED  BY <1>1, CleanInvariant, PTL

(* While no other instance runs, deleting by priority takes away the rule  *)
(* that this run added.                                                    *)
THEOREM DeletesOwnRule == Spec => DeletesItsOwn
<1> DEFINE Deletes(i) ==
        /\ alone[i] /\ pc[i] = "unsetRules"
        /\ ruleIndex6[i] # {} /\ ruleIndex6'[i] = {} /\ 0 \notin ruleIndex6[i]
        => rules \ rules' = {OifRule(i, n) : n \in ruleIndex6[i]}
<1>1. ASSUME CleanInv, [Next]_vars PROVE [\A i \in Instances : Deletes(i)]_vars
    <2> SUFFICES ASSUME NEW i \in Instances, alone[i], pc[i] = "unsetRules", ruleIndex6[i] # {},
                        ruleIndex6'[i] = {}, 0 \notin ruleIndex6[i], ~UNCHANGED vars
                 PROVE  rules \ rules' = {OifRule(i, n) : n \in ruleIndex6[i]}
        OBVIOUS
    <2>0. KernelInv /\ Mine(i)  BY <1>1 DEF CleanInv, AloneInv, RunInv
    <2>1. PICK k \in Instances : Step(k)  BY <1>1 DEF Next, Step
    <2>2. k = i  BY <1>1, <2>1, OneMoves
    <2>3. \E n \in ruleIndex6[i] : RuleDel(i, 6, n)
        BY <2>0, <2>1, <2>2 DEF Step, NewOpen, NewNoLink, ConfigureLink, SetRoute, SetRouteDone,
           UnsetRoute, UnsetRule6, UnsetList, Listed, UnsetDel, UnsetRulesFails, UnsetDone,
           SetRules, AddRule, NewDone, CloseCall, CloseFile, Finalise, Crash, DropLink, Down,
           local
    <2>4. PICK n \in ruleIndex6[i], r \in rules : r.fam = 6 /\ r.prio = n /\ rules' = rules \ {r}
        BY <2>3 DEF RuleDel
    <2>5. r = OifRule(i, n)  BY <2>0, <2>4 DEF Mine
    <2>6. ruleIndex6[i] = {n}  BY <2>0, <2>4 DEF KernelInv
    <2> QED  BY <2>4, <2>5, <2>6
<1> QED  BY <1>1, CleanInvariant, PTL DEF Spec, DeletesItsOwn

-----------------------------------------------------------------------------
(***************************************************************************)
(* Where packets go: the parts of Outcomes.                                *)
(***************************************************************************)
Match(p) == {r \in rules \cup {MainRule(p.fam)} : Matches(r, p)}
Jumps(p) == {g \in Match(p) : g.act = GotoNop /\ \E n \in rules : n.fam = p.fam /\ n.act = Nop}
Hits(p) == {r \in Match(p) : Yields(r, p)}
Passed(r, p) == \E g \in Jumps(p) : Skips(g, r.prio)
Sure(p) == {r \in Hits(p) : \A g \in Jumps(p) : g.prio # r.prio /\ ~Skips(g, r.prio)}
Leads(r, p) == IF r.act = Table \/ p.dst = "tun" THEN "tun" ELSE "eth"

(* A rule that decides for sure, and none before it that leads elsewhere.  *)
LEMMA Decided ==
    ASSUME NEW p, NEW s \in Sure(p), s.prio \in Nat, NEW o, Leads(s, p) = o,
           \A r \in Hits(p) : r.prio \in Nat,
           \A r \in Sure(p) : r.prio >= s.prio,
           \A r \in Hits(p) : r.prio <= s.prio /\ ~Passed(r, p) => Leads(r, p) = o
    PROVE  Outcomes(p) = {o}
<1> DEFINE may == {r \in Hits(p) : /\ \A g \in Jumps(p) : ~Skips(g, r.prio)
                                  /\ \A q \in Sure(p) : q.prio >= r.prio}
<1>1. Outcomes(p) = {Leads(r, p) : r \in may}
    BY DEF Outcomes, Leads, Sure, Hits, Jumps, Match
<1>2. s \in may
    BY DEF Sure
<1>3. \A r \in may : Leads(r, p) = o
    <2> SUFFICES ASSUME NEW r \in may PROVE Leads(r, p) = o  OBVIOUS
    <2>1. r \in Hits(p) /\ ~Passed(r, p) /\ s.prio >= r.prio  BY DEF Passed
    <2> QED  BY <2>1
<1> HIDE DEF may
<1> QED  BY <1>1, <1>2, <1>3

(* The rules as a serving instance that is alone has them.                 *)
OwnSet(i) == {r \in Auto4(i) : 4 \in opt[i].fams} \cup {r \in Auto6(i) : 6 \in opt[i].fams}

Settled(i) ==
    /\ OwnSet(i) \subseteq rules
    /\ \A r \in rules : r \in OwnSet(i) \/ r.sel.iif = "oif"
    /\ \A f \in opt[i].fams : \E q \in routes : q.fam = f

(* The packets the property speaks of.                                     *)
Seen(i) == {p \in Packets : p.dst # "tun" /\ p.iif \in {i, "lo", "eth"}}

(* A rule for a device to go out by matches none of them.                  *)
LEMMA MatchOwn ==
    ASSUME NEW i \in Instances, Settled(i), NEW p \in Seen(i), NEW r
    PROVE  r \in Match(p) <=> (r \in OwnSet(i) \/ r = MainRule(p.fam)) /\ Matches(r, p)
<1>1. p.iif # "oif" /\ p.iif # "any" /\ p.iif # "notlo"
    BY LinuxAssumption DEF Seen
<1> QED  BY <1>1 DEF Settled, Match, Matches

(* The rule for the main table always yields a route.                      *)
LEMMA MainHits ==
    ASSUME NEW p
    PROVE  LET m == MainRule(p.fam) IN
           /\ m \in Hits(p) /\ m.prio = MainPriority /\ m.act = "main"
           /\ Matches(m, p) /\ Yields(m, p)
BY DEF Hits, Match, MainRule, Matches, SrcMatches, AnyPacket, Rule, Yields

(* What the selectors of the rules match.                                  *)
LEMMA Selected ==
    ASSUME NEW i \in Instances, NEW p \in Seen(i), NEW f, NEW n, NEW a
    PROVE  /\ Matches(Rule(f, n, AnyPacket, a), p) <=> p.fam = f
           /\ Matches(Rule(f, n, NotDNS, a), p) <=> p.fam = f /\ ~p.dns
           /\ ~Matches(Rule(f, n, [AnyPacket EXCEPT !.dst = "tun"], a), p)
           /\ Matches(Rule(f, n, [AnyPacket EXCEPT !.iif = i], a), p) <=> p.fam = f /\ p.iif = i
           /\ Matches(Rule(f, n, [AnyPacket EXCEPT !.iif = "notlo"], a), p)
                <=> p.fam = f /\ p.iif # "lo"
<1>0. /\ p.iif # "any" /\ p.iif # "notlo" /\ p.dst # "tun" /\ p.dst # "any"
      /\ i # "any" /\ i # "notlo" /\ i # "lo" /\ p.dns \in BOOLEAN
    BY LinuxAssumption DEF Seen, Packets
<1>1. \A x : Rule(f, n, x, a).fam = f /\ Rule(f, n, x, a).sel = x
    BY DEF Rule
<1> USE DEF Matches, SrcMatches, AnyPacket, NotDNS, Lo
<1>2. Matches(Rule(f, n, AnyPacket, a), p) <=> p.fam = f
    BY <1>0, <1>1
<1>3. Matches(Rule(f, n, NotDNS, a), p) <=> p.fam = f /\ ~p.dns
    BY <1>0, <1>1
<1>4. ~Matches(Rule(f, n, [AnyPacket EXCEPT !.dst = "tun"], a), p)
    BY <1>0, <1>1
<1>5. Matches(Rule(f, n, [AnyPacket EXCEPT !.iif = i], a), p) <=> p.fam = f /\ p.iif = i
    BY <1>0, <1>1
<1>6. Matches(Rule(f, n, [AnyPacket EXCEPT !.iif = "notlo"], a), p) <=> p.fam = f /\ p.iif # "lo"
    BY <1>0, <1>1
<1> QED  BY <1>2, <1>3, <1>4, <1>5, <1>6

(* What a selector of local packets by their source matches.               *)
LEMMA SelectedLo ==
    ASSUME NEW i \in Instances, NEW p \in Seen(i), NEW f, NEW n, NEW a, NEW src
    PROVE  Matches(Rule(f, n, [Lo EXCEPT !.src = src], a), p)
             <=> p.fam = f /\ p.iif = "lo" /\ SrcMatches(src, p.src)
<1> DEFINE x == [Lo EXCEPT !.src = src]
<1>1. x.iif = "lo" /\ x.src = src /\ x.dst = "any" /\ x.notdns = FALSE
    BY DEF Lo, AnyPacket
<1> HIDE DEF x
<1>2. Rule(f, n, x, a).fam = f /\ Rule(f, n, x, a).sel = x
    BY DEF Rule
<1>3. Matches(Rule(f, n, x, a), p) <=> p.fam = f /\ p.iif = "lo" /\ SrcMatches(src, p.src)
    BY <1>1, <1>2 DEF Matches, SrcMatches
<1> QED  BY <1>3 DEF x

(* The parts of a rule.                                                    *)
LEMMA Parts ==
    ASSUME NEW f, NEW n, NEW s, NEW a
    PROVE  /\ Rule(f, n, s, a).fam = f /\ Rule(f, n, s, a).prio = n
           /\ Rule(f, n, s, a).sel = s /\ Rule(f, n, s, a).act = a
BY DEF Rule

(* IPv4: which rules yield a route, and which jump.                        *)
LEMMA Shape4 ==
    ASSUME NEW i \in Instances, Settled(i), NEW p \in Seen(i), p.fam = 4, 4 \in opt[i].fams
    PROVE  /\ \A r \in Hits(p) :
                \/ r.prio = RuleIndex + 2 /\ r.act = MainSuppress /\ p.dst = "lan" /\ ~p.dns
                \/ /\ r.prio = RuleIndex + 3 /\ r.act = Table
                   /\ p.iif = "lo" => p.src \in {"unspec", "tun"}
                \/ r.prio = MainPriority /\ r.act = "main"
           /\ p.dst = "lan" /\ ~p.dns =>
                \E r \in Hits(p) : r.prio = RuleIndex + 2 /\ r.act = MainSuppress
           /\ (p.iif = "lo" => p.src \in {"unspec", "tun"}) =>
                \E r \in Hits(p) : r.prio = RuleIndex + 3 /\ r.act = Table
           /\ \A g \in Jumps(p) : g.prio = RuleIndex + 2 /\ p.iif = i
           /\ p.iif = i => \E g \in Jumps(p) : g.prio = RuleIndex + 2
<1> DEFINE r1 == Rule(4, RuleIndex, [AnyPacket EXCEPT !.dst = "tun"], Table)
           r2 == Rule(4, RuleIndex + 1, AnyPacket, TableSuppress)
           r3 == Rule(4, RuleIndex + 2, NotDNS, MainSuppress)
           r4 == Rule(4, RuleIndex + 2, [AnyPacket EXCEPT !.iif = i], GotoNop)
           r5 == Rule(4, RuleIndex + 3, [AnyPacket EXCEPT !.iif = "notlo"], Table)
           r6 == Rule(4, RuleIndex + 3, [Lo EXCEPT !.src = "unspec"], Table)
           r7 == Rule(4, RuleIndex + 3, [Lo EXCEPT !.src = "tun"], Table)
           r8 == Rule(4, RuleIndex + 10, AnyPacket, Nop)
           m == MainRule(4)
<1>1. /\ ~Matches(r1, p) /\ Matches(r2, p) /\ (Matches(r3, p) <=> ~p.dns)
      /\ (Matches(r4, p) <=> p.iif = i) /\ (Matches(r5, p) <=> p.iif # "lo")
      /\ Matches(r8, p)
    BY Selected
<1>2. /\ Matches(r6, p) <=> p.iif = "lo" /\ p.src = "unspec"
      /\ Matches(r7, p) <=> p.iif = "lo" /\ p.src = "tun"
    <2>1. /\ Matches(r6, p) <=> p.iif = "lo" /\ SrcMatches("unspec", p.src)
          /\ Matches(r7, p) <=> p.iif = "lo" /\ SrcMatches("tun", p.src)
        BY SelectedLo
    <2>2. /\ SrcMatches("unspec", p.src) <=> p.src = "unspec"
          /\ SrcMatches("tun", p.src) <=> p.src = "tun"
        BY DEF SrcMatches
    <2> QED  BY <2>1, <2>2
<1>3. /\ r2.act = TableSuppress /\ r3.act = MainSuppress /\ r3.prio = RuleIndex + 2
      /\ r4.act = GotoNop /\ r4.prio = RuleIndex + 2
      /\ r5.act = Table /\ r5.prio = RuleIndex + 3 /\ r6.act = Table /\ r6.prio = RuleIndex + 3
      /\ r7.act = Table /\ r7.prio = RuleIndex + 3 /\ r8.act = Nop /\ r8.fam = 4
    BY Parts
<1>4. /\ m \in Hits(p) /\ m.prio = MainPriority /\ m.act = "main" /\ Matches(m, p) /\ Yields(m, p)
    BY MainHits
<1>5. /\ \A r \in OwnSet(i) : r.fam = 4 => r \in {r1, r2, r3, r4, r5, r6, r7, r8}
      /\ {r1, r2, r3, r4, r5, r6, r7, r8} \subseteq OwnSet(i)
    <2>1. Auto4(i) = {r1, r2, r3, r4, r5, r6, r7, r8}  BY Zenon DEF Auto4
    <2>2. \A r \in Auto6(i) : r.fam = 6  BY Parts DEF Auto6
    <2> HIDE DEF r1, r2, r3, r4, r5, r6, r7, r8
    <2> QED  BY <2>1, <2>2 DEF OwnSet
<1> HIDE DEF r1, r2, r3, r4, r5, r6, r7, r8, m
<1>6. \A r : r \in Match(p) <=> r \in {r1, r2, r3, r4, r5, r6, r7, r8, m} /\ Matches(r, p)
    <2>1. \A r : Matches(r, p) => r.fam = 4  BY DEF Matches
    <2> QED  BY <1>5, <2>1, MatchOwn DEF m
<1>7. Table # MainSuppress /\ Table # TableSuppress /\ Table # GotoNop /\ Table # Nop
      /\ Table # "main" /\ MainSuppress # TableSuppress /\ MainSuppress # GotoNop
      /\ MainSuppress # Nop /\ MainSuppress # "main" /\ GotoNop # TableSuppress
      /\ GotoNop # Nop /\ GotoNop # "main" /\ TableSuppress # "main" /\ Nop # "main"
    BY DEF Table, MainSuppress, TableSuppress, GotoNop, Nop
<1>8. \A r : r \in Hits(p) <=>
        \/ r = r3 /\ ~p.dns /\ p.dst = "lan"
        \/ r = r5 /\ p.iif # "lo"
        \/ r = r6 /\ p.iif = "lo" /\ p.src = "unspec"
        \/ r = r7 /\ p.iif = "lo" /\ p.src = "tun"
        \/ r = m
    <2>1. p.dst \in {"lan", "wan"}  BY DEF Seen, Packets
    <2>2. \E q \in routes : q.fam = p.fam  BY DEF Settled
    <2>3. ~Yields(r2, p) /\ ~Yields(r4, p) /\ ~Yields(r8, p) /\ Yields(r5, p) /\ Yields(r6, p)
          /\ Yields(r7, p) /\ (Yields(r3, p) <=> p.dst = "lan")
        BY <1>3, <1>7, <2>1, <2>2 DEF Yields
    <2> QED  BY <1>1, <1>2, <1>4, <1>6, <2>3 DEF Hits
<1>9. \A g : g \in Jumps(p) <=> g = r4 /\ p.iif = i
    <2>1. r8 \in rules /\ r8.fam = p.fam /\ r8.act = Nop  BY <1>3, <1>5 DEF Settled
    <2> QED  BY <1>1, <1>3, <1>4, <1>6, <1>7, <2>1 DEF Jumps
<1>10. p.src \in {"unspec", "tun", "other"}  BY DEF Seen, Packets
<1> QED  BY <1>3, <1>4, <1>8, <1>9, <1>10

(* IPv6: the jumps also take what has a source and does not come from the  *)
(* device past the rule for the device's own address.                      *)
LEMMA Shape6 ==
    ASSUME NEW i \in Instances, Settled(i), NEW p \in Seen(i), p.fam = 6, 6 \in opt[i].fams
    PROVE  /\ \A r \in Hits(p) :
                \/ r.prio = RuleIndex + 1 /\ r.act = MainSuppress /\ p.dst = "lan" /\ ~p.dns
                \/ r.prio \in {RuleIndex + 2, RuleIndex + 3} /\ r.act = Table
                \/ r.prio = MainPriority /\ r.act = "main"
           /\ p.dst = "lan" /\ ~p.dns =>
                \E r \in Hits(p) : r.prio = RuleIndex + 1 /\ r.act = MainSuppress
           /\ (p.iif = "lo" /\ p.src = "tun") \/ \A r \in Hits(p) : r.prio # RuleIndex + 2
           /\ \E r \in Hits(p) : r.prio = RuleIndex + 3 /\ r.act = Table
           /\ \A g \in Jumps(p) : /\ g.prio = RuleIndex + 1
                                  /\ p.iif = i \/ (p.iif = "lo" /\ p.src # "unspec")
           /\ p.iif = i \/ (p.iif = "lo" /\ p.src # "unspec") =>
                \E g \in Jumps(p) : g.prio = RuleIndex + 1
<1> DEFINE q1 == Rule(6, RuleIndex, AnyPacket, TableSuppress)
           q2 == Rule(6, RuleIndex + 1, NotDNS, MainSuppress)
           q3 == Rule(6, RuleIndex + 1, [AnyPacket EXCEPT !.iif = i], GotoNop)
           q4 == Rule(6, RuleIndex + 1, [Lo EXCEPT !.src = "lowHalf"], GotoNop)
           q5 == Rule(6, RuleIndex + 1, [Lo EXCEPT !.src = "highHalf"], GotoNop)
           q6 == Rule(6, RuleIndex + 2, [Lo EXCEPT !.src = "tun"], Table)
           q7 == Rule(6, RuleIndex + 3, AnyPacket, Table)
           q8 == Rule(6, RuleIndex + 10, AnyPacket, Nop)
           m == MainRule(6)
<1>1. /\ Matches(q1, p) /\ (Matches(q2, p) <=> ~p.dns) /\ (Matches(q3, p) <=> p.iif = i)
      /\ Matches(q7, p) /\ Matches(q8, p)
    BY Selected
<1>2. /\ Matches(q4, p) <=> p.iif = "lo" /\ p.src # "unspec"
      /\ Matches(q5, p) <=> p.iif = "lo" /\ p.src = "other"
      /\ Matches(q6, p) <=> p.iif = "lo" /\ p.src = "tun"
    <2>1. /\ Matches(q4, p) <=> p.iif = "lo" /\ SrcMatches("lowHalf", p.src)
          /\ Matches(q5, p) <=> p.iif = "lo" /\ SrcMatches("highHalf", p.src)
          /\ Matches(q6, p) <=> p.iif = "lo" /\ SrcMatches("tun", p.src)
        BY SelectedLo
    <2>2. p.src \in {"unspec", "tun", "other"}  BY DEF Seen, Packets
    <2>3. /\ SrcMatches("lowHalf", p.src) <=> p.src # "unspec"
          /\ SrcMatches("highHalf", p.src) <=> p.src = "other"
          /\ SrcMatches("tun", p.src) <=> p.src = "tun"
        BY <2>2 DEF SrcMatches
    <2> QED  BY <2>1, <2>3
<1>3. /\ q1.act = TableSuppress /\ q2.act = MainSuppress /\ q2.prio = RuleIndex + 1
      /\ q3.act = GotoNop /\ q3.prio = RuleIndex + 1 /\ q4.act = GotoNop /\ q4.prio = RuleIndex + 1
      /\ q5.act = GotoNop /\ q5.prio = RuleIndex + 1 /\ q6.act = Table /\ q6.prio = RuleIndex + 2
      /\ q7.act = Table /\ q7.prio = RuleIndex + 3 /\ q8.act = Nop /\ q8.fam = 6
    BY Parts
<1>4. /\ m \in Hits(p) /\ m.prio = MainPriority /\ m.act = "main" /\ Matches(m, p) /\ Yields(m, p)
    BY MainHits
<1>5. /\ \A r \in OwnSet(i) : r.fam = 6 => r \in {q1, q2, q3, q4, q5, q6, q7, q8}
      /\ {q1, q2, q3, q4, q5, q6, q7, q8} \subseteq OwnSet(i)
    <2>1. Auto6(i) = {q1, q2, q3, q4, q5, q6, q7, q8}  BY Zenon DEF Auto6
    <2>2. \A r \in Auto4(i) : r.fam = 4  BY Parts DEF Auto4
    <2> HIDE DEF q1, q2, q3, q4, q5, q6, q7, q8
    <2> QED  BY <2>1, <2>2 DEF OwnSet
<1> HIDE DEF q1, q2, q3, q4, q5, q6, q7, q8, m
<1>6. \A r : r \in Match(p) <=> r \in {q1, q2, q3, q4, q5, q6, q7, q8, m} /\ Matches(r, p)
    <2>1. \A r : Matches(r, p) => r.fam = 6  BY DEF Matches
    <2> QED  BY <1>5, <2>1, MatchOwn DEF m
<1>7. Table # MainSuppress /\ Table # TableSuppress /\ Table # GotoNop /\ Table # Nop
      /\ Table # "main" /\ MainSuppress # TableSuppress /\ MainSuppress # GotoNop
      /\ MainSuppress # Nop /\ MainSuppress # "main" /\ GotoNop # TableSuppress
      /\ GotoNop # Nop /\ GotoNop # "main" /\ TableSuppress # "main" /\ Nop # "main"
    BY DEF Table, MainSuppress, TableSuppress, GotoNop, Nop
<1>8. \A r : r \in Hits(p) <=>
        \/ r = q2 /\ ~p.dns /\ p.dst = "lan"
        \/ r = q6 /\ p.iif = "lo" /\ p.src = "tun"
        \/ r = q7
        \/ r = m
    <2>1. p.dst \in {"lan", "wan"}  BY DEF Seen, Packets
    <2>2. \E q \in routes : q.fam = p.fam  BY DEF Settled
    <2>3. ~Yields(q1, p) /\ ~Yields(q3, p) /\ ~Yields(q4, p) /\ ~Yields(q5, p) /\ ~Yields(q8, p)
          /\ Yields(q6, p) /\ Yields(q7, p) /\ (Yields(q2, p) <=> p.dst = "lan")
        BY <1>3, <1>7, <2>1, <2>2 DEF Yields
    <2> QED  BY <1>1, <1>2, <1>4, <1>6, <2>3 DEF Hits
<1>9. \A g : g \in Jumps(p) <=> \/ g = q3 /\ p.iif = i
                                \/ g = q4 /\ p.iif = "lo" /\ p.src # "unspec"
                                \/ g = q5 /\ p.iif = "lo" /\ p.src = "other"
    <2>1. q8 \in rules /\ q8.fam = p.fam /\ q8.act = Nop  BY <1>3, <1>5 DEF Settled
    <2> QED  BY <1>1, <1>2, <1>3, <1>4, <1>6, <1>7, <2>1 DEF Jumps
<1>10. RuleIndex \in Nat /\ MainPriority > RuleIndex + 10 /\ MainPriority \in Nat
    BY LinuxAssumption
<1>11. \A r \in Hits(p) :
         \/ r.prio = RuleIndex + 1 /\ r.act = MainSuppress /\ p.dst = "lan" /\ ~p.dns
         \/ r.prio \in {RuleIndex + 2, RuleIndex + 3} /\ r.act = Table
         \/ r.prio = MainPriority /\ r.act = "main"
    BY <1>3, <1>4, <1>8
<1>12. /\ p.dst = "lan" /\ ~p.dns =>
            \E r \in Hits(p) : r.prio = RuleIndex + 1 /\ r.act = MainSuppress
       /\ \E r \in Hits(p) : r.prio = RuleIndex + 3 /\ r.act = Table
    BY <1>3, <1>8
<1>13. (p.iif = "lo" /\ p.src = "tun") \/ \A r \in Hits(p) : r.prio # RuleIndex + 2
    BY <1>3, <1>4, <1>8, <1>10
<1>14. \A g \in Jumps(p) : g.prio = RuleIndex + 1 /\ (p.iif = i \/ (p.iif = "lo" /\ p.src # "unspec"))
    BY <1>3, <1>9
<1>15. p.iif = i \/ (p.iif = "lo" /\ p.src # "unspec") => \E g \in Jumps(p) : g.prio = RuleIndex + 1
    BY <1>3, <1>9
<1> QED  BY <1>11, <1>12, <1>13, <1>14, <1>15

(* The other families: nothing but the rule for the main table.            *)
LEMMA ShapeNone ==
    ASSUME NEW i \in Instances, Settled(i), opt[i].fams \subseteq {4, 6}, NEW p \in Seen(i),
           p.fam \notin opt[i].fams
    PROVE  Hits(p) = {MainRule(p.fam)} /\ Jumps(p) = {}
<1>1. \A r \in OwnSet(i) : r.fam # p.fam
    <2>1. \A r \in Auto4(i) : r.fam = 4  BY Parts DEF Auto4
    <2>2. \A r \in Auto6(i) : r.fam = 6  BY Parts DEF Auto6
    <2> QED  BY <2>1, <2>2 DEF OwnSet
<1>2. Match(p) = {MainRule(p.fam)}  BY <1>1, MatchOwn, MainHits DEF Matches
<1> QED  BY <1>2, MainHits DEF Hits, Jumps, GotoNop

(* All packets go where they belong.                                       *)
LEMMA SettledRight ==
    ASSUME NEW i \in Instances, Settled(i), opt[i].fams \subseteq {4, 6}, NEW p \in Seen(i)
    PROVE  LET bypasses == \/ p.fam \notin opt[i].fams
                           \/ p.iif = i
                           \/ p.iif = "lo" /\ p.src = "other"
                           \/ p.dst = "lan" /\ ~p.dns
               bound == p.iif = "lo" /\ p.src = "tun"
           IN  \/ Outcomes(p) = {IF bypasses THEN "eth" ELSE "tun"}
               \/ bound /\ p.fam = 6 /\ Outcomes(p) = {"eth"}
<1>0. /\ RuleIndex \in Nat /\ MainPriority \in Nat /\ MainPriority > RuleIndex + 10
      /\ i # "lo" /\ i # "eth"
    BY LinuxAssumption
<1>p. /\ p.fam \in {4, 6} /\ p.iif \in {i, "lo", "eth"} /\ p.src \in {"unspec", "tun", "other"}
      /\ p.dst \in {"lan", "wan"} /\ p.dns \in BOOLEAN
    BY DEF Seen, Packets
<1>l. \A r : Leads(r, p) = IF r.act = Table THEN "tun" ELSE "eth"
    BY <1>p DEF Leads
<1>t. Table # "main" /\ Table # MainSuppress
    BY DEF Table, MainSuppress
<1>m. PICK m \in Hits(p) : m.prio = MainPriority /\ m.act = "main"
    BY MainHits
<1>1. CASE p.fam \notin opt[i].fams
    <2>1. Hits(p) = {m} /\ Jumps(p) = {}  BY <1>1, <1>m, ShapeNone
    <2>2. Sure(p) = {m}  BY <2>1 DEF Sure
    <2>3. Outcomes(p) = {"eth"}  BY <1>0, <1>l, <1>m, <1>t, <2>1, <2>2, Decided
    <2> QED  BY <1>1, <2>3
<1>2. CASE p.fam = 4 /\ 4 \in opt[i].fams
    <2>h. \A r \in Hits(p) :
            \/ r.prio = RuleIndex + 2 /\ r.act = MainSuppress /\ p.dst = "lan" /\ ~p.dns
            \/ /\ r.prio = RuleIndex + 3 /\ r.act = Table
               /\ p.iif = "lo" => p.src \in {"unspec", "tun"}
            \/ r.prio = MainPriority /\ r.act = "main"
        BY <1>2, Shape4
    <2>n. \A r \in Hits(p) : r.prio \in Nat  BY <1>0, <2>h
    <2>1. CASE p.iif = i
        <3>1. PICK g \in Jumps(p) : g.prio = RuleIndex + 2  BY <1>2, <2>1, Shape4
        <3>2. \A r \in Hits(p) : r.prio = RuleIndex + 3 => Passed(r, p)
            BY <1>0, <3>1 DEF Passed, Skips
        <3>3. m \in Sure(p)
            <4>1. \A j \in Jumps(p) : j.prio = RuleIndex + 2  BY <1>2, Shape4
            <4> QED  BY <1>0, <1>m, <4>1 DEF Sure, Skips
        <3>4. \A r \in Sure(p) : r.prio = MainPriority
            BY <2>h, <3>1, <3>2 DEF Sure, Passed
        <3>5. \A r \in Hits(p) : ~Passed(r, p) => Leads(r, p) = "eth"
            BY <1>l, <1>t, <2>h, <3>2
        <3>6. Leads(m, p) = "eth"  BY <1>l, <1>m, <1>t
        <3>7. Outcomes(p) = {"eth"}
            BY <1>0, <1>m, <2>n, <3>3, <3>4, <3>5, <3>6, Decided
        <3> QED  BY <2>1, <3>7
    <2>2. CASE p.iif # i
        <3>1. Jumps(p) = {}  BY <1>2, <2>2, Shape4
        <3>2. Sure(p) = Hits(p)  BY <3>1 DEF Sure
        <3>3. CASE p.dst = "lan" /\ ~p.dns
            <4>1. PICK s \in Hits(p) : s.prio = RuleIndex + 2 /\ s.act = MainSuppress
                BY <1>2, <3>3, Shape4
            <4>2. Leads(s, p) = "eth"  BY <1>l, <1>t, <4>1
            <4>3. \A r \in Hits(p) : /\ r.prio >= s.prio
                                     /\ r.prio <= s.prio => Leads(r, p) = "eth"
                BY <1>0, <1>l, <1>t, <2>h, <4>1
            <4>4. Outcomes(p) = {"eth"}  BY <2>n, <3>2, <4>2, <4>3, Decided
            <4> QED  BY <3>3, <4>4
        <3>4. CASE ~(p.dst = "lan" /\ ~p.dns) /\ (p.iif = "lo" => p.src \in {"unspec", "tun"})
            <4>1. PICK s \in Hits(p) : s.prio = RuleIndex + 3 /\ s.act = Table
                BY <1>2, <3>4, Shape4
            <4>2. Leads(s, p) = "tun"  BY <1>l, <4>1
            <4>3. \A r \in Hits(p) : /\ r.prio >= s.prio
                                     /\ r.prio <= s.prio => Leads(r, p) = "tun"
                BY <1>0, <1>l, <2>h, <3>4, <4>1
            <4>4. Outcomes(p) = {"tun"}  BY <2>n, <3>2, <4>2, <4>3, Decided
            <4> QED  BY <1>2, <2>2, <3>4, <4>4
        <3>5. CASE ~(p.dst = "lan" /\ ~p.dns) /\ p.iif = "lo" /\ p.src = "other"
            <4>1. \A r \in Hits(p) : r.prio = MainPriority /\ r.act = "main"
                BY <2>h, <3>5
            <4>2. \A r \in Hits(p) : Leads(r, p) = "eth"  BY <1>l, <1>t, <4>1
            <4>3. Outcomes(p) = {"eth"}  BY <1>0, <1>m, <2>n, <3>2, <4>1, <4>2, Decided
            <4> QED  BY <3>5, <4>3
        <3> QED  BY <1>p, <3>3, <3>4, <3>5
    <2> QED  BY <2>1, <2>2
<1>3. CASE p.fam = 6 /\ 6 \in opt[i].fams
    <2>h. \A r \in Hits(p) :
            \/ r.prio = RuleIndex + 1 /\ r.act = MainSuppress /\ p.dst = "lan" /\ ~p.dns
            \/ r.prio \in {RuleIndex + 2, RuleIndex + 3} /\ r.act = Table
            \/ r.prio = MainPriority /\ r.act = "main"
        BY <1>3, Shape6
    <2>n. \A r \in Hits(p) : r.prio \in Nat  BY <1>0, <2>h
    <2>1. CASE p.iif = i \/ (p.iif = "lo" /\ p.src # "unspec")
        <3>1. PICK g \in Jumps(p) : g.prio = RuleIndex + 1  BY <1>3, <2>1, Shape6
        <3>2. \A r \in Hits(p) : r.prio \in {RuleIndex + 2, RuleIndex + 3} => Passed(r, p)
            BY <1>0, <3>1 DEF Passed, Skips
        <3>3. m \in Sure(p)
            <4>1. \A j \in Jumps(p) : j.prio = RuleIndex + 1  BY <1>3, Shape6
            <4> QED  BY <1>0, <1>m, <4>1 DEF Sure, Skips
        <3>4. \A r \in Sure(p) : r.prio = MainPriority
            BY <2>h, <3>1, <3>2 DEF Sure, Passed
        <3>5. \A r \in Hits(p) : ~Passed(r, p) => Leads(r, p) = "eth"
            BY <1>l, <1>t, <2>h, <3>2
        <3>6. Leads(m, p) = "eth"  BY <1>l, <1>m, <1>t
        <3>7. Outcomes(p) = {"eth"}
            BY <1>0, <1>m, <2>n, <3>3, <3>4, <3>5, <3>6, Decided
        <3> QED  BY <1>3, <1>p, <2>1, <3>7
    <2>2. CASE p.iif # i /\ (p.iif = "lo" => p.src = "unspec")
        <3>1. Jumps(p) = {}  BY <1>3, <2>2, Shape6
        <3>2. Sure(p) = Hits(p)  BY <3>1 DEF Sure
        <3>3. CASE p.dst = "lan" /\ ~p.dns
            <4>1. PICK s \in Hits(p) : s.prio = RuleIndex + 1 /\ s.act = MainSuppress
                BY <1>3, <3>3, Shape6
            <4>2. Leads(s, p) = "eth"  BY <1>l, <1>t, <4>1
            <4>3. \A r \in Hits(p) : /\ r.prio >= s.prio
                                     /\ r.prio <= s.prio => Leads(r, p) = "eth"
                BY <1>0, <1>l, <1>t, <2>h, <4>1
            <4>4. Outcomes(p) = {"eth"}  BY <2>n, <3>2, <4>2, <4>3, Decided
            <4> QED  BY <3>3, <4>4
        <3>4. CASE ~(p.dst = "lan" /\ ~p.dns)
            <4>1. PICK s \in Hits(p) : s.prio = RuleIndex + 3 /\ s.act = Table
                BY <1>3, Shape6
            <4>2. Leads(s, p) = "tun"  BY <1>l, <4>1
            <4>3. \A r \in Hits(p) : r.prio # RuleIndex + 2
                BY <1>3, <2>2, Shape6
            <4>4. \A r \in Hits(p) : /\ r.prio >= s.prio
                                     /\ r.prio <= s.prio => Leads(r, p) = "tun"
                BY <1>0, <1>l, <2>h, <3>4, <4>1, <4>3
            <4>5. Outcomes(p) = {"tun"}  BY <2>n, <3>2, <4>2, <4>4, Decided
            <4> QED  BY <1>3, <2>2, <3>4, <4>5
        <3> QED  BY <3>3, <3>4
    <2> QED  BY <2>1, <2>2
<1> QED  BY <1>1, <1>2, <1>3, <1>p

(* A device with AutoRoute that came up alone gets exactly the traffic it  *)
(* is for, for any number of instances and of earlier runs, whatever       *)
(* failed, and whoever crashed.                                            *)
THEOREM TrafficRight == Spec => []TrafficGoesRight
<1>1. CleanInv => TrafficGoesRight
    <2> SUFFICES ASSUME CleanInv, NEW i \in Instances, Serving(i), alone[i], opt[i].auto
                 PROVE  /\ Installed = OwnRules(i)
                        /\ \A p \in Seen(i) :
                             \/ Outcomes(p) = {IF \/ p.fam \notin opt[i].fams
                                                  \/ p.iif = i
                                                  \/ p.iif = "lo" /\ p.src = "other"
                                                  \/ p.dst = "lan" /\ ~p.dns
                                                THEN "eth" ELSE "tun"}
                             \/ /\ p.iif = "lo" /\ p.src = "tun"
                                /\ p.fam = 6 /\ Outcomes(p) = {"eth"}
        BY DEF TrafficGoesRight, Installed, OwnRules, Elements, Seen
    <2>1. Installed = OwnRules(i)
        BY DEF CleanInv, AloneInv, RunInv, Serving
    <2>2. OwnRules(i) = OwnSet(i)
        BY OwnElements, Zenon DEF OwnRules, OwnSet
    <2>3. opt[i].fams \subseteq {4, 6}
        BY LinuxAssumption DEF CleanInv, KernelInv
    <2>4. \A f \in opt[i].fams : \E q \in routes : q.fam = f
        BY DEF CleanInv, LockInv, KeepsRoutes, Keeps, Serving, Missing, Own
    <2>5. \A r \in rules : r.prio \in Window \/ r.sel.iif = "oif"
        BY DEF CleanInv, KernelInv
    <2>6. Settled(i)
        BY <2>1, <2>2, <2>4, <2>5 DEF Settled, Installed
    <2> QED  BY <2>1, <2>3, <2>6, SettledRight
<1> QED  BY <1>1, CleanInvariant, PTL
=============================================================================
