------------------------------ MODULE LinuxTun ------------------------------
(***************************************************************************)
(* The Linux TUN device (tun_linux.go): New configures the link and        *)
(* installs routes and policy rules in the kernel one netlink call after   *)
(* the other, Close takes them away again.  Each call can fail, the        *)
(* process can die between any two of them, and another process can run    *)
(* the same code meanwhile.  The kernel drops a device and its routes when *)
(* the process that holds it is gone; rules stay.                          *)
(*                                                                         *)
(* The kernel is modelled from how the code uses it.  All instances share  *)
(* the table and the rule index (the defaults of NewTunDevice), and have   *)
(* at most one address per family: the code repeats a rule per address.    *)
(***************************************************************************)
EXTENDS Integers, Sequences, FiniteSets

CONSTANTS
    Instances,      \* processes that create the device, each with its name
    Options,        \* records [fams, auto] they are started with
    RuleIndex,      \* options.IPRoute2RuleIndex
    MainPriority,   \* priority of the rule for the main table (32766)
    MaxLeaked       \* bound: IPv6 rules without AutoRoute at the same time

ASSUME LinuxAssumption ==
    /\ Instances \cap {"any", "lo", "notlo", "oif", "eth"} = {}
    /\ Options \subseteq [fams : SUBSET {4, 6}, auto : BOOLEAN]
    /\ RuleIndex \in Nat \ {0}
    /\ MainPriority \in Nat /\ MainPriority > RuleIndex + 10
    /\ MaxLeaked \in Nat

VARIABLES
    links,          \* devices that exist, named by their instance
    routes,         \* [dev, fam]: default route of the table, IPRoute2TableIndex
    rules,          \* policy rules installed by any instance
    pc,             \* where each instance is
    opt,            \* its options
    configured,     \* FALSE as long as it may not configure the link (EPERM)
    plan,           \* rules it has still to add
    todo,           \* rules it listed and has still to delete
    ruleIndex6,     \* priorities of its rules without AutoRoute
    after,          \* where it goes when unsetRules is done
    alone,          \* no other instance was running while this one was
    clean           \* none of its deletions failed

kernel == <<links, routes, rules>>
local == <<opt, configured, plan, todo, ruleIndex6, after>>
history == <<alone, clean>>
vars == <<kernel, pc, local, history>>

Down == {"down", "closed"}

Init ==
    /\ links = {}
    /\ routes = {}
    /\ rules = {}
    /\ pc = [i \in Instances |-> "down"]
    /\ opt \in [Instances -> Options]
    /\ configured = [i \in Instances |-> FALSE]
    /\ plan = [i \in Instances |-> <<>>]
    /\ todo = [i \in Instances |-> {}]
    /\ ruleIndex6 = [i \in Instances |-> {}]
    /\ after = [i \in Instances |-> "failed"]
    /\ alone = [i \in Instances |-> FALSE]
    /\ clean = [i \in Instances |-> TRUE]

(***************************************************************************)
(* rules().                                                                *)
(***************************************************************************)
AnyPacket == [iif |-> "any", src |-> "any", dst |-> "any", notdns |-> FALSE]
Lo == [AnyPacket EXCEPT !.iif = "lo"]
NotDNS == [AnyPacket EXCEPT !.notdns = TRUE]
Table == "table"
TableSuppress == "tableSuppress"    \* suppress_prefixlength 0: not the default route
MainSuppress == "mainSuppress"
GotoNop == "goto"
Nop == "nop"

Rule(fam, prio, sel, act) == [fam |-> fam, prio |-> prio, sel |-> sel, act |-> act]
If(cond, seq) == IF cond THEN seq ELSE <<>>

(* What the device emits itself skips the rules that lead back to it.      *)
EmittedSkipsDropped(i, fam, prio) == <<>>

EmittedSkips(i, fam, prio) == <<Rule(fam, prio, [AnyPacket EXCEPT !.iif = i], GotoNop)>>

(* The rules with AutoRoute, in the order in which they are added.         *)
AutoRules(i, p4, p6) ==
    If(p4, <<Rule(4, RuleIndex, [AnyPacket EXCEPT !.dst = "tun"], Table),
             Rule(4, RuleIndex + 1, AnyPacket, TableSuppress)>>)
    \o If(p6, <<Rule(6, RuleIndex, AnyPacket, TableSuppress)>>)
    \o If(p4, <<Rule(4, RuleIndex + 2, NotDNS, MainSuppress)>>)
    \o If(p6, <<Rule(6, RuleIndex + 1, NotDNS, MainSuppress)>>)
    \o If(p4, EmittedSkips(i, 4, RuleIndex + 2)
              \o <<Rule(4, RuleIndex + 3, [AnyPacket EXCEPT !.iif = "notlo"], Table),
                   Rule(4, RuleIndex + 3, [Lo EXCEPT !.src = "unspec"], Table),
                   Rule(4, RuleIndex + 3, [Lo EXCEPT !.src = "tun"], Table)>>)
    \o If(p6, EmittedSkips(i, 6, RuleIndex + 1)
              \o <<Rule(6, RuleIndex + 1, [Lo EXCEPT !.src = "lowHalf"], GotoNop),
                   Rule(6, RuleIndex + 1, [Lo EXCEPT !.src = "highHalf"], GotoNop),
                   Rule(6, RuleIndex + 2, [Lo EXCEPT !.src = "tun"], Table),
                   Rule(6, RuleIndex + 3, AnyPacket, Table)>>)
    \o If(p4, <<Rule(4, RuleIndex + 10, AnyPacket, Nop)>>)
    \o If(p6, <<Rule(6, RuleIndex + 10, AnyPacket, Nop)>>)

(* nextIndex6: one below the lowest positive priority of an IPv6 rule.     *)
nextIndex6NotBelow ==
    LET used == {r.prio : r \in {r \in rules : r.fam = 6 /\ r.prio > 0}}
                  \cup {MainPriority}
    IN  CHOOSE n \in used : \A m \in used : n <= m

nextIndex6 ==
    LET used == {r.prio : r \in {r \in rules : r.fam = 6 /\ r.prio > 0}}
                  \cup {MainPriority}
    IN  (CHOOSE n \in used : \A m \in used : n <= m) - 1

(* The one rule without AutoRoute selects what is bound to the device.     *)
OifRule(i, prio) == Rule(6, prio, [AnyPacket EXCEPT !.iif = "oif", !.dst = i], Table)

(***************************************************************************)
(* New.                                                                    *)
(***************************************************************************)
(* open: the device exists from now on.                                    *)
NewOpen(i) ==
    /\ pc[i] \in Down
    /\ pc' = [pc EXCEPT ![i] = "opened"]
    /\ links' = links \cup {i}
    /\ \E o \in Options : opt' = [opt EXCEPT ![i] = o]
    /\ configured' = [configured EXCEPT ![i] = FALSE]
    /\ ruleIndex6' = [ruleIndex6 EXCEPT ![i] = {}]
    /\ clean' = [clean EXCEPT ![i] = TRUE]
    /\ alone' = [j \in Instances |-> j = i /\ \A k \in Instances \ {i} : pc[k] \in Down]
    /\ UNCHANGED <<routes, rules, plan, todo, after>>

(* LinkByName fails: the descriptor stays open and nothing refers to it.   *)
NewNoLink(i) ==
    /\ pc[i] = "opened"
    /\ pc' = [pc EXCEPT ![i] = "leaked"]
    /\ UNCHANGED <<kernel, local, history>>

(* MTU, addresses and link up.  Without the privilege the device is left   *)
(* as it is, and New succeeds.                                             *)
ConfigureLink(i) ==
    /\ pc[i] = "opened"
    /\ \/ /\ pc' = [pc EXCEPT ![i] = "setRoute"]
          /\ configured' = [configured EXCEPT ![i] = TRUE]
       \/ /\ \E to \in {"up", "failed"} : pc' = [pc EXCEPT ![i] = to]
          /\ UNCHANGED configured
    /\ UNCHANGED <<kernel, opt, plan, todo, ruleIndex6, after, history>>

Own(i) == {r \in routes : r.dev = i}
Missing(i) == opt[i].fams \ {r.fam : r \in Own(i)}

(* setRoute: the next route.  The kernel refuses a second one for the same *)
(* destination in the table, whatever device it is for.                    *)
SetRoute(i) ==
    LET fam == CHOOSE f \in Missing(i) : \A g \in Missing(i) : f <= g
    IN  /\ pc[i] = "setRoute"
        /\ Missing(i) # {}
        /\ \/ /\ \A r \in routes : r.fam # fam
              /\ routes' = routes \cup {[dev |-> i, fam |-> fam]}
              /\ UNCHANGED <<pc, after>>
           \/ /\ pc' = [pc EXCEPT ![i] = "unsetRoute"]
              /\ after' = [after EXCEPT ![i] = "failed"]
              /\ UNCHANGED routes
        /\ UNCHANGED <<links, rules, opt, configured, plan, todo, ruleIndex6, history>>

SetRouteDone(i) ==
    /\ pc[i] = "setRoute"
    /\ Missing(i) = {}
    /\ pc' = [pc EXCEPT ![i] = "unsetRules"]
    /\ after' = [after EXCEPT ![i] = "setRules"]
    /\ UNCHANGED <<kernel, opt, configured, plan, todo, ruleIndex6, history>>

(* unsetRoute0: delete the routes of this device, ignoring errors.  On the *)
(* way out of a failed configure that is all; Close goes on with rules.    *)
UnsetRouteAnyDevice(i) ==
    /\ pc[i] = "unsetRoute"
    /\ routes' = IF configured[i] THEN {} ELSE routes
    /\ pc' = [pc EXCEPT ![i] = IF after[i] = "failed" THEN "failed" ELSE "unsetRules"]
    /\ UNCHANGED <<links, rules, local, history>>

UnsetRoute(i) ==
    /\ pc[i] = "unsetRoute"
    /\ \E gone \in SUBSET Own(i) : routes' = routes \ gone
    /\ pc' = [pc EXCEPT ![i] = IF after[i] = "failed" THEN "failed" ELSE "unsetRules"]
    /\ UNCHANGED <<links, rules, local, history>>

(***************************************************************************)
(* unsetRules, called by configure before setRules and after it failed,    *)
(* and by Close.                                                           *)
(***************************************************************************)
(* An error: configure gives up, Close goes on.                            *)
UnsetRulesFails(i) ==
    /\ pc' = [pc EXCEPT ![i] = IF after[i] = "closeFile" THEN "closeFile" ELSE "failed"]
    /\ todo' = [todo EXCEPT ![i] = {}]
    /\ clean' = [clean EXCEPT ![i] = FALSE]
    /\ UNCHANGED <<kernel, opt, configured, plan, ruleIndex6, after, alone>>

(* netlink.RuleDel with a family and a priority: one rule that has them.   *)
RuleDel(i, fam, prio) ==
    /\ configured[i]
    /\ \E r \in rules : r.fam = fam /\ r.prio = prio /\ rules' = rules \ {r}

(* First the rule without AutoRoute.                                       *)
UnsetRule6(i) ==
    /\ pc[i] = "unsetRules"
    /\ ruleIndex6[i] # {}
    /\ \/ /\ \E n \in ruleIndex6[i] : RuleDel(i, 6, n)
          /\ ruleIndex6' = [ruleIndex6 EXCEPT ![i] = {}]
          /\ UNCHANGED <<links, routes, pc, opt, configured, plan, todo, after, history>>
       \/ UnsetRulesFails(i)

(* Then, with AutoRoute, list the rules of both families ...               *)
Window == RuleIndex..(RuleIndex + 10)

Listed(i, some) ==
    /\ pc' = [pc EXCEPT ![i] = "delRules"]
    /\ todo' = [todo EXCEPT ![i] = IF opt[i].auto THEN some ELSE {}]
    /\ UNCHANGED <<kernel, opt, configured, plan, ruleIndex6, after, history>>

UnsetListShort(i) ==
    /\ pc[i] = "unsetRules"
    /\ ruleIndex6[i] = {}
    /\ \/ Listed(i, {r \in rules : r.prio \in Window \ {RuleIndex + 10}})
       \/ opt[i].auto /\ UnsetRulesFails(i)

UnsetList(i) ==
    /\ pc[i] = "unsetRules"
    /\ ruleIndex6[i] = {}
    /\ \/ Listed(i, {r \in rules : r.prio \in Window})
       \/ opt[i].auto /\ UnsetRulesFails(i)

(* ... and delete one for each rule listed, in the order of the list.      *)
Before(r, s) == r.fam < s.fam \/ (r.fam = s.fam /\ r.prio < s.prio)

UnsetDel(i) ==
    /\ pc[i] = "delRules"
    /\ todo[i] # {}
    /\ LET r == CHOOSE r \in todo[i] : \A s \in todo[i] : ~Before(s, r)
       IN  \/ /\ RuleDel(i, r.fam, r.prio)
              /\ todo' = [todo EXCEPT ![i] = @ \ {r}]
              /\ UNCHANGED <<links, routes, pc, opt, configured, plan, ruleIndex6, after,
                             history>>
           \/ UnsetRulesFails(i)

UnsetDone(i) ==
    /\ pc[i] = "delRules"
    /\ todo[i] = {}
    /\ pc' = [pc EXCEPT ![i] = after[i]]
    /\ UNCHANGED <<kernel, local, history>>

(***************************************************************************)
(* setRules.                                                               *)
(***************************************************************************)
(* Build the list; without AutoRoute this picks a priority for the IPv6    *)
(* rule and remembers it, unless the rules could not be listed: then the   *)
(* kernel picks it and nobody remembers.                                   *)
SetRules(i) ==
    LET o == opt[i]
        leaked == {r \in rules : r.sel.iif = "oif"}
    IN  /\ pc[i] = "setRules"
        /\ pc' = [pc EXCEPT ![i] = "addRules"]
        /\ IF o.auto \/ 6 \notin o.fams
             THEN /\ plan' = [plan EXCEPT ![i] =
                                IF o.auto THEN AutoRules(i, 4 \in o.fams, 6 \in o.fams)
                                ELSE <<>>]
                  /\ UNCHANGED ruleIndex6
             ELSE /\ Cardinality(leaked) < MaxLeaked
                  /\ plan' = [plan EXCEPT ![i] = <<OifRule(i, nextIndex6)>>]
                  /\ ruleIndex6' \in {ruleIndex6,
                                      [ruleIndex6 EXCEPT ![i] = @ \cup {nextIndex6}]}
        /\ UNCHANGED <<kernel, opt, configured, todo, after, history>>

(* Add the next rule; the kernel refuses one it has.  After an error the   *)
(* rules are taken away again and New fails.                               *)
AddRule(i) ==
    /\ pc[i] = "addRules"
    /\ plan[i] # <<>>
    /\ \/ /\ Head(plan[i]) \notin rules
          /\ rules' = rules \cup {Head(plan[i])}
          /\ plan' = [plan EXCEPT ![i] = Tail(@)]
          /\ UNCHANGED <<pc, after>>
       \/ /\ pc' = [pc EXCEPT ![i] = "unsetRules"]
          /\ after' = [after EXCEPT ![i] = "failed"]
          /\ plan' = [plan EXCEPT ![i] = <<>>]
          /\ UNCHANGED rules
    /\ UNCHANGED <<links, routes, opt, configured, todo, ruleIndex6, history>>

NewDone(i) ==
    /\ pc[i] = "addRules"
    /\ plan[i] = <<>>
    /\ pc' = [pc EXCEPT ![i] = "up"]
    /\ UNCHANGED <<kernel, local, history>>

(***************************************************************************)
(* Close, and the end of the process.                                      *)
(***************************************************************************)
CloseCall(i) ==
    /\ pc[i] = "up"
    /\ pc' = [pc EXCEPT ![i] = "unsetRoute"]
    /\ after' = [after EXCEPT ![i] = "closeFile"]
    /\ UNCHANGED <<kernel, opt, configured, plan, todo, ruleIndex6, history>>

(* The kernel removes the device and its routes.                           *)
DropLink(i, to) ==
    /\ links' = links \ {i}
    /\ routes' = routes \ Own(i)
    /\ pc' = [pc EXCEPT ![i] = to]
    /\ plan' = [plan EXCEPT ![i] = <<>>]
    /\ todo' = [todo EXCEPT ![i] = {}]
    /\ UNCHANGED <<rules, opt, configured, ruleIndex6, after, history>>

CloseFile(i) == pc[i] = "closeFile" /\ DropLink(i, "closed")

(* New failed and its caller has no device to close: the descriptor is     *)
(* closed when the garbage collector finalises the os.File.                *)
Finalise(i) == pc[i] = "failed" /\ DropLink(i, "down")

(* The process dies.                                                       *)
Crash(i) == pc[i] \notin Down /\ DropLink(i, "down")

Next ==
    \E i \in Instances :
        \/ NewOpen(i) \/ NewNoLink(i) \/ ConfigureLink(i)
        \/ SetRoute(i) \/ SetRouteDone(i) \/ UnsetRoute(i)
        \/ UnsetRule6(i) \/ UnsetList(i) \/ UnsetDel(i) \/ UnsetDone(i)
        \/ SetRules(i) \/ AddRule(i) \/ NewDone(i)
        \/ CloseCall(i) \/ CloseFile(i) \/ Finalise(i) \/ Crash(i)

Spec == Init /\ [][Next]_vars

-----------------------------------------------------------------------------
(***************************************************************************)
(* What the kernel does with a packet.  Rules are tried by priority; the   *)
(* order among rules of one priority does not matter to the properties, so *)
(* all the rules that could decide are considered.                         *)
(***************************************************************************)
Packets ==
    [fam : {4, 6}, iif : Instances \cup {"lo", "eth"}, src : {"unspec", "tun", "other"},
     dst : {"tun", "lan", "wan"}, dns : BOOLEAN]

(* An IPv6 source prefix is matched only if the packet has a source; the   *)
(* two halves then cover every one of them.                                *)
SrcMatches(sel, src) ==
    \/ sel = "any"
    \/ sel = src
    \/ sel = "lowHalf" /\ src # "unspec"
    \/ sel = "highHalf" /\ src = "other"

Matches(r, p) ==
    /\ r.fam = p.fam
    /\ \/ r.sel.iif = "any"
       \/ r.sel.iif = p.iif
       \/ r.sel.iif = "notlo" /\ p.iif # "lo"
    /\ SrcMatches(r.sel.src, p.src)
    /\ r.sel.dst \in {"any", p.dst}
    /\ r.sel.notdns => ~p.dns

(* Table has a default route, main one for each destination.               *)
Yields(r, p) ==
    \/ r.act = Table /\ \E q \in routes : q.fam = p.fam
    \/ r.act = MainSuppress /\ p.dst # "wan"
    \/ r.act = "main"

MainRule(fam) == Rule(fam, MainPriority, AnyPacket, "main")

Skips(g, prio) == g.prio < prio /\ prio < RuleIndex + 10

(* Where a packet may go: "tun" or "eth".                                  *)
Outcomes(p) ==
    LET match == {r \in rules \cup {MainRule(p.fam)} : Matches(r, p)}
        jumps == {g \in match : g.act = GotoNop
                    /\ \E n \in rules : n.fam = p.fam /\ n.act = Nop}
        hits  == {r \in match : Yields(r, p)}
        sure  == {r \in hits : \A g \in jumps : g.prio # r.prio /\ ~Skips(g, r.prio)}
        may   == {r \in hits : /\ \A g \in jumps : ~Skips(g, r.prio)
                               /\ \A s \in sure : s.prio >= r.prio}
    IN  {IF r.act = Table \/ p.dst = "tun" THEN "tun" ELSE "eth" : r \in may}

-----------------------------------------------------------------------------
(***************************************************************************)
(* Properties                                                              *)
(***************************************************************************)
(* An instance that serves its device with its routes in the table.        *)
Serving(i) == pc[i] = "up" /\ configured[i]

(* Two processes that want the same table: the second one's New fails, and *)
(* its cleaning up does not free the table for a third attempt, as long as *)
(* the first one serves.                                                   *)
ExclusiveTable ==
    \A i, j \in Instances :
        i # j /\ Serving(i) /\ Serving(j) => opt[i].fams \cap opt[j].fams = {}

(* However earlier runs ended, after a crash half way through New or Close *)
(* too, a device with AutoRoute that came up alone has exactly its own     *)
(* rules in the range of priorities it uses, and gets what it is for: what *)
(* it emits itself does not come back to it, unbound and forwarded traffic *)
(* goes to it except to networks the main table knows, DNS goes to it even *)
(* then, a socket bound to another address bypasses it, and a family it    *)
(* has no address for is left alone.                                       *)
TrafficGoesRight ==
    \A i \in Instances :
        Serving(i) /\ alone[i] /\ opt[i].auto =>
            LET own == AutoRules(i, 4 \in opt[i].fams, 6 \in opt[i].fams)
                Bypasses(p) ==
                    \/ p.fam \notin opt[i].fams
                    \/ p.iif = i
                    \/ p.iif = "lo" /\ p.src = "other"
                    \/ p.dst = "lan" /\ ~p.dns
                Bound(p) == p.iif = "lo" /\ p.src = "tun"
            IN  /\ {r \in rules : r.prio \in Window} = {own[k] : k \in 1..Len(own)}
                /\ \A p \in {p \in Packets : p.dst # "tun" /\ p.iif \in {i, "lo", "eth"}} :
                     \/ Outcomes(p) = {IF Bypasses(p) THEN "eth" ELSE "tun"}
                     \/ Bound(p) /\ p.fam = 6 /\ Outcomes(p) = {"eth"}

(* A Close that ran alone and met no error leaves no route and none of the *)
(* rules with AutoRoute, the target of the jumps included.                 *)
CloseLeavesNothing ==
    \A i \in Instances :
        pc[i] = "closed" /\ alone[i] /\ clean[i] /\ configured[i] =>
            /\ opt[i].auto => \A r \in rules : r.prio \notin Window
            /\ Own(i) = {}

(* The rule without AutoRoute is deleted by its priority alone.  As long   *)
(* as no other instance runs, what is deleted is the rule this run added,  *)
(* never one that was there before.  Priority 0 is excepted: nextIndex6    *)
(* picks it below a rule at 1, without looking at the rules that have it.  *)
DeletesItsOwn ==
    [][\A i \in Instances :
         /\ alone[i] /\ pc[i] = "unsetRules"
         /\ ruleIndex6[i] # {} /\ ruleIndex6'[i] = {} /\ 0 \notin ruleIndex6[i]
         => rules \ rules' = {OifRule(i, n) : n \in ruleIndex6[i]}]_vars
=============================================================================
