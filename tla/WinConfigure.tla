---------------------------- MODULE WinConfigure ----------------------------
(***************************************************************************)
(* New, configure and Close of the Windows device (tun_windows.go): the    *)
(* adapter, its session, addresses and routes, and the filters that        *)
(* configure installs when AutoRoute is set.  Every system call may fail;  *)
(* New may be called again in the same process after it failed, with other *)
(* options, and the process may end at any moment.                         *)
(*                                                                         *)
(* The wintun adapter, the IP helper calls and the filtering platform are  *)
(* modelled from how the code uses them.                                   *)
(***************************************************************************)
EXTENDS Naturals, FiniteSets

CONSTANTS
    Options,        \* [fams : SUBSET {4, 6}, auto : BOOLEAN]: families with an address, AutoRoute
    Indexes,        \* interface indexes Windows may give to the adapter
    MaxAbandoned    \* bound: engine sessions that failed calls of New leave open

Uplink == 0         \* the interface to the outside, which is not the adapter

ASSUME WinConfigureAssumption ==
    /\ Options \subseteq [fams : SUBSET {4, 6}, auto : BOOLEAN]
    /\ Indexes \subseteq Nat \ {Uplink}
    /\ MaxAbandoned \in Nat

VARIABLES
    pc,             \* next step of New, "up", or "gone" (no process)
    opts,           \* the options of the device
    index,          \* its interface index
    todo,           \* families still to be treated by the step
    err,            \* err of the loop over the route ranges
    addrs,          \* families whose addresses the adapter has
    routes,         \* families whose default route goes to the adapter
    engine,         \* t.fwpmSession: a set with the engine session, or empty
    abandoned,      \* engine sessions that nobody has a handle of any more
    orphan          \* an adapter that was created but never closed

device == <<opts, index, todo, err, addrs, routes>>
vars == <<pc, device, engine, abandoned, orphan>>

Engines == engine \cup abandoned

(* A session with the filter engine: whether it is dynamic, the interface  *)
(* its filters are for, and the last slot of the list below that was done. *)
Session(dynamic, o, i, n) == [dynamic |-> dynamic, opts |-> o, index |-> i, slot |-> n]

(***************************************************************************)
(* The filters, in the order in which configure adds them.                 *)
(***************************************************************************)
Filter(layer, cond, action, weight, hard) ==
    [layer |-> layer, cond |-> cond, action |-> action, weight |-> weight, hard |-> hard]

SlotsSelfLast ==
    <<Filter(6, "any", "block", 12, FALSE),
      Filter(4, "tun", "permit", 11, FALSE), Filter(6, "tun", "permit", 11, FALSE),
      Filter(4, "dns", "block", 10, FALSE), Filter(6, "dns", "block", 10, FALSE),
      Filter(4, "app", "permit", 13, TRUE), Filter(6, "app", "permit", 13, TRUE)>>

Slots ==
    <<Filter(4, "app", "permit", 13, TRUE), Filter(6, "app", "permit", 13, TRUE),
      Filter(6, "any", "block", 12, FALSE),
      Filter(4, "tun", "permit", 11, FALSE), Filter(6, "tun", "permit", 11, FALSE),
      Filter(4, "dns", "block", 10, FALSE), Filter(6, "dns", "block", 10, FALSE)>>

LastSlot == 7

(* The slots that are filled: all but the ones under a condition on the    *)
(* addresses of the options.                                               *)
WantedIPv4Tun(o, k) ==
    /\ k = 3 => 6 \notin o.fams
    /\ k = 4 => 4 \in o.fams
    /\ k # 5

Wanted(o, k) ==
    /\ k = 3 => 6 \notin o.fams
    /\ k = 4 => 4 \in o.fams
    /\ k = 5 => 6 \in o.fams

Filters(e) == {Slots[k] : k \in {j \in 1..e.slot : Wanted(e.opts, j)}}

(* No device, no process state.                                            *)
Init ==
    /\ pc = "idle"
    /\ opts \in Options
    /\ index \in Indexes
    /\ todo = {}
    /\ err = FALSE
    /\ addrs = {}
    /\ routes = {}
    /\ engine = {}
    /\ abandoned = {}
    /\ orphan = FALSE

Goto(from, to) == pc = from /\ pc' = to

(* The first family of a set in the order the code treats them.            *)
First(fams) == IF 4 \in fams THEN 4 ELSE 6

(***************************************************************************)
(* New: CreateAdapter and StartSession.  Without a session New returns at  *)
(* once and leaves the adapter to its finalizer.                           *)
(***************************************************************************)
CreateAdapter ==
    /\ Goto("idle", "session")
    /\ \E o \in Options, i \in Indexes : opts' = o /\ index' = i
    /\ todo' = opts'.fams
    /\ err' = FALSE
    /\ addrs' = {}
    /\ routes' = {}
    /\ engine' = {}
    /\ UNCHANGED <<abandoned, orphan>>

StartSession ==
    /\ Goto("session", "addresses")
    /\ UNCHANGED <<device, engine, abandoned, orphan>>

StartSessionFails ==
    /\ Goto("session", "idle")
    /\ orphan' = TRUE
    /\ UNCHANGED <<device, engine, abandoned>>

(* The next call of configure is one whose error it returns.  In the loop  *)
(* over the route ranges there is none; after it, err or the flush of the  *)
(* resolver cache.                                                         *)
MayFail ==
    \/ pc \in {"addresses", "interfaces"} /\ todo # {}
    \/ pc = "routes" /\ todo = {}
    \/ pc \in {"engine", "filters"}

(* The error path of New: the session ends and the adapter is closed, with *)
(* its addresses and routes.  Nothing closes t.fwpmSession.                *)
ConfigureFails ==
    /\ MayFail
    /\ Cardinality(Engines) <= MaxAbandoned
    /\ pc' = "idle"
    /\ addrs' = {}
    /\ routes' = {}
    /\ abandoned' = Engines
    /\ engine' = {}
    /\ UNCHANGED <<opts, index, todo, err, orphan>>

(* SetIPAddressesForFamily: what the adapter has is flushed, then each     *)
(* address is added; a failure of either is an error of configure.         *)
SetAddresses ==
    /\ pc = "addresses"
    /\ IF todo # {}
       THEN /\ addrs' = addrs \cup {First(todo)}
            /\ todo' = todo \ {First(todo)}
            /\ UNCHANGED pc
       ELSE /\ pc' = IF opts.auto THEN "routes" ELSE "interfaces"
            /\ todo' = opts.fams
            /\ UNCHANGED addrs
    /\ UNCHANGED <<opts, index, err, routes, engine, abandoned, orphan>>

(* AddRoute for each route range, one per family.  The error of each call  *)
(* overwrites the error of the one before.                                 *)
AddRoute ==
    /\ pc = "routes"
    /\ todo # {}
    /\ \E ok \in BOOLEAN :
         /\ routes' = IF ok THEN routes \cup {First(todo)} ELSE routes
         /\ err' = ~ok
    /\ todo' = todo \ {First(todo)}
    /\ UNCHANGED <<pc, opts, index, addrs, engine, abandoned, orphan>>

(* The error is looked at after the loop; then the resolver cache is       *)
(* flushed (a failure of that is a ConfigureFails).                        *)
RoutesDone ==
    /\ Goto("routes", "interfaces")
    /\ todo = {}
    /\ ~err
    /\ todo' = opts.fams
    /\ UNCHANGED <<opts, index, err, addrs, routes, engine, abandoned, orphan>>

(* IPInterface and Set for each family; without AutoRoute configure ends   *)
(* here.                                                                   *)
SetInterface ==
    /\ pc = "interfaces"
    /\ IF todo # {}
       THEN todo' = todo \ {First(todo)} /\ UNCHANGED pc
       ELSE pc' = (IF opts.auto THEN "engine" ELSE "up") /\ UNCHANGED todo
    /\ UNCHANGED <<opts, index, err, addrs, routes, engine, abandoned, orphan>>

(* FwpmEngineOpen0 with FWPM_SESSION_FLAG_DYNAMIC; t.fwpmSession is set.   *)
EngineOpenStatic ==
    /\ Goto("engine", "filters")
    /\ engine' = {Session(FALSE, opts, index, 0)}
    /\ UNCHANGED <<device, abandoned, orphan>>

EngineOpen ==
    /\ Goto("engine", "filters")
    /\ engine' = {Session(TRUE, opts, index, 0)}
    /\ UNCHANGED <<device, abandoned, orphan>>

(* The sublayer, the application id and then one FwpmFilterAdd0 after the  *)
(* other, without a transaction: each filter is in force at once.          *)
FilterAdd ==
    /\ pc = "filters"
    /\ \E e \in engine :
         /\ engine' = {[e EXCEPT !.slot = @ + 1]}
         /\ pc' = IF e.slot + 1 = LastSlot THEN "up" ELSE "filters"
    /\ UNCHANGED <<device, abandoned, orphan>>

(* Close: the session, the adapter with its routes, the engine session if  *)
(* there is one.                                                           *)
Close ==
    /\ Goto("up", "idle")
    /\ addrs' = {}
    /\ routes' = {}
    /\ engine' = {}
    /\ UNCHANGED <<opts, index, todo, err, abandoned, orphan>>

(* The finalizer of an adapter that was never closed passes its arguments  *)
(* to SyscallN in the order that Syscall has: the driver is asked to close *)
(* the handle 1 and the process ends.                                      *)
Finalize ==
    /\ orphan
    /\ pc # "gone"
    /\ pc' = "gone"
    /\ orphan' = FALSE
    /\ addrs' = {}
    /\ routes' = {}
    /\ engine' = {e \in engine : ~e.dynamic}
    /\ abandoned' = {e \in abandoned : ~e.dynamic}
    /\ UNCHANGED <<opts, index, todo, err>>

(* The process ends: Windows removes its adapters and closes its dynamic   *)
(* engine sessions, whose filters go with them.                            *)
Exit ==
    /\ pc # "gone"
    /\ pc' = "gone"
    /\ orphan' = FALSE
    /\ addrs' = {}
    /\ routes' = {}
    /\ engine' = {e \in engine : ~e.dynamic}
    /\ abandoned' = {e \in abandoned : ~e.dynamic}
    /\ UNCHANGED <<opts, index, todo, err>>

(* Another process starts.                                                 *)
Start ==
    /\ Goto("gone", "idle")
    /\ UNCHANGED <<device, engine, abandoned, orphan>>

Next ==
    \/ CreateAdapter \/ StartSession \/ StartSessionFails \/ ConfigureFails
    \/ SetAddresses \/ AddRoute \/ RoutesDone \/ SetInterface
    \/ EngineOpen \/ FilterAdd \/ Close \/ Finalize \/ Exit \/ Start

Spec == Init /\ [][Next]_vars

(***************************************************************************)
(* What the filtering platform does with a connection: [fam, app, ifindex, *)
(* dns].  In each sublayer the matching filter of the greatest weight      *)
(* decides.  Between sublayers a block wins, unless a permit that gives    *)
(* the right to override away was met before; all sublayers have the same  *)
(* weight, so either may come first.                                       *)
(***************************************************************************)
Connections ==
    [fam : {4, 6}, app : {"self", "other"}, via : Indexes \cup {Uplink}, dns : BOOLEAN]

Applies(e, f, c) ==
    /\ f.layer = c.fam
    /\ f.cond = "app" => c.app = "self"
    /\ f.cond = "tun" => c.via = e.index
    /\ f.cond = "dns" => c.dns

Deciding(e, c) ==
    {f \in Filters(e) : /\ Applies(e, f, c)
                        /\ \A g \in Filters(e) : Applies(e, g, c) => g.weight <= f.weight}

BlockedBy(e, c) == \E f \in Deciding(e, c) : f.action = "block"
HardPermitted(e, c) == \E f \in Deciding(e, c) : f.action = "permit" /\ f.hard

AlwaysPasses(c) == \A e \in Engines : ~BlockedBy(e, c)
NeverPasses(c) ==
    /\ \E e \in Engines : BlockedBy(e, c)
    /\ \A e \in Engines : ~HardPermitted(e, c)

(***************************************************************************)
(* Properties.                                                             *)
(***************************************************************************)
Up == pc = "up" /\ opts.auto

(* The connections of the process itself, which carry the traffic of the   *)
(* tunnel to the outside, are never blocked: not by a device that is up,   *)
(* nor while configure is half way through its filters, nor by what failed *)
(* calls of New have left behind.                                          *)
SelfNeverBlocked == \A c \in Connections : c.app = "self" => AlwaysPasses(c)

(* While the device is up with AutoRoute, no other process resolves names  *)
(* past the tunnel, and without an IPv6 address it has no IPv6 at all.  It *)
(* lets everything through the tunnel that it has an address for, provided *)
(* no failed New left filters for another interface or other options.  And *)
(* traffic is led to it; of a device with both families possibly only the  *)
(* IPv6 one, since the loop over the route ranges keeps only the error of  *)
(* the last AddRoute.                                                      *)
TunnelOnly ==
    Up =>
      /\ \A c \in Connections :
           /\ c.app = "other"
           /\ (c.dns /\ c.via # index) \/ (c.fam = 6 /\ 6 \notin opts.fams)
           => NeverPasses(c)
      /\ abandoned = {} =>
           \A c \in Connections : c.via = index /\ c.fam \in opts.fams => AlwaysPasses(c)
      /\ \A f \in opts.fams : f \in routes \/ (f = 4 /\ 6 \in opts.fams)

(* Filters are in force only while a device with AutoRoute is being        *)
(* configured or up, or if a New with AutoRoute failed in this process;    *)
(* none outlives Close, and none outlives the process.                     *)
FiltersEnd ==
    /\ pc = "gone" => Engines = {}
    /\ engine # {} => pc \in {"filters", "up"}
    /\ \A e \in abandoned : e.opts.auto
=============================================================================
