------------------------- MODULE WinConfigure_proofs -------------------------
(***************************************************************************)
(* Proofs about WinConfigure, for any set of options and interface indexes *)
(* and any number of failed calls of New.                                  *)
(***************************************************************************)
EXTENDS WinConfigure, TLAPS

(***************************************************************************)
(* The inductive invariant.  A session with the engine holds a prefix of   *)
(* the list for some options with AutoRoute, and it is dynamic; the step   *)
(* of New tells whether there is one, and whether it is complete.          *)
(***************************************************************************)
Sessions == [dynamic : BOOLEAN, opts : Options, index : Indexes, slot : 0..LastSlot]

SessionOK(e) == e \in Sessions /\ e.dynamic /\ e.opts.auto

EngineInv ==
    /\ opts \in Options
    /\ index \in Indexes
    /\ \A e \in Engines : SessionOK(e)
    /\ engine # {} => pc \in {"filters", "up"}
    /\ pc \in {"routes", "engine", "filters"} => opts.auto
    /\ pc = "filters" => \A e \in engine : e.slot < LastSlot
    /\ pc = "gone" => Engines = {}

(* What the list of filters guarantees: the two filters for the process    *)
(* itself come first, and every filter that blocks weighs less.            *)
LEMMA SlotFacts ==
    /\ Slots[1] = Filter(4, "app", "permit", 13, TRUE)
    /\ Slots[2] = Filter(6, "app", "permit", 13, TRUE)
    /\ \A k \in 1..LastSlot : Slots[k].action = "block" => k > 2 /\ Slots[k].weight \in 0..12
BY DEF Slots, LastSlot, Filter

(* A session with the engine that follows the list never blocks the        *)
(* process itself, however many of its filters were added.                 *)
LEMMA SessionSparesSelf ==
    ASSUME NEW e, SessionOK(e), NEW c \in Connections, c.app = "self"
    PROVE  ~BlockedBy(e, c)
<1> SUFFICES ASSUME NEW f \in Deciding(e, c), f.action = "block" PROVE FALSE
    BY DEF BlockedBy
<1>1. PICK k \in 1..e.slot : Wanted(e.opts, k) /\ f = Slots[k]
    BY DEF Deciding, Filters
<1>2. k \in 1..LastSlot /\ e.slot \in 0..LastSlot
    BY DEF SessionOK, Sessions, LastSlot
<1>3. k > 2 /\ f.weight \in 0..12
    BY <1>1, <1>2, SlotFacts
<1>4. PICK g \in Filters(e) : Applies(e, g, c) /\ g.weight = 13
    <2>1. 1 \in 1..e.slot /\ 2 \in 1..e.slot
        BY <1>2, <1>3
    <2>2. Slots[1] \in Filters(e) /\ Slots[2] \in Filters(e)
        BY <2>1 DEF Filters, Wanted
    <2>3. c.fam = 4 \/ c.fam = 6
        BY DEF Connections
    <2>4. CASE c.fam = 4
        BY <2>2, <2>4, SlotFacts DEF Applies, Filter
    <2>5. CASE c.fam = 6
        BY <2>2, <2>5, SlotFacts DEF Applies, Filter
    <2> QED  BY <2>3, <2>4, <2>5
<1>5. g.weight <= f.weight
    BY <1>4 DEF Deciding
<1> QED  BY <1>3, <1>4, <1>5

(* The invariant holds for the process before its first call of New.       *)
LEMMA InitEngine == Init => EngineInv
BY DEF Init, EngineInv, Engines

(* Every step of New, Close, the finalizer and the end of the process      *)
(* keeps it.                                                               *)
LEMMA StepEngine == EngineInv /\ [Next]_vars => EngineInv'
<1> SUFFICES ASSUME EngineInv, [Next]_vars PROVE EngineInv'  OBVIOUS
<1> USE DEF EngineInv, Engines
<1>1. CASE CreateAdapter
    BY <1>1 DEF CreateAdapter, Goto
<1>2. CASE StartSession \/ StartSessionFails
    BY <1>2 DEF StartSession, StartSessionFails, Goto, device
<1>3. CASE ConfigureFails
    BY <1>3 DEF ConfigureFails, MayFail
<1>4. CASE SetAddresses
    BY <1>4 DEF SetAddresses
<1>5. CASE AddRoute \/ RoutesDone
    BY <1>5 DEF AddRoute, RoutesDone, Goto
<1>6. CASE SetInterface
    BY <1>6 DEF SetInterface
<1>7. CASE EngineOpen
    <2>1. engine' = {Session(TRUE, opts, index, 0)} /\ pc' = "filters" /\ pc = "engine"
          /\ UNCHANGED <<opts, index, abandoned>>
        BY <1>7 DEF EngineOpen, Goto, device
    <2>2. SessionOK(Session(TRUE, opts, index, 0)) /\ Session(TRUE, opts, index, 0).slot < LastSlot
        BY <2>1 DEF SessionOK, Session, Sessions, LastSlot
    <2> QED  BY <2>1, <2>2
<1>8. CASE FilterAdd
    <2>1. PICK e \in engine : /\ engine' = {[e EXCEPT !.slot = @ + 1]}
                              /\ pc' = IF e.slot + 1 = LastSlot THEN "up" ELSE "filters"
        BY <1>8 DEF FilterAdd
    <2>2. SessionOK(e) /\ e.slot < LastSlot
        BY <1>8, <2>1 DEF FilterAdd
    <2> DEFINE n == [e EXCEPT !.slot = @ + 1]
    <2>3. e \in Sessions /\ e.dynamic /\ e.opts.auto /\ e.slot \in Nat
        BY <2>2 DEF SessionOK, Sessions
    <2>4. n.dynamic = e.dynamic /\ n.opts = e.opts /\ n.slot = e.slot + 1
        BY <2>3 DEF Sessions
    <2>5. e.slot + 1 \in 0..LastSlot
        BY <2>2, <2>3 DEF LastSlot
    <2>6. n \in Sessions
        BY <2>3, <2>5 DEF Sessions
    <2>7. SessionOK(n) /\ n.slot = e.slot + 1
        BY <2>3, <2>4, <2>6 DEF SessionOK
    <2>8. e.slot + 1 = LastSlot \/ e.slot + 1 < LastSlot
        BY <2>2 DEF SessionOK, Sessions, LastSlot
    <2> QED
        BY <1>8, <2>1, <2>7, <2>8 DEF FilterAdd, device
<1>9. CASE Close
    BY <1>9 DEF Close, Goto
<1>10. CASE Finalize \/ Exit
    <2>1. \A e \in Engines : e.dynamic
        BY DEF SessionOK, Sessions
    <2> QED  BY <1>10, <2>1 DEF Finalize, Exit
<1>11. CASE Start
    BY <1>11 DEF Start, Goto, device
<1>12. CASE UNCHANGED vars
    BY <1>12 DEF vars, device
<1> QED
    BY <1>1, <1>2, <1>3, <1>4, <1>5, <1>6, <1>7, <1>8, <1>9, <1>10, <1>11, <1>12 DEF Next

(* The invariant holds always.                                             *)
THEOREM EngineCorrect == Spec => []EngineInv
BY InitEngine, StepEngine, PTL DEF Spec

(* Whatever New, its failures and Close do, in any order, the connections  *)
(* of the process itself are never blocked.                                *)
THEOREM SelfPasses == Spec => []SelfNeverBlocked
<1>1. EngineInv => SelfNeverBlocked
    BY SessionSparesSelf DEF EngineInv, SelfNeverBlocked, AlwaysPasses
<1> QED  BY <1>1, EngineCorrect, PTL

(* Filters end with Close or with the process.                             *)
THEOREM FiltersGo == Spec => []FiltersEnd
<1>1. EngineInv => FiltersEnd
    BY DEF EngineInv, FiltersEnd, Engines, SessionOK
<1> QED  BY <1>1, EngineCorrect, PTL

(***************************************************************************)
(* A device that is up takes the traffic.  For this the invariant says     *)
(* that the engine session is the one of the device and, once New is done, *)
(* complete; and it follows the loop over the route ranges, of which only  *)
(* the last error is looked at.                                            *)
(***************************************************************************)
OwnSession ==
    /\ pc = "filters" => \E n \in 0..(LastSlot - 1) : engine = {Session(TRUE, opts, index, n)}
    /\ Up => engine = {Session(TRUE, opts, index, LastSlot)}

Routed == \A f \in opts.fams : f \in routes \/ (f = 4 /\ 6 \in opts.fams)

RouteInv ==
    /\ todo \subseteq {4, 6}
    /\ pc = "routes" =>
         /\ todo \subseteq opts.fams
         /\ 6 \in opts.fams \ todo => 4 \notin todo /\ (6 \in routes \/ err)
         /\ todo = {} /\ 6 \notin opts.fams => 4 \in routes \/ err \/ 4 \notin opts.fams
    /\ pc \in {"interfaces", "engine", "filters", "up"} /\ opts.auto => Routed

TunnelInv == EngineInv /\ OwnSession /\ RouteInv

(* The process has no device at first.                                     *)
LEMMA InitTunnel == Init => TunnelInv
BY InitEngine DEF Init, TunnelInv, OwnSession, RouteInv, Up

(* Adding a filter moves a session to its next slot.                       *)
LEMMA NextSlot ==
    ASSUME NEW e, NEW d, NEW o, NEW i, NEW n, NEW m, e = Session(d, o, i, n)
    PROVE  [e EXCEPT !.slot = m] = Session(d, o, i, m)
BY DEF Session

(* Every step keeps it.                                                    *)
LEMMA StepTunnel == TunnelInv /\ [Next]_vars => TunnelInv'
<1> SUFFICES ASSUME TunnelInv, [Next]_vars PROVE TunnelInv'  OBVIOUS
<1>0. EngineInv' /\ EngineInv /\ OwnSession /\ RouteInv
    BY StepEngine DEF TunnelInv
<1>f. opts \in Options /\ opts.fams \subseteq {4, 6} /\ \A o \in Options : o.fams \subseteq {4, 6}
    BY <1>0, WinConfigureAssumption DEF EngineInv
<1> SUFFICES OwnSession' /\ RouteInv'  BY <1>0 DEF TunnelInv
<1> USE DEF OwnSession, RouteInv, Routed, Up
<1>1. CASE CreateAdapter
    <2>1. pc' = "session" /\ opts' \in Options /\ todo' = opts'.fams
        BY <1>1 DEF CreateAdapter, Goto
    <2> QED  BY <1>f, <2>1
<1>2. CASE StartSession \/ StartSessionFails
    BY <1>0, <1>2 DEF StartSession, StartSessionFails, Goto, device
<1>3. CASE ConfigureFails
    BY <1>0, <1>3 DEF ConfigureFails
<1>4. CASE SetAddresses
    BY <1>0, <1>f, <1>4 DEF SetAddresses
<1>5. CASE AddRoute
    <2>1. PICK ok \in BOOLEAN : /\ routes' = IF ok THEN routes \cup {First(todo)} ELSE routes
                                /\ err' = ~ok
        BY <1>5 DEF AddRoute
    <2>2. /\ pc = "routes" /\ pc' = pc /\ todo # {} /\ todo' = todo \ {First(todo)}
          /\ UNCHANGED <<opts, index, addrs, engine, abandoned, orphan>>
        BY <1>5 DEF AddRoute
    <2>3. CASE 4 \in todo
        BY <1>0, <2>1, <2>2, <2>3 DEF First
    <2>4. CASE 4 \notin todo
        <3>1. todo = {6} /\ todo' = {}  BY <1>0, <2>2, <2>4 DEF First
        <3>2. 6 \in routes' \/ err'  BY <2>1, <2>4 DEF First
        <3> QED  BY <1>0, <2>2, <3>1, <3>2
    <2> QED  BY <2>3, <2>4
<1>6. CASE RoutesDone
    BY <1>0, <1>f, <1>6 DEF RoutesDone, Goto
<1>7. CASE SetInterface
    BY <1>0, <1>7 DEF SetInterface, EngineInv
<1>8. CASE EngineOpen
    <2>1. 0 \in 0..(LastSlot - 1)  BY DEF LastSlot
    <2> QED  BY <1>0, <1>8, <2>1 DEF EngineOpen, Goto, device
<1>9. CASE FilterAdd
    <2>1. PICK e \in engine : /\ engine' = {[e EXCEPT !.slot = @ + 1]}
                              /\ pc' = IF e.slot + 1 = LastSlot THEN "up" ELSE "filters"
        BY <1>9 DEF FilterAdd
    <2>2. pc = "filters" /\ UNCHANGED <<opts, index, todo, err, addrs, routes, abandoned, orphan>>
        BY <1>9 DEF FilterAdd, device
    <2>3. PICK n \in 0..(LastSlot - 1) : engine = {Session(TRUE, opts, index, n)}
        BY <1>0, <2>2
    <2>4. engine' = {Session(TRUE, opts, index, n + 1)} /\ e.slot = n
        <3>1. e = Session(TRUE, opts, index, n)
            BY <2>1, <2>3
        <3>2. e.slot = n
            BY <3>1 DEF Session
        <3>3. engine' = {[e EXCEPT !.slot = n + 1]}
            BY <2>1, <3>2
        <3>4. [e EXCEPT !.slot = n + 1] = Session(TRUE, opts, index, n + 1)
            <4>1. PICK d : d = TRUE
                BY Zenon
            <4>2. e = Session(d, opts, index, n)
                BY <3>1, <4>1, Zenon
            <4>3. [e EXCEPT !.slot = n + 1] = Session(d, opts, index, n + 1)
                BY <4>2, NextSlot
            <4> QED  BY <4>1, <4>3, Zenon
        <3> QED  BY <3>2, <3>3, <3>4
    <2>5. n + 1 = LastSlot \/ n + 1 \in 0..(LastSlot - 1)
        BY <2>3 DEF LastSlot
    <2> QED  BY <1>0, <2>1, <2>2, <2>4, <2>5
<1>10. CASE Close
    BY <1>0, <1>10 DEF Close, Goto
<1>11. CASE Finalize \/ Exit \/ Start
    BY <1>0, <1>11 DEF Finalize, Exit, Start, Goto, device
<1>12. CASE UNCHANGED vars
    BY <1>0, <1>12 DEF vars, device
<1> QED
    BY <1>1, <1>2, <1>3, <1>4, <1>5, <1>6, <1>7, <1>8, <1>9, <1>10, <1>11, <1>12 DEF Next

(* Only the process itself is permitted for good.                          *)
LEMMA HardIsSelf ==
    ASSUME NEW e, SessionOK(e), NEW c \in Connections, c.app = "other"
    PROVE  ~HardPermitted(e, c)
<1> SUFFICES ASSUME NEW f \in Deciding(e, c), f.hard PROVE FALSE
    BY DEF HardPermitted
<1>1. PICK k \in 1..e.slot : f = Slots[k]
    BY DEF Deciding, Filters
<1>2. k \in 1..7
    BY DEF SessionOK, Sessions, LastSlot
<1>3. f.cond = "app"
    BY <1>1, <1>2 DEF Slots, Filter
<1> QED  BY <1>3 DEF Deciding, Applies

(* The filters of a complete session, by their conditions.                 *)
LEMMA AllSlots ==
    ASSUME NEW o \in Options, NEW i \in Indexes
    PROVE  LET e == Session(TRUE, o, i, LastSlot) IN
           /\ e.opts = o /\ e.index = i
           /\ \A f : f \in Filters(e) <=> \E k \in 1..7 : Wanted(o, k) /\ f = Slots[k]
<1>1. Session(TRUE, o, i, LastSlot).slot = 7  BY DEF Session, LastSlot
<1> QED  BY <1>1 DEF Session, Filters

(* The complete session blocks, for other processes, DNS past the adapter  *)
(* and IPv6 when the adapter has none.                                     *)
LEMMA CompleteBlocks ==
    ASSUME NEW o \in Options, NEW i \in Indexes, NEW c \in Connections, c.app = "other",
           (c.dns /\ c.via # i) \/ (c.fam = 6 /\ 6 \notin o.fams)
    PROVE  BlockedBy(Session(TRUE, o, i, LastSlot), c)
<1> DEFINE e == Session(TRUE, o, i, LastSlot)
<1>1. /\ e.opts = o /\ e.index = i
      /\ \A f : f \in Filters(e) <=> \E k \in 1..7 : Wanted(o, k) /\ f = Slots[k]
    BY AllSlots
<1> HIDE DEF e
<1>2. c.fam \in {4, 6}  BY DEF Connections
<1>3. CASE c.fam = 6 /\ 6 \notin o.fams
    <2>1. Slots[3] \in Filters(e)  BY <1>1, <1>3 DEF Wanted
    <2>2. Applies(e, Slots[3], c) /\ Slots[3].action = "block" /\ Slots[3].weight = 12
        BY <1>3 DEF Applies, Slots, Filter
    <2>3. \A k \in 1..7 : Applies(e, Slots[k], c) => Slots[k].weight <= 12
        BY <1>1, <1>3 DEF Applies, Slots, Filter
    <2>4. Slots[3] \in Deciding(e, c)  BY <1>1, <2>1, <2>2, <2>3 DEF Deciding
    <2> QED  BY <2>2, <2>4 DEF BlockedBy, e
<1>4. CASE c.dns /\ c.via # i /\ ~(c.fam = 6 /\ 6 \notin o.fams)
    <2> DEFINE k == IF c.fam = 4 THEN 6 ELSE 7
    <2>1. Slots[k] \in Filters(e)  BY <1>1 DEF Wanted
    <2>2. Applies(e, Slots[k], c) /\ Slots[k].action = "block" /\ Slots[k].weight = 10
        BY <1>2, <1>4 DEF Applies, Slots, Filter
    <2>3. \A j \in 1..7 : Wanted(o, j) /\ Applies(e, Slots[j], c) => Slots[j].weight <= 10
        BY <1>1, <1>2, <1>4 DEF Applies, Slots, Filter, Wanted
    <2>4. Slots[k] \in Deciding(e, c)  BY <1>1, <2>1, <2>2, <2>3 DEF Deciding
    <2> QED  BY <2>2, <2>4 DEF BlockedBy, e
<1> QED  BY <1>3, <1>4

(* It lets everybody through the adapter, for its families.                *)
LEMMA CompletePasses ==
    ASSUME NEW o \in Options, NEW i \in Indexes, NEW c \in Connections, c.via = i,
           c.fam \in o.fams
    PROVE  ~BlockedBy(Session(TRUE, o, i, LastSlot), c)
<1> DEFINE e == Session(TRUE, o, i, LastSlot)
<1>1. /\ e.opts = o /\ e.index = i
      /\ \A f : f \in Filters(e) <=> \E k \in 1..7 : Wanted(o, k) /\ f = Slots[k]
    BY AllSlots
<1> HIDE DEF e
<1>2. c.fam \in {4, 6}  BY DEF Connections
<1> DEFINE k == IF c.fam = 4 THEN 4 ELSE 5
<1>3. Slots[k] \in Filters(e)  BY <1>1, <1>2 DEF Wanted
<1>4. Applies(e, Slots[k], c) /\ Slots[k].weight = 11
    BY <1>1, <1>2 DEF Applies, Slots, Filter
<1> SUFFICES ASSUME NEW f \in Deciding(e, c), f.action = "block" PROVE FALSE
    BY DEF BlockedBy, e
<1>5. PICK j \in 1..7 : Wanted(o, j) /\ f = Slots[j]  BY <1>1 DEF Deciding
<1>6. f.weight = 10
    BY <1>2, <1>5 DEF Deciding, Applies, Slots, Filter, Wanted
<1>7. 11 <= f.weight  BY <1>3, <1>4 DEF Deciding
<1> QED  BY <1>6, <1>7

(* While a device is up with AutoRoute, nothing gets past the tunnel, what *)
(* belongs into it gets through, and its routes are there.                 *)
THEOREM UpTunnelsAll == Spec => []TunnelOnly
<1>1. TunnelInv => TunnelOnly
    <2> SUFFICES ASSUME TunnelInv, Up PROVE
          /\ \A c \in Connections :
               /\ c.app = "other"
               /\ (c.dns /\ c.via # index) \/ (c.fam = 6 /\ 6 \notin opts.fams)
               => NeverPasses(c)
          /\ abandoned = {} =>
               \A c \in Connections : c.via = index /\ c.fam \in opts.fams => AlwaysPasses(c)
          /\ Routed
        BY DEF TunnelOnly, Routed
    <2>1. engine = {Session(TRUE, opts, index, LastSlot)} /\ opts \in Options /\ index \in Indexes
        BY DEF TunnelInv, OwnSession, EngineInv
    <2>2. \A e \in Engines : SessionOK(e)  BY DEF TunnelInv, EngineInv
    <2>3. ASSUME NEW c \in Connections, c.app = "other",
                 (c.dns /\ c.via # index) \/ (c.fam = 6 /\ 6 \notin opts.fams)
          PROVE  NeverPasses(c)
        BY <2>1, <2>2, <2>3, CompleteBlocks, HardIsSelf DEF NeverPasses, Engines
    <2>4. ASSUME abandoned = {}, NEW c \in Connections, c.via = index, c.fam \in opts.fams
          PROVE  AlwaysPasses(c)
        BY <2>1, <2>4, CompletePasses DEF AlwaysPasses, Engines
    <2>5. Routed  BY DEF TunnelInv, RouteInv, Up
    <2> QED  BY <2>3, <2>4, <2>5
<1>2. Spec => []TunnelInv
    BY InitTunnel, StepTunnel, PTL DEF Spec
<1> QED  BY <1>1, <1>2, PTL
=============================================================================
