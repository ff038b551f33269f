------------------------------ MODULE DarwinTun ------------------------------
(***************************************************************************)
(* The macOS device (tun_darwin.go) with NewTunDevice, the choice of its   *)
(* name (tun.go) and the ranges of its routes (tun_rules.go).              *)
(*                                                                         *)
(* The socket is connected to a unit of the utun control, which creates    *)
(* the interface; everything after that names the interface by the string  *)
(* of the options.  The kernel is shared by several processes that run     *)
(* this code and by others (VPN clients) that have utun interfaces too.    *)
(* Closing the socket, by the code or at the end of the process, removes   *)
(* the interface with its addresses and the routes that go through it.     *)
(***************************************************************************)
EXTENDS Integers, FiniteSets

CONSTANTS
    Instances,  \* processes
    Units,      \* n of the interfaces utun<n>
    Bad         \* names that parse, but not as the name of their unit

NoUnit == -1
None == "none"
Other == "other"

ASSUME DarwinTunAssumption ==
    /\ Units \subseteq Nat
    /\ \A name \in Bad : name.number \in Int /\ ~name.exact
    /\ None \notin Instances /\ Other \notin Instances

(* Sscanf of "utun%d" takes the number at the start: "utun5x" gives 5,     *)
(* "utun-1" gives -1.  A name is its number and whether it is the name of  *)
(* the interface of that number.                                           *)
Names == [number : Units, exact : {TRUE}] \cup Bad
NoName == [number |-> 0, exact |-> FALSE]

Families == {4, 6}

VARIABLES
    pc,
    options,    \* of each process: name, families with an address, AutoRoute
    unit,       \* unit that the socket of the process is connected to, or NoUnit
    owner,      \* whose each interface is
    addrs,      \* families with an address of each interface
    routes      \* interface of each route that the processes add: family, range

vars == <<pc, options, unit, owner, addrs, routes>>

(* BuildAutoRouteRanges: range r begins at 2^r in the first byte of the    *)
(* address and leaves r bits of it free.                                   *)
Bits == 8

RangesOneLess == 0..(Bits - 2)

Ranges == 0..(Bits - 1)
InRange(b, r) == b \div 2^r = 1

Routes == {<<f, r>> : f \in Families, r \in Ranges}
Wanted(i) ==
    IF options[i].autoRoute THEN {x \in Routes : x[1] \in options[i].families} ELSE {}

Init ==
    /\ pc = [i \in Instances |-> "idle"]
    /\ options = [i \in Instances |-> [name |-> NoName, families |-> {}, autoRoute |-> FALSE]]
    /\ unit = [i \in Instances |-> NoUnit]
    /\ owner \in [Units -> {None, Other}]
    /\ addrs = [u \in Units |-> {}]
    /\ routes = [x \in Routes |-> NoUnit]

Goto(i, at) == pc' = [pc EXCEPT ![i] = at]

(* The kernel removes an interface.                                        *)
Remove(u) ==
    /\ owner' = [owner EXCEPT ![u] = None]
    /\ addrs' = [addrs EXCEPT ![u] = {}]
    /\ routes' = [x \in Routes |-> IF routes[x] = u THEN NoUnit ELSE routes[x]]

OtherUp(u) ==
    /\ owner[u] = None
    /\ owner' = [owner EXCEPT ![u] = Other]
    /\ UNCHANGED <<pc, options, unit, addrs, routes>>

OtherDown(u) ==
    /\ owner[u] = Other
    /\ Remove(u)
    /\ UNCHANGED <<pc, options, unit>>

(***************************************************************************)
(* NewTunDevice with CalculateInterfaceName: one more than the largest     *)
(* number in the list of interfaces.  When the list cannot be read the     *)
(* name has no number, and New refuses it.                                 *)
(***************************************************************************)
NextNumber ==
    LET used == {u \in Units : owner[u] # None} IN
    IF used = {} THEN 0 ELSE 1 + CHOOSE u \in used : \A v \in used : v <= u

NewTunDevice(i) ==
    /\ pc[i] = "idle"
    /\ \E name \in Names \cup {[number |-> NextNumber, exact |-> TRUE]},
          families \in SUBSET Families, autoRoute \in BOOLEAN :
         options' = [options EXCEPT ![i] = [name |-> name, families |-> families,
                                            autoRoute |-> autoRoute]]
    /\ Goto(i, "connect")
    /\ UNCHANGED <<unit, owner, addrs, routes>>

(***************************************************************************)
(* New and configure.                                                      *)
(***************************************************************************)

(* Unit number + 1 in the arithmetic of 32 bits: -1 becomes 0, for which   *)
(* the kernel takes a unit that is free.                                   *)
Unit(i) == options[i].name.number

ConnectShared(i) ==
    /\ pc[i] = "connect"
    /\ \E u \in Units :
         /\ Unit(i) \in {-1, u}
         /\ unit' = [unit EXCEPT ![i] = u]
         /\ owner' = [owner EXCEPT ![u] = i]
    /\ Goto(i, "address")
    /\ UNCHANGED <<options, addrs, routes>>

Connect(i) ==
    /\ pc[i] = "connect"
    /\ \E u \in Units :
         /\ owner[u] = None
         /\ Unit(i) \in {-1, u}
         /\ unit' = [unit EXCEPT ![i] = u]
         /\ owner' = [owner EXCEPT ![u] = i]
    /\ Goto(i, "address")
    /\ UNCHANGED <<options, addrs, routes>>

(* The interface that an ioctl with the name of the options finds.         *)
Named(i) ==
    {u \in Units : options[i].name.exact /\ Unit(i) = u /\ owner[u] # None}

(* MTU and the addresses of one family after the other.                    *)
AddAddress(i, f) ==
    /\ pc[i] = "address"
    /\ f \in options[i].families
    /\ \A g \in options[i].families : \A u \in Named(i) : g < f => g \in addrs[u]
    /\ \E u \in Named(i) :
         /\ f \notin addrs[u]
         /\ addrs' = [addrs EXCEPT ![u] = @ \cup {f}]
    /\ UNCHANGED <<pc, options, unit, owner, routes>>

(* SetNonblock and the MTU come before the first address; without an       *)
(* interface of that name they fail.                                       *)
Addressed(i) ==
    /\ pc[i] = "address"
    /\ \E u \in Named(i) : options[i].families \subseteq addrs[u]
    /\ Goto(i, "route")
    /\ UNCHANGED <<options, unit, owner, addrs, routes>>

(* addRoute: the gateway is the address of the process, which leads to the *)
(* interface that has it.  The kernel refuses a second route to a          *)
(* destination.                                                            *)
Before(x, y) == x[1] < y[1] \/ (x[1] = y[1] /\ x[2] < y[2])

AddRoute(i, x) ==
    /\ pc[i] = "route"
    /\ x \in Wanted(i)
    /\ \A y \in Wanted(i) : Before(y, x) => routes[y] = unit[i]
    /\ routes[x] = NoUnit
    /\ routes' = [routes EXCEPT ![x] = unit[i]]
    /\ UNCHANGED <<pc, options, unit, owner, addrs>>

Configured(i) ==
    /\ pc[i] = "route"
    /\ \A x \in Wanted(i) : routes[x] = unit[i]
    /\ Goto(i, "up")
    /\ UNCHANGED <<options, unit, owner, addrs, routes>>

(* Any call of New and configure fails: New closes the socket.             *)
CloseSocket(i) ==
    /\ unit' = [unit EXCEPT ![i] = NoUnit]
    /\ IF unit[i] = NoUnit THEN UNCHANGED <<owner, addrs, routes>> ELSE Remove(unit[i])

NewFailsOpen(i) ==
    /\ pc[i] \in {"connect", "address", "route"}
    /\ Goto(i, "idle")
    /\ UNCHANGED <<options, unit, owner, addrs, routes>>

NewFails(i) ==
    /\ pc[i] \in {"connect", "address", "route"}
    /\ CloseSocket(i)
    /\ Goto(i, "idle")
    /\ UNCHANGED options

Close(i) ==
    /\ pc[i] = "up"
    /\ CloseSocket(i)
    /\ Goto(i, "idle")
    /\ UNCHANGED options

(* The process ends anywhere, and another may be started.                  *)
Crash(i) ==
    /\ pc[i] # "idle"
    /\ CloseSocket(i)
    /\ Goto(i, "idle")
    /\ UNCHANGED options

Next ==
    \/ \E u \in Units : OtherUp(u) \/ OtherDown(u)
    \/ \E i \in Instances :
         \/ NewTunDevice(i) \/ Connect(i) \/ Addressed(i) \/ Configured(i)
         \/ NewFails(i) \/ Close(i) \/ Crash(i)
         \/ \E f \in Families : AddAddress(i, f)
         \/ \E x \in Routes : AddRoute(i, x)

Spec == Init /\ [][Next]_vars

(***************************************************************************)
(* Properties.                                                             *)
(***************************************************************************)
(* Two processes that picked the same name, or one that was given a name   *)
(* that is taken or is not the name of its unit, never touch an interface  *)
(* of somebody else: what is configured by name is the process's own.      *)
TouchesOwnOnly ==
    \A u \in Units :
      addrs[u] # {} \/ (\E x \in Routes : routes[x] = u) =>
        /\ owner[u] \in Instances
        /\ unit[owner[u]] = u
        /\ addrs[u] \subseteq options[owner[u]].families
        /\ \A x \in Routes : routes[x] = u => x \in Wanted(owner[u])

(* A device that came up with AutoRoute takes all traffic of its families: *)
(* each range leads to the device, so that no second process with a family *)
(* in common can have come up, and the ranges leave out the addresses that *)
(* begin with a zero byte and no others, and do not overlap.               *)
OwnsRoutes(i) ==
    /\ unit[i] # NoUnit /\ owner[unit[i]] = i
    /\ \A x \in Wanted(i) : routes[x] = unit[i]

UpTakesAllTraffic ==
    \A i \in Instances :
      pc[i] = "up" =>
        /\ OwnsRoutes(i)
        /\ options[i].autoRoute =>
             \A b \in 0..(2^Bits - 1) :
               Cardinality({r \in Ranges : InRange(b, r)}) = IF b = 0 THEN 0 ELSE 1

(* Whatever call failed, and after Close or the end of the process, no     *)
(* interface, address or route of the process is left.                     *)
NothingLeft ==
    \A i \in Instances :
      pc[i] = "idle" =>
        /\ unit[i] = NoUnit
        /\ \A u \in Units : owner[u] # i
=============================================================================
