--------------------------- MODULE DarwinTun_proofs ---------------------------
(***************************************************************************)
(* Proofs about DarwinTun, for any processes, units and bad names.         *)
(***************************************************************************)
EXTENDS DarwinTun, FiniteSetTheorems, TLAPS

Pcs == {"idle", "connect", "address", "route", "up"}

Types ==
    /\ pc \in [Instances -> Pcs]
    /\ DOMAIN options = Instances
    /\ unit \in [Instances -> Units \cup {NoUnit}]
    /\ owner \in [Units -> Instances \cup {None, Other}]
    /\ DOMAIN addrs = Units
    /\ routes \in [Routes -> Units \cup {NoUnit}]

(* The socket of a process and its interface belong together.              *)
Paired ==
    /\ \A i \in Instances : unit[i] # NoUnit => owner[unit[i]] = i
    /\ \A u \in Units : owner[u] \in Instances => unit[owner[u]] = u

(* Between Connect and the end, the number in the name is that of the      *)
(* unit, unless the kernel chose.                                          *)
Positions ==
    \A i \in Instances :
      /\ pc[i] \in {"idle", "connect"} => unit[i] = NoUnit
      /\ pc[i] \in {"address", "route", "up"} =>
           unit[i] # NoUnit /\ options[i].name.number \in {-1, unit[i]}

AddrsInv ==
    \A u \in Units : \A f \in addrs[u] :
      owner[u] \in Instances /\ f \in options[owner[u]].families

RoutesInv ==
    \A x \in Routes :
      routes[x] # NoUnit =>
        owner[routes[x]] \in Instances /\ x \in Wanted(owner[routes[x]])

UpInv == \A i \in Instances : pc[i] = "up" => \A x \in Wanted(i) : routes[x] = unit[i]

IInv == Types /\ Paired /\ Positions /\ AddrsInv /\ RoutesInv /\ UpInv

(* The invariant holds before the first call of New.                       *)
LEMMA InitInv == Init => IInv
  BY DarwinTunAssumption DEF Init, IInv, Types, Paired, Positions, AddrsInv, RoutesInv, UpInv,
     Pcs, NoUnit, None, Other

(* What happens to the interface of a process that ends, or of somebody    *)
(* else, when the kernel removes it.                                       *)
LEMMA SocketClosed ==
  ASSUME IInv, NEW i \in Instances, CloseSocket(i), Goto(i, "idle"), UNCHANGED options
  PROVE  IInv'
<1> USE DarwinTunAssumption DEF NoUnit
<1>1. CASE unit[i] = NoUnit
  BY <1>1 DEF IInv, Types, Paired, Positions, AddrsInv, RoutesInv, UpInv, Pcs, CloseSocket, Goto,
     Wanted, None, Other
<1>2. CASE unit[i] # NoUnit
  <2> DEFINE u == unit[i]
  <2>1. u \in Units /\ owner[u] = i /\ u # NoUnit
    BY <1>2 DEF IInv, Types, Paired
  <2>2. Remove(u)
    BY <1>2 DEF CloseSocket
  <2>3. \A j \in Instances : j # i => unit[j] # u
    BY <2>1 DEF IInv, Paired
  <2>4. unit' = [unit EXCEPT ![i] = NoUnit]
    BY DEF CloseSocket
  <2> HIDE DEF u
  <2>5. Types'
    BY <2>1, <2>2, <2>4 DEF IInv, Types, Pcs, Goto, Remove, None, Other
  <2>6. Paired'
    BY <2>1, <2>2, <2>3, <2>4 DEF IInv, Types, Paired, Remove, None, Other
  <2>7. Positions'
    BY <2>4 DEF IInv, Types, Positions, Goto, Pcs
  <2>8. AddrsInv'
    BY <2>1, <2>2 DEF IInv, Types, AddrsInv, Remove, None, Other
  <2>9. RoutesInv'
    BY <2>1, <2>2 DEF IInv, Types, RoutesInv, Remove, Wanted, None, Other
  <2>10. UpInv'
    <3> SUFFICES ASSUME NEW j \in Instances, pc'[j] = "up", NEW x \in Wanted(j)'
                 PROVE  routes'[x] = unit'[j]
      BY DEF UpInv
    <3>1. j # i /\ pc[j] = "up" /\ x \in Wanted(j) /\ unit'[j] = unit[j]
      BY <2>4 DEF Goto, IInv, Types, Wanted
    <3>2. routes[x] = unit[j] /\ unit[j] # u /\ x \in Routes
      BY <3>1, <2>3 DEF IInv, UpInv, Wanted
    <3> QED BY <3>1, <3>2, <2>2 DEF Remove
  <2> QED BY <2>5, <2>6, <2>7, <2>8, <2>9, <2>10 DEF IInv
<1> QED BY <1>1, <1>2

(* Every step of New, Close and the kernel keeps it.                       *)
LEMMA NextInv == IInv /\ [Next]_vars => IInv'
<1> SUFFICES ASSUME IInv, [Next]_vars PROVE IInv'
  OBVIOUS
<1> USE DarwinTunAssumption DEF NoUnit
<1>1. CASE UNCHANGED vars
  BY <1>1 DEF vars, IInv, Types, Paired, Positions, AddrsInv, RoutesInv, UpInv, Wanted
<1>2. ASSUME NEW u \in Units, OtherUp(u) PROVE IInv'
  <2>1. owner[u] = None /\ owner' = [owner EXCEPT ![u] = Other]
        /\ UNCHANGED <<pc, options, unit, addrs, routes>>
    BY <1>2 DEF OtherUp
  <2>2. Types' /\ Positions' /\ UpInv'
    BY <2>1 DEF IInv, Types, Positions, UpInv, Wanted, None, Other
  <2>3. Paired'
    BY <2>1 DEF IInv, Types, Paired, None, Other
  <2>4. AddrsInv'
    BY <2>1 DEF IInv, Types, AddrsInv, None, Other
  <2>5. RoutesInv'
    BY <2>1 DEF IInv, Types, RoutesInv, Wanted, None, Other
  <2> QED BY <2>2, <2>3, <2>4, <2>5 DEF IInv
<1>3. ASSUME NEW u \in Units, OtherDown(u) PROVE IInv'
  <2>1. owner[u] = Other /\ Remove(u) /\ UNCHANGED <<pc, options, unit>>
    BY <1>3 DEF OtherDown
  <2>2. \A j \in Instances : unit[j] # u
    BY <2>1 DEF IInv, Paired, Other
  <2>3. Types' /\ Positions'
    BY <2>1 DEF IInv, Types, Positions, Remove, None, Other
  <2>4. Paired'
    BY <2>1, <2>2 DEF IInv, Types, Paired, Remove, None, Other
  <2>5. AddrsInv'
    BY <2>1 DEF IInv, Types, AddrsInv, Remove, None, Other
  <2>6. RoutesInv'
    BY <2>1 DEF IInv, Types, RoutesInv, Remove, Wanted, None, Other
  <2>7. UpInv'
    BY <2>1, <2>2 DEF IInv, Types, UpInv, Remove, Wanted
  <2> QED BY <2>3, <2>4, <2>5, <2>6, <2>7 DEF IInv
<1>4. ASSUME NEW i \in Instances, NewTunDevice(i) PROVE IInv'
  <2>1. pc[i] = "idle" /\ pc' = [pc EXCEPT ![i] = "connect"] /\ UNCHANGED <<unit, owner, addrs, routes>>
    BY <1>4 DEF NewTunDevice, Goto
  <2>2. PICK new : options' = [options EXCEPT ![i] = new]
    BY <1>4 DEF NewTunDevice
  <2>3. unit[i] = NoUnit /\ \A u \in Units : owner[u] # i
    <3>1. unit[i] = NoUnit
      BY <2>1 DEF IInv, Positions
    <3>2. ASSUME NEW u \in Units, owner[u] = i PROVE FALSE
      BY <3>1, <3>2 DEF IInv, Paired
    <3> QED BY <3>1, <3>2
  <2>4. \A j \in Instances : j # i => Wanted(j)' = Wanted(j)
    BY <2>2 DEF Wanted, IInv, Types
  <2>5. Types' /\ Paired' /\ Positions'
    BY <2>1, <2>2, <2>3 DEF IInv, Types, Paired, Positions, Pcs
  <2>6. AddrsInv'
    BY <2>1, <2>2, <2>3 DEF IInv, Types, AddrsInv
  <2>7. RoutesInv'
    BY <2>1, <2>3, <2>4 DEF IInv, Types, RoutesInv
  <2>8. UpInv'
    BY <2>1, <2>4 DEF IInv, Types, UpInv
  <2> QED BY <2>5, <2>6, <2>7, <2>8 DEF IInv
<1>5. ASSUME NEW i \in Instances, Connect(i) PROVE IInv'
  <2>1. PICK u \in Units : /\ owner[u] = None
                           /\ Unit(i) \in {-1, u}
                           /\ unit' = [unit EXCEPT ![i] = u]
                           /\ owner' = [owner EXCEPT ![u] = i]
    BY <1>5 DEF Connect
  <2>2. pc[i] = "connect" /\ pc' = [pc EXCEPT ![i] = "address"] /\ UNCHANGED <<options, addrs, routes>>
    BY <1>5 DEF Connect, Goto
  <2>3. unit[i] = NoUnit /\ \A v \in Units : owner[v] # i
    BY <2>2 DEF IInv, Types, Positions, Paired
  <2>4. Types' /\ Positions'
    BY <2>1, <2>2 DEF IInv, Types, Positions, Pcs, Unit
  <2>5. Paired'
    BY <2>1, <2>3 DEF IInv, Types, Paired, None
  <2>6. AddrsInv'
    BY <2>1, <2>2 DEF IInv, Types, AddrsInv, None
  <2>7. RoutesInv'
    BY <2>1, <2>2 DEF IInv, Types, RoutesInv, Wanted, None
  <2>8. UpInv'
    BY <2>1, <2>2 DEF IInv, Types, UpInv, Wanted
  <2> QED BY <2>4, <2>5, <2>6, <2>7, <2>8 DEF IInv
<1>6. ASSUME NEW i \in Instances, NEW f \in Families, AddAddress(i, f) PROVE IInv'
  <2>1. PICK u \in Named(i) : addrs' = [addrs EXCEPT ![u] = @ \cup {f}]
    BY <1>6 DEF AddAddress
  <2>2. pc[i] = "address" /\ f \in options[i].families /\ UNCHANGED <<pc, options, unit, owner, routes>>
    BY <1>6 DEF AddAddress
  <2>3. u \in Units /\ u = unit[i] /\ owner[u] = i
    BY <2>1, <2>2 DEF Named, Unit, IInv, Positions, Paired
  <2>4. Types' /\ Paired' /\ Positions' /\ RoutesInv' /\ UpInv'
    BY <2>1, <2>2 DEF IInv, Types, Paired, Positions, RoutesInv, UpInv, Wanted
  <2>5. AddrsInv'
    BY <2>1, <2>2, <2>3 DEF IInv, Types, AddrsInv
  <2> QED BY <2>4, <2>5 DEF IInv
<1>7. ASSUME NEW i \in Instances, Addressed(i) PROVE IInv'
  BY <1>7 DEF Addressed, Goto, IInv, Types, Paired, Positions, AddrsInv, RoutesInv, UpInv, Wanted, Pcs
<1>8. ASSUME NEW i \in Instances, NEW x \in Routes, AddRoute(i, x) PROVE IInv'
  <2>1. /\ pc[i] = "route" /\ x \in Wanted(i) /\ routes[x] = NoUnit
        /\ routes' = [routes EXCEPT ![x] = unit[i]]
        /\ UNCHANGED <<pc, options, unit, owner, addrs>>
    BY <1>8 DEF AddRoute
  <2>2. unit[i] \in Units /\ owner[unit[i]] = i
    BY <2>1 DEF IInv, Types, Positions, Paired
  <2>3. Types' /\ Paired' /\ Positions' /\ AddrsInv'
    BY <2>1, <2>2 DEF IInv, Types, Paired, Positions, AddrsInv
  <2>4. RoutesInv'
    BY <2>1, <2>2 DEF IInv, Types, RoutesInv, Wanted
  <2>5. UpInv'
    BY <2>1 DEF IInv, Types, UpInv, Wanted, Positions
  <2> QED BY <2>3, <2>4, <2>5 DEF IInv
<1>9. ASSUME NEW i \in Instances, Configured(i) PROVE IInv'
  BY <1>9 DEF Configured, Goto, IInv, Types, Paired, Positions, AddrsInv, RoutesInv, UpInv, Wanted, Pcs
<1>10. ASSUME NEW i \in Instances, NewFails(i) \/ Close(i) \/ Crash(i) PROVE IInv'
  BY <1>10, SocketClosed DEF NewFails, Close, Crash
<1> QED
  BY <1>1, <1>2, <1>3, <1>4, <1>5, <1>6, <1>7, <1>8, <1>9, <1>10 DEF Next

(* The parts of an interface and its process belong together in every      *)
(* reachable state.                                                        *)
THEOREM DarwinCorrect == Spec => []IInv
<1>1. Init => IInv
  BY InitInv
<1>2. IInv /\ [Next]_vars => IInv'
  BY NextInv
<1> QED
  BY <1>1, <1>2, PTL DEF Spec

(* However names are picked or given, and whatever fails, configure never  *)
(* touches an interface that the process did not create.                   *)
THEOREM OwnInterface == Spec => []TouchesOwnOnly
<1>1. IInv => TouchesOwnOnly
  <2> SUFFICES ASSUME IInv, NEW u \in Units,
                      addrs[u] # {} \/ (\E x \in Routes : routes[x] = u)
               PROVE  /\ owner[u] \in Instances
                      /\ unit[owner[u]] = u
                      /\ addrs[u] \subseteq options[owner[u]].families
                      /\ \A x \in Routes : routes[x] = u => x \in Wanted(owner[u])
    BY DEF TouchesOwnOnly
  <2>1. u # NoUnit
    BY DarwinTunAssumption DEF NoUnit
  <2>2. owner[u] \in Instances
    BY <2>1 DEF IInv, AddrsInv, RoutesInv
  <2>3. unit[owner[u]] = u
    BY <2>2 DEF IInv, Paired
  <2>4. addrs[u] \subseteq options[owner[u]].families
    BY DEF IInv, AddrsInv
  <2>5. \A x \in Routes : routes[x] = u => x \in Wanted(owner[u])
    BY <2>1 DEF IInv, RoutesInv
  <2> QED BY <2>2, <2>3, <2>4, <2>5
<1> QED
  BY <1>1, DarwinCorrect, PTL

(* A failure at any call of New, Close and the end of the process leave no *)
(* interface behind.                                                       *)
THEOREM NothingIsLeft == Spec => []NothingLeft
<1>1. IInv => NothingLeft
  <2> SUFFICES ASSUME IInv, NEW i \in Instances, pc[i] = "idle"
               PROVE  unit[i] = NoUnit /\ \A u \in Units : owner[u] # i
    BY DEF NothingLeft
  <2>1. unit[i] = NoUnit
    BY DEF IInv, Positions
  <2>2. \A u \in Units : owner[u] # i
    BY <2>1, DarwinTunAssumption DEF IInv, Paired, NoUnit
  <2> QED BY <2>1, <2>2
<1> QED
  BY <1>1, DarwinCorrect, PTL

(* Two processes that are up with AutoRoute have no family in common.      *)
OneTakesTraffic ==
    \A i, j \in Instances :
      i # j /\ pc[i] = "up" /\ pc[j] = "up" => Wanted(i) \cap Wanted(j) = {}

(* A device that is up owns its interface and all of its routes, and the   *)
(* kernel's one route per destination makes two of them exclusive.         *)
THEOREM RoutesAreExclusive ==
  Spec => [](OneTakesTraffic /\ \A i \in Instances : pc[i] = "up" => OwnsRoutes(i))
<1>1. IInv => \A i \in Instances : pc[i] = "up" => OwnsRoutes(i)
  BY DEF IInv, Paired, Positions, UpInv, OwnsRoutes
<1>2. (\A i \in Instances : pc[i] = "up" => OwnsRoutes(i)) => OneTakesTraffic
  BY DEF OneTakesTraffic, OwnsRoutes
<1> QED
  BY <1>1, <1>2, DarwinCorrect, PTL

-----------------------------------------------------------------------------
(* The first byte of the address at which a range begins.                  *)
Begin(r) == 2^r

(* The beginnings that the code lists.                                     *)
LEMMA Begins == /\ Begin(0) = 1 /\ Begin(1) = 2 /\ Begin(2) = 4 /\ Begin(3) = 8
                /\ Begin(4) = 16 /\ Begin(5) = 32 /\ Begin(6) = 64 /\ Begin(7) = 128
  BY DEF Begin

(* A range ends where the next one begins.                                 *)
LEMMA RangeIs ==
  ASSUME NEW b \in Nat, NEW r \in Nat, r <= 7
  PROVE  /\ Begin(r) \in Nat \ {0} /\ Begin(r + 1) = Begin(r) + Begin(r)
         /\ InRange(b, r) <=> Begin(r) <= b /\ b < Begin(r) + Begin(r)
<1>1. r \in 0..7
  OBVIOUS
<1>2. Begin(r) \in Nat \ {0}
  BY <1>1, Begins
<1>3. Begin(r + 1) = Begin(r) + Begin(r)
  <2>1. Begin(8) = 256
    BY DEF Begin
  <2> QED BY <1>1, <2>1, Begins
<1>4. InRange(b, r) <=> b \div Begin(r) = 1
  BY DEF InRange, Begin
<1>5. ASSUME NEW m \in Nat \ {0} PROVE b \div m = 1 <=> m <= b /\ b < m + m
  OBVIOUS
<1> QED BY <1>2, <1>3, <1>4, <1>5

(* A range ends before each later one begins.                              *)
LEMMA RangesApart ==
  ASSUME NEW l \in Nat, NEW m \in Nat, m <= 7, l < m
  PROVE  Begin(l) + Begin(l) <= Begin(m)
<1>1. l \in 0..7 /\ m \in 0..7
  OBVIOUS
<1> QED BY <1>1, Begins

(* A first byte is in one range, but zero is in none.                      *)
LEMMA OneRange ==
  ASSUME NEW b \in Nat, b < 256
  PROVE  Cardinality({r \in Ranges : InRange(b, r)}) = IF b = 0 THEN 0 ELSE 1
<1> DEFINE S == {r \in Ranges : InRange(b, r)}
<1>1. \A r \in Ranges : r \in Nat /\ r <= 7
  BY DEF Ranges, Bits
<1>2. CASE b = 0
  <2>1. S = {}
    BY <1>1, <1>2, RangeIs
  <2> QED BY <1>2, <2>1, FS_EmptySet
<1>3. CASE b # 0
  <2>1. PICK k \in Ranges : Begin(k) <= b /\ b < Begin(k) + Begin(k)
    <3> DEFINE Found(k) == Begin(k) <= b /\ b < Begin(k) + Begin(k)
    <3>1. Found(0) \/ Found(1) \/ Found(2) \/ Found(3) \/ Found(4) \/ Found(5) \/ Found(6)
          \/ Found(7)
      BY <1>3, Begins
    <3> HIDE DEF Found
    <3>2. \E k \in Ranges : Found(k)
      BY <3>1 DEF Ranges, Bits
    <3> QED BY <3>2 DEF Found
  <2>2. k \in Nat /\ k <= 7 /\ k \in S
    BY <1>1, <2>1, RangeIs
  <2>3. ASSUME NEW r \in S PROVE r = k
    <3>1. r \in Nat /\ r <= 7 /\ Begin(r) <= b /\ b < Begin(r) + Begin(r)
      BY <1>1, RangeIs
    <3>2. Begin(r) \in Nat /\ Begin(k) \in Nat
      BY <2>2, <3>1, RangeIs
    <3>3. ~(r < k)
      BY <2>1, <2>2, <3>1, <3>2, RangesApart
    <3>4. ~(k < r)
      BY <2>1, <2>2, <3>1, <3>2, RangesApart
    <3> QED BY <2>2, <3>1, <3>3, <3>4
  <2> HIDE DEF S
  <2>4. S = {k}
    BY <2>2, <2>3
  <2> QED BY <1>3, <2>4, FS_Singleton DEF S
<1> QED BY <1>2, <1>3

(* A device that is up with AutoRoute takes every address of its families  *)
(* by exactly one of its routes, but those that begin with a zero byte.    *)
THEOREM AllTrafficTaken == Spec => []UpTakesAllTraffic
<1>1. \A b \in 0..(2^Bits - 1) :
        Cardinality({r \in Ranges : InRange(b, r)}) = IF b = 0 THEN 0 ELSE 1
  <2>1. 2^Bits = 256
    BY DEF Bits
  <2>2. \A b \in 0..(2^Bits - 1) : b \in Nat /\ b < 256
    BY <2>1
  <2> QED BY <2>2, OneRange
<1>2. (\A i \in Instances : pc[i] = "up" => OwnsRoutes(i)) => UpTakesAllTraffic
  BY <1>1 DEF UpTakesAllTraffic
<1> QED
  BY <1>2, RoutesAreExclusive, PTL
=============================================================================
