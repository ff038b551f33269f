-------------------------- MODULE WinLoader_proofs --------------------------
(***************************************************************************)
(* Proofs about WinLoader, for any number of goroutines, functions, blocks *)
(* and imported libraries, and about PEImage, for any files.               *)
(***************************************************************************)
EXTENDS MCWinLoader, Integers, TLAPS

(***************************************************************************)
(* The inductive invariant.  A goroutine is inside LoadLibrary exactly     *)
(* while it holds d.mu.  While one is, no module is published, and what    *)
(* the process holds is what the Module under construction records, so     *)
(* that Free can give all of it back from any step.                        *)
(***************************************************************************)
Held(code, blocked) == blocked \cup ({code} \ {None})

LoadStates ==
    /\ pc \in [Threads -> {"idle", "lock", "load", "name", "found", "error", "lockdll"}
                          \cup InLoad]
    /\ proc \in [Threads -> Procs]
    /\ got \in [Threads -> Blocks \cup {None}]
    /\ addr \in [Procs -> Blocks \cup {None}]
    /\ dllMu \in Threads \cup {None}
    /\ module \in Blocks \cup {None}

ModuleShape ==
    /\ mod = [code |-> mod.code, blocked |-> mod.blocked, imports |-> mod.imports,
              initialized |-> mod.initialized]
    /\ mod.code \in Blocks \cup {None}
    /\ \A b \in mod.blocked : b \in Blocks
    /\ mod.imports \in 0..NImports

HolderLoads == \A t \in Threads : pc[t] \in InLoad <=> dllMu = t

LoadHolds ==
    \A t \in Threads : dllMu = t =>
      /\ module = None
      /\ memory = Held(mod.code, mod.blocked)
      /\ libs = mod.imports
      /\ attached = IF pc[t] = "publish" THEN {mod.code} ELSE {}
      /\ pc[t] = "reserve" => mod.code = None
      /\ pc[t] # "publish" => ~mod.initialized
      /\ pc[t] \in InLoad \ {"reserve", "free"} => mod.code # None
      /\ pc[t] \in InLoad \ {"reserve", "boundary", "free"} => mod.code \notin Crossing
      /\ pc[t] \in {"finalize", "hook", "attach", "publish"} => mod.imports = NImports

Published ==
    /\ module \notin Crossing
    /\ \A t \in Threads : pc[t] = "name" => module # None

AtRest ==
    ~Loading =>
      IF module = None
      THEN memory = {} /\ libs = 0 /\ attached = {}
      ELSE memory = {module} \cup mod.blocked /\ libs = NImports /\ attached = {module}

LoaderInv ==
    LoadStates /\ ModuleShape /\ HolderLoads /\ LoadHolds /\ Published
    /\ AtRest /\ AddressesLive

(* The invariant holds before the first call.                              *)
LEMMA InitLoader == Init => LoaderInv
<1> SUFFICES ASSUME Init PROVE LoaderInv  OBVIOUS
<1> USE WinLoaderAssumption DEF Init
<1>1. LoadStates
    BY DEF LoadStates
<1>2. ModuleShape
    BY DEF ModuleShape, NewModule
<1>3. HolderLoads /\ LoadHolds
    BY DEF HolderLoads, LoadHolds, InLoad
<1>4. Published /\ AtRest /\ AddressesLive
    BY DEF Published, AtRest, AddressesLive, Loading
<1> QED  BY <1>1, <1>2, <1>3, <1>4 DEF LoaderInv

(* The steps of Find leave the library alone.                              *)
LEMMA FindSteps ==
    ASSUME LoaderInv, NEW t \in Threads,
           \/ FindFast(t) \/ FindSlow(t) \/ LockProc(t) \/ NameToAddr(t)
           \/ Found(t) \/ FindFails(t) \/ LoadCheck(t)
    PROVE  LoaderInv'
<1> USE WinLoaderAssumption DEF LoaderInv, Step
<1>1. UNCHANGED <<dllMu, module, mod, memory, libs, attached>>
    BY DEF FindFast, FindSlow, LockProc, NameToAddr, Found, FindFails, LoadCheck, locks, image
<1>2. LoadStates'
    BY <1>1 DEF LoadStates, FindFast, FindSlow, LockProc, NameToAddr, Found, FindFails, LoadCheck,
                InLoad
<1>3. ModuleShape'
    BY <1>1 DEF ModuleShape
<1>4. /\ pc[t] \notin InLoad /\ pc'[t] \notin InLoad
      /\ \A s \in Threads : s # t => pc'[s] = pc[s]
    BY DEF LoadStates, FindFast, FindSlow, LockProc, NameToAddr, Found, FindFails, LoadCheck,
           InLoad
<1>5. HolderLoads' /\ LoadHolds'
    BY <1>1, <1>4 DEF HolderLoads, LoadHolds
<1>6. Published'
    BY <1>1 DEF LoadStates, Published, FindFast, FindSlow, LockProc, NameToAddr, Found, FindFails,
                LoadCheck
<1>7. AtRest'
    BY <1>1 DEF AtRest, Loading
<1>8. AddressesLive'
    <2>1. \A b : Usable(b)' <=> Usable(b)
        BY <1>1 DEF Usable
    <2>2. pc[t] = "name" => Usable(module)
        BY DEF AtRest, Loading, Published, LoadHolds, LoadStates, Usable
    <2>3. \A p \in Procs : addr'[p] # None => Usable(addr'[p])
        BY <2>2 DEF AddressesLive, LoadStates, FindFast, FindSlow, LockProc, NameToAddr, Found,
                    FindFails, LoadCheck
    <2>4. \A s \in Threads : got'[s] # None => Usable(got'[s])
        BY DEF AddressesLive, LoadStates, FindFast, FindSlow, LockProc, NameToAddr, Found,
               FindFails, LoadCheck
    <2> QED  BY <2>1, <2>3, <2>4 DEF AddressesLive
<1> QED  BY <1>2, <1>3, <1>5, <1>6, <1>7, <1>8

(* While a goroutine loads the library no address has been handed out, and *)
(* a step of the load leaves the other goroutines alone.                   *)
LEMMA NoAddressYet ==
    ASSUME LoaderInv, module = None
    PROVE  /\ \A p \in Procs : addr[p] = None
           /\ \A t \in Threads : got[t] = None
BY WinLoaderAssumption DEF LoaderInv, LoadStates, AddressesLive, Usable, AtRest,
   Loading, LoadHolds, Published

(* Taking d.mu for a load, and publishing what was loaded.                 *)
LEMMA LockStep ==
    ASSUME LoaderInv, NEW t \in Threads, LockDLL(t)
    PROVE  LoaderInv'
<1> USE WinLoaderAssumption DEF LoaderInv
<1>1. CASE module # None
    <2>1. /\ pc' = [pc EXCEPT ![t] = "name"]
          /\ pc[t] = "lockdll"
          /\ UNCHANGED <<proc, got, addr, dllMu, module, mod, memory, libs, attached>>
        BY <1>1 DEF LockDLL
    <2>2. LoadStates' /\ ModuleShape'
        BY <2>1 DEF LoadStates, ModuleShape
    <2>3. HolderLoads' /\ LoadHolds'
        BY <1>1, <2>1 DEF HolderLoads, LoadHolds, LoadStates, InLoad
    <2>4. Published' /\ AtRest' /\ AddressesLive'
        BY <1>1, <2>1 DEF Published, AtRest, Loading, AddressesLive, Usable,
                          LoadStates
    <2> QED  BY <2>2, <2>3, <2>4
<1>2. CASE module = None
    <2>1. /\ pc' = [pc EXCEPT ![t] = "reserve"]
          /\ pc[t] = "lockdll"
          /\ dllMu = None /\ dllMu' = t
          /\ mod' = NewModule
          /\ UNCHANGED <<proc, got, addr, module, memory, libs, attached>>
        BY <1>2 DEF LockDLL
    <2>2. memory = {} /\ libs = 0 /\ attached = {}
        BY <1>2, <2>1 DEF AtRest, Loading
    <2>3. LoadStates'
        BY <2>1 DEF LoadStates, InLoad
    <2>4. ModuleShape'
        BY <2>1 DEF ModuleShape, NewModule
    <2>5. HolderLoads'
        BY <2>1 DEF HolderLoads, LoadStates, InLoad
    <2>6. LoadHolds'
        <3>1. \A s \in Threads : dllMu' = s => s = t
            BY <2>1
        <3>2. pc'[t] = "reserve"
            BY <2>1 DEF LoadStates
        <3>3. /\ module' = None
              /\ memory' = Held(mod'.code, mod'.blocked)
              /\ libs' = mod'.imports
              /\ attached' = {}
              /\ mod'.code = None
              /\ ~mod'.initialized
            BY <1>2, <2>1, <2>2 DEF Held, NewModule
        <3> QED  BY <3>1, <3>2, <3>3 DEF LoadHolds, InLoad
    <2>7. Published' /\ AtRest'
        BY <1>2, <2>1 DEF Published, AtRest, Loading, LoadStates
    <2>8. AddressesLive'
        BY <1>2, <2>1, NoAddressYet DEF AddressesLive
    <2> QED  BY <2>3, <2>4, <2>5, <2>6, <2>7, <2>8
<1> QED  BY <1>1, <1>2

(* The module is published when the load is complete, and not before.      *)
LEMMA PublishStep ==
    ASSUME LoaderInv, NEW t \in Threads, Publish(t)
    PROVE  LoaderInv'
<1> USE WinLoaderAssumption DEF LoaderInv
<1>1. /\ pc[t] = "publish" /\ pc' = [pc EXCEPT ![t] = "name"]
      /\ module' = mod.code
      /\ dllMu' = None
      /\ UNCHANGED <<proc, got, addr, mod, memory, libs, attached>>
    BY DEF Publish, Step, image
<1>2. /\ dllMu = t /\ module = None
      /\ memory = Held(mod.code, mod.blocked)
      /\ libs = NImports
      /\ attached = {mod.code}
      /\ mod.code # None /\ mod.code \notin Crossing
    BY <1>1 DEF HolderLoads, LoadHolds, InLoad
<1>3. LoadStates' /\ ModuleShape'
    BY <1>1 DEF LoadStates, ModuleShape
<1>4. HolderLoads' /\ LoadHolds'
    BY <1>1, <1>2 DEF HolderLoads, LoadHolds, LoadStates, InLoad
<1>5. Published'
    BY <1>1, <1>2 DEF Published, LoadStates
<1>6. AtRest'
    BY <1>1, <1>2 DEF AtRest, Loading, Held
<1>7. AddressesLive'
    BY <1>1, <1>2, NoAddressYet DEF AddressesLive
<1> QED  BY <1>3, <1>4, <1>5, <1>6, <1>7

(* The steps of LoadLibrary between the two.  Each is described by what it *)
(* does to the Module and to what the process holds.                       *)
LEMMA LoadStep ==
    ASSUME LoaderInv, NEW t \in Threads,
           pc[t] \in InLoad, pc' = [pc EXCEPT ![t] = pc'[t]], pc'[t] \in InLoad,
           UNCHANGED <<proc, got, addr, dllMu, module>>,
           ModuleShape',
           memory' = Held(mod'.code, mod'.blocked),
           libs' = mod'.imports,
           attached' = IF pc'[t] = "publish" THEN {mod'.code} ELSE {},
           pc'[t] # "reserve",
           pc'[t] # "publish" => ~mod'.initialized,
           pc'[t] # "free" => mod'.code # None,
           pc'[t] \notin {"boundary", "free"} => mod'.code \notin Crossing,
           pc'[t] \in {"finalize", "hook", "attach", "publish"} => mod'.imports = NImports
    PROVE  LoaderInv'
<1> USE WinLoaderAssumption DEF LoaderInv
<1>1. dllMu = t /\ module = None
    BY DEF HolderLoads, LoadHolds
<1>2. LoadStates'
    BY DEF LoadStates
<1>3. HolderLoads'
    BY <1>1 DEF HolderLoads, LoadStates
<1>4. LoadHolds'
    BY <1>1 DEF LoadHolds
<1>5. Published' /\ AtRest'
    BY <1>1 DEF Published, AtRest, Loading, LoadStates, InLoad
<1>6. AddressesLive'
    BY <1>1, NoAddressYet DEF AddressesLive
<1> QED  BY <1>2, <1>3, <1>4, <1>5, <1>6

(* Every step of LoadLibrary that may be followed by a failure records     *)
(* what it has acquired in the Module.                                     *)
LEMMA LoadSteps ==
    ASSUME LoaderInv, NEW t \in Threads,
           \/ LoadFails(t) \/ Reserve(t) \/ Boundary(t) \/ Copy(t) \/ Relocate(t) \/ Import(t)
           \/ Register(t) \/ Hook(t) \/ Attach(t) \/ AttachFails(t)
    PROVE  LoaderInv'
<1> USE WinLoaderAssumption
<1>1. pc[t] \in InLoad \ {"publish", "free"}
    BY DEF LoadFails, Reserve, Boundary, Copy, Relocate, Import, Register, Hook, Attach, AttachFails,
           Step, InLoad, MayFail
<1>2. /\ LoadStates /\ ModuleShape
      /\ memory = Held(mod.code, mod.blocked)
      /\ libs = mod.imports /\ attached = {} /\ ~mod.initialized
      /\ pc[t] = "reserve" => mod.code = None
      /\ pc[t] # "reserve" => mod.code # None
      /\ pc[t] \notin {"reserve", "boundary"} => mod.code \notin Crossing
      /\ pc[t] \in {"finalize", "hook", "attach"} => mod.imports = NImports
    BY <1>1 DEF LoaderInv, HolderLoads, LoadHolds, InLoad
<1>3. UNCHANGED <<proc, got, addr, dllMu, module>>
    BY DEF LoadFails, Reserve, Boundary, Copy, Relocate, Import, Register, Hook, Attach, AttachFails, locks
<1>4. pc' = [pc EXCEPT ![t] = pc'[t]]
    BY <1>2 DEF LoadFails, Reserve, Boundary, Copy, Relocate, Import, Register, Hook, Attach, AttachFails,
                Step, LoadStates
<1>5. CASE LoadFails(t) /\ pc[t] # "boundary"
    <2>1. pc'[t] = "free" /\ UNCHANGED <<mod, memory, libs, attached>>
        BY <1>2, <1>5 DEF LoadFails, LoadStates
    <2> QED  BY <1>1, <1>2, <1>3, <1>4, <2>1, LoadStep DEF InLoad, ModuleShape
<1>6. CASE LoadFails(t) /\ pc[t] = "boundary"
    <2>1. /\ pc'[t] = "free" /\ UNCHANGED <<memory, libs, attached>>
          /\ mod' = [mod EXCEPT !.blocked = @ \cup {mod.code}, !.code = None]
        BY <1>2, <1>6 DEF LoadFails, LoadStates
    <2>2. mod' = [code |-> None, blocked |-> mod.blocked \cup {mod.code},
                  imports |-> mod.imports, initialized |-> mod.initialized]
        BY <1>2, <2>1 DEF ModuleShape
    <2>3. ModuleShape'
        BY <1>2, <1>6, <2>2 DEF ModuleShape
    <2>4. memory' = Held(mod'.code, mod'.blocked)
        BY <1>2, <1>6, <2>1, <2>2 DEF Held
    <2> QED  BY <1>1, <1>2, <1>3, <1>4, <2>1, <2>2, <2>3, <2>4, LoadStep DEF InLoad
<1>7. CASE Reserve(t)
    <2>1. pc[t] = "reserve" /\ pc'[t] = "boundary" /\ UNCHANGED <<libs, attached>>
        BY <1>2, <1>7 DEF Reserve, Step, LoadStates
    <2>2. PICK b \in Blocks : mod' = [mod EXCEPT !.code = b] /\ memory' = memory \cup {b}
        BY <1>7 DEF Reserve
    <2>3. mod' = [code |-> b, blocked |-> mod.blocked,
                  imports |-> mod.imports, initialized |-> mod.initialized]
        BY <1>2, <2>2 DEF ModuleShape
    <2>4. ModuleShape'
        BY <1>2, <2>3 DEF ModuleShape
    <2>5. memory' = Held(mod'.code, mod'.blocked)
        BY <1>2, <2>1, <2>2, <2>3 DEF Held
    <2> QED  BY <1>1, <1>2, <1>3, <1>4, <2>1, <2>3, <2>4, <2>5, LoadStep DEF InLoad
<1>8. CASE Boundary(t) /\ mod.code \in Crossing
    <2>1. pc[t] = "boundary" /\ pc'[t] = "boundary" /\ UNCHANGED <<libs, attached>>
        BY <1>2, <1>8 DEF Boundary, LoadStates
    <2>2. PICK b \in Blocks :
              /\ mod' = [mod EXCEPT !.blocked = @ \cup {mod.code}, !.code = b]
              /\ memory' = memory \cup {b}
        BY <1>8 DEF Boundary
    <2>3. mod' = [code |-> b, blocked |-> mod.blocked \cup {mod.code},
                  imports |-> mod.imports, initialized |-> mod.initialized]
        BY <1>2, <2>2 DEF ModuleShape
    <2>4. ModuleShape'
        BY <1>2, <2>1, <2>3 DEF ModuleShape
    <2>5. memory' = Held(mod'.code, mod'.blocked)
        BY <1>2, <2>1, <2>2, <2>3 DEF Held
    <2> QED  BY <1>1, <1>2, <1>3, <1>4, <2>1, <2>3, <2>4, <2>5, LoadStep DEF InLoad
<1>9. CASE Boundary(t) /\ mod.code \notin Crossing
    <2>1. pc[t] = "boundary" /\ pc'[t] = "copy" /\ UNCHANGED <<mod, memory, libs, attached>>
        BY <1>2, <1>9 DEF Boundary, LoadStates
    <2> QED  BY <1>1, <1>2, <1>3, <1>4, <1>9, <2>1, LoadStep DEF InLoad, ModuleShape
<1>10. CASE Copy(t)
    <2>1. pc[t] = "copy" /\ pc'[t] = "relocate" /\ UNCHANGED <<mod, memory, libs, attached>>
        BY <1>2, <1>10 DEF Copy, Step, image, LoadStates
    <2> QED  BY <1>1, <1>2, <1>3, <1>4, <2>1, LoadStep DEF InLoad, ModuleShape
<1>17. CASE Relocate(t)
    <2>1. pc[t] = "relocate" /\ pc'[t] = "imports" /\ UNCHANGED <<mod, memory, libs, attached>>
        BY <1>2, <1>17 DEF Relocate, Step, image, LoadStates
    <2> QED  BY <1>1, <1>2, <1>3, <1>4, <2>1, LoadStep DEF InLoad, ModuleShape
<1>11. CASE Import(t) /\ mod.imports < NImports
    <2>1. /\ pc[t] = "imports" /\ pc'[t] = "imports" /\ UNCHANGED <<memory, attached>>
          /\ mod' = [mod EXCEPT !.imports = @ + 1] /\ libs' = libs + 1
        BY <1>2, <1>11 DEF Import, LoadStates
    <2>2. mod' = [code |-> mod.code, blocked |-> mod.blocked,
                  imports |-> mod.imports + 1, initialized |-> mod.initialized]
        BY <1>2, <2>1 DEF ModuleShape
    <2>3. ModuleShape' /\ libs' = mod'.imports
        BY <1>2, <1>11, <2>1, <2>2 DEF ModuleShape
    <2>4. memory' = Held(mod'.code, mod'.blocked)
        BY <1>2, <2>1, <2>2
    <2> QED  BY <1>1, <1>2, <1>3, <1>4, <2>1, <2>2, <2>3, <2>4, LoadStep DEF InLoad
<1>12. CASE Import(t) /\ ~(mod.imports < NImports)
    <2>1. pc[t] = "imports" /\ pc'[t] = "finalize" /\ UNCHANGED <<mod, memory, libs, attached>>
        BY <1>2, <1>12 DEF Import, LoadStates
    <2>2. mod.imports = NImports
        BY <1>2, <1>12 DEF ModuleShape
    <2> QED  BY <1>1, <1>2, <1>3, <1>4, <2>1, <2>2, LoadStep DEF InLoad, ModuleShape
<1>13. CASE Register(t)
    <2>1. pc[t] = "finalize" /\ pc'[t] = "hook" /\ UNCHANGED <<mod, memory, libs, attached>>
        BY <1>2, <1>13 DEF Register, Step, LoadStates
    <2> QED  BY <1>1, <1>2, <1>3, <1>4, <2>1, LoadStep DEF InLoad, ModuleShape
<1>14. CASE Hook(t)
    <2>1. /\ pc[t] = "hook" /\ UNCHANGED <<mod, memory, libs, attached>>
          /\ pc'[t] = "attach" \/ pc'[t] = "free"
        BY <1>2, <1>14 DEF Hook, LoadStates
    <2> QED  BY <1>1, <1>2, <1>3, <1>4, <2>1, LoadStep DEF InLoad, ModuleShape
<1>15. CASE Attach(t)
    <2>1. /\ pc[t] = "attach" /\ pc'[t] = "publish" /\ UNCHANGED <<memory, libs>>
          /\ mod' = [mod EXCEPT !.initialized = TRUE]
          /\ attached' = attached \cup {mod.code}
        BY <1>2, <1>15 DEF Attach, Step, LoadStates
    <2>2. /\ mod'.code = mod.code /\ mod'.blocked = mod.blocked /\ mod'.imports = mod.imports
          /\ mod' = [code |-> mod'.code, blocked |-> mod'.blocked, imports |-> mod'.imports,
                     initialized |-> mod'.initialized]
        BY <1>2, <2>1 DEF ModuleShape
    <2>3. ModuleShape'
        BY <1>2, <2>2 DEF ModuleShape
    <2>4. memory' = Held(mod'.code, mod'.blocked) /\ attached' = {mod'.code}
        BY <1>2, <2>1, <2>2
    <2> QED  BY <1>1, <1>2, <1>3, <1>4, <2>1, <2>2, <2>3, <2>4, LoadStep DEF InLoad
<1>16. CASE AttachFails(t)
    <2>1. pc[t] = "attach" /\ pc'[t] = "free" /\ UNCHANGED <<mod, memory, libs, attached>>
        BY <1>2, <1>16 DEF AttachFails, Step, image, LoadStates
    <2> QED  BY <1>1, <1>2, <1>3, <1>4, <2>1, LoadStep DEF InLoad, ModuleShape
<1> QED
    BY <1>5, <1>6, <1>7, <1>8, <1>9, <1>10, <1>11, <1>12, <1>13, <1>14, <1>15, <1>16, <1>17

(* Free gives back all that the load has acquired.                         *)
LEMMA FreeStep ==
    ASSUME LoaderInv, NEW t \in Threads, Free(t)
    PROVE  LoaderInv'
<1> USE WinLoaderAssumption DEF LoaderInv
<1>1. /\ pc[t] = "free" /\ pc' = [pc EXCEPT ![t] = "error"]
      /\ libs' = libs - mod.imports
      /\ memory' = memory \ ({mod.code} \cup mod.blocked)
      /\ mod' = NewModule
      /\ dllMu' = None
      /\ UNCHANGED <<proc, got, addr, module>>
    BY DEF Free, Step
<1>2. /\ dllMu = t /\ module = None
      /\ memory = Held(mod.code, mod.blocked)
      /\ libs = mod.imports
      /\ attached = {} /\ ~mod.initialized
    BY <1>1 DEF HolderLoads, LoadHolds, InLoad
<1>3. memory' = {}
    BY <1>1, <1>2 DEF Held
<1>4. libs' = 0
    BY <1>1, <1>2 DEF ModuleShape
<1>5. attached' = {}
    BY <1>2 DEF Free
<1>6. LoadStates' /\ ModuleShape'
    BY <1>1 DEF LoadStates, ModuleShape, NewModule
<1>7. HolderLoads' /\ LoadHolds'
    BY <1>1, <1>2 DEF HolderLoads, LoadHolds, LoadStates, InLoad
<1>8. Published' /\ AtRest'
    BY <1>1, <1>2, <1>3, <1>4, <1>5 DEF Published, AtRest, LoadStates
<1>9. AddressesLive'
    BY <1>1, <1>2, NoAddressYet DEF AddressesLive
<1> QED  BY <1>6, <1>7, <1>8, <1>9

(* The invariant holds always.                                             *)
THEOREM LoaderCorrect == Spec => []LoaderInv
<1>1. LoaderInv /\ [Next]_vars => LoaderInv'
    <2> SUFFICES ASSUME LoaderInv, [Next]_vars PROVE LoaderInv'  OBVIOUS
    <2>1. CASE UNCHANGED vars
        BY <2>1 DEF vars, thread, locks, image, LoaderInv, LoadStates, ModuleShape, HolderLoads,
                    LoadHolds, Published, AtRest, Loading, AddressesLive, Usable
    <2>2. CASE Next
        <3>1. PICK t \in Threads : FindFast(t) \/ FindSlow(t) \/ Run(t)
            BY <2>2 DEF Next
        <3> QED
            BY <3>1, FindSteps, LockStep, PublishStep, LoadSteps, FreeStep DEF Run
    <2> QED  BY <2>1, <2>2
<1> QED  BY <1>1, InitLoader, PTL DEF Spec

(* No goroutine ever gets an address in a library that is not loaded and   *)
(* attached, whatever loads fail before or race.                           *)
THEOREM AddressesStayLive == Spec => []AddressesLive
<1>1. LoaderInv => AddressesLive  BY DEF LoaderInv
<1> QED  BY <1>1, LoaderCorrect, PTL

(***************************************************************************)
(* What Free leaves behind.  The table and the range of the block under    *)
(* construction are there from finalizeSections on, and none is there      *)
(* before a load has come to the hook.                                     *)
(***************************************************************************)
AtHook == \E t \in Threads : pc[t] = "hook"

RegistryInv ==
    /\ module # None => module \in tables \cap ranges
    /\ hook = "none" /\ ~AtHook => tables = {} /\ ranges = {}
    /\ \A t \in Threads :
         pc[t] \in {"hook", "attach", "publish"} => mod.code \in tables \cap ranges

(* A step outside the hook that registers nothing and goes neither to nor  *)
(* from the hook leaves the registry as it is.                             *)
LEMMA RegistryKept ==
    ASSUME LoaderInv, RegistryInv, NEW t \in Threads,
           UNCHANGED <<tables, ranges, hook>>,
           \A s \in Threads : s # t => pc'[s] = pc[s],
           pc'[t] \notin {"hook", "publish"}, pc[t] # "hook",
           pc'[t] # "attach",
           mod' = mod \/ dllMu \in {t, None},
           module' = module \/ (pc[t] = "publish" /\ module' = mod.code)
    PROVE  RegistryInv'
<1>1. AtHook' <=> AtHook  BY DEF AtHook
<1>2. module' # None => module' \in tables' \cap ranges'  BY DEF RegistryInv
<1>3. ASSUME NEW s \in Threads, pc'[s] \in {"hook", "attach", "publish"}
      PROVE  mod'.code \in tables' \cap ranges'
    <2>1. s # t /\ pc[s] \in {"hook", "attach", "publish"}  BY <1>3
    <2>2. dllMu = s  BY <2>1 DEF LoaderInv, HolderLoads, InLoad
    <2>3. mod' = mod  BY <2>1, <2>2, WinLoaderAssumption
    <2> QED  BY <2>1, <2>3 DEF RegistryInv
<1> QED  BY <1>1, <1>2, <1>3 DEF RegistryInv

(* The registry through every step.                                        *)
LEMMA RegistryStep ==
    ASSUME LoaderInv, RegistryInv, [Next]_vars
    PROVE  RegistryInv'
<1> USE WinLoaderAssumption
<1>1. CASE UNCHANGED vars
    BY <1>1 DEF vars, thread, locks, image, RegistryInv, AtHook
<1>2. CASE Next
    <2>1. PICK t \in Threads : FindFast(t) \/ FindSlow(t) \/ Run(t)
        BY <1>2 DEF Next
    <2>2. LoadStates /\ HolderLoads  BY DEF LoaderInv
    <2>3. CASE \/ FindFast(t) \/ FindSlow(t) \/ LockProc(t) \/ NameToAddr(t)
               \/ Found(t) \/ FindFails(t) \/ LoadCheck(t)
        <3>1. UNCHANGED <<tables, ranges, hook, mod, module>>
            BY <2>3 DEF FindFast, FindSlow, LockProc, NameToAddr, Found, FindFails, LoadCheck, image
        <3>2. /\ \A s \in Threads : s # t => pc'[s] = pc[s]
              /\ pc[t] # "hook" /\ pc'[t] \notin {"hook", "attach", "publish"}
            BY <2>2, <2>3 DEF LoadStates, Step, FindFast, FindSlow, LockProc, NameToAddr, Found,
                              FindFails, LoadCheck
        <3> QED  BY <3>1, <3>2, RegistryKept
    <2>4. CASE LockDLL(t) \/ Publish(t) \/ AttachFails(t) \/ Free(t)
        <3>1. UNCHANGED <<tables, ranges, hook>>
            BY <2>4 DEF LockDLL, Publish, AttachFails, Free, image
        <3>2. /\ \A s \in Threads : s # t => pc'[s] = pc[s]
              /\ pc[t] # "hook" /\ pc'[t] \notin {"hook", "attach", "publish"}
            BY <2>2, <2>4 DEF LoadStates, Step, LockDLL, Publish, AttachFails, Free
        <3>3. mod' = mod \/ dllMu \in {t, None}
            BY <2>2, <2>4 DEF Step, LockDLL, Publish, AttachFails, Free, HolderLoads, InLoad
        <3>4. module' = module \/ (pc[t] = "publish" /\ module' = mod.code)
            BY <2>4 DEF Step, LockDLL, Publish, AttachFails, Free
        <3> QED  BY <3>1, <3>2, <3>3, <3>4, RegistryKept
    <2>5. CASE \/ LoadFails(t) \/ Reserve(t) \/ Boundary(t) \/ Copy(t) \/ Relocate(t)
               \/ Import(t)
        <3>1. UNCHANGED <<tables, ranges, hook, module>>
            BY <2>5 DEF LoadFails, Reserve, Boundary, Copy, Relocate, Import, image
        <3>2. /\ \A s \in Threads : s # t => pc'[s] = pc[s]
              /\ pc[t] # "hook" /\ pc'[t] \notin {"hook", "attach", "publish"}
            BY <2>2, <2>5 DEF LoadStates, Step, MayFail, LoadFails, Reserve, Boundary, Copy,
                              Relocate, Import
        <3>3. pc[t] \in InLoad /\ dllMu = t
            BY <2>2, <2>5 DEF Step, MayFail, LoadFails, Reserve, Boundary, Copy, Relocate, Import,
                              InLoad, HolderLoads
        <3> QED  BY <3>1, <3>2, <3>3, RegistryKept
    <2>6. CASE Register(t) \/ Hook(t) \/ Attach(t)
        <3>1. dllMu = t /\ module = None
            BY <2>2, <2>6 DEF LoaderInv, LoadHolds, HolderLoads, InLoad, Step, Register, Hook, Attach
        <3>2. \A s \in Threads : s # t => pc'[s] = pc[s] /\ pc[s] \notin InLoad
            BY <2>2, <2>6, <3>1 DEF HolderLoads, LoadStates, Step, Register, Hook, Attach
        <3>3. UNCHANGED module
            BY <2>6 DEF Register, Hook, Attach
        <3>4. mod'.code = mod.code
            BY <2>6 DEF Register, Hook, Attach, LoaderInv, ModuleShape
        <3>5. CASE Register(t)
            <4>1. /\ pc'[t] = "hook" /\ mod.code \in tables' \cap ranges'
                BY <2>2, <3>5 DEF Register, Step, LoadStates
            <4> QED  BY <3>1, <3>2, <3>3, <3>4, <4>1 DEF RegistryInv, AtHook, InLoad
        <3>6. CASE Hook(t)
            <4>1. /\ pc[t] = "hook" /\ pc'[t] # "hook" /\ hook' # "none"
                  /\ UNCHANGED <<tables, ranges>>
                BY <2>2, <3>6 DEF Hook, LoadStates
            <4> QED  BY <3>1, <3>2, <3>3, <3>4, <4>1 DEF RegistryInv, AtHook, InLoad
        <3>7. CASE Attach(t)
            <4>1. /\ pc[t] = "attach" /\ pc'[t] = "publish"
                  /\ UNCHANGED <<tables, ranges, hook>>
                BY <2>2, <3>7 DEF Attach, Step, LoadStates
            <4> QED  BY <3>1, <3>2, <3>3, <3>4, <4>1 DEF RegistryInv, AtHook, InLoad
        <3> QED  BY <2>6, <3>5, <3>6, <3>7
    <2> QED  BY <2>1, <2>3, <2>4, <2>5, <2>6 DEF Run
<1> QED  BY <1>1, <1>2

(* There is one library, attached once, with its exception table and its   *)
(* address range, and the process holds exactly the memory and the imports *)
(* that belong to it; a load that failed, at whatever step, left neither.  *)
(* Tables and ranges are left only by loads that came as far as the hook.  *)
THEOREM LoadedOnce == Spec => []OneLibrary
<1>1. Init => RegistryInv
    BY WinLoaderAssumption DEF Init, RegistryInv
<1>2. Spec => []RegistryInv
    BY <1>1, RegistryStep, LoaderCorrect, PTL DEF Spec
<1>3. LoaderInv /\ RegistryInv => OneLibrary
    <2> SUFFICES ASSUME LoaderInv, RegistryInv PROVE OneLibrary  OBVIOUS
    <2>1. CASE dllMu = None
        <3>1. ~AtHook
            BY <2>1, WinLoaderAssumption DEF LoaderInv, HolderLoads, AtHook, InLoad
        <3> QED  BY <2>1, <3>1 DEF LoaderInv, RegistryInv, AtRest, Loading, OneLibrary
    <2>2. CASE dllMu # None
        BY <2>2 DEF LoaderInv, LoadStates, LoadHolds, Loading, OneLibrary
    <2> QED  BY <2>1, <2>2
<1> QED  BY <1>2, <1>3, LoaderCorrect, PTL

(***************************************************************************)
(* PEImage: the pages of a loaded image.  First what the arithmetic of     *)
(* pages needs.                                                            *)
(***************************************************************************)
(* Division and remainders.                                                *)
LEMMA DivMod ==
    ASSUME NEW a \in Nat, NEW b \in Nat \ {0}
    PROVE  a \div b \in Nat /\ a % b \in Nat /\ a % b < b /\ a = b * (a \div b) + (a % b)
OBVIOUS

(* A later multiple is at least one unit away.                             *)
LEMMA MultiplesGrow ==
    ASSUME NEW b \in Nat \ {0}, NEW q \in Int, NEW r \in Int, q < r
    PROVE  b * q + b <= b * r
<1>1. PICK d \in Nat : r = q + 1 + d  OBVIOUS
<1>2. b * r = b * q + b + b * d  BY <1>1
<1>3. b * d >= 0  OBVIOUS
<1> QED  BY <1>2, <1>3

(* Later addresses are in later pages, strictly so behind the first        *)
(* address of a page.                                                      *)
LEMMA PagesInOrder ==
    ASSUME NEW b \in Nat \ {0}, NEW x \in Nat, NEW y \in Nat
    PROVE  /\ x <= y => x \div b <= y \div b
           /\ x < y /\ y % b = 0 => x \div b < y \div b
<1> DEFINE q == x \div b
           r == y \div b
<1>1. q \in Nat /\ r \in Nat /\ x = b * q + (x % b) /\ y = b * r + (y % b)
      /\ x % b \in Nat /\ y % b \in Nat /\ x % b < b /\ y % b < b
    BY DivMod
<1>2. ASSUME x <= y, r < q PROVE FALSE
    <2>1. b * r + b <= b * q  BY <1>1, <1>2, MultiplesGrow
    <2> QED  BY <1>1, <1>2, <2>1
<1>3. ASSUME x < y, y % b = 0, r <= q PROVE FALSE
    <2>1. CASE r < q
        <3>1. b * r + b <= b * q  BY <1>1, <2>1, MultiplesGrow
        <3> QED  BY <1>1, <1>3, <3>1
    <2>2. CASE r = q  BY <1>1, <1>3, <2>2
    <2> QED  BY <1>1, <1>3, <2>1, <2>2
<1>4. x <= y => q <= r  BY <1>1, <1>2
<1>5. x < y /\ y % b = 0 => q < r  BY <1>1, <1>3
<1> QED  BY <1>4, <1>5

(* The sum of two multiples is one.                                        *)
LEMMA MultiplesAdd ==
    ASSUME NEW b \in Nat \ {0}, NEW x \in Nat, NEW y \in Nat, x % b = 0, y % b = 0
    PROVE  (x + y) % b = 0
<1> DEFINE q == x \div b
           r == y \div b
<1>1. q \in Nat /\ r \in Nat /\ x = b * q /\ y = b * r  BY DivMod
<1>2. b * q + b * r = b * (q + r)  BY <1>1
<1>3. \A n \in Nat : (b * n) % b = 0
    <2> TAKE n \in Nat
    <2>1. (b * n + 0) % b = 0  OBVIOUS
    <2>2. b * n \in Nat  OBVIOUS
    <2> QED  BY <2>1, <2>2
<1>4. x + y = b * (q + r) /\ q + r \in Nat  BY <1>1, <1>2
<1> QED  BY <1>3, <1>4

(* A multiple of a multiple is one.                                        *)
LEMMA MultiplesOfMultiples ==
    ASSUME NEW b \in Nat \ {0}, NEW c \in Nat \ {0}, NEW x \in Nat, c % b = 0, x % c = 0
    PROVE  x % b = 0
<1> DEFINE q == x \div c
           r == c \div b
<1>1. q \in Nat /\ r \in Nat /\ x = c * q /\ c = b * r  BY DivMod
<1>2. x = b * (r * q) /\ r * q \in Nat  BY <1>1
<1>3. \A n \in Nat : (b * n) % b = 0
    <2> TAKE n \in Nat
    <2>1. (b * n + 0) % b = 0  OBVIOUS
    <2>2. b * n \in Nat  OBVIOUS
    <2> QED  BY <2>1, <2>2
<1> QED  BY <1>2, <1>3

(* alignUp goes up, alignDown goes down.                                   *)
LEMMA Aligning ==
    ASSUME NEW x \in Nat, NEW a \in Nat \ {0}
    PROVE  /\ I!alignDown(x, a) \in Nat /\ I!alignDown(x, a) <= x
           /\ x % a = 0 => I!alignDown(x, a) = x
           /\ I!alignUp(x, a) \in Nat /\ x <= I!alignUp(x, a)
<1>1. x % a \in Nat /\ x % a <= x
    <2>1. x % a \in Nat /\ x \div a \in Nat /\ x = a * (x \div a) + (x % a)  BY DivMod
    <2>2. a * (x \div a) \in Nat  BY <2>1
    <2> QED  BY <2>1, <2>2
<1>2. x + a - 1 \in Nat  OBVIOUS
<1>3. (x + a - 1) % a \in Nat /\ (x + a - 1) % a < a  BY <1>2, DivMod
<1> QED  BY <1>1, <1>2, <1>3 DEF I!alignDown, I!alignUp

(* Addresses on one side of a boundary of the machine word differ only     *)
(* below it.                                                               *)
LEMMA SameSide ==
    ASSUME NEW b \in Nat, NEW x \in Nat, NEW w \in Nat \ {0}, (b + x) \div w = b \div w
    PROVE  ((b + x) % w) + (b - (b % w)) = b + x
<1>1. b + x \in Nat  OBVIOUS
<1>2. b = w * (b \div w) + (b % w) /\ b % w \in Nat /\ b \div w \in Nat  BY DivMod
<1>3. b + x = w * ((b + x) \div w) + ((b + x) % w) /\ (b + x) % w \in Nat  BY <1>1, DivMod
<1> QED  BY <1>2, <1>3
(***************************************************************************)
(* The sections of a file that is loaded.                                  *)
(***************************************************************************)
Start(k) == base + file.sections[k].va

Loaded == I!WellFormed(file) /\ I!Accepted(file) /\ base \in I!BasesFor(file)

(* The fields of a file and of its sections.                               *)
LEMMA SectionTypes ==
    ASSUME I!WellFormed(file)
    PROVE  /\ Len(file.sections) \in Nat \ {0}
           /\ DOMAIN file.sections = 1 .. Len(file.sections)
           /\ \A k \in DOMAIN file.sections :
                /\ file.sections[k].va \in Nat /\ file.sections[k].raw \in Nat
                /\ file.sections[k].virt \in Nat \ {0}
                /\ file.sections[k].contents \in {"initialized", "uninitialized", "none"}
                /\ file.sections[k].discardable \in BOOLEAN
           /\ file.image \in Nat /\ file.initialized \in Nat /\ file.uninitialized \in Nat
<1>1. file.sections \in Seq(I!Section) /\ file.sections # <<>>  BY DEF I!WellFormed
<1>2. /\ Len(file.sections) \in Nat \ {0}
      /\ DOMAIN file.sections = 1 .. Len(file.sections)
      /\ \A k \in DOMAIN file.sections : file.sections[k] \in I!Section
    BY <1>1
<1> QED  BY <1>2 DEF I!Section, I!WellFormed

(* The image has room for every section: LoadLibrary has compared its size *)
(* with the data of the sections.                                          *)
LEMMA RoomForSections ==
    ASSUME Loaded, NEW k \in DOMAIN file.sections
    PROVE  /\ I!alignedImageSize(file) \in Nat
           /\ file.sections[k].va + file.sections[k].raw <= I!alignedImageSize(file)
           /\ file.sections[k].va + file.sections[k].virt <= I!alignedImageSize(file)
<1> DEFINE s == file.sections[k]
<1>1. /\ s.va \in Nat /\ s.raw \in Nat /\ s.virt \in Nat /\ file.image \in Nat
      /\ s.va + s.virt <= file.image
    BY SectionTypes DEF Loaded, I!WellFormed
<1>2. SectionAlignment \in Nat \ {0}  BY PEImageAssumption
<1>3. PICK m \in DOMAIN file.sections :
        /\ I!endOfSection(s) <= I!endOfSection(file.sections[m])
        /\ I!alignedImageSize(file) = I!alignUp(I!endOfSection(file.sections[m]), SectionAlignment)
    BY DEF Loaded, I!Accepted
<1>4. file.sections[m].va \in Nat /\ file.sections[m].raw \in Nat  BY SectionTypes DEF Loaded
<1>5. I!endOfSection(file.sections[m]) \in Nat  BY <1>2, <1>4 DEF I!endOfSection
<1>6. s.va + s.raw <= I!endOfSection(s) /\ I!endOfSection(s) \in Nat  BY <1>1, <1>2 DEF I!endOfSection
<1>7. /\ I!alignedImageSize(file) \in Nat
      /\ I!endOfSection(file.sections[m]) <= I!alignedImageSize(file)
    BY <1>2, <1>3, <1>5, Aligning
<1>8. file.image <= I!alignedImageSize(file)  BY <1>1, <1>2, Aligning DEF I!alignedImageSize
<1> HIDE DEF s
<1>9. s.va + s.raw <= I!alignedImageSize(file)  BY <1>1, <1>3, <1>5, <1>6, <1>7
<1>10. s.va + s.virt <= I!alignedImageSize(file)  BY <1>1, <1>7, <1>8
<1> QED  BY <1>7, <1>9, <1>10 DEF s

(* The address that finalizeSections computes for a section is the one at  *)
(* which copySections put it, and the first address of a page.             *)
LEMMA AddressesRight ==
    ASSUME Loaded, NEW k \in DOMAIN file.sections
    PROVE  /\ base \in Nat /\ base % Page = 0 /\ Page \in Nat \ {0}
           /\ Start(k) \in Nat /\ Start(k) % Page = 0
           /\ I!sectionAddress(k) = Start(k)
<1> DEFINE va == file.sections[k].va
           size == I!alignedImageSize(file)
<1>1. /\ Page \in Nat \ {0} /\ SectionAlignment \in Nat \ {0} /\ Word \in Nat \ {0}
      /\ SectionAlignment % Page = 0
    BY PEImageAssumption
<1>2. base \in Nat /\ base % Page = 0  BY PEImageAssumption DEF Loaded, I!BasesFor
<1>3. va \in Nat /\ file.sections[k].raw \in Nat /\ va % SectionAlignment = 0
    BY SectionTypes DEF Loaded, I!WellFormed
<1>4. size \in Nat /\ va + file.sections[k].raw <= size  BY RoomForSections
<1>5. ~(base \div Word < (base + size) \div Word)  BY DEF Loaded, I!BasesFor, I!Crosses
<1> HIDE DEF va, size
<1>6. va % Page = 0  BY <1>1, <1>3, MultiplesOfMultiples
<1>7. base + va \in Nat /\ (base + va) % Page = 0
    <2>1. base + va \in Nat  BY <1>2, <1>3
    <2>2. (base + va) % Page = 0  BY ONLY <1>1, <1>2, <1>3, <1>6, MultiplesAdd, Zenon
    <2> QED  BY <2>1, <2>2
<1>8. (base + va) \div Word = base \div Word
    <2>1. base + size \in Nat /\ base <= base + va /\ base + va <= base + size
        BY <1>2, <1>3, <1>4
    <2>2. /\ base \div Word <= (base + va) \div Word
          /\ (base + va) \div Word <= (base + size) \div Word
        BY <1>1, <1>2, <1>7, <2>1, PagesInOrder
    <2>3. base \div Word \in Nat /\ (base + va) \div Word \in Nat /\ (base + size) \div Word \in Nat
        BY <1>1, <1>2, <1>7, <2>1, DivMod
    <2> QED  BY <1>5, <2>2, <2>3
<1>9. I!alignDown(base + va, Page) = base + va  BY <1>1, <1>7, Aligning
<1>10. I!PhysicalAddress(k) = (base + va) % Word  BY <1>9 DEF I!PhysicalAddress, va
<1>11. I!sectionAddress(k) = base + va
    <2>1. ((base + va) % Word) + (base - (base % Word)) = base + va
        BY ONLY <1>1, <1>2, <1>3, <1>8, SameSide, Zenon
    <2> QED  BY ONLY <1>10, <2>1 DEF I!sectionAddress, I!imageOffset
<1> QED  BY <1>1, <1>2, <1>7, <1>11 DEF Start, va

(* A section counts with its data at least.                                *)
LEMMA RealSizes ==
    ASSUME I!WellFormed(file), NEW k \in DOMAIN file.sections
    PROVE  I!realSectionSize(k) \in Nat /\ I!realSectionSize(k) >= file.sections[k].raw
BY SectionTypes DEF I!realSectionSize

Extents(k) == {file.sections[k].raw, file.sections[k].virt} \ {0}

(* A section is in the pages from its first address on, all of them of the *)
(* image, and before those of the sections behind it.                      *)
LEMMA SectionPages ==
    ASSUME Loaded, NEW k \in DOMAIN file.sections, NEW size \in Extents(k),
           NEW p \in I!PagesOf(Start(k), size)
    PROVE  /\ size \in Nat \ {0}
           /\ p \in Int /\ Start(k) \div Page <= p
           /\ p \in I!Reserved(file, base)
           /\ \A m \in DOMAIN file.sections : k < m => p < Start(m) \div Page
<1> DEFINE total == I!alignedImageSize(file)
<1>1. /\ Page \in Nat \ {0} /\ base \in Nat /\ Start(k) \in Nat
    BY AddressesRight
<1>2. size \in Nat \ {0} /\ total \in Nat /\ file.sections[k].va \in Nat
      /\ file.sections[k].va + size <= total
    BY SectionTypes, RoomForSections DEF Loaded, Extents
<1> HIDE DEF total
<1>3. /\ Start(k) + size - 1 \in Nat /\ base + total - 1 \in Nat
      /\ base <= Start(k) /\ Start(k) + size - 1 <= base + total - 1
    BY <1>1, <1>2 DEF Start
<1>4. /\ Start(k) \div Page \in Nat /\ (Start(k) + size - 1) \div Page \in Nat
      /\ base \div Page \in Nat /\ (base + total - 1) \div Page \in Nat
    BY <1>1, <1>3, DivMod
<1>5. p \in Int /\ Start(k) \div Page <= p /\ p <= (Start(k) + size - 1) \div Page
    BY <1>4 DEF I!PagesOf
<1>6. /\ base \div Page <= Start(k) \div Page
      /\ (Start(k) + size - 1) \div Page <= (base + total - 1) \div Page
    BY <1>1, <1>3, PagesInOrder
<1>7. p \in I!Reserved(file, base)
    BY <1>4, <1>5, <1>6 DEF I!Reserved, I!PagesOf, total
<1>8. ASSUME NEW m \in DOMAIN file.sections, k < m PROVE p < Start(m) \div Page
    <2>1. Start(m) \in Nat /\ Start(m) % Page = 0  BY AddressesRight
    <2>2. file.sections[k].va + size <= file.sections[m].va
        BY <1>8 DEF Loaded, I!WellFormed, Extents
    <2>3. file.sections[m].va \in Nat  BY SectionTypes DEF Loaded
    <2>4. Start(k) + size - 1 < Start(m)  BY <1>1, <1>2, <2>2, <2>3 DEF Start
    <2>5. (Start(k) + size - 1) \div Page < Start(m) \div Page
        BY <1>1, <1>3, <2>1, <2>4, PagesInOrder
    <2>6. Start(m) \div Page \in Nat  BY <1>1, <2>1, DivMod
    <2> QED  BY <1>4, <1>5, <2>5, <2>6
<1> QED  BY <1>2, <1>5, <1>7, <1>8
(***************************************************************************)
(* The inductive invariant.  sectionData stands for the sections f to      *)
(* i - 1: it begins where f begins and reaches at least to the end of the  *)
(* data of i - 1, gives what any of them needs and is discardable only if  *)
(* all of them are.  The sections before f have their protection, and the  *)
(* pages from f on are as they were allocated.                             *)
(***************************************************************************)
Part(f) ==
    /\ sectionData.address = Start(f)
    /\ sectionData.size \in Nat
    /\ sectionData.address + sectionData.size >= Start(i - 1) + file.sections[i - 1].raw
    /\ \A k \in f .. i - 1 :
         /\ file.sections[k].access \subseteq sectionData.access
         /\ sectionData.discardable => file.sections[k].discardable

Protected(n) == \A k \in 1 .. n : I!SectionUsable(k)

Untouched(n) ==
    \A p \in I!Reserved(file, base) :
      p >= Start(n) \div Page => p \in DOMAIN pages /\ pages[p] = {"r", "w"}

ImageInv ==
    /\ Loaded
    /\ i \in 2 .. Len(file.sections) + 2
    /\ i <= Len(file.sections) + 1 =>
         \E f \in 1 .. i - 1 : Part(f) /\ Protected(f - 1) /\ Untouched(f)
    /\ i = Len(file.sections) + 2 => Protected(Len(file.sections))

(* The pages of a part: none before it begins, all that the data of its    *)
(* sections is in, none where a section begins behind it.                  *)
LEMMA PartPages ==
    ASSUME Loaded, i \in Nat, i - 1 \in DOMAIN file.sections, NEW f \in 1 .. i - 1, Part(f)
    PROVE  /\ \A p \in I!touched : p \in Int /\ Start(f) \div Page <= p
           /\ \A k \in f .. i - 1 :
                file.sections[k].raw > 0 => I!PagesOf(Start(k), file.sections[k].raw) \subseteq I!touched
           /\ \A m \in DOMAIN file.sections :
                sectionData.address + sectionData.size <= Start(m) =>
                  \A p \in I!touched : p < Start(m) \div Page
<1> DEFINE a == sectionData.address
           n == sectionData.size
           len == Len(file.sections)
<1>1. len \in Nat /\ DOMAIN file.sections = 1 .. len  BY SectionTypes DEF Loaded
<1>2. f \in DOMAIN file.sections /\ i - 1 <= len  BY <1>1
<1>3. Page \in Nat \ {0} /\ a \in Nat /\ n \in Nat /\ a = Start(f)
    BY <1>2, AddressesRight DEF Part
<1>4. /\ a \div Page \in Nat
      /\ n > 0 => (a + n - 1) \div Page \in Nat /\ a + n - 1 \in Nat
    BY <1>3, DivMod
<1>5. I!touched = IF n = 0 THEN {} ELSE (a \div Page) .. ((a + n - 1) \div Page)
    BY DEF I!touched, I!PagesOf
<1> HIDE DEF a, n, len
<1>6. \A p \in I!touched : p \in Int /\ Start(f) \div Page <= p
    BY <1>3, <1>4, <1>5
<1>7. ASSUME NEW k \in f .. i - 1, file.sections[k].raw > 0
      PROVE  I!PagesOf(Start(k), file.sections[k].raw) \subseteq I!touched
    <2> DEFINE raw == file.sections[k].raw
    <2>1. k \in DOMAIN file.sections /\ k \in Int  BY <1>1, <1>2
    <2>2. Start(k) \in Nat /\ base \in Nat  BY <2>1, AddressesRight
    <2>3. raw \in Nat /\ file.sections[k].va \in Nat  BY <2>1, SectionTypes DEF Loaded
    <2>4. a <= Start(k)
        <3>1. CASE k = f  BY <1>3, <2>2, <3>1
        <3>2. CASE f < k
            <4>1. file.sections[f].va + file.sections[f].raw <= file.sections[k].va
                BY <1>2, <2>1, <3>2 DEF Loaded, I!WellFormed
            <4>2. file.sections[f].va \in Nat /\ file.sections[f].raw \in Nat
                BY <1>2, SectionTypes DEF Loaded
            <4> QED  BY <1>3, <2>2, <2>3, <4>1, <4>2 DEF Start
        <3> QED  BY <3>1, <3>2
    <2>5. Start(k) + raw <= a + n
        <3>1. /\ a + n >= Start(i - 1) + file.sections[i - 1].raw
              /\ Start(i - 1) \in Nat
              /\ file.sections[i - 1].va \in Nat /\ file.sections[i - 1].raw \in Nat
            BY AddressesRight, SectionTypes DEF Part, Loaded, a, n
        <3>2. CASE k = i - 1  BY <3>1, <3>2
        <3>3. CASE k < i - 1
            <4>1. file.sections[k].va + raw <= file.sections[i - 1].va
                BY <2>1, <3>3 DEF Loaded, I!WellFormed
            <4>2. Start(k) + raw <= Start(i - 1)  BY <2>2, <2>3, <3>1, <4>1 DEF Start
            <4> QED  BY <1>3, <2>2, <2>3, <3>1, <4>2
        <3> QED  BY <3>2, <3>3
    <2> HIDE DEF raw
    <2>6. /\ n > 0 /\ Start(k) + raw - 1 \in Nat /\ Start(k) + raw - 1 <= a + n - 1
        BY <1>3, <1>7, <2>2, <2>3, <2>4, <2>5 DEF raw
    <2>7. /\ a \div Page <= Start(k) \div Page
          /\ (Start(k) + raw - 1) \div Page <= (a + n - 1) \div Page
        BY <1>3, <1>4, <2>2, <2>4, <2>6, PagesInOrder
    <2>8. Start(k) \div Page \in Nat /\ (Start(k) + raw - 1) \div Page \in Nat
        BY <1>3, <2>2, <2>6, DivMod
    <2>9. I!PagesOf(Start(k), raw) = (Start(k) \div Page) .. ((Start(k) + raw - 1) \div Page)
        BY DEF I!PagesOf
    <2>10. (Start(k) \div Page) .. ((Start(k) + raw - 1) \div Page) \subseteq I!touched
        BY <1>4, <1>5, <2>6, <2>7, <2>8
    <2> QED  BY <2>9, <2>10 DEF raw
<1>8. ASSUME NEW m \in DOMAIN file.sections, a + n <= Start(m), NEW p \in I!touched
      PROVE  p < Start(m) \div Page
    <2>1. Start(m) \in Nat /\ Start(m) % Page = 0  BY AddressesRight
    <2>2. n > 0 /\ p \in Int /\ p <= (a + n - 1) \div Page  BY <1>3, <1>4, <1>5
    <2>3. a + n - 1 < Start(m)  BY <1>3, <1>8, <2>1
    <2>4. (a + n - 1) \div Page < Start(m) \div Page  BY <1>3, <1>4, <2>1, <2>2, <2>3, PagesInOrder
    <2>5. Start(m) \div Page \in Nat  BY <1>3, <2>1, DivMod
    <2> QED  BY <1>4, <2>2, <2>4, <2>5
<1> QED  BY <1>6, <1>7, <1>8 DEF a, n

(* finalizeSection changes nothing outside its part.                       *)
LEMMA OnlyTouched ==
    ASSUME NEW last, I!finalizeSection(last), NEW p \in DOMAIN pages, p \notin I!touched
    PROVE  p \in DOMAIN pages' /\ pages'[p] = pages[p]
<1>1. CASE sectionData.discardable
    <2> DEFINE kept == DOMAIN pages \ (IF I!Frees(last) THEN I!touched ELSE {})
    <2>1. pages' = [q \in kept |-> pages[q]]  BY <1>1 DEF I!finalizeSection
    <2>2. p \in kept  OBVIOUS
    <2> HIDE DEF kept
    <2> QED  BY <2>1, <2>2
<1>2. CASE ~sectionData.discardable
    <2>1. pages' = [q \in DOMAIN pages |->
                      IF q \in I!touched THEN sectionData.access ELSE pages[q]]
        BY <1>2 DEF I!finalizeSection
    <2> QED  BY <2>1
<1> QED  BY <1>1, <1>2

(* After finalizeSection all the sections up to the end of the part have   *)
(* their protection.                                                       *)
LEMMA PartProtected ==
    ASSUME Loaded, i \in Nat, i - 1 \in DOMAIN file.sections, NEW f \in 1 .. i - 1,
           Part(f), Protected(f - 1), Untouched(f),
           NEW last, I!finalizeSection(last), UNCHANGED <<file, base>>
    PROVE  \A k \in 1 .. i - 1 : I!SectionUsable(k)'
<1> SUFFICES ASSUME NEW k \in 1 .. i - 1, ~file.sections[k].discardable
             PROVE  /\ I!Gives(k, file.sections[k].raw, file.sections[k].access)'
                    /\ "w" \in file.sections[k].access =>
                         I!Gives(k, file.sections[k].virt, file.sections[k].access \cap {"r", "w"})'
    BY DEF I!SectionUsable
<1> DEFINE s == file.sections[k]
<1>1. DOMAIN file.sections = 1 .. Len(file.sections) /\ Len(file.sections) \in Nat
    BY SectionTypes DEF Loaded
<1>2. k \in DOMAIN file.sections /\ f \in DOMAIN file.sections /\ k \in Int /\ f \in Int  BY <1>1
<1>3. s.raw \in Nat /\ s.virt \in Nat \ {0}  BY <1>2, SectionTypes DEF Loaded
<1>4. ASSUME NEW size \in Extents(k), NEW p \in I!PagesOf(Start(k), size)
      PROVE  /\ size = s.raw => p \in DOMAIN pages' /\ s.access \subseteq pages'[p]
             /\ "w" \in s.access => p \in DOMAIN pages' /\ s.access \cap {"r", "w"} \subseteq pages'[p]
    <2>1. /\ size \in Nat \ {0} /\ p \in Int /\ Start(k) \div Page <= p
          /\ p \in I!Reserved(file, base)
          /\ k < f => p < Start(f) \div Page
        BY <1>2, <1>4, SectionPages
    <2>2. Start(f) \div Page \in Int /\ Start(k) \div Page \in Int /\ Page \in Nat \ {0}
          /\ Start(f) \in Nat /\ Start(k) \in Nat
        BY <1>2, AddressesRight, DivMod
    <2>3. CASE k < f
        <3>1. p \notin I!touched  BY <2>1, <2>2, <2>3, PartPages
        <3>2. I!SectionUsable(k)  BY <1>2, <2>3 DEF Protected
        <3>3. /\ I!Gives(k, s.raw, s.access)
              /\ "w" \in s.access => I!Gives(k, s.virt, s.access \cap {"r", "w"})
            BY <3>2 DEF I!SectionUsable
        <3>4. size > 0 /\ I!PagesOf(Start(k), size) = I!PagesOf(base + file.sections[k].va, size)
            BY <2>1 DEF Start
        <3> HIDE DEF s
        <3>5. size = s.raw => p \in DOMAIN pages /\ s.access \subseteq pages[p]
            BY <1>4, <3>3, <3>4 DEF I!Gives
        <3>6. "w" \in s.access /\ size = s.virt =>
                p \in DOMAIN pages /\ s.access \cap {"r", "w"} \subseteq pages[p]
            BY <1>4, <3>3, <3>4 DEF I!Gives
        <3>7. size = s.raw \/ size = s.virt  BY <1>4 DEF Extents, s
        <3>8. p \in DOMAIN pages => p \in DOMAIN pages' /\ pages'[p] = pages[p]
            BY <3>1, OnlyTouched
        <3> QED  BY <3>5, <3>6, <3>7, <3>8
    <2>4. CASE f <= k
        <3>1. /\ s.access \subseteq sectionData.access
              /\ ~sectionData.discardable
            BY <1>2, <2>4 DEF Part
        <3>2. /\ I!touched \subseteq DOMAIN pages
              /\ pages' = [q \in DOMAIN pages |->
                             IF q \in I!touched THEN sectionData.access ELSE pages[q]]
            BY <3>1 DEF I!finalizeSection
        <3>3. Start(f) \div Page <= Start(k) \div Page
            <4>1. CASE k = f  BY <2>2, <4>1
            <4>2. CASE f < k
                <5>1. PICK q \in I!PagesOf(Start(f), file.sections[f].virt) : q = Start(f) \div Page
                    <6>1. file.sections[f].virt \in Nat \ {0}
                        BY <1>2, SectionTypes DEF Loaded
                    <6>2. /\ Start(f) + file.sections[f].virt - 1 \in Nat
                          /\ Start(f) <= Start(f) + file.sections[f].virt - 1
                        BY <2>2, <6>1
                    <6>3. Start(f) \div Page <= (Start(f) + file.sections[f].virt - 1) \div Page
                        BY <2>2, <6>2, PagesInOrder
                    <6>4. (Start(f) + file.sections[f].virt - 1) \div Page \in Int
                        BY <2>2, <6>2, DivMod
                    <6> QED  BY <2>2, <6>3, <6>4 DEF I!PagesOf
                <5>2. file.sections[f].virt \in Extents(f)
                    BY <1>2, SectionTypes DEF Loaded, Extents
                <5>3. q < Start(k) \div Page  BY <1>2, <4>2, <5>1, <5>2, SectionPages
                <5> QED  BY <2>2, <5>1, <5>3
            <4> QED  BY <1>2, <2>4, <4>1, <4>2
        <3>4. p \in DOMAIN pages /\ pages[p] = {"r", "w"}
            BY <2>1, <2>2, <3>3 DEF Untouched
        <3>5. size = s.raw => p \in I!touched
            <4>1. k \in f .. i - 1  BY <1>2, <2>4
            <4> QED  BY <1>4, <2>1, <4>1, PartPages
        <3> HIDE DEF s
        <3> QED  BY <3>1, <3>2, <3>4, <3>5
    <2> QED  BY <1>2, <2>3, <2>4
<1>5. I!Gives(k, file.sections[k].raw, file.sections[k].access)'
    <2> SUFFICES ASSUME s.raw > 0, NEW p \in I!PagesOf(Start(k), s.raw)
                 PROVE  p \in DOMAIN pages' /\ s.access \subseteq pages'[p]
        BY DEF I!Gives, I!PagesOf, Start
    <2>1. s.raw \in Extents(k)  BY <1>3 DEF Extents
    <2> QED  BY <1>4, <2>1
<1>6. ASSUME "w" \in s.access
      PROVE  I!Gives(k, file.sections[k].virt, file.sections[k].access \cap {"r", "w"})'
    <2> SUFFICES ASSUME NEW p \in I!PagesOf(Start(k), s.virt)
                 PROVE  p \in DOMAIN pages' /\ s.access \cap {"r", "w"} \subseteq pages'[p]
        BY DEF I!Gives, I!PagesOf, Start
    <2>1. s.virt \in Extents(k)  BY <1>3 DEF Extents
    <2> QED  BY <1>4, <1>6, <2>1
<1> QED  BY <1>5, <1>6
(* A part that begins with section k and has no other.                     *)
LEMMA PartStarts ==
    ASSUME Loaded, NEW k \in DOMAIN file.sections
    PROVE  /\ I!StartWith(k).address = Start(k)
           /\ I!StartWith(k).size \in Nat
           /\ I!StartWith(k).size >= file.sections[k].raw
           /\ I!StartWith(k).access = file.sections[k].access
           /\ I!StartWith(k).discardable = file.sections[k].discardable
<1>1. I!sectionAddress(k) = Start(k)  BY AddressesRight
<1>2. I!realSectionSize(k) \in Nat /\ I!realSectionSize(k) >= file.sections[k].raw
    BY RealSizes DEF Loaded
<1> QED  BY <1>1, <1>2 DEF I!StartWith

(* A load that has come to finalizeSections, the first or a later one.     *)
Fresh ==
    /\ Loaded
    /\ i = 2
    /\ sectionData = I!StartWith(1)
    /\ pages = [p \in I!Reserved(file, base) |-> {"r", "w"}]

(* The invariant at the start of finalizeSections ...                      *)
LEMMA FreshImage == Fresh => ImageInv
<1> SUFFICES ASSUME Fresh PROVE ImageInv  OBVIOUS
<1>1. Loaded /\ i = 2  BY DEF Fresh
<1>2. Len(file.sections) \in Nat \ {0} /\ 1 \in DOMAIN file.sections
    BY <1>1, SectionTypes DEF Loaded
<1>3. Part(1)
    <2>1. /\ sectionData.address = Start(1) /\ sectionData.size \in Nat
          /\ sectionData.size >= file.sections[1].raw
          /\ sectionData.access = file.sections[1].access
          /\ sectionData.discardable = file.sections[1].discardable
        BY <1>1, <1>2, PartStarts DEF Fresh
    <2>2. Start(1) \in Nat /\ file.sections[1].raw \in Nat
        BY <1>1, <1>2, AddressesRight, SectionTypes DEF Loaded
    <2>3. i - 1 = 1 /\ \A k \in 1 .. i - 1 : k = 1  BY <1>1
    <2> QED  BY <2>1, <2>2, <2>3 DEF Part
<1>4. Protected(0)  BY DEF Protected
<1>5. Untouched(1)  BY DEF Fresh, Untouched
<1>6. 1 \in 1 .. i - 1 /\ 1 - 1 = 0  BY <1>1
<1>7. \E f \in 1 .. i - 1 : Part(f) /\ Protected(f - 1) /\ Untouched(f)
    BY <1>3, <1>4, <1>5, <1>6
<1> QED  BY <1>1, <1>2, <1>7 DEF ImageInv

(* ... of the first load.                                                  *)
LEMMA ImageInit == I!Init => ImageInv
<1> SUFFICES ASSUME I!Init PROVE Fresh  BY FreshImage
<1> QED  BY PEImageAssumption DEF I!Init, Fresh, Loaded

(* A section that shares a page with the part is put into it.              *)
LEMMA ShareStep ==
    ASSUME ImageInv, I!RoundShares
    PROVE  ImageInv'
<1> DEFINE len == Len(file.sections)
<1>1. /\ Loaded /\ len \in Nat \ {0} /\ DOMAIN file.sections = 1 .. len
      /\ i \in 2 .. len + 2 /\ i <= len
    BY SectionTypes DEF ImageInv, Loaded, I!RoundShares
<1>2. UNCHANGED <<file, base, pages>> /\ i' = i + 1 /\ sectionData' = I!Share(i)
    BY DEF I!RoundShares
<1> HIDE DEF len
<1>3. PICK f \in 1 .. i - 1 : Part(f) /\ Protected(f - 1) /\ Untouched(f)
    BY <1>1 DEF ImageInv, len
<1>4. i \in DOMAIN file.sections /\ f \in DOMAIN file.sections /\ i \in Int /\ f \in Int /\ f < i
    BY <1>1
<1>5. Loaded'  BY <1>1, <1>2 DEF Loaded, I!BasesFor
<1>6. Protected(f - 1)' /\ Untouched(f)'
    BY <1>2, <1>3 DEF Protected, Untouched, I!SectionUsable, I!Gives, I!PagesOf, Start, I!Reserved
<1>7. Part(f)'
    <2>1. /\ sectionData'.address = sectionData.address
          /\ sectionData'.size = I!sectionAddress(i) + I!realSectionSize(i) - sectionData.address
          /\ sectionData'.access = sectionData.access \cup file.sections[i].access
          /\ sectionData'.discardable = (sectionData.discardable /\ file.sections[i].discardable)
        BY <1>2 DEF I!Share
    <2>2. /\ I!sectionAddress(i) = Start(i) /\ Start(i) \in Nat /\ Start(f) \in Nat
        BY <1>1, <1>4, AddressesRight
    <2>3. /\ I!realSectionSize(i) \in Nat /\ I!realSectionSize(i) >= file.sections[i].raw
          /\ file.sections[i].raw \in Nat
        BY <1>1, <1>4, RealSizes, SectionTypes DEF Loaded
    <2>4. Start(f) <= Start(i)
        <3>1. file.sections[f].va + file.sections[f].raw <= file.sections[i].va
            BY <1>1, <1>4 DEF Loaded, I!WellFormed
        <3>2. file.sections[f].va \in Nat /\ file.sections[f].raw \in Nat /\ file.sections[i].va \in Nat
            BY <1>1, <1>4, SectionTypes DEF Loaded
        <3>3. base \in Nat  BY <1>1, <1>4, AddressesRight
        <3> QED  BY <3>1, <3>2, <3>3 DEF Start
    <2>5. sectionData.address = Start(f)  BY <1>3 DEF Part
    <2>6. PICK n \in Nat : n = i  BY <1>4
    <2>7. i' - 1 = n /\ f .. n = (f .. i - 1) \cup {n}  BY <1>2, <1>4, <2>6
    <2>8. /\ sectionData'.address = Start(f)' /\ sectionData'.size \in Nat
          /\ sectionData'.address + sectionData'.size >= Start(n)' + file'.sections[n].raw
        BY <1>2, <2>1, <2>2, <2>3, <2>4, <2>5, <2>6 DEF Start
    <2>9. \A k \in f .. n :
            /\ file'.sections[k].access \subseteq sectionData'.access
            /\ sectionData'.discardable => file'.sections[k].discardable
        BY <1>2, <1>3, <2>1, <2>6, <2>7 DEF Part
    <2> QED  BY <2>7, <2>8, <2>9 DEF Part
<1>8. i' \in 2 .. len + 2 /\ i' <= len + 1 /\ len' = len /\ f \in 1 .. i' - 1
    BY <1>1, <1>2, <1>4 DEF len
<1>9. \E g \in 1 .. i' - 1 : Part(g)' /\ Protected(g - 1)' /\ Untouched(g)'
    BY <1>6, <1>7, <1>8
<1>10. i' # len' + 2  BY <1>1, <1>8
<1> QED  BY <1>5, <1>8, <1>9, <1>10 DEF ImageInv, len

(* A section that shares no page with the part begins a new one.           *)
LEMMA StartStep ==
    ASSUME ImageInv, I!RoundStarts
    PROVE  ImageInv'
<1> DEFINE len == Len(file.sections)
<1>1. /\ Loaded /\ len \in Nat \ {0} /\ DOMAIN file.sections = 1 .. len
      /\ i \in 2 .. len + 2 /\ i <= len
    BY SectionTypes DEF ImageInv, Loaded, I!RoundStarts
<1>2. /\ UNCHANGED <<file, base>> /\ i' = i + 1 /\ sectionData' = I!StartWith(i)
      /\ I!finalizeSection(FALSE) /\ ~I!Shares(i)
    BY DEF I!RoundStarts
<1> HIDE DEF len
<1>3. PICK f \in 1 .. i - 1 : Part(f) /\ Protected(f - 1) /\ Untouched(f)
    BY <1>1 DEF ImageInv, len
<1>4. i \in DOMAIN file.sections /\ f \in DOMAIN file.sections /\ i \in Nat /\ f \in Int /\ f < i
      /\ i - 1 \in DOMAIN file.sections
    BY <1>1
<1>5. Loaded'  BY <1>1, <1>2 DEF Loaded, I!BasesFor
<1>6. PICK n \in Nat : n = i  BY <1>4
<1>7. Protected(n - 1)'
    <2>1. \A k \in 1 .. i - 1 : I!SectionUsable(k)'  BY <1>1, <1>2, <1>3, <1>4, PartProtected
    <2> QED  BY <1>6, <2>1 DEF Protected
<1>8. Start(n) \in Nat /\ I!sectionAddress(n) = Start(n) /\ file.sections[n].raw \in Nat
    BY <1>1, <1>4, <1>6, AddressesRight, SectionTypes DEF Loaded
<1>9. Part(n)'
    <2>1. /\ sectionData'.address = Start(n)' /\ sectionData'.size \in Nat
          /\ sectionData'.size >= file.sections[n].raw
          /\ sectionData'.access = file.sections[n].access
          /\ sectionData'.discardable = file.sections[n].discardable
        BY <1>1, <1>2, <1>4, <1>6, PartStarts DEF Start
    <2>2. i' - 1 = n /\ Start(n)' = Start(n) /\ \A k \in n .. n : k = n  BY <1>2, <1>6 DEF Start
    <2> QED  BY <1>2, <1>8, <2>1, <2>2 DEF Part
<1>10. Untouched(n)'
    <2>1. sectionData.address + sectionData.size <= Start(n)
        <3>1. ~(sectionData.address + sectionData.size > I!alignDown(Start(n), SectionAlignment))
            BY <1>2, <1>6, <1>8 DEF I!Shares
        <3>2. /\ I!alignDown(Start(n), SectionAlignment) \in Nat
              /\ I!alignDown(Start(n), SectionAlignment) <= Start(n)
            BY <1>8, PEImageAssumption, Aligning
        <3>3. sectionData.address \in Nat /\ sectionData.size \in Nat
            BY <1>1, <1>3, <1>4, AddressesRight DEF Part
        <3> QED  BY <1>8, <3>1, <3>2, <3>3
    <2>2. \A p \in I!touched : p \in Int /\ p < Start(n) \div Page
        BY <1>1, <1>3, <1>4, <1>6, <2>1, PartPages
    <2>3. /\ Page \in Nat \ {0} /\ Start(f) \in Nat
          /\ Start(n) \div Page \in Int /\ Start(f) \div Page \in Int
        <3>1. Page \in Nat \ {0} /\ Start(f) \in Nat  BY <1>1, <1>4, AddressesRight
        <3> QED  BY <1>8, <3>1, DivMod
    <2>4. Start(f) \div Page <= Start(n) \div Page
        <3>1. file.sections[f].va + file.sections[f].raw <= file.sections[n].va
            BY <1>1, <1>4, <1>6 DEF Loaded, I!WellFormed
        <3>2. file.sections[f].va \in Nat /\ file.sections[f].raw \in Nat /\ file.sections[n].va \in Nat
              /\ base \in Nat
            BY <1>1, <1>4, <1>6, SectionTypes, AddressesRight DEF Loaded
        <3>3. Start(f) <= Start(n)  BY <3>1, <3>2 DEF Start
        <3> QED  BY <1>8, <2>3, <3>3, PagesInOrder
    <2>5. ASSUME NEW p \in I!Reserved(file, base), p >= Start(n) \div Page
          PROVE  p \in DOMAIN pages' /\ pages'[p] = {"r", "w"}
        <3>1. p \in Int
            BY DEF I!Reserved, I!PagesOf
        <3>2. p \in DOMAIN pages /\ pages[p] = {"r", "w"}
            BY <1>3, <2>3, <2>4, <2>5, <3>1 DEF Untouched
        <3>3. p \notin I!touched  BY <2>2, <2>3, <2>5, <3>1
        <3> QED  BY <1>2, <3>2, <3>3, OnlyTouched
    <2> QED  BY <1>2, <2>5 DEF Untouched, I!Reserved, I!PagesOf, I!alignedImageSize, Start
<1>11. i' \in 2 .. len + 2 /\ i' <= len + 1 /\ len' = len /\ n \in 1 .. i' - 1
    BY <1>1, <1>2, <1>6 DEF len
<1> QED  BY <1>1, <1>5, <1>7, <1>9, <1>10, <1>11 DEF ImageInv, len

(* The last part.                                                          *)
LEMMA FinishStep ==
    ASSUME ImageInv, I!Finish
    PROVE  ImageInv'
<1> DEFINE len == Len(file.sections)
<1>1. /\ Loaded /\ len \in Nat \ {0} /\ DOMAIN file.sections = 1 .. len /\ i = len + 1
    BY SectionTypes DEF ImageInv, Loaded, I!Finish
<1>2. UNCHANGED <<file, base>> /\ i' = i + 1 /\ I!finalizeSection(TRUE)
    BY DEF I!Finish
<1> HIDE DEF len
<1>3. PICK f \in 1 .. i - 1 : Part(f) /\ Protected(f - 1) /\ Untouched(f)
    BY <1>1 DEF ImageInv, len
<1>4. i \in Nat /\ i - 1 \in DOMAIN file.sections /\ i - 1 = len  BY <1>1
<1>5. Loaded'  BY <1>1, <1>2 DEF Loaded, I!BasesFor
<1>6. Protected(len)'
    <2>1. \A k \in 1 .. i - 1 : I!SectionUsable(k)'  BY <1>1, <1>2, <1>3, <1>4, PartProtected
    <2>2. len' = len  BY <1>2 DEF len
    <2> QED  BY <1>4, <2>1, <2>2 DEF Protected
<1>7. i' \in 2 .. len + 2 /\ ~(i' <= len + 1) /\ len' = len  BY <1>1, <1>2 DEF len
<1> QED  BY <1>5, <1>6, <1>7 DEF ImageInv, len

(* Every step preserves the invariant.                                     *)
LEMMA ImageStep == ImageInv /\ [I!Next]_I!vars => ImageInv'
<1> SUFFICES ASSUME ImageInv, [I!Next]_I!vars PROVE ImageInv'  OBVIOUS
<1>1. CASE UNCHANGED I!vars
    BY <1>1 DEF I!vars, ImageInv, Loaded, Part, Protected, Untouched, Start, I!SectionUsable,
                I!Gives, I!PagesOf, I!Reserved, I!BasesFor
<1>2. CASE I!LoadAgain
    <2>1. Fresh'
        BY <1>2 DEF ImageInv, Fresh, Loaded, I!LoadAgain, I!BasesFor, I!Reserved
    <2>2. Fresh' => ImageInv'  BY FreshImage, PTL
    <2> QED  BY <2>1, <2>2
<1> QED  BY <1>1, <1>2, ShareStep, StartStep, FinishStep DEF I!Next

(* For any file whose sections are aligned and apart, with any sizes, any  *)
(* access and any totals in its header, at any base and after any number   *)
(* of loads that failed: when finalizeSections has returned, the sections  *)
(* can be used as their headers say.                                       *)
THEOREM ImagesAreUsable == I!Spec => []SectionsUsable
<1>1. I!Spec => []ImageInv  BY ImageInit, ImageStep, PTL DEF I!Spec
<1>2. ImageInv => SectionsUsable
    BY SectionTypes DEF ImageInv, Loaded, Protected, SectionsUsable, I!SectionsUsable
<1> QED  BY <1>1, <1>2, PTL
=============================================================================
