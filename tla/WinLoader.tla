------------------------------ MODULE WinLoader ------------------------------
(***************************************************************************)
(* Loading the wintun library on first use: the double-checked locks of    *)
(* lazyProc.Find and lazyDLL.Load (dll_windows.go) and, under them,        *)
(* memmod.LoadLibrary and Free (memmod_windows.go) step by step, each step *)
(* able to fail.  A block stands for the address range of one allocation.  *)
(*                                                                         *)
(* Addr panics when Find fails; the model goes on as if the panic had been *)
(* recovered, which is what makes a second attempt possible.               *)
(***************************************************************************)
EXTENDS Naturals, FiniteSets

CONSTANTS
    Threads,        \* goroutines that call wintun functions
    Procs,          \* the lazyProc variables of the package
    Exported,       \* those that the library exports
    Blocks,         \* blocks that VirtualAlloc may return
    Crossing,       \* blocks that cross a boundary of 4 GB
    NImports,       \* libraries that the library imports
    None            \* no block, no thread

ASSUME WinLoaderAssumption ==
    /\ Exported \subseteq Procs
    /\ Crossing \subseteq Blocks
    /\ NImports \in Nat
    /\ None \notin Blocks \cup Threads

VARIABLES
    pc,             \* next step of each thread
    proc,           \* the lazyProc it is looking up
    got,            \* what its last call of Addr returned, None for a panic
    addr,           \* p.addr: the block it points into
    procMu, dllMu,  \* holders of p.mu and d.mu
    module,         \* d.module: the block of the published module
    mod,            \* the Module that LoadLibrary is building
    memory,         \* blocks allocated and not freed
    libs,           \* import handles that are held
    tables,         \* blocks with a registered exception table
    ranges,         \* loadedAddressRanges
    hook,           \* haveHookedRtlPcToFileHeader and its result
    attached        \* blocks whose DllMain was told to attach

thread == <<pc, proc, got>>
locks == <<procMu, dllMu>>
image == <<mod, memory, libs, tables, ranges, hook, attached>>
vars == <<thread, addr, locks, module, image>>

NewModule == [code |-> None, blocked |-> {}, imports |-> 0, initialized |-> FALSE]

Init ==
    /\ pc = [t \in Threads |-> "idle"]
    /\ proc \in [Threads -> Procs]
    /\ got = [t \in Threads |-> None]
    /\ addr = [p \in Procs |-> None]
    /\ procMu = [p \in Procs |-> None]
    /\ dllMu = None
    /\ module = None
    /\ mod = NewModule
    /\ memory = {}
    /\ libs = 0
    /\ tables = {}
    /\ ranges = {}
    /\ hook = "none"
    /\ attached = {}

Step(t, from, to) == pc[t] = from /\ pc' = [pc EXCEPT ![t] = to]

(***************************************************************************)
(* lazyProc.Find.                                                          *)
(***************************************************************************)
FindFast(t) ==
    /\ pc[t] = "idle"
    /\ \E p \in Procs :
         /\ addr[p] # None
         /\ proc' = [proc EXCEPT ![t] = p]
         /\ got' = [got EXCEPT ![t] = addr[p]]
    /\ UNCHANGED <<pc, addr, locks, module, image>>

FindSlow(t) ==
    /\ Step(t, "idle", "lock")
    /\ \E p \in Procs : addr[p] = None /\ proc' = [proc EXCEPT ![t] = p]
    /\ got' = [got EXCEPT ![t] = None]
    /\ UNCHANGED <<addr, locks, module, image>>

LockProc(t) ==
    /\ pc[t] = "lock"
    /\ procMu[proc[t]] = None
    /\ procMu' = [procMu EXCEPT ![proc[t]] = t]
    /\ pc' = [pc EXCEPT ![t] = IF addr[proc[t]] # None THEN "found" ELSE "load"]
    /\ UNCHANGED <<proc, got, addr, dllMu, module, image>>

(* nameToAddr and the store of p.addr.                                     *)
NameToAddr(t) ==
    /\ pc[t] = "name"
    /\ IF proc[t] \in Exported
       THEN /\ addr' = [addr EXCEPT ![proc[t]] = module]
            /\ pc' = [pc EXCEPT ![t] = "found"]
       ELSE /\ pc' = [pc EXCEPT ![t] = "error"]
            /\ UNCHANGED addr
    /\ UNCHANGED <<proc, got, locks, module, image>>

(* The deferred unlock of p.mu, and what Addr makes of the result.         *)
Found(t) ==
    /\ Step(t, "found", "idle")
    /\ procMu' = [procMu EXCEPT ![proc[t]] = None]
    /\ got' = [got EXCEPT ![t] = addr[proc[t]]]
    /\ UNCHANGED <<proc, addr, dllMu, module, image>>

FindFails(t) ==
    /\ Step(t, "error", "idle")
    /\ procMu' = [procMu EXCEPT ![proc[t]] = None]
    /\ UNCHANGED <<proc, got, addr, dllMu, module, image>>

(***************************************************************************)
(* lazyDLL.Load.                                                           *)
(***************************************************************************)
LoadCheck(t) ==
    /\ pc[t] = "load"
    /\ pc' = [pc EXCEPT ![t] = IF module # None THEN "name" ELSE "lockdll"]
    /\ UNCHANGED <<proc, got, addr, locks, module, image>>

LockDLLNoCheck(t) ==
    /\ Step(t, "lockdll", "reserve")
    /\ dllMu = None
    /\ dllMu' = t
    /\ mod' = NewModule
    /\ UNCHANGED <<proc, got, addr, procMu, module, memory, libs, tables, ranges, hook, attached>>

LockDLL(t) ==
    /\ pc[t] = "lockdll"
    /\ dllMu = None
    /\ IF module # None
       THEN /\ pc' = [pc EXCEPT ![t] = "name"]
            /\ UNCHANGED <<dllMu, mod>>
       ELSE /\ pc' = [pc EXCEPT ![t] = "reserve"]
            /\ dllMu' = t
            /\ mod' = NewModule
    /\ UNCHANGED <<proc, got, addr, procMu, module, memory, libs, tables, ranges, hook, attached>>

(* buildNameExports, whose error is ignored; then d.Base, d.module and the *)
(* deferred unlock of d.mu.                                                *)
Publish(t) ==
    /\ Step(t, "publish", "name")
    /\ module' = mod.code
    /\ dllMu' = None
    /\ UNCHANGED <<proc, got, addr, procMu, image>>

(***************************************************************************)
(* LoadLibrary.  Any step from the first allocation on may fail; then the  *)
(* deferred Free runs.                                                     *)
(***************************************************************************)
MayFail == {"reserve", "boundary", "copy", "relocate", "imports", "finalize"}

LoadFails(t) ==
    /\ pc[t] \in MayFail
    /\ pc[t] = "boundary" => mod.code \in Crossing
    /\ pc[t] = "imports" => mod.imports < NImports
    /\ pc' = [pc EXCEPT ![t] = "free"]
    /\ mod' = IF pc[t] = "boundary"
              THEN [mod EXCEPT !.blocked = @ \cup {mod.code}, !.code = None]
              ELSE mod
    /\ UNCHANGED <<proc, got, addr, locks, module, memory, libs, tables, ranges, hook, attached>>

(* VirtualAlloc at ImageBase, or anywhere if that fails.                   *)
Reserve(t) ==
    /\ Step(t, "reserve", "boundary")
    /\ \E b \in Blocks \ memory :
         /\ mod' = [mod EXCEPT !.code = b]
         /\ memory' = memory \cup {b}
    /\ UNCHANGED <<proc, got, addr, locks, module, libs, tables, ranges, hook, attached>>

(* check4GBBoundaries: a block that crosses is kept while the next one is  *)
(* allocated, so that it is not returned again.                            *)
BoundaryOnce(t) ==
    /\ Step(t, "boundary", "copy")
    /\ IF mod.code \in Crossing
       THEN \E b \in Blocks \ memory :
              /\ mod' = [mod EXCEPT !.blocked = @ \cup {mod.code}, !.code = b]
              /\ memory' = memory \cup {b}
       ELSE UNCHANGED <<mod, memory>>
    /\ UNCHANGED <<proc, got, addr, locks, module, libs, tables, ranges, hook, attached>>

BoundaryGivesBack(t) ==
    /\ pc[t] = "boundary"
    /\ IF mod.code \in Crossing
       THEN /\ \E b \in (Blocks \ memory) \cup {mod.code} :
                 /\ mod' = [mod EXCEPT !.code = b]
                 /\ memory' = (memory \ {mod.code}) \cup {b}
            /\ UNCHANGED pc
       ELSE pc' = [pc EXCEPT ![t] = "copy"] /\ UNCHANGED <<mod, memory>>
    /\ UNCHANGED <<proc, got, addr, locks, module, libs, tables, ranges, hook, attached>>

Boundary(t) ==
    /\ pc[t] = "boundary"
    /\ IF mod.code \in Crossing
       THEN /\ \E b \in Blocks \ memory :
                 /\ mod' = [mod EXCEPT !.blocked = @ \cup {mod.code}, !.code = b]
                 /\ memory' = memory \cup {b}
            /\ UNCHANGED pc
       ELSE pc' = [pc EXCEPT ![t] = "copy"] /\ UNCHANGED <<mod, memory>>
    /\ UNCHANGED <<proc, got, addr, locks, module, libs, tables, ranges, hook, attached>>

(* The headers and copySections, then performBaseRelocation: inside the    *)
(* block.                                                                  *)
Copy(t) ==
    /\ Step(t, "copy", "relocate")
    /\ UNCHANGED <<proc, got, addr, locks, module, image>>

Relocate(t) ==
    /\ Step(t, "relocate", "imports")
    /\ UNCHANGED <<proc, got, addr, locks, module, image>>

(* buildImportTable: one library after the other.  A library of which a    *)
(* function is missing is freed before LoadFails.                          *)
Import(t) ==
    /\ pc[t] = "imports"
    /\ IF mod.imports < NImports
       THEN /\ mod' = [mod EXCEPT !.imports = @ + 1]
            /\ libs' = libs + 1
            /\ UNCHANGED pc
       ELSE pc' = [pc EXCEPT ![t] = "finalize"] /\ UNCHANGED <<mod, libs>>
    /\ UNCHANGED <<proc, got, addr, locks, module, memory, tables, ranges, hook, attached>>

(* finalizeSections, registerExceptionHandlers and the address range.      *)
Register(t) ==
    /\ Step(t, "finalize", "hook")
    /\ tables' = tables \cup {mod.code}
    /\ ranges' = ranges \cup {mod.code}
    /\ UNCHANGED <<proc, got, addr, locks, module, mod, memory, libs, hook, attached>>

(* hookRtlPcToFileHeader, once in the life of the process: its result is   *)
(* the result for every load to come.                                      *)
Hook(t) ==
    /\ pc[t] = "hook"
    /\ IF hook = "none" THEN hook' \in {"ok", "failed"} ELSE UNCHANGED hook
    /\ pc' = [pc EXCEPT ![t] = IF hook' = "ok" THEN "attach" ELSE "free"]
    /\ UNCHANGED <<proc, got, addr, locks, module, mod, memory, libs, tables, ranges, attached>>

(* The TLS callbacks and the entry point.                                  *)
Attach(t) ==
    /\ Step(t, "attach", "publish")
    /\ attached' = attached \cup {mod.code}
    /\ mod' = [mod EXCEPT !.initialized = TRUE]
    /\ UNCHANGED <<proc, got, addr, locks, module, memory, libs, tables, ranges, hook>>

AttachFails(t) ==
    /\ Step(t, "attach", "free")
    /\ UNCHANGED <<proc, got, addr, locks, module, image>>

(* Free, then the error goes up through Load, which unlocks d.mu.          *)
Free(t) ==
    /\ Step(t, "free", "error")
    /\ attached' = IF mod.initialized THEN attached \ {mod.code} ELSE attached
    /\ libs' = libs - mod.imports
    /\ memory' = memory \ ({mod.code} \cup mod.blocked)
    /\ mod' = NewModule
    /\ dllMu' = None
    /\ UNCHANGED <<proc, got, addr, procMu, module, tables, ranges, hook>>

Run(t) ==
    \/ LockProc(t) \/ NameToAddr(t) \/ Found(t) \/ FindFails(t)
    \/ LoadCheck(t) \/ LockDLL(t) \/ Publish(t) \/ LoadFails(t)
    \/ Reserve(t) \/ Boundary(t) \/ Copy(t) \/ Relocate(t) \/ Import(t) \/ Register(t)
    \/ Hook(t) \/ Attach(t) \/ AttachFails(t) \/ Free(t)

Next == \E t \in Threads : FindFast(t) \/ FindSlow(t) \/ Run(t)

Spec == Init /\ [][Next]_vars

(* A goroutine inside Find keeps running, and a mutex of Go is fair: a     *)
(* goroutine that waits is handed it in the end.                           *)
Fairness ==
    \A t \in Threads : WF_vars(Run(t)) /\ SF_vars(LockProc(t)) /\ SF_vars(LockDLL(t))

(***************************************************************************)
(* Properties.                                                             *)
(***************************************************************************)
InLoad == {"reserve", "boundary", "copy", "relocate", "imports", "finalize", "hook", "attach",
           "publish", "free"}
Loading == dllMu # None

(* An address that Addr has returned, or that a later call will return     *)
(* without a lock, points into the one library that is loaded, attached    *)
(* and never freed; its block crosses no boundary of 4 GB, on which the    *)
(* addresses that finalizeSections computes depend.                        *)
Usable(b) == b = module /\ b \in memory /\ b \in attached /\ b \notin Crossing
AddressesLive ==
    /\ \A p \in Procs : addr[p] # None => Usable(addr[p])
    /\ \A t \in Threads : got[t] # None => Usable(got[t])

(* Whatever the threads do, the library is attached at most once, and when *)
(* no load is under way the process holds exactly what the published       *)
(* module holds: its block and the ones kept aside for it, and each import *)
(* once.  A load that failed, at whatever step, left no memory, no import  *)
(* and no attached library.  Free does not take back the exception table   *)
(* and the address range of a load that failed at the hook or later: they  *)
(* stay for good, so all that is said of them is that the published module *)
(* has both and that there are none before a load has come to the hook.    *)
OneLibrary ==
    /\ \A b, c \in attached : b = c
    /\ ~Loading =>
         /\ IF module = None
            THEN memory = {} /\ libs = 0 /\ attached = {}
            ELSE /\ memory = {module} \cup mod.blocked /\ libs = NImports /\ attached = {module}
                 /\ module \in tables \cap ranges
         /\ hook = "none" => tables = {} /\ ranges = {}

(* Every Find returns.                                                     *)
FindReturns == \A t \in Threads : pc[t] # "idle" ~> pc[t] = "idle"
=============================================================================
