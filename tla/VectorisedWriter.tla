-------------------------- MODULE VectorisedWriter --------------------------
(***************************************************************************)
(* The vectorised writers of common/bufio, through which the goroutines of *)
(* the stack write packets to the descriptor of the device on Linux and    *)
(* macOS.  A packet is a list of buffers that goes out in one system call. *)
(*                                                                         *)
(* SyscallVectorisedWriter ("syscall") points a list of iovecs, which is   *)
(* kept for the next call and therefore shared, at the arrays of the       *)
(* buffers; a mutex covers the whole call.  BufferedVectorisedWriter       *)
(* ("buffered") copies the packet into one buffer first and has no lock.   *)
(* Both release the buffers on every path, and the arrays go back to the   *)
(* pool, from where the next packet of any goroutine may take them.        *)
(*                                                                         *)
(* On macOS the first part of a packet is a header in a variable of the    *)
(* package, which is not managed and stays.                                *)
(***************************************************************************)
EXTENDS Integers, Sequences, FiniteSets, Functions

CONSTANTS
    Goroutines,
    Arrays,         \* arrays of the pool
    Kinds,          \* subset of {"syscall", "buffered"}
    Parts,          \* buffers of a packet behind the header
    MaxCalls        \* bound: packets of a goroutine

None == "none"
Header == "header"

VARIABLES
    kind,       \* of the writer
    pc,
    buffers,    \* arrays of the packet that each goroutine writes
    temp,       \* array of the buffer that "buffered" copies to
    calls,      \* calls that each goroutine began
    result,     \* of the last call of each goroutine
    mem,        \* what is in each array, as long as somebody holds it
    pool,
    access,     \* holder of the mutex
    iovecList,  \* the cached list: arrays that its entries point to, None once cleared
    length,     \* of the list of the holder
    closed,     \* the descriptor is closed
    wire        \* packets that the device got

vars == <<kind, pc, buffers, temp, calls, result, mem, pool, access, iovecList, length, closed, wire>>

(* The header, and the parts of a packet behind it.                        *)
Behind(header, parts) == [k \in 1..(Parts + 1) |-> IF k = 1 THEN header ELSE parts[k - 1]]

(* The packet of call n of g, and what is in the arrays of a packet now.   *)
Part(g, n, k) == <<g, n, k>>
Whole(g, n) == Behind(Part(Header, 0, 0), [k \in 1..Parts |-> Part(g, n, k)])
Now(a) == IF a = Header THEN Part(Header, 0, 0) ELSE mem[a]
Gathered(arrays) == [k \in DOMAIN arrays |-> Now(arrays[k])]

Init ==
    /\ kind \in Kinds
    /\ pc = [g \in Goroutines |-> "idle"]
    /\ buffers = [g \in Goroutines |-> <<>>]
    /\ temp = [g \in Goroutines |-> None]
    /\ calls = [g \in Goroutines |-> 0]
    /\ result = [g \in Goroutines |-> None]
    /\ mem = [a \in Arrays |-> <<>>]
    /\ pool = Arrays
    /\ access = None
    /\ iovecList = [k \in 1..(Parts + 1) |-> None]
    /\ length = 0
    /\ closed = FALSE
    /\ wire = <<>>

Goto(g, at) == pc' = [pc EXCEPT ![g] = at]

(* The caller makes a packet in buffers of the pool and calls              *)
(* WriteVectorised.  A goroutine that finds no array waits here.           *)
Fill(g) ==
    /\ pc[g] = "idle" /\ calls[g] < MaxCalls
    /\ \E arrays \in [1..Parts -> pool] :
         /\ \A j, k \in 1..Parts : j # k => arrays[j] # arrays[k]
         /\ buffers' = [buffers EXCEPT ![g] = Behind(Header, arrays)]
         /\ pool' = pool \ Range(arrays)
         /\ mem' = [a \in Arrays |->
                      IF a \in Range(arrays)
                      THEN Part(g, calls[g] + 1, CHOOSE k \in 1..Parts : arrays[k] = a)
                      ELSE mem[a]]
    /\ calls' = [calls EXCEPT ![g] = @ + 1]
    /\ result' = [result EXCEPT ![g] = None]
    /\ Goto(g, IF kind = "syscall" THEN "lock" ELSE "copy")
    /\ UNCHANGED <<kind, temp, access, iovecList, length, closed, wire>>

(***************************************************************************)
(* SyscallVectorisedWriter.                                                *)
(***************************************************************************)
LockDropped(g) ==
    /\ pc[g] = "lock"
    /\ access' = g
    /\ length' = 0
    /\ Goto(g, "append")
    /\ UNCHANGED <<kind, buffers, temp, calls, result, mem, pool, iovecList, closed, wire>>

Lock(g) ==
    /\ pc[g] = "lock" /\ access = None
    /\ access' = g
    /\ length' = 0
    /\ Goto(g, "append")
    /\ UNCHANGED <<kind, buffers, temp, calls, result, mem, pool, iovecList, closed, wire>>

(* The pointer to the first byte of each buffer.                           *)
AppendIovec(g) ==
    /\ pc[g] = "append" /\ length < Len(buffers[g])
    /\ length' = length + 1
    /\ iovecList' = [iovecList EXCEPT ![length + 1] = buffers[g][length + 1]]
    /\ UNCHANGED <<kind, pc, buffers, temp, calls, result, mem, pool, access, closed, wire>>

(* A buffer without bytes has no first byte: the call panics, and the      *)
(* deferred functions run.                                                 *)
AppendPanics(g) ==
    /\ pc[g] = "append" /\ length < Len(buffers[g]) /\ length > 0
    /\ result' = [result EXCEPT ![g] = "panic"]
    /\ Goto(g, "release")
    /\ UNCHANGED <<kind, buffers, temp, calls, mem, pool, access, iovecList, length, closed, wire>>

AppendDone(g) ==
    /\ pc[g] = "append" /\ length = Len(buffers[g])
    /\ Goto(g, "write")
    /\ UNCHANGED <<kind, buffers, temp, calls, result, mem, pool, access, iovecList, length, closed, wire>>

(* writev in rawConn.Write; with EAGAIN, which changes nothing here, the   *)
(* goroutine waits for the descriptor and tries again.                     *)
Writev(g) ==
    /\ pc[g] = "write" /\ ~closed
    /\ wire' = Append(wire, Gathered([k \in 1..length |-> iovecList[k]]))
    /\ result' = [result EXCEPT ![g] = "nil"]
    /\ Goto(g, "clear")
    /\ UNCHANGED <<kind, buffers, temp, calls, mem, pool, access, iovecList, length, closed>>

(* Another error of writev, or the descriptor is closed, also while the    *)
(* goroutine waits: innerErr is then EAGAIN, and an error as well.         *)
WritevFails(g) ==
    /\ pc[g] = "write"
    /\ result' = [result EXCEPT ![g] = "error"]
    /\ Goto(g, "clear")
    /\ UNCHANGED <<kind, buffers, temp, calls, mem, pool, access, iovecList, length, closed, wire>>

ClearDropped(g) ==
    /\ pc[g] = "clear"
    /\ Goto(g, "release")
    /\ UNCHANGED <<kind, buffers, temp, calls, result, mem, pool, access, iovecList, length, closed, wire>>

Clear(g) ==
    /\ pc[g] = "clear"
    /\ iovecList' = [k \in DOMAIN iovecList |-> IF k <= length THEN None ELSE iovecList[k]]
    /\ Goto(g, "release")
    /\ UNCHANGED <<kind, buffers, temp, calls, result, mem, pool, access, length, closed, wire>>

(***************************************************************************)
(* The deferred calls: first ReleaseMulti, which does nothing for the      *)
(* header, and of "buffered" the release of its own buffer before that;    *)
(* then the mutex.                                                         *)
(***************************************************************************)
Release(g) ==
    /\ pc[g] = "release"
    /\ LET arrays == (Range(buffers[g]) \ {Header}) \cup ({temp[g]} \ {None}) IN
       /\ pool' = pool \cup arrays
       /\ mem' = [a \in Arrays |-> IF a \in arrays THEN <<>> ELSE mem[a]]
    /\ buffers' = [buffers EXCEPT ![g] = <<>>]
    /\ temp' = [temp EXCEPT ![g] = None]
    /\ Goto(g, IF kind = "syscall" THEN "unlock" ELSE "idle")
    /\ UNCHANGED <<kind, calls, result, access, iovecList, length, closed, wire>>

UnlockOnSuccess(g) ==
    /\ pc[g] = "unlock"
    /\ access' = IF result[g] = "nil" THEN None ELSE access
    /\ Goto(g, "idle")
    /\ UNCHANGED <<kind, buffers, temp, calls, result, mem, pool, iovecList, length, closed, wire>>

Unlock(g) ==
    /\ pc[g] = "unlock"
    /\ access' = None
    /\ Goto(g, "idle")
    /\ UNCHANGED <<kind, buffers, temp, calls, result, mem, pool, iovecList, length, closed, wire>>

(***************************************************************************)
(* BufferedVectorisedWriter.                                               *)
(***************************************************************************)
Copy(g) ==
    /\ pc[g] = "copy"
    /\ \E a \in pool :
         /\ temp' = [temp EXCEPT ![g] = a]
         /\ pool' = pool \ {a}
         /\ mem' = [mem EXCEPT ![a] = Gathered(buffers[g])]
    /\ Goto(g, "send")
    /\ UNCHANGED <<kind, buffers, calls, result, access, iovecList, length, closed, wire>>

Send(g) ==
    /\ pc[g] = "send" /\ ~closed
    /\ wire' = Append(wire, mem[temp[g]])
    /\ result' = [result EXCEPT ![g] = "nil"]
    /\ Goto(g, "release")
    /\ UNCHANGED <<kind, buffers, temp, calls, mem, pool, access, iovecList, length, closed>>

SendFails(g) ==
    /\ pc[g] = "send"
    /\ result' = [result EXCEPT ![g] = "error"]
    /\ Goto(g, "release")
    /\ UNCHANGED <<kind, buffers, temp, calls, mem, pool, access, iovecList, length, closed, wire>>

(* The device is closed.                                                   *)
CloseFile ==
    /\ ~closed
    /\ closed' = TRUE
    /\ UNCHANGED <<kind, pc, buffers, temp, calls, result, mem, pool, access, iovecList, length, wire>>

Step(g) ==
    \/ Lock(g) \/ AppendIovec(g) \/ AppendDone(g)
    \/ Writev(g) \/ Clear(g) \/ Release(g) \/ Unlock(g)
    \/ Copy(g) \/ Send(g)

Next ==
    \/ \E g \in Goroutines :
         Fill(g) \/ Step(g) \/ AppendPanics(g) \/ WritevFails(g) \/ SendFails(g)
    \/ CloseFile

Spec == Init /\ [][Next]_vars

(* A goroutine inside a call is scheduled, a wait for the descriptor ends  *)
(* when it is closed, and the mutex goes to a goroutine that waits for it. *)
Fairness ==
    \A g \in Goroutines :
      /\ SF_vars(Lock(g)) /\ SF_vars(Copy(g))
      /\ WF_vars(AppendIovec(g) \/ AppendDone(g) \/ Clear(g) \/ Release(g) \/ Unlock(g))
      /\ WF_vars(closed /\ (WritevFails(g) \/ SendFails(g)))

(***************************************************************************)
(* Properties.                                                             *)
(***************************************************************************)

Sent(g, n) == Cardinality({k \in DOMAIN wire : wire[k] = Whole(g, n)})

(* Every packet on the wire is a packet of one call, whole, in order and   *)
(* with its header, although arrays and the list of iovecs are used again. *)
(* A call that returned nil sent its packet once; a call that returned an  *)
(* error did not send it at all.                                           *)
PacketsWhole ==
    /\ \A k \in DOMAIN wire :
         \E g \in Goroutines, n \in 1..MaxCalls : wire[k] = Whole(g, n)
    /\ \A g \in Goroutines :
         pc[g] = "idle" /\ calls[g] > 0 =>
           Sent(g, calls[g]) = IF result[g] = "nil" THEN 1 ELSE 0

(* Whatever failed, no array is lost, and the list of iovecs that is kept  *)
(* for the next call keeps no array that is in the pool, but after a call  *)
(* that panicked.                                                          *)
NothingKept ==
    (\A g \in Goroutines : pc[g] = "idle") =>
      /\ pool = Arrays
      /\ (\A g \in Goroutines : result[g] # "panic") =>
           \A k \in DOMAIN iovecList : iovecList[k] = None

(* Once the device is closed every call returns, whatever it waits for.    *)
CallsReturn ==
    \A g \in Goroutines : closed ~> (pc[g] = "idle")
=============================================================================
