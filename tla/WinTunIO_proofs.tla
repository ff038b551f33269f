--------------------------- MODULE WinTunIO_proofs ---------------------------
(***************************************************************************)
(* Proofs about WinTunIO, for any finite sets of readers and writers and   *)
(* any set of closers.                                                     *)
(***************************************************************************)
EXTENDS WinTunIO, FiniteSetTheorems, TLAPS

(* The users are finitely many, and none of them is a closer.              *)
LEMMA UsersFacts ==
    /\ IsFiniteSet(Users)
    /\ Users \cap Closers = {}
    /\ Users \subseteq Threads
    /\ Closers \subseteq Threads
    /\ Readers \subseteq Users
    /\ Writers \subseteq Users
<1>1. IsFiniteSet(Users)
    BY WinTunAssumption, FS_Union DEF Users
<1> QED  BY <1>1, WinTunAssumption DEF Users, Threads

(***************************************************************************)
(* The wait group counts the goroutines that are inside a call.            *)
(***************************************************************************)
RunningCounts == running = Cardinality(Inside)

(* A slot of the send ring is allocated by a writer that has not committed *)
(* it yet, or waits for the driver.                                        *)
TxSlots == txUsed = txReady + Cardinality(Sending)

(* The typing invariant, which is inductive.                               *)
InvType == TypeOK /\ RunningCounts /\ TxSlots

(* A device just created satisfies the typing invariant: nobody is inside  *)
(* a call and the send ring is empty.                                      *)
THEOREM InitType == Init => InvType
<1> SUFFICES ASSUME Init PROVE InvType  OBVIOUS
<1>1. TypeOK
    BY UsersFacts DEF Init, TypeOK, UserPcs, CloserPcs
<1>2. Inside = {}
    BY UsersFacts DEF Init, Inside, InsidePcs, DriverPcs
<1>3. Sending = {}
    BY UsersFacts DEF Init, Sending
<1> QED  BY <1>1, <1>2, <1>3, FS_EmptySet DEF Init, InvType, RunningCounts, TxSlots

(* A goroutine that moves between two points of its call, or any closer,   *)
(* leaves the set of goroutines inside a call as it is.                    *)
LEMMA GotoInside ==
    ASSUME TypeOK, NEW t \in Threads, NEW from, NEW to,
           Goto(t, from, to),
           t \in Closers \/ (from \in InsidePcs /\ to \in InsidePcs)
    PROVE  Inside' = Inside
BY UsersFacts DEF TypeOK, Goto, Inside

(* Only a writer that allocates or commits changes the set of senders.     *)
LEMMA GotoSending ==
    ASSUME TypeOK, NEW t \in Threads, NEW from, NEW to,
           Goto(t, from, to),
           t \notin Writers \/ (from # "send" /\ to # "send")
    PROVE  Sending' = Sending
BY UsersFacts DEF TypeOK, Goto, Sending

(* A call that starts adds its goroutine to the ones inside a call, and    *)
(* one to the wait group.                                                  *)
LEMMA EnterInside ==
    ASSUME InvType, NEW u \in Users, NEW to \in InsidePcs, to # "send", Enter(u, to)
    PROVE  RunningCounts' /\ running' \in Nat /\ TxSlots'
<1>1. u \notin Inside /\ Inside' = Inside \cup {u}
    BY UsersFacts DEF InvType, TypeOK, Enter, Goto, Inside, InsidePcs, DriverPcs
<1>2. IsFiniteSet(Inside)
    BY UsersFacts, FS_Subset DEF Inside
<1>3. Cardinality(Inside') = Cardinality(Inside) + 1
    BY <1>1, <1>2, FS_AddElement
<1>4. Sending' = Sending
    BY UsersFacts, GotoSending DEF InvType, Enter
<1> QED
    BY <1>3, <1>4 DEF InvType, TypeOK, RunningCounts, TxSlots, Enter, txRing

(* A call that returns takes its goroutine out of the ones inside a call,  *)
(* and one from the wait group.                                            *)
LEMMA LeaveInside ==
    ASSUME InvType, NEW u \in Users, NEW from \in InsidePcs, from # "send",
           NEW to \in UserPcs \ InsidePcs, Leave(u, from, to)
    PROVE  RunningCounts' /\ running' \in Nat /\ TxSlots'
<1>1. u \in Inside /\ Inside' = Inside \ {u}
    BY UsersFacts DEF InvType, TypeOK, Leave, Inside
<1>2. IsFiniteSet(Inside)
    BY UsersFacts, FS_Subset DEF Inside
<1>3. Cardinality(Inside') = Cardinality(Inside) - 1
    BY <1>1, <1>2, FS_RemoveElement
<1>4. Cardinality(Inside) # 0 /\ Cardinality(Inside) \in Nat
    BY <1>1, <1>2, FS_EmptySet, FS_CardinalityType
<1>5. to # "send"
    BY DEF UserPcs, InsidePcs, DriverPcs
<1>6. Sending' = Sending
    BY <1>5, UsersFacts DEF InvType, TypeOK, Leave, Sending
<1> QED
    BY <1>3, <1>4, <1>6 DEF InvType, TypeOK, RunningCounts, TxSlots, Leave, txRing

(* Every step of a reader, a writer, a closer or the driver keeps the      *)
(* typing invariant.                                                       *)
LEMMA StepType == InvType /\ [Next]_vars => InvType'
<1> SUFFICES ASSUME InvType, [Next]_vars PROVE InvType'  OBVIOUS
<1> USE UsersFacts
<1>0. TypeOK /\ RunningCounts /\ TxSlots
    BY DEF InvType
<1>1. ASSUME NEW r \in Readers, ReadEnter(r) PROVE InvType'
    <2>1. RunningCounts' /\ running' \in Nat /\ TxSlots'
        BY <1>1, EnterInside DEF ReadEnter, InsidePcs
    <2> QED
        BY <1>0, <1>1, <2>1 DEF InvType, TypeOK, ReadEnter, Enter, Goto, UserPcs, InsidePcs,
           device, rxRing, txRing
<1>2. ASSUME NEW r \in Readers, ReaderStep(r) PROVE InvType'
    <2>1. CASE ReadReturn(r)
        <3>1. PICK from \in {"leave", "fail"}, to \in {"idle", "stopped"} : Leave(r, from, to)
            BY <2>1 DEF ReadReturn
        <3>2. RunningCounts' /\ running' \in Nat /\ TxSlots'
            BY <3>1, LeaveInside DEF InsidePcs, UserPcs, DriverPcs
        <3> QED
            BY <1>0, <3>1, <3>2 DEF InvType, TypeOK, Leave, UserPcs, CloserPcs, BodyPcs,
               device, rxRing, txRing
    <2>2. CASE ReadRetry(r) \/ ReadLoop(r) \/ ReadEmpty(r) \/ ReadError(r)
        <3>1. Inside' = Inside /\ Sending' = Sending
            BY <1>0, <2>2, GotoInside, GotoSending, WinTunAssumption DEF ReadRetry, ReadLoop, ReadEmpty, ReadError,
               InsidePcs, DriverPcs
        <3>2. UNCHANGED <<shared, device, rxRing, txRing, crash>>
            BY <2>2 DEF ReadRetry, ReadLoop, ReadEmpty, ReadError
        <3>3. PICK to \in {"loop", "recv", "wait", "fail"} : pc' = [pc EXCEPT ![r] = to]
            <4>1. CASE ReadRetry(r)  BY <4>1 DEF ReadRetry, Goto
            <4>2. CASE ReadLoop(r)   BY <4>2 DEF ReadLoop, Goto
            <4>3. CASE ReadEmpty(r)  BY <4>3 DEF ReadEmpty, Goto
            <4>4. CASE ReadError(r)  BY <4>4 DEF ReadError, Goto
            <4> QED  BY <2>2, <4>1, <4>2, <4>3, <4>4
        <3>4. pc' \in [Threads -> UserPcs \cup CloserPcs] /\ \A u \in Users : pc'[u] \in UserPcs
            BY <1>0, <3>3 DEF TypeOK, UserPcs, InsidePcs, DriverPcs
        <3> QED
            BY <1>0, <3>1, <3>2, <3>3, <3>4 DEF InvType, TypeOK, RunningCounts, TxSlots,
               shared, device, rxRing, txRing
    <2>3. CASE ReadWake(r)
        <3>1. Inside' = Inside /\ Sending' = Sending
            BY <1>0, <2>3, GotoInside, GotoSending, WinTunAssumption DEF ReadWake, InsidePcs
        <3> QED
            BY <1>0, <2>3, <3>1 DEF InvType, TypeOK, RunningCounts, TxSlots, Goto, ReadWake,
               UserPcs, InsidePcs, device, rxRing, txRing
    <2>4. CASE ReadPacketOk(r)
        <3>1. Inside' = Inside /\ Sending' = Sending
            BY <1>0, <2>4, GotoInside, GotoSending, WinTunAssumption DEF ReadPacketOk, InsidePcs, DriverPcs
        <3>2. taken' \in Nat /\ lent' \subseteq Nat /\ pkt' \in [Readers -> Nat]
            <4>1. taken + 1 \in Nat /\ taken' = taken + 1
                BY <1>0, <2>4 DEF TypeOK, ReadPacketOk
            <4>2. lent' \subseteq lent \cup {taken + 1}
                BY <2>4 DEF ReadPacketOk
            <4>3. pkt' \in {pkt, [pkt EXCEPT ![r] = taken + 1]}
                BY <2>4 DEF ReadPacketOk
            <4> QED  BY <1>0, <4>1, <4>2, <4>3 DEF TypeOK
        <3>3. PICK to \in {"leave", "block"} : Goto(r, "recv", to)
            BY <2>4 DEF ReadPacketOk
        <3> QED
            BY <1>0, <2>4, <3>1, <3>2, <3>3 DEF InvType, TypeOK, RunningCounts, TxSlots, Goto,
               ReadPacketOk, UserPcs, InsidePcs, DriverPcs, shared, device, txRing
    <2>5. CASE ReadBlock(r)
        <3>1. Inside' = Inside /\ Sending' = Sending
            BY <1>0, <2>5, GotoInside, GotoSending, WinTunAssumption DEF ReadBlock, InsidePcs, DriverPcs
        <3> QED
            BY <1>0, <2>5, <3>1 DEF InvType, TypeOK, RunningCounts, TxSlots, Goto, ReadBlock,
               UserPcs, InsidePcs, DriverPcs, shared, device, txRing
    <2> QED  BY <1>2, <2>1, <2>2, <2>3, <2>4, <2>5 DEF ReaderStep
<1>3. ASSUME NEW w \in Writers, WriteEnter(w) PROVE InvType'
    <2>1. RunningCounts' /\ running' \in Nat /\ TxSlots'
        BY <1>3, EnterInside DEF WriteEnter, InsidePcs
    <2> QED
        BY <1>0, <1>3, <2>1 DEF InvType, TypeOK, WriteEnter, Enter, Goto, UserPcs, InsidePcs,
           device, rxRing, txRing
<1>4. ASSUME NEW w \in Writers, WriterStep(w) PROVE InvType'
    <2>1. CASE WriteReturn(w)
        <3>1. RunningCounts' /\ running' \in Nat /\ TxSlots'
            BY <2>1, LeaveInside DEF WriteReturn, InsidePcs, UserPcs, DriverPcs
        <3> QED
            BY <1>0, <2>1, <3>1 DEF InvType, TypeOK, WriteReturn, Leave, UserPcs, CloserPcs,
               BodyPcs, device, rxRing, txRing
    <2>2. CASE WriteCheck(w) \/ WriteDrop(w)
        <3>1. Inside' = Inside /\ Sending' = Sending
            BY <1>0, <2>2, GotoInside, GotoSending DEF WriteCheck, WriteDrop,
               InsidePcs, DriverPcs
        <3> QED
            BY <1>0, <2>2, <3>1 DEF InvType, TypeOK, RunningCounts, TxSlots, Goto, WriteCheck,
               WriteDrop, UserPcs, InsidePcs, DriverPcs, shared, device, rxRing, txRing
    <2>3. CASE WriteAlloc(w)
        <3>1. Inside' = Inside
            BY <1>0, <2>3, GotoInside DEF WriteAlloc, InsidePcs, DriverPcs
        <3>2. w \notin Sending /\ Sending' = Sending \cup {w}
            BY <1>0, <2>3 DEF TypeOK, WriteAlloc, Goto, Sending
        <3>3. Cardinality(Sending') = Cardinality(Sending) + 1
            BY <3>2, WinTunAssumption, FS_Subset, FS_AddElement DEF Sending
        <3>4. Cardinality(Sending) \in Nat
            BY WinTunAssumption, FS_Subset, FS_CardinalityType DEF Sending
        <3> QED
            BY <1>0, <2>3, <3>1, <3>3, <3>4 DEF InvType, TypeOK, RunningCounts, TxSlots, Goto,
               WriteAlloc, UserPcs, InsidePcs, DriverPcs, shared, device, rxRing
    <2>4. CASE WriteSend(w)
        <3>1. Inside' = Inside
            BY <1>0, <2>4, GotoInside DEF WriteSend, InsidePcs, DriverPcs
        <3>2. w \in Sending /\ Sending' = Sending \ {w}
            BY <1>0, <2>4 DEF TypeOK, WriteSend, Goto, Sending
        <3>3. Cardinality(Sending') = Cardinality(Sending) - 1
            BY <3>2, WinTunAssumption, FS_Subset, FS_RemoveElement DEF Sending
        <3>4. Cardinality(Sending) \in Nat
            BY WinTunAssumption, FS_Subset, FS_CardinalityType DEF Sending
        <3> QED
            BY <1>0, <2>4, <3>1, <3>3, <3>4 DEF InvType, TypeOK, RunningCounts, TxSlots, Goto,
               WriteSend, UserPcs, InsidePcs, DriverPcs, shared, device, rxRing
    <2> QED  BY <1>4, <2>1, <2>2, <2>3, <2>4 DEF WriterStep
<1>5. ASSUME NEW c \in Closers, CloseCall(c) \/ CloserStep(c) PROVE InvType'
    <2>1. Inside' = Inside /\ Sending' = Sending
        <3>1. CASE CloseWoken(c)
            BY <1>0, <3>1, GotoInside, GotoSending, WinTunAssumption DEF CloseWoken, Inside, Sending
        <3> QED
            BY <1>0, <1>5, <3>1, GotoInside, GotoSending, WinTunAssumption DEF CloseCall, CloserStep,
               CloseOnceWait, CloseStore, CloseSetEvent, CloseWait, CloseEnd, CloseAdapter, CloseFwpm
    <2>2. TypeOK'
        <3>1. CASE CloseCall(c)
            BY <1>0, <3>1 DEF TypeOK, Goto, CloseCall, CloserPcs, BodyPcs, device, rxRing, txRing
        <3>2. CASE CloseOnceWait(c) \/ CloseStore(c) \/ CloseSetEvent(c) \/ CloseWait(c)
            BY <1>0, <3>2 DEF TypeOK, Goto, CloseOnceWait, CloseStore, CloseSetEvent, CloseWait,
               CloserPcs, BodyPcs, shared, device, rxRing, txRing
        <3>3. CASE CloseWoken(c)
            BY <1>0, <3>3 DEF TypeOK, Goto, CloseWoken, CloserPcs, BodyPcs, shared, device, rxRing, txRing
        <3>4. CASE CloseEnd(c) \/ CloseAdapter(c) \/ CloseFwpm(c)
            BY <1>0, <3>4 DEF TypeOK, Goto, CloseEnd, CloseAdapter, CloseFwpm,
               CloserPcs, BodyPcs, shared, rxRing, txRing
        <3> QED  BY <1>5, <3>1, <3>2, <3>3, <3>4 DEF CloserStep
    <2>3. running' = running /\ txUsed' = txUsed /\ txReady' = txReady
        BY <1>5 DEF CloseCall, CloserStep, CloseOnceWait, CloseStore, CloseSetEvent, CloseWait,
           CloseWoken, CloseEnd, CloseAdapter, CloseFwpm, shared, txRing
    <2> QED  BY <1>0, <2>1, <2>2, <2>3 DEF InvType, RunningCounts, TxSlots
<1>6. CASE ReleaseLent \/ DriverArrive \/ DriverTerminate
    <2>1. Inside' = Inside /\ Sending' = Sending /\ UNCHANGED <<pc, running, txUsed, txReady>>
        BY <1>6 DEF Inside, Sending, ReleaseLent, DriverArrive, DriverTerminate, shared, txRing
    <2>2. CASE ReleaseLent
        <3>1. lent' \subseteq lent /\ released' \subseteq released \cup lent
            BY <2>2 DEF ReleaseLent
        <3>2. crash' \in {"no", "waitGroupReused", "useAfterEnd"}
            BY <1>0, <2>2 DEF ReleaseLent, TypeOK
        <3>3. lent' \subseteq Nat /\ released' \subseteq Nat
            BY <1>0, <3>1 DEF TypeOK
        <3> QED
            BY <1>0, <2>1, <2>2, <3>2, <3>3 DEF InvType, TypeOK, RunningCounts, TxSlots,
               ReleaseLent, shared, device
    <2>3. CASE DriverArrive
        BY <1>0, <2>1, <2>3 DEF InvType, TypeOK, RunningCounts, TxSlots, DriverArrive, device
    <2>4. CASE DriverTerminate
        BY <1>0, <2>1, <2>4 DEF InvType, TypeOK, RunningCounts, TxSlots, DriverTerminate, rxRing
    <2> QED  BY <1>6, <2>2, <2>3, <2>4
<1>7. CASE DriverDrain
    <2>1. Inside' = Inside /\ Sending' = Sending
        BY <1>7 DEF DriverDrain, Inside, Sending
    <2>2. Cardinality(Sending) \in Nat
        BY WinTunAssumption, FS_Subset, FS_CardinalityType DEF Sending
    <2> QED
        BY <1>0, <1>7, <2>1, <2>2 DEF InvType, TypeOK, RunningCounts, TxSlots, DriverDrain,
           shared, device, rxRing
<1>8. CASE Halted \/ UNCHANGED vars
    BY <1>0, <1>8 DEF InvType, TypeOK, RunningCounts, TxSlots, Inside, Sending, Halted, vars,
       shared, device, rxRing, txRing
<1> QED  BY <1>1, <1>2, <1>3, <1>4, <1>5, <1>6, <1>7, <1>8 DEF Next

(* Always, t.running counts exactly the goroutines that are between their  *)
(* Add(1) and their Done(), a slot of the send ring that is allocated is   *)
(* committed or held by one writer, and every variable has its type.       *)
THEOREM TypeCorrect == Spec => []InvType
BY InitType, StepType, PTL DEF Spec

(***************************************************************************)
(* Safety.  SessionCallsSafe is not inductive: a goroutine that is already *)
(* past its check of the close flag must be known to hold Close back, and  *)
(* one that comes later must be known to see the flag.  The parts of the   *)
(* inductive invariant say how far the one running Close has come, what it *)
(* has done by then, and that nobody is past the check once it has         *)
(* returned from Wait.                                                     *)
(***************************************************************************)
(* One goroutine runs the body of the close-once, and only while it is     *)
(* busy; once it is done the device is torn down.                          *)
OnceInv ==
    /\ once = "new" =>
         /\ \A c \in Closers : pc[c] = "idle"
         /\ ~close
         /\ session = "live"
    /\ \A c \in Closers : pc[c] \in BodyPcs => once = "busy"
    /\ \A c, d \in Closers : pc[c] \in BodyPcs /\ pc[d] \in BodyPcs => c = d
    /\ \A c \in Closers : pc[c] = "returned" => once = "done"
    /\ once = "done" => session = "ended" /\ adapter = "closed" /\ fwpm = "closed"

(* What the goroutine in the body has done so far.                         *)
BodyInv ==
    /\ session = "ended" => close
    /\ \A c \in Closers :
         /\ pc[c] = "store" => ~close
         /\ pc[c] \in BodyPcs \ {"store"} => close
         /\ pc[c] \in {"closeAdapter", "closeFwpm"} => session = "ended"
         /\ pc[c] \in BodyPcs \ {"closeAdapter", "closeFwpm"} => session = "live"
         /\ pc[c] = "closeFwpm" => adapter = "closed"

(* Wait has returned: whoever is inside a call has yet to read the flag.   *)
Drained == session = "ended" \/ \E c \in Closers : pc[c] = "end"

(* After the wait nobody calls the driver, or is on the way to.            *)
QuietInv == Drained => \A u \in Users : pc[u] \notin DriverPcs \cup {"loop", "wait"}

(* A packet taken out of the receive ring is in exactly one place: given   *)
(* back, lent to the caller of ReadPacket, or in the block of one reader.  *)
PacketInv ==
    /\ \A r \in Readers :
         /\ pc[r] = "block" <=> pkt[r] # 0
         /\ pkt[r] \in 0..taken
         /\ pkt[r] \notin released \cup lent
    /\ \A r, q \in Readers : pkt[r] = pkt[q] /\ pkt[r] # 0 => r = q
    /\ released \cup lent \subseteq 1..taken
    /\ released \cap lent = {}
    /\ \A k \in 1..taken :
         k \in released \cup lent \/ \E r \in Readers : pkt[r] = k

(* The safety invariant, which is inductive.                               *)
SafetyInv == InvType /\ OnceInv /\ BodyInv /\ QuietInv /\ PacketInv

(* A device just created satisfies the safety invariant.                   *)
THEOREM InitSafety == Init => SafetyInv
<1> SUFFICES ASSUME Init PROVE SafetyInv  OBVIOUS
<1> USE UsersFacts
<1>1. InvType
    BY InitType
<1>2. \A c \in Closers : pc[c] = "idle"
    BY DEF Init
<1>3. OnceInv /\ BodyInv
    BY <1>2 DEF Init, OnceInv, BodyInv, BodyPcs
<1>4. QuietInv
    BY <1>2 DEF Init, QuietInv, Drained
<1>5. PacketInv
    BY DEF Init, PacketInv
<1> QED  BY <1>1, <1>3, <1>4, <1>5 DEF SafetyInv

(***************************************************************************)
(* What a step of a user or of the driver may do to a goroutine that runs  *)
(* Close: at most wake it from Wait.                                       *)
(***************************************************************************)
UserStep ==
    \/ \E r \in Readers : ReadEnter(r) \/ ReaderStep(r)
    \/ \E w \in Writers : WriteEnter(w) \/ WriterStep(w)
    \/ ReleaseLent \/ DriverArrive \/ DriverDrain \/ DriverTerminate

(* The state that only Close changes is unchanged.                         *)
ClosersKept ==
    /\ \A c \in Closers : pc'[c] = pc[c] \/ (pc[c] = "blocked" /\ pc'[c] = "woken")
    /\ UNCHANGED <<close, once, session, adapter, fwpm>>

(* A reader or a writer that moves on leaves every closer where it is.     *)
LEMMA GotoKeepsClosers ==
    ASSUME TypeOK, NEW u \in Users, NEW from, NEW to, Goto(u, from, to)
    PROVE  \A c \in Closers : pc'[c] = pc[c]
BY UsersFacts DEF TypeOK, Goto

(* So does one that returns from its call, which touches none of the state *)
(* that Close owns.                                                        *)
LEMMA LeaveKeepsClosers ==
    ASSUME TypeOK, NEW u \in Users, NEW from, NEW to, Leave(u, from, to)
    PROVE  ClosersKept
BY UsersFacts DEF TypeOK, Leave, ClosersKept, device

(* No step of a reader or a writer touches the state that Close owns.      *)
LEMMA UserKeepsClosers ==
    ASSUME TypeOK, UserStep
    PROVE  ClosersKept
<1> USE UsersFacts
<1>1. ASSUME NEW r \in Readers, ReadEnter(r) \/ ReaderStep(r) PROVE ClosersKept
    <2>1. CASE ReadReturn(r)
        BY <2>1, LeaveKeepsClosers DEF ReadReturn
    <2>2. CASE ReadEnter(r) \/ ReadRetry(r) \/ ReadLoop(r) \/ ReadEmpty(r) \/ ReadError(r) \/ ReadWake(r)
        BY <2>2, GotoKeepsClosers DEF ReadEnter, Enter, ReadRetry, ReadLoop, ReadEmpty,
           ReadError, ReadWake, ClosersKept, shared, device
    <2>3. CASE ReadPacketOk(r) \/ ReadBlock(r)
        BY <2>3, GotoKeepsClosers DEF ReadPacketOk, ReadBlock, ClosersKept, shared, device
    <2> QED  BY <1>1, <2>1, <2>2, <2>3 DEF ReaderStep
<1>2. ASSUME NEW w \in Writers, WriteEnter(w) \/ WriterStep(w) PROVE ClosersKept
    <2>1. CASE WriteReturn(w)
        BY <2>1, LeaveKeepsClosers DEF WriteReturn
    <2>2. CASE WriteEnter(w) \/ WriteCheck(w) \/ WriteAlloc(w) \/ WriteDrop(w) \/ WriteSend(w)
        BY <2>2, GotoKeepsClosers DEF WriteEnter, Enter, WriteCheck, WriteAlloc, WriteDrop,
           WriteSend, ClosersKept, shared, device
    <2> QED  BY <1>2, <2>1, <2>2 DEF WriterStep
<1>3. CASE ReleaseLent \/ DriverArrive \/ DriverDrain \/ DriverTerminate
    BY <1>3 DEF ReleaseLent, DriverArrive, DriverDrain, DriverTerminate, ClosersKept,
       shared, device
<1> QED  BY <1>1, <1>2, <1>3 DEF UserStep

(* Such a step keeps what is known about the closers and the body of       *)
(* Close.                                                                  *)
LEMMA UserKeepsBody ==
    ASSUME OnceInv, BodyInv, ClosersKept
    PROVE  OnceInv' /\ BodyInv'
<1>1. OnceInv'
    BY DEF OnceInv, ClosersKept, BodyPcs
<1>2. BodyInv'
    BY DEF BodyInv, ClosersKept, BodyPcs
<1> QED  BY <1>1, <1>2

(***************************************************************************)
(* A step of Close leaves the users and their packets alone.               *)
(***************************************************************************)
LEMMA CloserKeepsUsers ==
    ASSUME TypeOK, NEW c \in Closers, CloseCall(c) \/ CloserStep(c)
    PROVE  /\ \A u \in Users : pc'[u] = pc[u]
           /\ \A d \in Closers : d # c => pc'[d] = pc[d]
           /\ UNCHANGED <<rxRing, txRing, running>>
BY UsersFacts DEF TypeOK, Goto, CloseCall, CloserStep, CloseOnceWait, CloseStore, CloseSetEvent,
   CloseWait, CloseWoken, CloseEnd, CloseAdapter, CloseFwpm, shared

(* A step of a closer keeps what is known about the closers and the body   *)
(* of Close: one of them at most is in the body, and the flags tell how    *)
(* far it is.                                                              *)
LEMMA CloserBody ==
    ASSUME TypeOK, OnceInv, BodyInv, NEW c \in Closers, CloseCall(c) \/ CloserStep(c)
    PROVE  OnceInv' /\ BodyInv'
<1> USE UsersFacts
<1>0. \A d \in Closers : d # c => pc'[d] = pc[d]
    BY CloserKeepsUsers
<1>1. CASE CloseCall(c)
    <2>1. pc[c] = "idle" /\ pc'[c] \in {"store", "onceWait", "returned"}
        BY <1>1 DEF TypeOK, CloseCall, Goto
    <2>2. OnceInv'
        BY <1>0, <1>1, <2>1 DEF TypeOK, OnceInv, CloseCall, Goto, BodyPcs, device
    <2>3. BodyInv'
        BY <1>0, <1>1, <2>1 DEF TypeOK, OnceInv, BodyInv, CloseCall, Goto, BodyPcs, device
    <2> QED  BY <2>2, <2>3
<1>2. CASE CloseOnceWait(c)
    BY <1>0, <1>2 DEF TypeOK, OnceInv, BodyInv, CloseOnceWait, Goto, BodyPcs, shared, device
<1>3. CASE CloseStore(c)
    BY <1>0, <1>3 DEF TypeOK, OnceInv, BodyInv, CloseStore, Goto, BodyPcs, device
<1>4. CASE CloseSetEvent(c)
    BY <1>0, <1>4 DEF TypeOK, OnceInv, BodyInv, CloseSetEvent, Goto, BodyPcs, device
<1>5. CASE CloseWait(c)
    BY <1>0, <1>5 DEF TypeOK, OnceInv, BodyInv, CloseWait, Goto, BodyPcs, shared, device
<1>6. CASE CloseWoken(c)
    BY <1>0, <1>6 DEF TypeOK, OnceInv, BodyInv, CloseWoken, Goto, BodyPcs, shared, device
<1>7. CASE CloseEnd(c)
    BY <1>0, <1>7 DEF TypeOK, OnceInv, BodyInv, CloseEnd, Goto, BodyPcs, shared
<1>8. CASE CloseAdapter(c)
    BY <1>0, <1>8 DEF TypeOK, OnceInv, BodyInv, CloseAdapter, Goto, BodyPcs, shared
<1>9. CASE CloseFwpm(c)
    BY <1>0, <1>9 DEF TypeOK, OnceInv, BodyInv, CloseFwpm, Goto, BodyPcs
<1> QED  BY <1>1, <1>2, <1>3, <1>4, <1>5, <1>6, <1>7, <1>8, <1>9 DEF CloserStep

(***************************************************************************)
(* Nobody gets past the check of the close flag once Wait has returned.    *)
(***************************************************************************)
CheckedPcs == DriverPcs \cup {"loop", "wait"}

(* Wait returns only when nobody is inside a call.                         *)
LEMMA ZeroMeansNobody ==
    ASSUME InvType, running = 0
    PROVE  \A u \in Users : pc[u] \notin CheckedPcs
<1>1. IsFiniteSet(Inside)
    BY UsersFacts, FS_Subset DEF Inside
<1>2. Inside = {}
    BY <1>1, FS_EmptySet DEF InvType, RunningCounts
<1> QED  BY <1>2 DEF Inside, InsidePcs, CheckedPcs

(* Once Close has waited, no reader or writer gets past the check of the   *)
(* close flag again.                                                       *)
LEMMA UserQuiet ==
    ASSUME TypeOK, BodyInv, QuietInv, UserStep
    PROVE  QuietInv'
<1> USE UsersFacts
<1>1. SUFFICES ASSUME Drained', NEW u \in Users PROVE pc'[u] \notin CheckedPcs
    BY DEF QuietInv, CheckedPcs
<1>2. ClosersKept
    BY UserKeepsClosers
<1>3. Drained
    BY <1>1, <1>2 DEF Drained, ClosersKept
<1>4. close
    BY <1>3 DEF Drained, BodyInv, BodyPcs
<1>5. \A v \in Users : pc[v] \notin CheckedPcs
    BY <1>3 DEF QuietInv, CheckedPcs
<1>6. ASSUME NEW r \in Readers, ReadEnter(r) \/ ReaderStep(r) PROVE pc'[u] \notin CheckedPcs
    <2>1. CASE ReadReturn(r)
        BY <2>1, <1>5 DEF TypeOK, ReadReturn, Leave, CheckedPcs, DriverPcs
    <2>2. CASE ReadEnter(r)
        BY <2>2, <1>5 DEF TypeOK, ReadEnter, Enter, Goto, CheckedPcs, DriverPcs
    <2>3. CASE ReadRetry(r)
        BY <2>3, <1>4, <1>5 DEF TypeOK, ReadRetry, Goto, CheckedPcs, DriverPcs
    <2>4. CASE ReadWake(r) \/ ReadLoop(r) \/ ReadError(r) \/ ReadBlock(r)
        BY <2>4, <1>5 DEF TypeOK, ReadWake, ReadLoop, ReadError, ReadBlock, Goto,
           CheckedPcs, DriverPcs
    <2>5. CASE ReadPacketOk(r) \/ ReadEmpty(r)
        BY <2>5, <1>5 DEF TypeOK, ReadPacketOk, ReadEmpty, Goto, CheckedPcs, DriverPcs
    <2> QED  BY <1>6, <2>1, <2>2, <2>3, <2>4, <2>5 DEF ReaderStep
<1>7. ASSUME NEW w \in Writers, WriteEnter(w) \/ WriterStep(w) PROVE pc'[u] \notin CheckedPcs
    <2>1. CASE WriteReturn(w)
        BY <2>1, <1>5 DEF TypeOK, WriteReturn, Leave, CheckedPcs, DriverPcs
    <2>2. CASE WriteEnter(w)
        BY <2>2, <1>5 DEF TypeOK, WriteEnter, Enter, Goto, CheckedPcs, DriverPcs
    <2>3. CASE WriteCheck(w)
        BY <2>3, <1>4, <1>5 DEF TypeOK, WriteCheck, Goto, CheckedPcs, DriverPcs
    <2>4. CASE WriteAlloc(w) \/ WriteDrop(w) \/ WriteSend(w)
        BY <2>4, <1>5 DEF TypeOK, WriteAlloc, WriteDrop, WriteSend, Goto, CheckedPcs, DriverPcs
    <2> QED  BY <1>7, <2>1, <2>2, <2>3, <2>4 DEF WriterStep
<1>8. CASE ReleaseLent \/ DriverArrive \/ DriverDrain \/ DriverTerminate
    BY <1>5, <1>8 DEF ReleaseLent, DriverArrive, DriverDrain, DriverTerminate
<1> QED  BY <1>6, <1>7, <1>8 DEF UserStep

(* Close gets past the wait only when no reader or writer is inside a      *)
(* call.                                                                   *)
LEMMA CloserQuiet ==
    ASSUME InvType, QuietInv, NEW c \in Closers, CloseCall(c) \/ CloserStep(c)
    PROVE  QuietInv'
<1> USE UsersFacts
<1>0. TypeOK
    BY DEF InvType
<1>1. /\ \A u \in Users : pc'[u] = pc[u]
      /\ \A d \in Closers : d # c => pc'[d] = pc[d]
    BY <1>0, CloserKeepsUsers
<1>2. CASE running = 0
    BY <1>1, <1>2, ZeroMeansNobody DEF QuietInv, CheckedPcs
<1>3. CASE running # 0
    <2>1. Drained' => Drained
        <3>1. CASE CloseCall(c)
            BY <1>0, <1>1, <3>1 DEF TypeOK, Drained, CloseCall, Goto, device
        <3>2. CASE CloseEnd(c)
            BY <3>2 DEF Drained, CloseEnd, Goto
        <3>3. CASE CloseWoken(c)
            BY <1>0, <1>1, <1>3, <3>3 DEF Drained, CloseWoken, device
        <3>4. CASE CloseWait(c)
            BY <1>0, <1>1, <1>3, <3>4 DEF TypeOK, Drained, CloseWait, Goto, device
        <3>5. CASE CloseOnceWait(c) \/ CloseStore(c) \/ CloseSetEvent(c) \/ CloseAdapter(c) \/ CloseFwpm(c)
            BY <1>0, <1>1, <3>5 DEF TypeOK, Drained, CloseOnceWait, CloseStore, CloseSetEvent,
               CloseAdapter, CloseFwpm, Goto, device
        <3> QED  BY <3>1, <3>2, <3>3, <3>4, <3>5 DEF CloserStep
    <2> QED  BY <1>1, <2>1 DEF QuietInv
<1> QED  BY <1>2, <1>3

(***************************************************************************)
(* Where the packets are.                                                  *)
(***************************************************************************)
(* Steps that touch no packet and neither enter nor leave a block.         *)
LEMMA PacketFrame ==
    ASSUME PacketInv, UNCHANGED <<taken, released, pkt, lent>>,
           \A r \in Readers : pc'[r] = "block" <=> pc[r] = "block"
    PROVE  PacketInv'
BY DEF PacketInv

(* A step of a reader or a writer keeps the account of the packets taken   *)
(* from the ring and given back.                                           *)
LEMMA UserPackets ==
    ASSUME TypeOK, PacketInv, UserStep
    PROVE  PacketInv'
<1> USE UsersFacts, WinTunAssumption
<1>1. ASSUME NEW r \in Readers, ReadEnter(r) \/ ReaderStep(r) PROVE PacketInv'
    <2>1. CASE ReadReturn(r)
        <3>1. \A q \in Readers : pc'[q] = "block" <=> pc[q] = "block"
            BY <2>1 DEF TypeOK, ReadReturn, Leave
        <3> QED  BY <2>1, <3>1, PacketFrame DEF ReadReturn, Leave, rxRing
    <2>2. CASE ReadEnter(r) \/ ReadRetry(r) \/ ReadLoop(r) \/ ReadEmpty(r) \/ ReadError(r) \/ ReadWake(r)
        <3>1. \A q \in Readers : pc'[q] = "block" <=> pc[q] = "block"
            BY <2>2 DEF TypeOK, ReadEnter, Enter, ReadRetry, ReadLoop, ReadEmpty, ReadError,
               ReadWake, Goto
        <3> QED
            BY <2>2, <3>1, PacketFrame DEF ReadEnter, Enter, ReadRetry, ReadLoop, ReadEmpty,
               ReadError, ReadWake, rxRing
    <2>3. CASE ReadPacketOk(r) /\ r \in Lenders
        <3>1. /\ \A q \in Readers : pc'[q] = "block" <=> pc[q] = "block"
              /\ taken' = taken + 1
              /\ lent' = lent \cup {taken + 1}
              /\ UNCHANGED <<pkt, released>>
            BY <2>3 DEF TypeOK, ReadPacketOk, Goto
        <3> QED
            BY <3>1 DEF TypeOK, PacketInv
    <2>4. CASE ReadPacketOk(r) /\ r \notin Lenders
        <3>1. /\ pc[r] # "block" /\ pc'[r] = "block"
              /\ \A q \in Readers : q # r => pc'[q] = pc[q]
              /\ taken' = taken + 1
              /\ pkt' = [pkt EXCEPT ![r] = taken + 1]
              /\ UNCHANGED <<lent, released>>
            BY <2>4 DEF TypeOK, ReadPacketOk, Goto
        <3>2. pkt[r] = 0
            BY <3>1 DEF PacketInv
        <3>3. \A k \in 1..taken' : k \in 1..taken \/ k = taken + 1
            BY <3>1 DEF TypeOK
        <3> QED
            BY <3>1, <3>2, <3>3 DEF TypeOK, PacketInv
    <2>5. CASE ReadBlock(r)
        <3>1. /\ pc[r] = "block" /\ pc'[r] # "block"
              /\ \A q \in Readers : q # r => pc'[q] = pc[q]
              /\ pkt' = [pkt EXCEPT ![r] = 0]
              /\ released' = released \cup {pkt[r]}
              /\ UNCHANGED <<taken, lent>>
            BY <2>5 DEF TypeOK, ReadBlock, Goto
        <3>2. pkt[r] \in 1..taken /\ pkt[r] \notin released \cup lent
            BY <3>1 DEF TypeOK, PacketInv
        <3>3. \A q \in Readers : q # r => pkt'[q] = pkt[q] /\ pkt[q] # pkt[r]
            BY <3>1, <3>2 DEF TypeOK, PacketInv
        <3>4. pkt'[r] = 0 /\ 0 \notin released' \cup lent'
            BY <3>1, <3>2 DEF TypeOK, PacketInv
        <3>5. \A k \in 1..taken :
                k \in released' \cup lent' \/ \E q \in Readers : pkt'[q] = k
            BY <3>1, <3>3 DEF PacketInv
        <3>6. \A q \in Readers :
                /\ pc'[q] = "block" <=> pkt'[q] # 0
                /\ pkt'[q] \in 0..taken
                /\ pkt'[q] \notin released' \cup lent'
            BY <3>1, <3>2, <3>3, <3>4 DEF TypeOK, PacketInv
        <3>7. \A p, q \in Readers : pkt'[p] = pkt'[q] /\ pkt'[p] # 0 => p = q
            BY <3>1, <3>3, <3>4 DEF PacketInv
        <3>8. released' \cup lent' \subseteq 1..taken /\ released' \cap lent' = {}
            BY <3>1, <3>2 DEF PacketInv
        <3> QED
            BY <3>1, <3>5, <3>6, <3>7, <3>8 DEF PacketInv
    <2> QED  BY <1>1, <2>1, <2>2, <2>3, <2>4, <2>5 DEF ReaderStep
<1>2. ASSUME NEW w \in Writers, WriteEnter(w) \/ WriterStep(w) PROVE PacketInv'
    <2>1. \A q \in Readers : pc'[q] = pc[q]
        BY <1>2 DEF TypeOK, WriteEnter, Enter, WriterStep, WriteCheck, WriteAlloc, WriteDrop,
           WriteSend, WriteReturn, Leave, Goto
    <2> QED
        BY <1>2, <2>1, PacketFrame DEF WriteEnter, Enter, WriterStep, WriteCheck, WriteAlloc,
           WriteDrop, WriteSend, WriteReturn, Leave, rxRing
<1>3. CASE ReleaseLent
    <2>1. CASE UNCHANGED <<lent, released>>
        BY <1>3, <2>1, PacketFrame DEF ReleaseLent
    <2>2. CASE ~ UNCHANGED <<lent, released>>
        <3>1. PICK k \in lent : lent' = lent \ {k} /\ released' = released \cup {k}
            BY <1>3, <2>2 DEF ReleaseLent
        <3>2. UNCHANGED <<pc, taken, pkt>>
            BY <1>3 DEF ReleaseLent
        <3> QED  BY <3>1, <3>2 DEF PacketInv
    <2> QED  BY <2>1, <2>2
<1>4. CASE DriverArrive \/ DriverDrain \/ DriverTerminate
    BY <1>4, PacketFrame DEF DriverArrive, DriverDrain, DriverTerminate, rxRing
<1> QED  BY <1>1, <1>2, <1>3, <1>4 DEF UserStep

(* Every step keeps the safety invariant.                                  *)
LEMMA StepSafety == SafetyInv /\ [Next]_vars => SafetyInv'
<1> SUFFICES ASSUME SafetyInv, [Next]_vars PROVE SafetyInv'  OBVIOUS
<1>0. InvType /\ TypeOK /\ OnceInv /\ BodyInv /\ QuietInv /\ PacketInv /\ InvType'
    BY StepType DEF SafetyInv, InvType
<1>1. CASE UserStep
    BY <1>0, <1>1, UserKeepsClosers, UserKeepsBody, UserQuiet, UserPackets DEF SafetyInv
<1>2. ASSUME NEW c \in Closers, CloseCall(c) \/ CloserStep(c) PROVE SafetyInv'
    <2>1. OnceInv' /\ BodyInv' /\ QuietInv'
        BY <1>0, <1>2, CloserBody, CloserQuiet
    <2>2. /\ UNCHANGED <<taken, released, pkt, lent>>
          /\ \A r \in Readers : pc'[r] = pc[r]
        BY <1>0, <1>2, CloserKeepsUsers, UsersFacts DEF rxRing
    <2> QED  BY <1>0, <2>1, <2>2, PacketFrame DEF SafetyInv
<1>3. CASE Halted \/ UNCHANGED vars
    BY <1>0, <1>3 DEF SafetyInv, OnceInv, BodyInv, QuietInv, Drained, PacketInv, Halted, vars,
       shared, device, rxRing
<1> QED  BY <1>1, <1>2, <1>3 DEF Next, UserStep

(* The safety invariant holds of every reachable state.                    *)
LEMMA SafetyInvariant == Spec => []SafetyInv
BY InitSafety, StepSafety, PTL DEF Spec

(***************************************************************************)
(* The theorems.                                                           *)
(***************************************************************************)
(* No goroutine is at a call on the wintun session once Close has ended    *)
(* it, for any number of readers, writers and closers.                     *)
THEOREM SessionSafe == Spec => []SessionCallsSafe
<1>1. SafetyInv => SessionCallsSafe
    BY DEF SafetyInv, QuietInv, Drained, SessionCallsSafe, Driving
<1> QED  BY SafetyInvariant, <1>1, PTL

(* Any Close that has returned finds session, adapter and filter engine    *)
(* closed.                                                                 *)
THEOREM CloseComplete == Spec => []CloseMeansClosed
<1>1. SafetyInv => CloseMeansClosed
    BY DEF SafetyInv, OnceInv, CloseMeansClosed
<1> QED  BY SafetyInvariant, <1>1, PTL

(* The rings hold nothing half done when the session ends.                 *)
THEOREM NothingLost == Spec => []NothingInFlightAtEnd
<1>1. ASSUME SafetyInv, session = "ended"
      PROVE  /\ 1..taken = released \cup lent
             /\ released \cap lent = {}
             /\ \A r \in Readers : pkt[r] = 0
             /\ txUsed = txReady
    <2>1. \A u \in Users : pc[u] # "block" /\ pc[u] # "send"
        BY <1>1 DEF SafetyInv, QuietInv, Drained, DriverPcs
    <2>2. \A r \in Readers : pkt[r] = 0
        BY <1>1, <2>1, UsersFacts DEF SafetyInv, PacketInv
    <2>3. Sending = {}
        BY <2>1, UsersFacts DEF Sending
    <2>4. txUsed = txReady
        BY <1>1, <2>3, FS_EmptySet DEF SafetyInv, InvType, TypeOK, TxSlots
    <2>5. 1..taken \subseteq released \cup lent
        BY <1>1, <2>2 DEF SafetyInv, PacketInv
    <2> QED  BY <1>1, <2>2, <2>4, <2>5 DEF SafetyInv, PacketInv
<1>2. SafetyInv => NothingInFlightAtEnd
    BY <1>1 DEF NothingInFlightAtEnd
<1> QED  BY SafetyInvariant, <1>2, PTL

(***************************************************************************)
(* Refinement: WinTunIO implements TunDevice.                              *)
(***************************************************************************)
AbsState == <<Phase, Driving, taken, txReady>>

(* A user that moves between two points of the same kind keeps Driving.    *)
LEMMA GotoDriving ==
    ASSUME TypeOK, NEW t \in Threads, NEW from, NEW to, Goto(t, from, to)
    PROVE  /\ t \in Closers => Driving' = Driving
           /\ t \in Users /\ (from \in DriverPcs <=> to \in DriverPcs) => Driving' = Driving
           /\ t \in Users /\ from \notin DriverPcs /\ to \in DriverPcs =>
                t \notin Driving /\ Driving' = Driving \cup {t}
           /\ t \in Users /\ from \in DriverPcs /\ to \notin DriverPcs =>
                t \in Driving /\ Driving' = Driving \ {t}
<1>1. ASSUME t \in Closers PROVE Driving' = Driving
    BY <1>1, UsersFacts DEF TypeOK, Goto, Driving
<1>2. ASSUME t \in Users, from \in DriverPcs <=> to \in DriverPcs PROVE Driving' = Driving
    BY <1>2, UsersFacts DEF TypeOK, Goto, Driving
<1>3. ASSUME t \in Users, from \notin DriverPcs, to \in DriverPcs
      PROVE  t \notin Driving /\ Driving' = Driving \cup {t}
    BY <1>3, UsersFacts DEF TypeOK, Goto, Driving
<1>4. ASSUME t \in Users, from \in DriverPcs, to \notin DriverPcs
      PROVE  t \in Driving /\ Driving' = Driving \ {t}
    BY <1>4, UsersFacts DEF TypeOK, Goto, Driving
<1> QED  BY <1>1, <1>2, <1>3, <1>4

(* While somebody drives the session it is not closed.                     *)
LEMMA DrivingMeansLive ==
    ASSUME SafetyInv, NEW u \in Driving
    PROVE  Phase # "closed"
BY DEF SafetyInv, InvType, TypeOK, QuietInv, Drained, Driving, Phase

(* Returning from a call is a stuttering step of the abstract device.      *)
LEMMA LeaveDriving ==
    ASSUME TypeOK, NEW u \in Users, NEW from \in InsidePcs \ DriverPcs, NEW to \in {"idle", "stopped"},
           Leave(u, from, to)
    PROVE  UNCHANGED AbsState
<1>1. Driving' = Driving
    BY UsersFacts DEF TypeOK, Leave, Driving, DriverPcs
<1> QED  BY <1>1 DEF Leave, AbsState, Phase, device, rxRing, txRing

(* Each step of a reader is a step of the abstract device, or none.        *)
LEMMA ReaderRefines ==
    ASSUME SafetyInv, NEW r \in Readers, ReadEnter(r) \/ ReaderStep(r)
    PROVE  Abs!Next \/ UNCHANGED AbsState
<1> USE UsersFacts
<1>0. TypeOK /\ BodyInv
    BY DEF SafetyInv, InvType
<1>1. CASE ReadEnter(r)
    BY <1>0, <1>1, GotoDriving DEF ReadEnter, Enter, AbsState, Phase, DriverPcs, device, rxRing, txRing
<1>2. CASE ReadRetry(r)
    BY <1>0, <1>2, GotoDriving DEF ReadRetry, AbsState, Phase, DriverPcs, shared, device, rxRing, txRing
<1>3. CASE ReadWake(r)
    BY <1>0, <1>3, GotoDriving DEF ReadWake, AbsState, Phase, DriverPcs, device, rxRing, txRing
<1>4. CASE ReadLoop(r)
    <2>1. UNCHANGED <<Phase, taken, txReady>>
        BY <1>4 DEF ReadLoop, Phase, shared, device, rxRing, txRing
    <2>2. CASE close
        BY <1>0, <1>4, <2>1, <2>2, GotoDriving DEF ReadLoop, AbsState, DriverPcs
    <2>3. CASE ~close
        <3>1. Phase = "open"
            BY <1>0, <2>3 DEF Phase, BodyInv, TypeOK
        <3>2. r \notin Driving /\ Driving' = Driving \cup {r}
            BY <1>0, <1>4, <2>3, GotoDriving DEF ReadLoop, DriverPcs
        <3>3. Abs!Begin(r)
            BY <2>1, <3>1, <3>2 DEF Abs!Begin
        <3> QED  BY <3>3 DEF Abs!Next
    <2> QED  BY <2>2, <2>3
<1>5. CASE ReadPacketOk(r)
    <2>1. taken' = taken + 1 /\ UNCHANGED <<Phase, txReady>>
        BY <1>5 DEF ReadPacketOk, Phase, shared, device, txRing
    <2>2. PICK to \in {"leave", "block"} : Goto(r, "recv", to)
        BY <1>5 DEF ReadPacketOk
    <2>3. r \in Driving /\ Driving' \in {Driving, Driving \ {r}}
        BY <1>0, <2>2, GotoDriving DEF DriverPcs, Driving, Goto
    <2>4. Abs!Take(r)
        BY <2>1, <2>3, DrivingMeansLive DEF Abs!Take
    <2> QED  BY <2>4 DEF Abs!Next
<1>6. CASE ReadEmpty(r) \/ ReadError(r) \/ ReadBlock(r)
    <2>1. UNCHANGED <<Phase, taken, txReady>>
        BY <1>6 DEF ReadEmpty, ReadError, ReadBlock, Phase, shared, device, rxRing, txRing
    <2>2. PICK from \in {"recv", "block"}, to \in {"wait", "loop", "fail", "leave"} : Goto(r, from, to)
        BY <1>6 DEF ReadEmpty, ReadError, ReadBlock
    <2>3. r \in Driving /\ Driving' = Driving \ {r}
        BY <1>0, <2>2, GotoDriving DEF DriverPcs
    <2>4. Abs!Finish(r)
        BY <2>1, <2>3, DrivingMeansLive DEF Abs!Finish
    <2> QED  BY <2>4 DEF Abs!Next
<1>7. CASE ReadReturn(r)
    BY <1>0, <1>7, LeaveDriving DEF ReadReturn, InsidePcs, DriverPcs
<1> QED  BY <1>1, <1>2, <1>3, <1>4, <1>5, <1>6, <1>7 DEF ReaderStep

(* Each step of a writer is a step of the abstract device, or none.        *)
LEMMA WriterRefines ==
    ASSUME SafetyInv, NEW w \in Writers, WriteEnter(w) \/ WriterStep(w)
    PROVE  Abs!Next \/ UNCHANGED AbsState
<1> USE UsersFacts
<1>0. TypeOK /\ BodyInv
    BY DEF SafetyInv, InvType
<1>1. CASE WriteEnter(w)
    BY <1>0, <1>1, GotoDriving DEF WriteEnter, Enter, AbsState, Phase, DriverPcs, device, rxRing, txRing
<1>2. CASE WriteCheck(w)
    <2>1. UNCHANGED <<Phase, taken, txReady>>
        BY <1>2 DEF WriteCheck, Phase, shared, device, rxRing, txRing
    <2>2. CASE close
        BY <1>0, <1>2, <2>1, <2>2, GotoDriving DEF WriteCheck, AbsState, DriverPcs
    <2>3. CASE ~close
        <3>1. Phase = "open"
            BY <1>0, <2>3 DEF Phase, BodyInv, TypeOK
        <3>2. w \notin Driving /\ Driving' = Driving \cup {w}
            BY <1>0, <1>2, <2>3, GotoDriving DEF WriteCheck, DriverPcs
        <3>3. Abs!Begin(w)
            BY <2>1, <3>1, <3>2 DEF Abs!Begin
        <3> QED  BY <3>3 DEF Abs!Next
    <2> QED  BY <2>2, <2>3
<1>3. CASE WriteAlloc(w)
    BY <1>0, <1>3, GotoDriving DEF WriteAlloc, AbsState, Phase, DriverPcs, shared, device, rxRing
<1>4. CASE WriteDrop(w)
    <2>1. w \in Driving /\ Driving' = Driving \ {w}
        BY <1>0, <1>4, GotoDriving DEF WriteDrop, DriverPcs
    <2>2. Abs!Finish(w)
        BY <1>4, <2>1, DrivingMeansLive DEF Abs!Finish, WriteDrop, Phase, shared, device, rxRing, txRing
    <2> QED  BY <2>2 DEF Abs!Next
<1>5. CASE WriteSend(w)
    <2>1. w \in Driving /\ Driving' = Driving \ {w}
        BY <1>0, <1>5, GotoDriving DEF WriteSend, DriverPcs
    <2>2. Abs!Put(w)
        BY <1>5, <2>1, DrivingMeansLive DEF Abs!Put, WriteSend, Phase, shared, device, rxRing
    <2> QED  BY <2>2 DEF Abs!Next
<1>6. CASE WriteReturn(w)
    BY <1>0, <1>6, LeaveDriving DEF WriteReturn, InsidePcs, DriverPcs
<1> QED  BY <1>1, <1>2, <1>3, <1>4, <1>5, <1>6 DEF WriterStep

(* Each step of a closer is a step of the abstract device, or none.        *)
LEMMA CloserRefines ==
    ASSUME SafetyInv, NEW c \in Closers, CloseCall(c) \/ CloserStep(c)
    PROVE  Abs!Next \/ UNCHANGED AbsState
<1> USE UsersFacts
<1>0. TypeOK /\ BodyInv /\ QuietInv
    BY DEF SafetyInv, InvType
<1>1. Driving' = Driving /\ UNCHANGED <<taken, txReady>>
    BY <1>0, CloserKeepsUsers DEF Driving, rxRing, txRing
<1>2. CASE CloseStore(c)
    <2>1. Phase = "open" /\ Phase' = "closing"
        BY <1>0, <1>2 DEF CloseStore, Goto, Phase, BodyInv, TypeOK, device
    <2>2. Abs!StartClose
        BY <1>1, <2>1 DEF Abs!StartClose
    <2> QED  BY <2>2 DEF Abs!Next
<1>3. CASE CloseEnd(c)
    <2>1. Phase = "closing" /\ Phase' = "closed"
        BY <1>0, <1>3 DEF CloseEnd, Goto, Phase, BodyInv, BodyPcs
    <2>2. Driving = {}
        BY <1>0, <1>3 DEF CloseEnd, Goto, QuietInv, Drained, Driving
    <2>3. Abs!FinishClose
        BY <1>1, <2>1, <2>2 DEF Abs!FinishClose
    <2> QED  BY <2>3 DEF Abs!Next
<1>4. CASE \/ CloseCall(c) \/ CloseOnceWait(c) \/ CloseSetEvent(c) \/ CloseWait(c)
           \/ CloseWoken(c) \/ CloseAdapter(c) \/ CloseFwpm(c)
    <2>1. UNCHANGED <<close, session>>
        BY <1>4 DEF CloseCall, CloseOnceWait, CloseSetEvent, CloseWait, CloseWoken, CloseAdapter,
           CloseFwpm, shared, device
    <2> QED  BY <1>1, <2>1 DEF AbsState, Phase
<1> QED  BY <1>2, <1>3, <1>4 DEF CloserStep

(* Every behaviour of the Windows device is a behaviour of the abstract    *)
(* one, for any number of goroutines.                                      *)
THEOREM Refinement == Spec => ImplementsTunDevice
<1>1. Init => Abs!Init
    BY UsersFacts DEF Init, Abs!Init, Phase, Driving, DriverPcs
<1>2. SafetyInv /\ [Next]_vars => [Abs!Next]_(Abs!vars)
    <2> SUFFICES ASSUME SafetyInv, [Next]_vars PROVE Abs!Next \/ UNCHANGED AbsState
        BY DEF AbsState, Abs!vars
    <2>1. CASE DriverDrain
        <3>1. Phase # "closed"
            BY <2>1 DEF DriverDrain, Phase
        <3>2. Driving' = Driving /\ UNCHANGED <<Phase, taken>>
            BY <2>1 DEF DriverDrain, Driving, Phase, shared, device, rxRing
        <3>3. Abs!Drain
            BY <2>1, <3>1, <3>2 DEF Abs!Drain, DriverDrain
        <3> QED  BY <3>3 DEF Abs!Next
    <2>2. CASE ReleaseLent \/ DriverArrive \/ DriverTerminate
        BY <2>2 DEF ReleaseLent, DriverArrive, DriverTerminate, AbsState, Phase, Driving,
           shared, device, rxRing, txRing
    <2>3. CASE Halted \/ UNCHANGED vars
        BY <2>3 DEF Halted, vars, AbsState, Phase, Driving, shared, device, rxRing, txRing
    <2> QED
        BY <2>1, <2>2, <2>3, ReaderRefines, WriterRefines, CloserRefines DEF Next
<1> QED
    BY <1>1, <1>2, SafetyInvariant, PTL DEF Spec, ImplementsTunDevice, Abs!Spec
=============================================================================
