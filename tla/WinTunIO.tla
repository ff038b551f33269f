------------------------------ MODULE WinTunIO ------------------------------
(***************************************************************************)
(* Reading, writing and closing the Windows TUN device (NativeTun,         *)
(* tun_windows.go).  Goroutines read with ReadFunc or ReadPacket, write    *)
(* with Write or write, and close; they share the wintun session, the      *)
(* auto-reset read event, the close flag, the running wait group and the   *)
(* close-once.  Nothing locks the session: what keeps it from being used   *)
(* after session.End() is only the order in which these are touched, and   *)
(* that order is what this module keeps, one action per atomic step.       *)
(*                                                                         *)
(* The wintun driver, sync.WaitGroup, sync.Once and the Win32 event are    *)
(* modelled from how the code uses them.                                   *)
(***************************************************************************)
EXTENDS Integers, FiniteSets

CONSTANTS
    Readers,        \* goroutines that call ReadFunc (or ReadPacket)
    Lenders,        \* those readers that call ReadPacket
    Writers,        \* goroutines that call Write / write
    Closers,        \* goroutines that call Close
    MaxPackets,     \* bound: packets the driver ever puts in the receive ring
    TxCap           \* slots of the send ring

ASSUME WinTunAssumption ==
    /\ IsFiniteSet(Readers) /\ IsFiniteSet(Writers)
    /\ Lenders \subseteq Readers
    /\ Readers \cap Writers = {}
    /\ Readers \cap Closers = {}
    /\ Writers \cap Closers = {}
    /\ MaxPackets \in Nat
    /\ TxCap \in Nat

Users == Readers \cup Writers
Threads == Users \cup Closers

VARIABLES
    pc,             \* what each goroutine does next
    running,        \* counter of the WaitGroup t.running
    close,          \* the atomic flag t.close (TRUE = 1)
    once,           \* t.closeOnce: "new", "busy" or "done"
    readWait,       \* the auto-reset event t.readWait: signalled or not
    session,        \* the wintun session: "live" or "ended"
    adapter,        \* the adapter: "open" or "closed"
    fwpm,           \* the filter engine session: "open" or "closed"
    eof,            \* the driver answers ERROR_HANDLE_EOF: adapter terminating
    arrived,        \* packets put in the receive ring so far (1..arrived)
    taken,          \* packets handed out by ReceivePacket so far (1..taken)
    released,       \* packets given back with ReleaseReceivePacket
    pkt,            \* the packet a ReadFunc is working on, 0 if none
    lent,           \* packets returned by ReadPacket, release closure not run
    txUsed,         \* slots of the send ring that are allocated
    txReady,        \* those of them that were committed with SendPacket
    crash           \* "no", or why the process is gone

shared == <<running, close, once, readWait>>
device == <<session, adapter, fwpm, eof>>
rxRing == <<arrived, taken, released, pkt, lent>>
txRing == <<txUsed, txReady>>
vars == <<pc, shared, device, rxRing, txRing, crash>>

(***************************************************************************)
(* Program counters.  A user is inside the wait group from its Add(1) to   *)
(* its deferred Done().  In the DriverPcs the next thing it does is a call *)
(* into the session, with no check of the close flag in between.           *)
(***************************************************************************)
DriverPcs == {"recv", "block", "alloc", "send"}
InsidePcs == DriverPcs \cup {"retry", "loop", "wait", "check", "leave", "fail"}
UserPcs == InsidePcs \cup {"idle", "stopped"}
BodyPcs == {"store", "setEvent", "wgWait", "blocked", "woken", "end",
            "closeAdapter", "closeFwpm"}
CloserPcs == BodyPcs \cup {"idle", "onceWait", "returned"}

Inside == {u \in Users : pc[u] \in InsidePcs}
Driving == {u \in Users : pc[u] \in DriverPcs}
Sending == {w \in Writers : pc[w] = "send"}

(* The device as New() returns it: session started, adapter open, filters  *)
(* installed, nobody using it.                                             *)
Init ==
    /\ pc = [t \in Threads |-> "idle"]
    /\ running = 0
    /\ close = FALSE
    /\ once = "new"
    /\ readWait = FALSE
    /\ session = "live"
    /\ adapter = "open"
    /\ fwpm = "open"
    /\ eof = FALSE
    /\ arrived = 0
    /\ taken = 0
    /\ released = {}
    /\ pkt = [r \in Readers |-> 0]
    /\ lent = {}
    /\ txUsed = 0
    /\ txReady = 0
    /\ crash = "no"

Goto(t, from, to) ==
    /\ crash = "no"
    /\ pc[t] = from
    /\ pc' = [pc EXCEPT ![t] = to]

(***************************************************************************)
(* sync.WaitGroup.  Done() by the last user releases a blocked waiter,     *)
(* which from then on is only runnable: another Add(1) may come before it  *)
(* runs, and Wait() then panics ("WaitGroup is reused before previous Wait *)
(* has returned").                                                         *)
(***************************************************************************)
Enter(t, to) ==
    /\ Goto(t, "idle", to)
    /\ running' = running + 1
    /\ UNCHANGED <<close, once, readWait, device, rxRing, txRing, crash>>

Leave(t, from, to) ==
    /\ crash = "no"
    /\ pc[t] = from
    /\ running' = running - 1
    /\ pc' = [u \in Threads |->
                IF u = t THEN to
                ELSE IF running = 1 /\ u \in Closers /\ pc[u] = "blocked"
                     THEN "woken"
                     ELSE pc[u]]
    /\ UNCHANGED <<close, once, readWait, device, rxRing, txRing, crash>>

(***************************************************************************)
(* ReadFunc and ReadPacket.                                                *)
(***************************************************************************)
ReadEnter(r) == Enter(r, "retry")

(* if t.close.Load() == 1 { return os.ErrClosed }, at the label retry.     *)
ReadRetry(r) ==
    /\ Goto(r, "retry", IF close THEN "fail" ELSE "loop")
    /\ UNCHANGED <<shared, device, rxRing, txRing, crash>>

(* The same check at the head of the receive loop.                         *)
ReadLoopUnchecked(r) ==
    /\ Goto(r, "loop", "recv")
    /\ UNCHANGED <<shared, device, rxRing, txRing, crash>>

ReadLoop(r) ==
    /\ Goto(r, "loop", IF close THEN "fail" ELSE "recv")
    /\ UNCHANGED <<shared, device, rxRing, txRing, crash>>

(* ReceivePacket hands out the next packet.  ReadFunc runs its block on    *)
(* it; ReadPacket returns it to its caller together with the closure that  *)
(* releases it.                                                            *)
ReadPacketOk(r) ==
    /\ taken < arrived
    /\ taken' = taken + 1
    /\ IF r \in Lenders
         THEN /\ Goto(r, "recv", "leave")
              /\ lent' = lent \cup {taken + 1}
              /\ UNCHANGED pkt
         ELSE /\ Goto(r, "recv", "block")
              /\ pkt' = [pkt EXCEPT ![r] = taken + 1]
              /\ UNCHANGED lent
    /\ UNCHANGED <<shared, device, arrived, released, txRing, crash>>

(* ERROR_NO_MORE_ITEMS: wait for the event, or spin while shouldSpin holds *)
(* and less than spinloopDuration has passed (a choice here: the clock and *)
(* the measured rate are abstracted).                                      *)
ReadEmpty(r) ==
    /\ taken = arrived
    /\ ~eof
    /\ \E to \in {"wait", "loop"} : Goto(r, "recv", to)
    /\ UNCHANGED <<shared, device, rxRing, txRing, crash>>

(* ERROR_HANDLE_EOF when the adapter is terminating, and any other error   *)
(* at any time ("send ring corrupt", "read failed").                       *)
ReadError(r) ==
    /\ Goto(r, "recv", "fail")
    /\ UNCHANGED <<shared, device, rxRing, txRing, crash>>

(* WaitForSingleObject(t.readWait, INFINITE); goto retry.  The event is    *)
(* auto-reset: waking up one waiter clears it.                             *)
ReadWake(r) ==
    /\ Goto(r, "wait", "retry")
    /\ readWait
    /\ readWait' = FALSE
    /\ UNCHANGED <<running, close, once, device, rxRing, txRing, crash>>

(* block(packet) and then ReleaseReceivePacket(packet).                    *)
ReadBlockNoRelease(r) ==
    /\ Goto(r, "block", "leave")
    /\ pkt' = [pkt EXCEPT ![r] = 0]
    /\ UNCHANGED <<shared, device, arrived, taken, released, lent, txRing, crash>>

ReadBlock(r) ==
    /\ Goto(r, "block", "leave")
    /\ released' = released \cup {pkt[r]}
    /\ pkt' = [pkt EXCEPT ![r] = 0]
    /\ UNCHANGED <<shared, device, arrived, taken, lent, txRing, crash>>

(* The deferred Done().  After an error the read loop of the endpoint ends *)
(* (dispatchLoop breaks), otherwise it comes back for the next packet.     *)
ReadReturn(r) == Leave(r, "leave", "idle") \/ Leave(r, "fail", "stopped")

ReaderStep(r) ==
    \/ ReadRetry(r) \/ ReadLoop(r) \/ ReadPacketOk(r) \/ ReadEmpty(r)
    \/ ReadError(r) \/ ReadWake(r) \/ ReadBlock(r) \/ ReadReturn(r)

(* The closure returned by ReadPacket.  It runs in its caller, outside the *)
(* wait group, so nothing keeps the session alive for it: on an ended      *)
(* session it touches a ring that is no longer there (or by luck has no    *)
(* effect, which is no step of the model).                                 *)
ReleaseLent ==
    /\ crash = "no"
    /\ \E k \in lent :
         IF session = "live"
         THEN /\ lent' = lent \ {k}
              /\ released' = released \cup {k}
              /\ UNCHANGED crash
         ELSE /\ crash' = "useAfterEnd"
              /\ UNCHANGED <<lent, released>>
    /\ UNCHANGED <<pc, shared, device, arrived, taken, pkt, txRing>>

(***************************************************************************)
(* Write and write.                                                        *)
(***************************************************************************)
WriteEnter(w) == Enter(w, "check")

WriteCheck(w) ==
    /\ Goto(w, "check", IF close THEN "leave" ELSE "alloc")
    /\ UNCHANGED <<shared, device, rxRing, txRing, crash>>

(* AllocateSendPacket succeeds when the ring has room ...                  *)
WriteAlloc(w) ==
    /\ txUsed < TxCap
    /\ Goto(w, "alloc", "send")
    /\ txUsed' = txUsed + 1
    /\ UNCHANGED <<shared, device, rxRing, txReady, crash>>

(* ... and fails when it is full (ERROR_BUFFER_OVERFLOW: the packet is     *)
(* dropped without an error), when the adapter is terminating, or for      *)
(* another reason; the call returns in each case.                          *)
WriteDrop(w) ==
    /\ Goto(w, "alloc", "leave")
    /\ UNCHANGED <<shared, device, rxRing, txRing, crash>>

(* The packet is copied into its slot and committed with SendPacket.       *)
WriteSend(w) ==
    /\ Goto(w, "send", "leave")
    /\ txReady' = txReady + 1
    /\ UNCHANGED <<shared, device, rxRing, txUsed, crash>>

WriteReturn(w) == Leave(w, "leave", "idle")

WriterStep(w) ==
    \/ WriteCheck(w) \/ WriteAlloc(w) \/ WriteDrop(w)
    \/ WriteSend(w) \/ WriteReturn(w)

(***************************************************************************)
(* Close.                                                                  *)
(***************************************************************************)
(* closeOnce.Do: the first caller runs the body, a caller that comes while *)
(* it runs waits for it, a later one returns at once.                      *)
CloseCallNoWait(c) ==
    /\ Goto(c, "idle", IF once = "new" THEN "store" ELSE "returned")
    /\ once' = IF once = "new" THEN "busy" ELSE once
    /\ UNCHANGED <<running, close, readWait, device, rxRing, txRing, crash>>

CloseCall(c) ==
    /\ Goto(c, "idle", IF once = "new" THEN "store"
                       ELSE IF once = "busy" THEN "onceWait" ELSE "returned")
    /\ once' = IF once = "new" THEN "busy" ELSE once
    /\ UNCHANGED <<running, close, readWait, device, rxRing, txRing, crash>>

CloseOnceWait(c) ==
    /\ once = "done"
    /\ Goto(c, "onceWait", "returned")
    /\ UNCHANGED <<shared, device, rxRing, txRing, crash>>

(* t.close.Store(1)                                                        *)
CloseStore(c) ==
    /\ Goto(c, "store", "setEvent")
    /\ close' = TRUE
    /\ UNCHANGED <<running, once, readWait, device, rxRing, txRing, crash>>

(* windows.SetEvent(t.readWait)                                            *)
CloseSetEventDropped(c) ==
    /\ Goto(c, "setEvent", "wgWait")
    /\ UNCHANGED <<shared, device, rxRing, txRing, crash>>

CloseSetEvent(c) ==
    /\ Goto(c, "setEvent", "wgWait")
    /\ readWait' = TRUE
    /\ UNCHANGED <<running, close, once, device, rxRing, txRing, crash>>

(* t.running.Wait(): pass when the counter is zero, block otherwise.       *)
CloseWaitDropped(c) ==
    /\ Goto(c, "wgWait", "end")
    /\ UNCHANGED <<shared, device, rxRing, txRing, crash>>

CloseWait(c) ==
    /\ Goto(c, "wgWait", IF running = 0 THEN "end" ELSE "blocked")
    /\ UNCHANGED <<shared, device, rxRing, txRing, crash>>

(* The waiter runs again after the last Done(): it finds the wait group    *)
(* unused, or panics because a user came in meanwhile.                     *)
CloseWoken(c) ==
    /\ IF running = 0
         THEN Goto(c, "woken", "end") /\ UNCHANGED crash
         ELSE /\ crash = "no" /\ pc[c] = "woken"
              /\ crash' = "waitGroupReused"
              /\ UNCHANGED pc
    /\ UNCHANGED <<shared, device, rxRing, txRing>>

(* t.session.End(): the rings are gone, and with them the queued packets.  *)
CloseEnd(c) ==
    /\ Goto(c, "end", "closeAdapter")
    /\ session' = "ended"
    /\ UNCHANGED <<shared, adapter, fwpm, eof, rxRing, txRing, crash>>

(* t.adapter.Close()                                                       *)
CloseAdapter(c) ==
    /\ Goto(c, "closeAdapter", "closeFwpm")
    /\ adapter' = "closed"
    /\ UNCHANGED <<shared, session, fwpm, eof, rxRing, txRing, crash>>

(* FwpmEngineClose0, flushing the resolver cache, and the end of the once. *)
CloseFwpm(c) ==
    /\ Goto(c, "closeFwpm", "returned")
    /\ fwpm' = "closed"
    /\ once' = "done"
    /\ UNCHANGED <<running, close, readWait, session, adapter, eof,
                   rxRing, txRing, crash>>

CloserStep(c) ==
    \/ CloseOnceWait(c) \/ CloseStore(c) \/ CloseSetEvent(c) \/ CloseWait(c)
    \/ CloseWoken(c) \/ CloseEnd(c) \/ CloseAdapter(c) \/ CloseFwpm(c)

(***************************************************************************)
(* The driver.                                                             *)
(***************************************************************************)
(* A packet enters the receive ring and the read event is signalled.       *)
DriverArrive ==
    /\ crash = "no" /\ session = "live" /\ ~eof
    /\ arrived < MaxPackets
    /\ arrived' = arrived + 1
    /\ readWait' = TRUE
    /\ UNCHANGED <<pc, running, close, once, device, taken, released, pkt,
                   lent, txRing, crash>>

(* A committed packet leaves the send ring and its slot is free again.     *)
DriverDrain ==
    /\ crash = "no" /\ session = "live"
    /\ txReady > 0
    /\ txReady' = txReady - 1
    /\ txUsed' = txUsed - 1
    /\ UNCHANGED <<pc, shared, device, rxRing, crash>>

(* The adapter is terminating (removed from outside): readers are woken.   *)
DriverTerminate ==
    /\ crash = "no" /\ session = "live" /\ ~eof
    /\ eof' = TRUE
    /\ readWait' = TRUE
    /\ UNCHANGED <<pc, running, close, once, session, adapter, fwpm,
                   rxRing, txRing, crash>>

(* Nothing happens any more once the process is gone.                      *)
Halted ==
    /\ crash # "no"
    /\ UNCHANGED vars

Next ==
    \/ \E r \in Readers : ReadEnter(r) \/ ReaderStep(r)
    \/ \E w \in Writers : WriteEnter(w) \/ WriterStep(w)
    \/ \E c \in Closers : CloseCall(c) \/ CloserStep(c)
    \/ ReleaseLent
    \/ DriverArrive \/ DriverDrain \/ DriverTerminate
    \/ Halted

(* A goroutine that is inside a call keeps running: it is scheduled, and   *)
(* each driver call returns.  Nobody has to call, no packet has to arrive. *)
Fairness ==
    /\ \A r \in Readers : WF_vars(ReaderStep(r))
    /\ \A w \in Writers : WF_vars(WriterStep(w))
    /\ \A c \in Closers : WF_vars(CloserStep(c))

Spec == Init /\ [][Next]_vars
FairSpec == Spec /\ Fairness

-----------------------------------------------------------------------------
(***************************************************************************)
(* Properties                                                              *)
(***************************************************************************)
(* Type invariant: the wait group counter of tun_windows.go never goes     *)
(* negative, and every other variable has its type.                        *)
TypeOK ==
    /\ pc \in [Threads -> UserPcs \cup CloserPcs]
    /\ \A u \in Users : pc[u] \in UserPcs
    /\ \A c \in Closers : pc[c] \in CloserPcs
    /\ running \in Nat
    /\ close \in BOOLEAN
    /\ once \in {"new", "busy", "done"}
    /\ readWait \in BOOLEAN
    /\ session \in {"live", "ended"}
    /\ adapter \in {"open", "closed"}
    /\ fwpm \in {"open", "closed"}
    /\ eof \in BOOLEAN
    /\ arrived \in Nat
    /\ taken \in Nat
    /\ released \subseteq Nat
    /\ pkt \in [Readers -> Nat]
    /\ lent \subseteq Nat
    /\ txUsed \in Nat
    /\ txReady \in Nat
    /\ crash \in {"no", "waitGroupReused", "useAfterEnd"}

(* No ReadFunc, ReadPacket or Write is inside or about to make a call on   *)
(* the wintun session once Close has ended it (session.End frees the rings *)
(* those calls dereference).                                               *)
SessionCallsSafe == session = "ended" => Driving = {}

(* Whoever returns from Close, the first caller or one that found the      *)
(* close-once taken, finds the whole device torn down.                     *)
CloseMeansClosed ==
    \A c \in Closers : pc[c] = "returned" =>
        session = "ended" /\ adapter = "closed" /\ fwpm = "closed"

(* Nothing is in flight when the session goes away: every packet taken out *)
(* of the receive ring was given back exactly once or is still lent to a   *)
(* ReadPacket caller, and every slot allocated in the send ring has been   *)
(* committed (a slot that is not blocks the ones behind it).               *)
NothingInFlightAtEnd ==
    session = "ended" =>
        /\ 1..taken = released \cup lent
        /\ released \cap lent = {}
        /\ \A r \in Readers : pkt[r] = 0
        /\ txUsed = txReady

(* The detailed device implements the abstract one.                        *)
Phase == IF session = "ended" THEN "closed"
         ELSE IF close THEN "closing" ELSE "open"

Abs == INSTANCE TunDevice WITH
    Users <- Users,
    phase <- Phase,
    busy  <- Driving,
    rx    <- taken,
    tx    <- txReady

(* Calls get hold of the session only while the device is open, the        *)
(* session is torn down only when none holds it, and nothing moves after.  *)
ImplementsTunDevice == Abs!Spec

(* Close returns: a Close that has begun comes to its end whatever the     *)
(* reader was doing, blocked on the event included (or the process is      *)
(* gone, see CloseWoken).  Two things spoil it.  The event of Close wakes  *)
(* one reader, and a second one stays where it waits; and Write adds to    *)
(* the wait group before it looks at the close flag, so writers that go on *)
(* calling, each before the last one has left, keep the counter above zero *)
(* for ever although none of them gets past the check.                     *)
LeftWaiting ==
    \E r, s \in Readers : r # s /\ pc[r] = "wait" /\ pc[s] # "wait" /\ close /\ ~readWait

WritersOverlap == Writers \cap Inside # {}

Closing == {c \in Closers : pc[c] \notin {"idle", "returned"}}

CloseReturns ==
    \/ <>[]LeftWaiting
    \/ <>[]WritersOverlap
    \/ once = "busy" ~> (Closing = {} \/ crash # "no")
=============================================================================
