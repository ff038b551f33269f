------------------------------ MODULE TunDevice ------------------------------
(***************************************************************************)
(* What the Windows TUN device promises its callers, with no threads,      *)
(* flags, events or wait groups: a driver session that is open, then       *)
(* closing, then closed.  A call gets hold of the session only while the   *)
(* device is open, the session is torn down only when no call holds it,    *)
(* and from then on nothing about the device changes any more.             *)
(* WinTunIO is shown to implement this specification.                      *)
(***************************************************************************)
EXTENDS Naturals

CONSTANT Users      \* the goroutines that read from or write to the device

VARIABLES
    phase,          \* "open", "closing" or "closed"
    busy,           \* the users that are inside a driver call
    rx,             \* packets handed from the driver to the readers so far
    tx              \* packets handed to the driver and not yet consumed by it

vars == <<phase, busy, rx, tx>>

Init ==
    /\ phase = "open"
    /\ busy = {}
    /\ rx = 0
    /\ tx = 0

(* A call passes its last check of the close flag.                         *)
Begin(u) ==
    /\ phase = "open"
    /\ u \notin busy
    /\ busy' = busy \cup {u}
    /\ UNCHANGED <<phase, rx, tx>>

(* A driver call of a busy user that returns without moving a packet, the  *)
(* last one of its operation.                                              *)
Finish(u) ==
    /\ phase # "closed"
    /\ u \in busy
    /\ busy' = busy \ {u}
    /\ UNCHANGED <<phase, rx, tx>>

(* The user takes a packet out of the receive ring, and either goes on     *)
(* using the session (it has to release the packet) or not.                *)
Take(u) ==
    /\ phase # "closed"
    /\ u \in busy
    /\ rx' = rx + 1
    /\ busy' \in {busy, busy \ {u}}
    /\ UNCHANGED <<phase, tx>>

(* The user commits a packet to the send ring.                             *)
Put(u) ==
    /\ phase # "closed"
    /\ u \in busy
    /\ tx' = tx + 1
    /\ busy' = busy \ {u}
    /\ UNCHANGED <<phase, rx>>

(* The driver consumes a packet of the send ring.                          *)
Drain ==
    /\ phase # "closed"
    /\ tx > 0
    /\ tx' = tx - 1
    /\ UNCHANGED <<phase, busy, rx>>

StartClose ==
    /\ phase = "open"
    /\ phase' = "closing"
    /\ UNCHANGED <<busy, rx, tx>>

FinishClose ==
    /\ phase = "closing"
    /\ busy = {}
    /\ phase' = "closed"
    /\ UNCHANGED <<busy, rx, tx>>

Next ==
    \/ \E u \in Users : Begin(u) \/ Finish(u) \/ Take(u) \/ Put(u)
    \/ Drain
    \/ StartClose
    \/ FinishClose

Spec == Init /\ [][Next]_vars
=============================================================================
