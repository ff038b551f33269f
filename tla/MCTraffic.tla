----------------------------- MODULE MCTraffic -----------------------------
(* The two ways of the packets of a connection: the relay between the      *)
(* stack and the network, and the vectorised writers of the device.  They  *)
(* share no state, so that a behaviour follows one of them.                *)
EXTENDS Integers

CONSTANTS
    Goroutines, Arrays, Kinds, Parts, MaxCalls,     \* of VectorisedWriter
    MaxSent, Longer, MaxQueue                       \* of Relay

ASSUME VectorisedWriterAssumption ==
    /\ Kinds \subseteq {"syscall", "buffered"}
    /\ Parts \in Nat \ {0} /\ MaxCalls \in Nat
    /\ {"none", "header"} \cap (Arrays \cup Goroutines) = {}

VARIABLES
    part,
    kind, pc, buffers, temp, calls, result, mem, pool, access, iovecList, length, closed, wire,
    protocol, long, sent, queue, peer, shut, copier, chunk, to, errCh, handler, out

W == INSTANCE VectorisedWriter
R == INSTANCE Relay

writerVars ==
    <<kind, pc, buffers, temp, calls, result, mem, pool, access, iovecList, length, closed, wire>>
relayVars ==
    <<protocol, long, sent, queue, peer, shut, copier, chunk, to, errCh, handler, out>>

(* The part that is not followed is left in one initial state.             *)
MCInit ==
    /\ part \in {"writer", "relay"}
    /\ W!Init /\ R!Init
    /\ part = "writer" => protocol = "tcp"
    /\ part = "relay" => kind = "syscall"

MCNext ==
    \/ part = "writer" /\ W!Next /\ UNCHANGED <<part, relayVars>>
    \/ part = "relay" /\ R!Next /\ UNCHANGED <<part, writerVars>>

MCSpec == MCInit /\ [][MCNext]_<<part, writerVars, relayVars>> /\ W!Fairness /\ R!Fairness

(* Every packet that the device gets is a whole packet of one call, which  *)
(* returns nil exactly when its packet went out (VectorisedWriter).        *)
PacketsWhole == W!PacketsWhole

(* No array is lost, and none that is in the pool is kept in the list of   *)
(* iovecs, but after a panic (VectorisedWriter).                           *)
NothingKept == W!NothingKept

(* Once the device is closed every call returns (VectorisedWriter).        *)
CallsReturn == W!CallsReturn

(* Each peer gets what the other one sent, in order, up to the length of   *)
(* the buffer, and nothing else (Relay).                                   *)
NothingMixedUp == R!NothingMixedUp

(* A handler whose connection ended returns and leaves nothing behind, if  *)
(* nobody blocks what it writes (Relay).                                   *)
HandlerEnds == R!HandlerEnds
=============================================================================
