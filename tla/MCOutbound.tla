----------------------------- MODULE MCOutbound -----------------------------
(* What the relay asks the system about a connection: the interface that   *)
(* its own sockets go out through, and the process that the connection     *)
(* comes from.  Only the platform is common to both, so that a behaviour   *)
(* follows one of them.                                                    *)
EXTENDS Bind

CONSTANTS Pids, MaxSockets, MaxEvents

ASSUME LookupAssumption ==
    Pids \subseteq Nat \ {0} /\ MaxSockets \in Nat /\ MaxEvents \in Nat

VARIABLES
    part,
    network, sockets, live, incarnation, step, api, size, table, procs, found, fallback, answer,
    touched, events

P == INSTANCE ProcessLookup

lookupVars == <<network, sockets, live, incarnation, step, api, size, table, procs, found,
                fallback, answer, touched, events>>

(* The part that is not followed is left in one initial state.             *)
MCInit ==
    /\ part \in {"bind", "lookup"}
    /\ Init /\ P!Init
    /\ part = "bind" => network = "tcp" /\ P!Table = {}
    /\ part = "lookup" => kind = "packet" /\ chain = <<>> /\ \A n \in Names : os[n] = None

MCNext ==
    \/ part = "bind" /\ Next /\ UNCHANGED <<part, lookupVars>>
    \/ part = "lookup" /\ P!Next /\ UNCHANGED <<part, vars>>

MCSpec == MCInit /\ [][MCNext]_<<part, vars, lookupVars>>

(* The process named is the owner of the socket that the lookup settled    *)
(* on, whatever happens to the others meanwhile (ProcessLookup).           *)
RightProcess == P!RightProcess
=============================================================================
