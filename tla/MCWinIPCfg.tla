----------------------------- MODULE MCWinIPCfg -----------------------------
(* The two parts of package winipcfg: the change handlers, and the methods *)
(* of LUID.  They share no state, so that a behaviour follows one of them. *)
EXTENDS ChangeHandler

CONSTANTS Own, Other, Entries, MaxList
VARIABLES part, kind, rows, dns, legacy, call, alone

ASSUME LUIDAssumption == MaxList \in Nat

Entry(luid, family, key) == [luid |-> luid, family |-> family, key |-> key]

(* Two rows of IPv4 and one of IPv6, and a row of another interface.       *)
MCEntries == {Entry(Own, "4", 1), Entry(Own, "4", 2), Entry(Own, "6", 1),
              Entry(Other, "4", 1)}

L == INSTANCE LUID

luidVars == <<kind, rows, dns, legacy, call, alone>>

MCInit ==
    /\ part \in {"handlers", "luid"}
    /\ Init /\ L!Init
    /\ part = "handlers" => kind = "dns" /\ ~legacy

MCNext ==
    \/ part = "handlers" /\ Next /\ UNCHANGED <<part, luidVars>>
    \/ part = "luid" /\ L!Next /\ UNCHANGED <<part, vars>>

MCSpec == MCInit /\ [][MCNext]_<<part, vars, luidVars>> /\ Fairness

(* A call that returns nil did what it was asked, whatever earlier calls   *)
(* left behind (LUID).                                                     *)
SetMeansSet == L!SetMeansSet

(* A call never changes another interface, nor another family than its own *)
(* (LUID), though it works on a copy of everything.                        *)
OthersUntouched == [][L!ChangesOwnOnly]_luidVars
=============================================================================
