----------------------------- MODULE MCDarwinTun -----------------------------
(* Two processes, two units, and the names "utun-1" and "utun0x".        *)
EXTENDS DarwinTun

BadNames == {[number |-> -1, exact |-> FALSE], [number |-> 0, exact |-> FALSE]}
=============================================================================
