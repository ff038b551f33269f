----------------------------- MODULE MCLinuxTun -----------------------------
(* Instances of LinuxTun for TLC.                                          *)
EXTENDS LinuxTun, TLC

IPv4Only == {[fams |-> {4}, auto |-> TRUE]}
AllOptions == [fams : (SUBSET {4, 6}) \ {{}}, auto : BOOLEAN]

Symmetry == Permutations(Instances)
=============================================================================
