----------------------------- MODULE MCWinTunIO -----------------------------
(* Instances of WinTunIO for TLC: goroutines are model values of the cfg.  *)
EXTENDS WinTunIO
=============================================================================
