--------------------------- MODULE MCWinConfigure ---------------------------
(* Instances of WinConfigure for TLC.                                      *)
EXTENDS WinConfigure

AllOptions == [fams : SUBSET {4, 6}, auto : BOOLEAN]
=============================================================================
