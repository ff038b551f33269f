---------------------------- MODULE MCGVisorStack ----------------------------
(* Instances of GVisorStack for TLC.                                       *)
EXTENDS GVisorStack
=============================================================================
