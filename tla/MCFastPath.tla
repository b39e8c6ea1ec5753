---------------------------- MODULE MCFastPath ----------------------------
(* TLC instance of FastPath. *)
EXTENDS Classification, MCTraffic
=============================================================================
