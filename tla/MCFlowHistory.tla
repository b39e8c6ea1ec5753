--------------------------- MODULE MCFlowHistory ---------------------------
(* TLC instance of FlowHistory. *)
EXTENDS FlowHistory, MCTraffic
=============================================================================
