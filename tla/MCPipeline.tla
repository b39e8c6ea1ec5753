---------------------------- MODULE MCPipeline ----------------------------
(* TLC instances of Pipeline.  A flow is its hash value.                   *)
EXTENDS Pipeline

HashByValue == [f \in Flows |-> f]

(* Two flows interleaved, a frame that is skipped between two packets of   *)
(* one flow, and a flow of its own for every packet.                       *)
TwoFlowCaptures == {<<0, 1, 0>>, <<0, Junk, 0>>, <<1, 1, 1>>, <<0, 0, 1>>, <<1, 0>>, <<>>}
(* Enough packets of one flow to fill every queue and every hand from the   *)
(* output thread back to the reader.                                       *)
FullChainCaptures == {<<0, 0, 0, 0, 0, 0>>}
OrderCaptures == TwoFlowCaptures \cup FullChainCaptures
SpreadCaptures == {<<0, 1, 2, 3>>}
=============================================================================
