------------------------- MODULE MCThreadSafeQueue -------------------------
(* TLC instance of ThreadSafeQueue. *)
EXTENDS ThreadSafeQueue
=============================================================================
