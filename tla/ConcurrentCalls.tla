--------------------------- MODULE ConcurrentCalls ---------------------------
(* The calls that run on the loop of a holder and meet at its limiters. *)
CONSTANT Calls
=============================================================================
