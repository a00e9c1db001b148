-------------------------- MODULE MCSampleDispatch --------------------------
(* SampleDispatch with servers that announce tight limits, or none. *)
EXTENDS SampleDispatch

Tight == [supported |-> TRUE, recommended |-> 1, active |-> None,
          queued |-> 2, queuedLogprobs |-> 0]
Silent == [supported |-> FALSE, recommended |-> 2, active |-> None,
           queued |-> None, queuedLogprobs |-> None]
Uneven == [supported |-> TRUE, recommended |-> 2, active |-> 3,
           queued |-> None, queuedLogprobs |-> 1]

TightOrSilent == {Tight, Silent, Uneven}

=============================================================================
