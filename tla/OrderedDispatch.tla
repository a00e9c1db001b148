--------------------------- MODULE OrderedDispatch ---------------------------
(***************************************************************************)
(* What a TrainingClient promises about the requests it sends: they are    *)
(* numbered as they are issued, and dispatched one at a time in the order  *)
(* of their numbers, none skipped and none dispatched again.               *)
(***************************************************************************)
EXTENDS Naturals

VARIABLES
  issued,   \* how many requests have been numbered
  next,     \* the number of the request that is, or will be, dispatched next
  busy      \* is that request being dispatched?

vars == <<issued, next, busy>>

Init == issued = 0 /\ next = 0 /\ busy = FALSE

Issue ==
  /\ issued' = issued + 1
  /\ UNCHANGED <<next, busy>>

Begin ==
  /\ ~busy
  /\ next < issued
  /\ busy' = TRUE
  /\ UNCHANGED <<issued, next>>

(* The request is over, whatever came of it; the dispatch of the following *)
(* one may begin in the same step.                                         *)
End ==
  /\ busy
  /\ next' = next + 1
  /\ busy' \in {FALSE, next + 1 < issued}
  /\ UNCHANGED issued

Next == Issue \/ Begin \/ End

Spec == Init /\ [][Next]_vars

=============================================================================
