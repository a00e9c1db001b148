--------------------------- MODULE MCResultPolling ---------------------------
(* ResultPolling with a request of two chunks and a single one, whose result *)
(* somebody waits for in another thread, or nobody.                          *)
EXTENDS ResultPolling, TLC

CONSTANTS p1, p2, p3, combined, single

PollsOfBoth == (combined :> {p1, p2}) @@ (single :> {p3})

=============================================================================
