---------------------------- MODULE CountLimiter ----------------------------
(***************************************************************************)
(* CountLimiter: how many calls may be inside a gate at once.  Each call   *)
(* brings the limit that held when it came; the limit of a waiting call is *)
(* not refreshed, so that calls with different limits compete.             *)
(*                                                                         *)
(* These are the gates of one holder.  A call passes them one after the    *)
(* other, and the exit stack on which it has entered them takes it out of  *)
(* all of them at once.  The condition's lock of a gate is never held      *)
(* across a suspension, so that each critical section is one action.       *)
(***************************************************************************)
EXTENDS Integers, FiniteSets, ConcurrentCalls

CONSTANTS
  Gates,    \* the limiters
  MaxLimit  \* the largest limit that a call brings

ASSUME LimiterAssumption == IsFiniteSet(Calls) /\ MaxLimit \in Nat

VARIABLES
  inflight,  \* _inflight of each gate
  inside,    \* the calls inside each gate
  waiting,   \* those that wait in front of it
  woken,     \* those that were woken and have yet to look again
  limit      \* the limit of each call that waits

limiterVars == <<inflight, inside, waiting, woken, limit>>

LimiterInit ==
  /\ inflight = [g \in Gates |-> 0]
  /\ inside = [g \in Gates |-> {}]
  /\ waiting = [g \in Gates |-> {}]
  /\ woken = [g \in Gates |-> {}]
  /\ limit = [c \in Calls |-> 0]

(* Mutant: off by one. *)
TryPassOneMore(g, c, n) ==
  \/ /\ inflight[g] <= n
     /\ inflight' = [inflight EXCEPT ![g] = @ + 1]
     /\ inside' = [inside EXCEPT ![g] = @ \union {c}]
     /\ limit' = [limit EXCEPT ![c] = 0]
     /\ UNCHANGED waiting
  \/ /\ inflight[g] > n
     /\ waiting' = [waiting EXCEPT ![g] = @ \union {c}]
     /\ limit' = [limit EXCEPT ![c] = n]
     /\ UNCHANGED <<inflight, inside>>

(* The loop around the wait: go in, or wait (again) for room below n. *)
TryPass(g, c, n) ==
  \/ /\ inflight[g] < n
     /\ inflight' = [inflight EXCEPT ![g] = @ + 1]
     /\ inside' = [inside EXCEPT ![g] = @ \union {c}]
     /\ limit' = [limit EXCEPT ![c] = 0]
     /\ UNCHANGED waiting
  \/ /\ inflight[g] >= n
     /\ waiting' = [waiting EXCEPT ![g] = @ \union {c}]
     /\ limit' = [limit EXCEPT ![c] = n]
     /\ UNCHANGED <<inflight, inside>>

Suspended(c) == \E g \in Gates : c \in waiting[g] \union woken[g]

Pass(g, c, n) ==
  /\ ~Suspended(c) /\ c \notin inside[g]
  /\ TryPass(g, c, n)
  /\ UNCHANGED woken

PassWoken(g, c) ==
  /\ c \in woken[g]
  /\ woken' = [woken EXCEPT ![g] = @ \ {c}]
  /\ TryPass(g, c, limit[c])

(* Mutant: notify instead of notify_all. *)
LeaveGatesWakingOne(c) ==
  /\ inflight' = [g \in Gates |-> IF c \in inside[g] THEN inflight[g] - 1 ELSE inflight[g]]
  /\ inside' = [g \in Gates |-> inside[g] \ {c}]
  /\ \E one \in [Gates -> Calls] :
       /\ \A g \in Gates : c \in inside[g] /\ waiting[g] # {} => one[g] \in waiting[g]
       /\ waiting' = [g \in Gates |-> waiting[g] \ IF c \in inside[g] THEN {c, one[g]} ELSE {c}]
       /\ woken' = [g \in Gates |-> (woken[g] \union IF c \in inside[g] THEN {one[g]} \intersect waiting[g] ELSE {}) \ {c}]
  /\ limit' = [limit EXCEPT ![c] = 0]

(* Mutant: a call that gives up waiting is counted out, too. *)
LeaveGatesUncounted(c) ==
  /\ inflight' = [g \in Gates |-> IF c \in inside[g] \union waiting[g] \union woken[g]
                                  THEN inflight[g] - 1 ELSE inflight[g]]
  /\ inside' = [g \in Gates |-> inside[g] \ {c}]
  /\ woken' = [g \in Gates |-> (woken[g] \union IF c \in inside[g] THEN waiting[g] ELSE {}) \ {c}]
  /\ waiting' = [g \in Gates |-> IF c \in inside[g] THEN {} ELSE waiting[g] \ {c}]
  /\ limit' = [limit EXCEPT ![c] = 0]

(* The exit, after a result, an error or a cancellation: out of every gate   *)
(* passed, whose waiters are all woken, and away from the one waited for.    *)
LeaveGates(c) ==
  /\ inflight' = [g \in Gates |-> IF c \in inside[g] THEN inflight[g] - 1 ELSE inflight[g]]
  /\ inside' = [g \in Gates |-> inside[g] \ {c}]
  /\ woken' = [g \in Gates |-> (woken[g] \union IF c \in inside[g] THEN waiting[g] ELSE {}) \ {c}]
  /\ waiting' = [g \in Gates |-> IF c \in inside[g] THEN {} ELSE waiting[g] \ {c}]
  /\ limit' = [limit EXCEPT ![c] = 0]

LimiterNext ==
  \E c \in Calls :
    \/ \E g \in Gates : PassWoken(g, c) \/ \E n \in 1 .. MaxLimit : Pass(g, c, n)
    \/ LeaveGates(c)

LimiterSpec == LimiterInit /\ [][LimiterNext]_limiterVars

-----------------------------------------------------------------------------
(* Properties *)

LimiterTypeOK ==
  /\ inflight \in [Gates -> Nat]
  /\ inside \in [Gates -> SUBSET Calls]
  /\ waiting \in [Gates -> SUBSET Calls]
  /\ woken \in [Gates -> SUBSET Calls]
  /\ limit \in [Calls -> 0 .. MaxLimit]

(* The counter, on which the limits and the pressure backoff rest, is the    *)
(* number of calls inside, over all entries, exits and cancellations.        *)
CounterCountsInside == \A g \in Gates : inflight[g] = Cardinality(inside[g])

(* Whoever waits has no room by its own limit, whatever limits the others    *)
(* brought: who leaves wakes everybody, not only one.                        *)
NoCallForgotten == \A g \in Gates : \A c \in waiting[g] : inflight[g] >= limit[c]

(* Never more inside than the largest limit that anybody brings. *)
LimitRespected == \A g \in Gates : inflight[g] <= MaxLimit

=============================================================================
