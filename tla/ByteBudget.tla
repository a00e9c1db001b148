----------------------------- MODULE ByteBudget -----------------------------
(***************************************************************************)
(* BytesSemaphore: a budget of bytes that may be overdrawn by the last one *)
(* who is let in, so that a payload larger than the budget passes too.     *)
(*                                                                         *)
(* The condition's lock is never held across a suspension and everything   *)
(* runs on one event loop, so each critical section is one action.  A call *)
(* that leaves wakes the others from a task of its own; it runs before the *)
(* call can leave again, so that one task per call is enough.              *)
(***************************************************************************)
EXTENDS Integers, ConcurrentCalls

CONSTANTS
  Sizes,     \* the bytes that calls acquire
  MaxSize,   \* the largest of them
  MaxBytes   \* max_bytes

ASSUME BudgetAssumption ==
  /\ MaxSize \in Nat /\ Sizes \subseteq 0 .. MaxSize
  /\ MaxBytes \in Nat

VARIABLES
  bytes,     \* _bytes
  place,     \* where each call is in acquire
  size,      \* the bytes each call acquires
  releasing  \* the calls whose _release task has yet to run

budgetVars == <<bytes, place, size, releasing>>

BudgetInit ==
  /\ bytes = MaxBytes
  /\ place = [c \in Calls |-> "out"]
  /\ size = [c \in Calls |-> 0]
  /\ releasing = {}

(* Mutant: as much as the call needs must be left. *)
TryEnterWithRoom(c, n) ==
  /\ \/ bytes >= n /\ bytes' = bytes - n /\ place' = [place EXCEPT ![c] = "in"]
     \/ bytes < n /\ bytes' = bytes /\ place' = [place EXCEPT ![c] = "waiting"]
  /\ UNCHANGED releasing

(* The loop around the wait: go in or wait (again). *)
TryEnter(c, n) ==
  /\ \/ bytes >= 0 /\ bytes' = bytes - n /\ place' = [place EXCEPT ![c] = "in"]
     \/ bytes < 0 /\ bytes' = bytes /\ place' = [place EXCEPT ![c] = "waiting"]
  /\ UNCHANGED releasing

Acquire(c, n) ==
  /\ place[c] = "out"
  /\ size' = [size EXCEPT ![c] = n]
  /\ TryEnter(c, n)

(* Mutant: who is woken goes in without another look. *)
WakeUpUnchecked(c) ==
  /\ place[c] = "woken"
  /\ bytes' = bytes - size[c]
  /\ place' = [place EXCEPT ![c] = "in"]
  /\ UNCHANGED <<size, releasing>>

WakeUp(c) ==
  /\ place[c] = "woken"
  /\ TryEnter(c, size[c])
  /\ UNCHANGED size

(* The finally of acquire, after a result, an error or a cancellation. *)
Leave(c) ==
  /\ place[c] = "in" /\ c \notin releasing
  /\ place' = [place EXCEPT ![c] = "out"]
  /\ bytes' = bytes + size[c]
  /\ releasing' = releasing \union {c}
  /\ UNCHANGED size

(* Cancelled while waiting: nothing was taken. *)
GiveUp(c) ==
  /\ place[c] \in {"waiting", "woken"}
  /\ place' = [place EXCEPT ![c] = "out"]
  /\ UNCHANGED <<bytes, size, releasing>>

Release(c) ==
  /\ c \in releasing
  /\ releasing' = releasing \ {c}
  /\ place' = [d \in Calls |-> IF place[d] = "waiting" THEN "woken" ELSE place[d]]
  /\ UNCHANGED <<bytes, size>>

BudgetNext ==
  \E c \in Calls :
    \/ \E n \in Sizes : Acquire(c, n)
    \/ WakeUp(c) \/ Leave(c) \/ GiveUp(c) \/ Release(c)

BudgetSpec == BudgetInit /\ [][BudgetNext]_budgetVars

-----------------------------------------------------------------------------
(* Properties *)

BudgetTypeOK ==
  /\ bytes \in Int
  /\ place \in [Calls -> {"out", "waiting", "woken", "in"}]
  /\ size \in [Calls -> Sizes \union {0}]
  /\ releasing \subseteq Calls

(* Whoever waits although the budget is not overdrawn is about to be woken. *)
NoWaiterForgotten ==
  \A c \in Calls : place[c] = "waiting" => bytes < 0 \/ releasing # {}

(* Only the last call let in can overdraw the budget: not everybody who was *)
(* woken goes in, and never by more than one payload.                       *)
OverdraftBounded == bytes >= -MaxSize

=============================================================================
