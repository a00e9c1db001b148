---------------------------- MODULE ResultPolling ----------------------------
(***************************************************************************)
(* How the result of a request is fetched: an _APIFuture polls the server  *)
(* in a task of its own until the answer is there, and a caller waits for  *)
(* one future or, through _CombinedAPIFuture, for several.                 *)
(*                                                                         *)
(* The server may announce a large answer by its size; the poll then       *)
(* acquires as many bytes of the holder's budget of responses in flight,   *)
(* and asks again.  The bytes are given back however the poll ends.        *)
(*                                                                         *)
(* All polls run on the holder's loop, and a step ends where it awaits.    *)
(***************************************************************************)
EXTENDS Integers, FiniteSetsExt

CONSTANTS
  Polls,           \* the futures
  Callers,         \* who waits for results
  PollsOf,         \* the futures that each caller waits for
  SyncCallers,     \* those that call result of a single future
  Sizes, MaxSize,  \* response_payload_size
  MaxBytes,        \* the budget of response bytes
  MaxBadRequests,  \* MAX_BAD_REQUEST_RETRIES
  MaxFaults        \* bound: answers after which the poll asks again

ASSUME PollingAssumption ==
  /\ PollsOf \in [Callers -> (SUBSET Polls) \ {{}}]
  /\ SyncCallers \subseteq Callers
  /\ \A c \in SyncCallers : \E p \in Polls : PollsOf[c] = {p}
  /\ MaxBadRequests \in Nat /\ MaxFaults \in Nat
  /\ MaxSize \in Nat /\ Sizes \subseteq 0 .. MaxSize /\ MaxBytes \in Nat

VARIABLES
  poll,          \* what each poll is doing, or how it ended
  metadataOnly,  \* allow_metadata_only
  badRequests,   \* bad_request_retries
  cancelled,     \* the futures that a caller has cancelled
  caller,        \* what each caller is doing
  faults,        \* how much of MaxFaults is used up
  bytes, place, size, releasing  \* the budget

budgetVars == <<bytes, place, size, releasing>>
vars == <<poll, metadataOnly, badRequests, cancelled, caller, faults, budgetVars>>

Budget == INSTANCE ByteBudget WITH Calls <- Polls

Running(p) == poll[p] \in {"asking", "sleeping", "acquiring"}

Init ==
  /\ poll = [p \in Polls |-> "asking"]
  /\ metadataOnly = [p \in Polls |-> TRUE]
  /\ badRequests = [p \in Polls |-> 0]
  /\ cancelled = {}
  /\ caller = [c \in Callers |-> "idle"]
  /\ faults = 0
  /\ Budget!BudgetInit

PollGoes(p, from, to) == poll[p] = from /\ poll' = [poll EXCEPT ![p] = to]

-----------------------------------------------------------------------------
(* Answers after which the poll asks again *)

Fault ==
  /\ faults < MaxFaults
  /\ faults' = faults + 1
  /\ UNCHANGED <<metadataOnly, cancelled, caller, budgetVars>>

(* 408: still waiting.  Only this answer resets the count of 400s. *)
StillWaiting(p) ==
  /\ Fault
  /\ PollGoes(p, "asking", "asking")
  /\ badRequests' = [badRequests EXCEPT ![p] = 0]

(* 5xx, or try_again *)
ServerError(p) ==
  /\ Fault
  /\ PollGoes(p, "asking", "asking")
  /\ UNCHANGED badRequests

BadRequest(p) ==
  /\ Fault
  /\ badRequests[p] < MaxBadRequests
  /\ PollGoes(p, "asking", "asking")
  /\ badRequests' = [badRequests EXCEPT ![p] = @ + 1]

ConnectionError(p) ==
  /\ Fault
  /\ PollGoes(p, "asking", "sleeping")
  /\ UNCHANGED badRequests

AskAgain(p) ==
  /\ PollGoes(p, "sleeping", "asking")
  /\ UNCHANGED <<metadataOnly, badRequests, cancelled, caller, faults, budgetVars>>

-----------------------------------------------------------------------------
(* The size of the answer, and the budget *)

EntersOrWaits(p) ==
  poll' = [poll EXCEPT ![p] = IF place'[p] = "in" THEN "asking" ELSE "acquiring"]

Metadata(p) ==
  /\ poll[p] = "asking" /\ metadataOnly[p]
  /\ metadataOnly' = [metadataOnly EXCEPT ![p] = FALSE]
  /\ \E n \in Sizes : Budget!Acquire(p, n)
  /\ EntersOrWaits(p)
  /\ UNCHANGED <<badRequests, cancelled, caller, faults>>

LookAgain(p) ==
  /\ poll[p] = "acquiring"
  /\ Budget!WakeUp(p)
  /\ EntersOrWaits(p)
  /\ UNCHANGED <<metadataOnly, badRequests, cancelled, caller, faults>>

Release(p) ==
  /\ Budget!Release(p)
  /\ UNCHANGED <<poll, metadataOnly, badRequests, cancelled, caller, faults>>

-----------------------------------------------------------------------------
(* The end of a poll: the exit stack gives back what was acquired. *)

Unwind(p) ==
  \/ place[p] = "in" /\ Budget!Leave(p)
  \/ place[p] \in {"waiting", "woken"} /\ Budget!GiveUp(p)
  \/ place[p] = "out" /\ UNCHANGED budgetVars

Finish(p, outcome) ==
  /\ poll' = [poll EXCEPT ![p] = outcome]
  /\ Unwind(p)
  /\ UNCHANGED <<metadataOnly, badRequests, cancelled, caller, faults>>

Answer(p) == poll[p] = "asking" /\ Finish(p, "ok")

(* Mutant: the bytes are given back only with a result. *)
FailKeepingBytes(p) ==
  /\ PollGoes(p, "asking", "failed")
  /\ UNCHANGED <<metadataOnly, badRequests, cancelled, caller, faults, budgetVars>>

(* 410, another status, a 400 too many, an error, or an invalid answer *)
Fail(p) == poll[p] = "asking" /\ Finish(p, "failed")

(* Mutant: a poll that is cancelled in acquire gives bytes back. *)
StopGivingBytes(p) ==
  /\ p \in cancelled /\ Running(p)
  /\ poll' = [poll EXCEPT ![p] = "stopped"]
  /\ place' = [place EXCEPT ![p] = "out"]
  /\ bytes' = bytes + size[p]
  /\ releasing' = releasing \union {p}
  /\ UNCHANGED <<size, metadataOnly, badRequests, cancelled, caller, faults>>

(* The cancellation of the future reaches the task. *)
Stop(p) == p \in cancelled /\ Running(p) /\ Finish(p, "stopped")

-----------------------------------------------------------------------------
(* The callers *)

CallerGoes(c, from, to) ==
  /\ caller[c] \in from
  /\ caller' = [caller EXCEPT ![c] = to]
  /\ UNCHANGED <<poll, metadataOnly, badRequests, faults, budgetVars>>

Succeeded(p) == p \notin cancelled /\ poll[p] = "ok"
Broken(p) == p \in cancelled \/ poll[p] = "failed"

(* A caller whose wait has timed out may wait again. *)
Wait(c) == CallerGoes(c, {"idle", "timedOut"}, "waiting") /\ UNCHANGED cancelled

GetResult(c) ==
  /\ \A p \in PollsOf[c] : Succeeded(p)
  /\ CallerGoes(c, {"waiting"}, "result")
  /\ UNCHANGED cancelled

(* gather passes on the first error; the other polls go on. *)
GetError(c) ==
  /\ \E p \in PollsOf[c] : Broken(p)
  /\ CallerGoes(c, {"waiting"}, "error")
  /\ UNCHANGED cancelled

(* result gives up the wait, not the poll. *)
SyncTimeout(c) ==
  /\ c \in SyncCallers
  /\ CallerGoes(c, {"waiting"}, "timedOut")
  /\ UNCHANGED cancelled

(* result_async cancels the future, also when the error of another future  *)
(* has reached the caller already.                                         *)
AsyncTimeout(c) ==
  /\ c \notin SyncCallers
  /\ \E p \in PollsOf[c] : Running(p) /\ cancelled' = cancelled \union {p}
  /\ \/ CallerGoes(c, {"waiting"}, "timedOut")
     \/ caller[c] \in {"error", "timedOut"} /\ CallerGoes(c, {caller[c]}, caller[c])

(* The task of the caller is cancelled, and all that it waits for. *)
CancelCaller(c) ==
  /\ c \notin SyncCallers
  /\ cancelled' = cancelled \union {p \in PollsOf[c] : Running(p)}
  /\ CallerGoes(c, {"waiting"}, "timedOut")

-----------------------------------------------------------------------------

Again(p) == StillWaiting(p) \/ ServerError(p) \/ BadRequest(p) \/ ConnectionError(p)
Ends(p) == Answer(p) \/ Fail(p)
Advance(p) == AskAgain(p) \/ Metadata(p) \/ LookAgain(p) \/ Ends(p)
Returns(c) == GetResult(c) \/ GetError(c)

Next ==
  \/ \E p \in Polls : Again(p) \/ Advance(p) \/ Stop(p) \/ Release(p)
  \/ \E c \in Callers :
       Wait(c) \/ Returns(c) \/ SyncTimeout(c) \/ AsyncTimeout(c) \/ CancelCaller(c)

Spec == Init /\ [][Next]_vars

(* The server answers in the end, and the loop runs its tasks.  Nobody has *)
(* to time out or to be cancelled.                                         *)
Fairness ==
  /\ \A p \in Polls : WF_vars(Advance(p)) /\ WF_vars(Stop(p)) /\ WF_vars(Release(p))
  /\ \A c \in Callers : WF_vars(Returns(c))

FairSpec == Spec /\ Fairness

-----------------------------------------------------------------------------
(* Properties *)

TypeOK ==
  /\ Budget!BudgetTypeOK /\ bytes <= MaxBytes
  /\ poll \in [Polls -> {"asking", "sleeping", "acquiring", "ok", "failed", "stopped"}]
  /\ metadataOnly \in [Polls -> BOOLEAN]
  /\ badRequests \in [Polls -> 0 .. MaxBadRequests]
  /\ cancelled \subseteq Polls
  /\ caller \in [Callers -> {"idle", "waiting", "result", "error", "timedOut"}]
  /\ faults \in 0 .. MaxFaults

(* The budget is what it was less what the running polls hold, over all     *)
(* answers, errors, cancellations and waits: nothing leaks, nothing is      *)
(* given back twice.                                                        *)
BytesAccounted ==
  bytes = MaxBytes - MapThenSumSet(LAMBDA p : size[p], {p \in Polls : place[p] = "in"})

(* The budget is the abstract one in every step of every poll. *)
ImplementsByteBudget == Budget!BudgetSpec

(* A poll that waits for bytes although there are some is about to be woken, *)
(* and the answers in flight exceed the budget by one answer at most.        *)
BudgetKept == Budget!NoWaiterForgotten /\ Budget!OverdraftBounded

(* Every poll ends, although it waits for bytes that others hold, some of   *)
(* which nobody waits for any more, and its answer may exceed the budget.   *)
EveryPollEnds == \A p \in Polls : <>~Running(p)

(* Whoever waits returns, without a timeout. *)
CallersReturn == \A c \in Callers : caller[c] = "waiting" ~> caller[c] # "waiting"

=============================================================================
