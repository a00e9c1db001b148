--------------------------- MODULE SampleDispatch ---------------------------
(***************************************************************************)
(* The dispatch of sampling requests of one holder: each passes a chain of *)
(* limiters, is sent until the server accepts it, and keeps its places in  *)
(* all of them until its result is there or it is given up.                *)
(*                                                                         *)
(* The limits come from the capabilities of the server, fetched once under *)
(* a lock, less what the server reports as pending at that moment.  A call *)
(* waits with the limit it has read, however old that is.  A refresh of    *)
(* the capabilities unsets them while calls are on their way.              *)
(*                                                                         *)
(* Everything runs on the holder's loop; a step ends where the code may be *)
(* suspended.  Whether a backoff was requested recently, and how often, is *)
(* left open here.                                                         *)
(***************************************************************************)
EXTENDS CountLimiter, ByteBudget, FiniteSetsExt, Functions

CONSTANTS
  Logprobs,      \* the calls of compute_logprobs; the others are of sample
  Profile,       \* sample_dispatch_profile
  Servers,       \* capabilities that the server may have
  Pending,       \* numbers of requests that it may report as pending
  MaxCount,      \* the permits of the dispatch semaphore
  None,
  MaxFailures    \* bound: failures, rejections and refreshes

Capabilities ==
  [supported : BOOLEAN,
   recommended : 0 .. MaxLimit \union {None},     \* recommended_max_outstanding_sampling_requests
   active : 0 .. MaxLimit \union {None},          \* max_active_requests_per_subject
   queued : 0 .. MaxLimit \union {None},          \* max_queued_requests_per_subject
   queuedLogprobs : 0 .. MaxLimit \union {None}]  \* max_queued_compute_logprobs_requests

ASSUME DispatchAssumption ==
  /\ Gates = {"outstanding", "count", "profile", "throttled"}
  /\ Logprobs \subseteq Calls
  /\ Profile \in {"auto", "local_single_gpu", "workstation", "remote_large_backend"}
  /\ Pending \subseteq Nat /\ MaxCount \in 1 .. MaxLimit /\ MaxLimit >= 10 /\ None \notin Nat
  /\ Servers \subseteq Capabilities
  /\ MaxFailures \in Nat

VARIABLES
  server,    \* the capabilities of the server
  loaded,    \* _sample_dispatch_profile_loaded
  cached,    \* whether there is a _server_capabilities_cache
  fetching,  \* who holds _sample_dispatch_profile_lock
  stage,     \* where each call is
  failures   \* how much of MaxFailures is used up

vars == <<server, loaded, cached, fetching, stage, failures, limiterVars, budgetVars>>

Ended == {"ok", "failed", "cancelled"}

-----------------------------------------------------------------------------
(* The limits *)

Local == Profile # "remote_large_backend"
AtLeastOne(n) == IF n < 1 THEN 1 ELSE n
Known(S) == {AtLeastOne(n) : n \in S \ {None}}

(* _sampling_dispatch_limit_from_capabilities *)
DispatchLimit(logprobs) ==
  IF ~Local \/ ~server.supported \/ server.recommended = None THEN None
  ELSE Min(Known({server.recommended, server.active,
                  IF logprobs THEN server.queuedLogprobs ELSE None}))

(* _sampling_outstanding_limit_from_capabilities *)
OutstandingLimit(logprobs) ==
  IF ~Local \/ ~server.supported \/ server.queued = None THEN None
  ELSE Min(Known({server.queued, IF logprobs THEN server.queuedLogprobs ELSE None}))

(* Mutant: what is pending may use up the whole limit. *)
LessToNothing(base, pending) == IF pending > base THEN 0 ELSE base - pending

Less(base, pending) == IF pending > 0 THEN AtLeastOne(base - pending) ELSE base

(* The limits less what the server reports, of which it may report anything *)
(* at any time; if it fails to, nothing is pending.                         *)
OutstandingLimits(c) ==
  LET base == OutstandingLimit(c \in Logprobs) IN
  IF base = None THEN {}
  ELSE {IF c \in Logprobs THEN Less(Less(base, n), m) ELSE Less(base, n) :
          n, m \in Pending \union {0}}

DispatchLimits(c) ==
  LET base == DispatchLimit(c \in Logprobs) IN
  IF base = None THEN {} ELSE {Less(base, n) : n \in Pending \union {0}}

(* _sample_dispatch_throttled_limit, after streak backoffs *)
ThrottledLimit(logprobs, streak) ==
  LET own  == DispatchLimit(FALSE)
      most == IF Profile = "local_single_gpu" THEN 2 ELSE 4
      all  == IF own = None THEN most ELSE Min({own, most})
      base == IF logprobs THEN AtLeastOne(all - 1) ELSE all
  IN  IF ~Local \/ (Profile = "auto" /\ own = None) THEN 10
      ELSE IF streak = 4 \/ (streak = 3 /\ base > 2) THEN AtLeastOne(base - 1)
      ELSE base

ThrottledLimits(c) == {ThrottledLimit(c \in Logprobs, streak) : streak \in 0 .. 4}

-----------------------------------------------------------------------------

Init ==
  /\ server \in Servers
  /\ loaded = FALSE
  /\ cached = FALSE
  /\ fetching = None
  /\ stage = [c \in Calls |-> "idle"]
  /\ failures = 0
  /\ LimiterInit
  /\ BudgetInit

Goes(c, from, to) == stage[c] = from /\ stage' = [stage EXCEPT ![c] = to]

(* What a call that has ended gives back: its places in the gates and its *)
(* bytes.                                                                 *)
Unwind(c) ==
  /\ LeaveGates(c)
  /\ \/ Leave(c) \/ GiveUp(c)
     \/ place[c] = "out" /\ UNCHANGED budgetVars

Fault == failures < MaxFailures /\ failures' = failures + 1

-----------------------------------------------------------------------------
(* _resolve_sample_dispatch_profile_limit *)

Enter(c) ==
  /\ Goes(c, "idle", "resolving")
  /\ UNCHANGED <<server, loaded, cached, fetching, failures, limiterVars, budgetVars>>

Resolved(c) ==
  /\ loaded
  /\ Goes(c, "resolving", "resolved")
  /\ UNCHANGED <<server, loaded, cached, fetching, failures, limiterVars, budgetVars>>

TakeLock(c) ==
  /\ ~loaded /\ ~cached /\ fetching = None
  /\ Goes(c, "resolving", "fetching")
  /\ fetching' = c
  /\ UNCHANGED <<server, loaded, cached, failures, limiterVars, budgetVars>>

(* The lock is free, and the capabilities are there. *)
Reload(c) ==
  /\ ~loaded /\ cached /\ fetching = None
  /\ Goes(c, "resolving", "resolved")
  /\ loaded' = TRUE
  /\ UNCHANGED <<server, cached, fetching, failures, limiterVars, budgetVars>>

Fetched(c) ==
  /\ Goes(c, "fetching", "resolved")
  /\ loaded' = TRUE
  /\ cached' = TRUE
  /\ fetching' = None
  /\ UNCHANGED <<server, failures, limiterVars, budgetVars>>

FetchFails(c) ==
  /\ Fault
  /\ Goes(c, "fetching", "failed")
  /\ fetching' = None
  /\ UNCHANGED <<server, loaded, cached, limiterVars, budgetVars>>

(* get_server_capabilities, called by somebody else, has its answer. *)
Refresh ==
  /\ Fault
  /\ loaded' = FALSE
  /\ cached' = TRUE
  /\ UNCHANGED <<server, fetching, stage, limiterVars, budgetVars>>

-----------------------------------------------------------------------------
(* The gates *)

Following == [outstanding |-> "admitted", count |-> "counted",
              profile |-> "profiled", throttled |-> "ready"]

PassesOrWaits(c, g) ==
  stage' = [stage EXCEPT ![c] = IF c \in inside'[g] THEN Following[g] ELSE g]

(* A gate with one of the limits, or no gate if there is none. *)
PassOneOf(c, g, limits) ==
  \/ limits = {} /\ Goes(c, stage[c], Following[g]) /\ UNCHANGED limiterVars
  \/ \E n \in limits : Pass(g, c, n) /\ PassesOrWaits(c, g)

Outstanding(c) ==
  /\ stage[c] = "resolved"
  /\ PassOneOf(c, "outstanding", OutstandingLimits(c))
  /\ UNCHANGED <<server, loaded, cached, fetching, failures, budgetVars>>

(* Waiting for others of the same window, if the server announces one; how *)
(* long is left open.                                                      *)
Coalesce(c) ==
  /\ Local /\ server.supported
  /\ Goes(c, "admitted", "coalescing")
  /\ loaded' = TRUE
  /\ UNCHANGED <<server, cached, fetching, failures, limiterVars, budgetVars>>

(* The semaphore's waiters race here, and all orders are possible.  The     *)
(* capabilities are looked up once more before, and have been fetched long  *)
(* since.                                                                   *)
Count(c) ==
  /\ stage[c] \in {"admitted", "coalescing"}
  /\ PassOneOf(c, "count", {MaxCount})
  /\ loaded' = TRUE
  /\ UNCHANGED <<server, cached, fetching, failures, budgetVars>>

DispatchProfile(c) ==
  /\ stage[c] = "counted"
  /\ PassOneOf(c, "profile", DispatchLimits(c))
  /\ UNCHANGED <<server, loaded, cached, fetching, failures, budgetVars>>

(* Only if a backoff was requested recently *)
Throttled(c) ==
  /\ stage[c] = "profiled"
  /\ PassOneOf(c, "throttled", {}) \/ PassOneOf(c, "throttled", ThrottledLimits(c))
  /\ UNCHANGED <<server, loaded, cached, fetching, failures, budgetVars>>

LookAgain(c) ==
  /\ stage[c] \in Gates
  /\ PassWoken(stage[c], c)
  /\ PassesOrWaits(c, stage[c])
  /\ UNCHANGED <<server, loaded, cached, fetching, failures, budgetVars>>

EntersOrWaits(c) ==
  stage' = [stage EXCEPT ![c] = IF place'[c] = "in" THEN "sending" ELSE "acquiring"]

(* estimated_bytes_count, or 20 times as much after a backoff *)
AcquireBytes(c) ==
  /\ stage[c] = "ready"
  /\ \E n \in Sizes : Acquire(c, n)
  /\ EntersOrWaits(c)
  /\ UNCHANGED <<server, loaded, cached, fetching, failures, limiterVars>>

LookForBytes(c) ==
  /\ stage[c] = "acquiring"
  /\ WakeUp(c)
  /\ EntersOrWaits(c)
  /\ UNCHANGED <<server, loaded, cached, fetching, failures, limiterVars>>

ReleaseBytes(c) ==
  /\ Release(c)
  /\ UNCHANGED <<server, loaded, cached, fetching, stage, failures, limiterVars>>

-----------------------------------------------------------------------------
(* Sending, and the end *)

(* 429, or an error that execute_with_retries retries *)
Rejected(c) ==
  /\ Fault
  /\ Goes(c, "sending", "backoff")
  /\ UNCHANGED <<server, loaded, cached, fetching, limiterVars, budgetVars>>

SendAgain(c) ==
  /\ Goes(c, "backoff", "sending")
  /\ UNCHANGED <<server, loaded, cached, fetching, failures, limiterVars, budgetVars>>

Accepted(c) ==
  /\ Goes(c, "sending", "polling")
  /\ UNCHANGED <<server, loaded, cached, fetching, failures, limiterVars, budgetVars>>

Finish(c, outcome) ==
  /\ stage' = [stage EXCEPT ![c] = outcome]
  /\ Unwind(c)
  /\ UNCHANGED <<server, loaded, cached>>

Answered(c) == stage[c] = "polling" /\ Finish(c, "ok") /\ UNCHANGED <<fetching, failures>>

Fails(c) ==
  /\ stage[c] \in {"sending", "polling"}
  /\ Fault
  /\ Finish(c, "failed")
  /\ UNCHANGED fetching

(* The future is cancelled, wherever its task is suspended. *)
Cancel(c) ==
  /\ stage[c] \notin Ended \union {"idle"}
  /\ Fault
  /\ Finish(c, "cancelled")
  /\ fetching' = IF fetching = c THEN None ELSE fetching

-----------------------------------------------------------------------------

Step(c) ==
  \/ Enter(c) \/ Resolved(c) \/ TakeLock(c) \/ Reload(c) \/ Fetched(c)
  \/ Outstanding(c) \/ Coalesce(c) \/ Count(c) \/ DispatchProfile(c) \/ Throttled(c) \/ LookAgain(c)
  \/ AcquireBytes(c) \/ LookForBytes(c)
  \/ SendAgain(c) \/ Accepted(c) \/ Answered(c)

Failure(c) == FetchFails(c) \/ Rejected(c) \/ Fails(c) \/ Cancel(c)

Next == Refresh \/ \E c \in Calls : Step(c) \/ ReleaseBytes(c) \/ Failure(c)

Spec == Init /\ [][Next]_vars

(* The loop runs its tasks, and the server accepts and answers in the end. *)
Fairness == \A c \in Calls : WF_vars(Step(c)) /\ WF_vars(ReleaseBytes(c))

FairSpec == Spec /\ Fairness

-----------------------------------------------------------------------------
(* Properties *)

TypeOK ==
  /\ LimiterTypeOK /\ BudgetTypeOK
  /\ server \in Servers /\ loaded \in BOOLEAN /\ cached \in BOOLEAN /\ fetching \in Calls \union {None}
  /\ stage \in [Calls -> {"idle", "resolving", "fetching", "resolved", "coalescing", "acquiring", "sending",
                          "backoff", "polling"}
                         \union Gates \union Range(Following) \union Ended]
  /\ failures \in 0 .. MaxFailures

(* The server's recommendation for "outstanding sampling requests from one   *)
(* client" holds from dispatch to result, through failures and cancellations *)
(* of others, and although compute_logprobs brings a limit of its own.       *)
RecommendationKept ==
  Local /\ server.supported /\ server.recommended # None =>
    Cardinality({c \in Calls : stage[c] \in {"sending", "backoff", "polling"}})
      <= AtLeastOne(server.recommended)

(* Nobody waits for ever: all limits leave room for one, and the gates are   *)
(* passed in one order.                                                      *)
EveryRequestEnds == \A c \in Calls : <>(stage[c] \in Ended)

=============================================================================
