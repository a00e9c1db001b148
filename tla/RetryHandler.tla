----------------------------- MODULE RetryHandler -----------------------------
(***************************************************************************)
(* RetryHandler (lib/retry_handler.py), which all samples of a sampling    *)
(* session share: a semaphore, repeated attempts with a delay, and for     *)
(* each request in the loop a watchdog that cancels it once the handler    *)
(* has made no progress for progress_timeout.  An attempt may hang for     *)
(* ever, and the caller of a request may cancel it.                        *)
(***************************************************************************)
EXTENDS Naturals, FiniteSets

CONSTANTS Requests,
          MaxConnections,    \* max_connections
          Timeout,           \* progress_timeout, in ticks
          MaxDelay,          \* retry_delay_max, in ticks
          MaxDoublings       \* bound of the model: failures after which the delay is MaxDelay

VARIABLES where,         \* "new", "semaphore", "attempt", "delay", or how the request ended
          idle,          \* time since _last_global_progress, no further than Timeout + 1
          waitingCount,  \* _waiting_at_semaphore_count
          inLoopCount,   \* _in_retry_loop_count
          failures,      \* failed attempts of a request
          delay,         \* what is left of its sleep
          alarm,         \* the time left until its watchdog looks again
          cancelled      \* "no", "caller", "noProgress": the cancellation that is under way
handlerVars == <<where, idle, waitingCount, inLoopCount, failures, delay, alarm, cancelled>>

HandlerInit ==
  /\ where = [r \in Requests |-> "new"] /\ idle = 0
  /\ waitingCount = 0 /\ inLoopCount = 0
  /\ failures = [r \in Requests |-> 0] /\ delay = [r \in Requests |-> 0]
  /\ alarm = [r \in Requests |-> 0] /\ cancelled = [r \in Requests |-> "no"]

InLoop(r) == where[r] \in {"attempt", "delay"}
Inside    == {r \in Requests : InLoop(r)}
Queued    == {r \in Requests : where[r] = "semaphore"}
Ended(r)  == where[r] \in {"returned", "raised", "cancelled", "APIConnectionError"}
Moves(r, to) == where' = [where EXCEPT ![r] = to]

\* execute: first the semaphore
Queue(r) == /\ where[r] = "new"
            /\ Moves(r, "semaphore") /\ waitingCount' = waitingCount + 1
            /\ UNCHANGED <<idle, inLoopCount, failures, delay, alarm, cancelled>>

\* A change of the code: the watchdog sleeps for a whole timeout before it looks.
EnterLoopUnwatched(r) ==
  /\ where[r] = "semaphore" /\ Cardinality(Inside) < MaxConnections
  /\ Moves(r, "attempt")
  /\ waitingCount' = waitingCount - 1 /\ inLoopCount' = inLoopCount + 1
  /\ idle' = IF inLoopCount = 0 THEN 0 ELSE idle
  /\ alarm' = [alarm EXCEPT ![r] = Timeout + 1]
  /\ UNCHANGED <<failures, delay, cancelled>>

\* the deadline is renewed only when nobody else is in the loop; the watchdog looks at once
EnterLoop(r) ==
  /\ where[r] = "semaphore" /\ Cardinality(Inside) < MaxConnections
  /\ Moves(r, "attempt")
  /\ waitingCount' = waitingCount - 1 /\ inLoopCount' = inLoopCount + 1
  /\ idle' = IF inLoopCount = 0 THEN 0 ELSE idle
  /\ alarm' = [alarm EXCEPT ![r] = 0]
  /\ UNCHANGED <<failures, delay, cancelled>>

\* the caller gives up; at the semaphore nobody takes the request off its counter
CancelQueued(r) == /\ where[r] = "semaphore"
                   /\ Moves(r, "cancelled")
                   /\ UNCHANGED <<idle, waitingCount, inLoopCount, failures, delay, alarm, cancelled>>
CancelRequest(r) == /\ InLoop(r) /\ cancelled[r] = "no"
                    /\ cancelled' = [cancelled EXCEPT ![r] = "caller"]
                    /\ UNCHANGED <<where, idle, waitingCount, inLoopCount, failures, delay, alarm>>

(* _check_progress: it sleeps until the deadline as it was when it last looked. *)
Watch(r) ==
  /\ InLoop(r) /\ alarm[r] = 0 /\ cancelled[r] # "noProgress"
  /\ IF idle > Timeout
     THEN cancelled' = [cancelled EXCEPT ![r] = "noProgress"] /\ UNCHANGED alarm
     ELSE alarm' = [alarm EXCEPT ![r] = Timeout + 1 - idle] /\ UNCHANGED cancelled
  /\ UNCHANGED <<where, idle, waitingCount, inLoopCount, failures, delay>>

\* the finally of execute; the place in the semaphore is free again
Leave(r, how) == /\ Moves(r, how)
                 /\ inLoopCount' = inLoopCount - 1
                 /\ failures' = [failures EXCEPT ![r] = 0] /\ delay' = [delay EXCEPT ![r] = 0]
                 /\ alarm' = [alarm EXCEPT ![r] = 0] /\ cancelled' = [cancelled EXCEPT ![r] = "no"]

Unwind(r) ==
  /\ InLoop(r) /\ cancelled[r] # "no"
  /\ Leave(r, IF cancelled[r] = "noProgress" THEN "APIConnectionError" ELSE "cancelled")
  /\ UNCHANGED <<idle, waitingCount>>

(* _execute_with_retry *)
Attempting(r) == where[r] = "attempt" /\ cancelled[r] = "no"

Succeeds(r) == /\ Attempting(r)
               /\ Leave(r, "returned") /\ idle' = 0
               /\ UNCHANGED waitingCount

\* _should_retry says no, or the retry logic is switched off
FailsForGood(r) == /\ Attempting(r)
                   /\ Leave(r, "raised")
                   /\ UNCHANGED <<idle, waitingCount>>

\* _calculate_retry_delay: doubled with each failure, with jitter, at most the maximum, never nothing
RetryDelays(n) == 1..(IF 2 ^ n < MaxDelay THEN 2 ^ n ELSE MaxDelay)

RetryLater(r) ==
  /\ Attempting(r)
  /\ Moves(r, "delay")
  /\ \E d \in RetryDelays(failures[r]) : delay' = [delay EXCEPT ![r] = d]
  /\ failures' = [failures EXCEPT ![r] = IF @ < MaxDoublings THEN @ + 1 ELSE @]
  /\ UNCHANGED <<idle, waitingCount, inLoopCount, alarm, cancelled>>

Retry(r) == /\ where[r] = "delay" /\ delay[r] = 0 /\ cancelled[r] = "no"
            /\ Moves(r, "attempt")
            /\ UNCHANGED <<idle, waitingCount, inLoopCount, failures, delay, alarm, cancelled>>

\* time passes when no watchdog, sleep or cancellation is due
Due(r) == \/ InLoop(r) /\ (alarm[r] = 0 \/ cancelled[r] # "no")
          \/ where[r] = "delay" /\ delay[r] = 0
Less(t) == IF t > 0 THEN t - 1 ELSE 0
HandlerTick ==
  /\ Inside # {} /\ \A r \in Requests : ~Due(r)
  /\ idle' = IF idle <= Timeout THEN idle + 1 ELSE idle
  /\ delay' = [r \in Requests |-> Less(delay[r])]
  /\ alarm' = [r \in Requests |-> Less(alarm[r])]
  /\ UNCHANGED <<where, waitingCount, inLoopCount, failures, cancelled>>

Attempt(r)  == Succeeds(r) \/ FailsForGood(r) \/ RetryLater(r)
Cancels(r)  == CancelQueued(r) \/ CancelRequest(r)
Proceeds(r) == Queue(r) \/ EnterLoop(r) \/ Unwind(r) \/ Retry(r)
HandlerNext == \/ \E r \in Requests : Proceeds(r) \/ Watch(r) \/ Attempt(r) \/ Cancels(r)
               \/ HandlerTick

\* The loop runs what is ready, the semaphore is fair, and time passes; an
\* attempt need not end.
HandlerFairness == /\ WF_handlerVars(HandlerTick)
                   /\ \A r \in Requests : WF_handlerVars(Watch(r)) /\ SF_handlerVars(Proceeds(r))
HandlerSpec == HandlerInit /\ [][HandlerNext]_handlerVars /\ HandlerFairness

\* The counter on which the renewal of the deadline rests is the number of
\* requests in the loop, whoever was cancelled where, and the counter of the
\* waiting never misses one (execute).
CountersMatch == /\ inLoopCount = Cardinality(Inside) /\ Cardinality(Inside) <= MaxConnections
                 /\ waitingCount >= Cardinality(Queued)

\* While a request is in the loop, its watchdog does not sleep beyond the deadline
\* that holds now: others move the deadline only away (_check_progress).
WatchdogsAreInTime == \A r \in Inside : alarm[r] + idle <= Timeout + 1
=============================================================================
