------------------------------ MODULE Telemetry ------------------------------
(***************************************************************************)
(* The telemetry of one session: threads that log events, the task on the  *)
(* holder's loop that sends them in batches, and the loggers of fatal      *)
(* errors, which wait until their events have been flushed.                *)
(*                                                                         *)
(* The queue and the counters have a lock each, and _enabled has none, so  *)
(* each access is an action and other threads come in between.  The task   *)
(* runs on the loop, where only an await lets others in, and so do the     *)
(* waits, but for those awaited on a loop of the caller.  Events are       *)
(* numbered as they are enqueued.  A request whose answer was lost, or for *)
(* which the task no longer waits, may still reach the server, at any time *)
(* or never.                                                               *)
(***************************************************************************)
EXTENDS Naturals, Sequences, FiniteSets, Functions

CONSTANTS
  Fatal,         \* calls of log_fatal_exception and its sync form
  Foreign,       \* fatal calls awaited on another loop than the holder's
  Plain,         \* calls of log, log_exception and its sync form
  SessionStart,  \* who logs the event of __init__
  MaxBatchSize,  \* MAX_BATCH_SIZE
  MaxQueueSize,  \* MAX_QUEUE_SIZE
  MaxErrors,     \* bound: APIErrors of sending
  MaxRaises,     \* bound: other errors of sending
  MaxStops       \* bound: 1 if the holder is closed while others still log

Loggers == Fatal \union Plain

ASSUME TelemetryAssumption ==
  /\ Fatal \intersect Plain = {} /\ SessionStart \notin Loggers
  /\ Foreign \subseteq Fatal
  /\ MaxBatchSize \in Nat \ {0} /\ MaxQueueSize \in Nat \ {0}
  /\ {MaxErrors, MaxRaises, MaxStops} \subseteq Nat

VARIABLES
  enabled,    \* _enabled
  queue,      \* _queue
  push,       \* _push_counter
  flush,      \* _flush_counter
  flushEvent, \* is _flush_event set?
  task,       \* where _periodic_flush is
  batch,      \* the events being sent
  logger,     \* where each call is
  logged,     \* did the call enqueue its events?
  target,     \* the count that a fatal call waits for
  accepted,   \* history: who enqueued each event
  arrived,    \* history: the batches that the server took, in order
  late,       \* batches given up on that may still arrive
  lost,       \* history: were events given up?
  faults      \* how much of the bounds is used up

vars == <<enabled, queue, push, flush, flushEvent, task, batch, logger, logged,
          target, accepted, arrived, late, lost, faults>>

calls   == <<logger, logged, target, accepted>>
counts  == <<push, flush>>
history == <<arrived, late, lost>>

(* A fatal call logs the error and the end of the session. *)
EventsOf(l) == IF l \in Fatal THEN <<l, l>> ELSE <<l>>
Numbers(l)  == [i \in 1 .. Len(EventsOf(l)) |-> Len(accepted) + i]

(* Between these phases of the task nothing else runs on the loop, nor does *)
(* it between the two steps with which a wait begins.                       *)
OnLoop == {"disabling", "cleared"}
MayRun(l) == l \in Foreign \/ task \notin OnLoop
LoopFree == \A l \in Fatal \ Foreign : logger[l] # "targeting"

Init ==
  /\ enabled = TRUE
  /\ queue = <<1>>
  /\ push = 1
  /\ flush = 0
  /\ flushEvent = FALSE
  /\ task = "none"
  /\ batch = <<>>
  /\ logger = [l \in Loggers |-> "idle"]
  /\ logged = [l \in Loggers |-> FALSE]
  /\ target = [l \in Loggers |-> 0]
  /\ accepted = <<SessionStart>>
  /\ arrived = <<>>
  /\ late = {}
  /\ lost = FALSE
  /\ faults = [errors |-> 0, raises |-> 0, stops |-> 0]

-----------------------------------------------------------------------------
(* Logging *)

LoggerGoes(l, from, to) == logger[l] = from /\ logger' = [logger EXCEPT ![l] = to]

(* _log, before the lock *)
CheckEnabled(l) ==
  /\ LoggerGoes(l, "idle", IF enabled THEN "checked" ELSE "logged")
  /\ UNCHANGED <<enabled, queue, counts, flushEvent, task, batch, logged, target,
                 accepted, history, faults>>

Enqueue(l) ==
  /\ \/ /\ Len(queue) + Len(EventsOf(l)) <= MaxQueueSize
        /\ LoggerGoes(l, "checked", "enqueued")
        /\ queue' = queue \o Numbers(l)
        /\ accepted' = accepted \o EventsOf(l)
     \/ /\ Len(queue) + Len(EventsOf(l)) > MaxQueueSize
        /\ LoggerGoes(l, "checked", "logged")
        /\ UNCHANGED <<queue, accepted>>
  /\ UNCHANGED <<enabled, counts, flushEvent, task, batch, logged, target, history, faults>>

CountPush(l) ==
  /\ LoggerGoes(l, "enqueued", "logged")
  /\ push' = push + Len(EventsOf(l))
  /\ logged' = [logged EXCEPT ![l] = TRUE]
  /\ UNCHANGED <<enabled, queue, flush, flushEvent, task, batch, target, accepted,
                 history, faults>>

(* _trigger_flush: log does not call it, the others do. *)
TriggerFlush(l) ==
  /\ LoggerGoes(l, "logged", IF l \in Fatal THEN "triggered" ELSE "returned")
  /\ \/ flushEvent' = (flushEvent \/ (enabled /\ task # "none"))
     \/ l \in Plain /\ UNCHANGED flushEvent
  /\ UNCHANGED <<enabled, queue, counts, task, batch, logged, target, accepted,
                 history, faults>>

(* _wait_until_drained *)
StartWaiting(l) ==
  /\ MayRun(l) /\ LoopFree
  /\ LoggerGoes(l, "triggered", IF enabled THEN "targeting" ELSE "returned")
  /\ UNCHANGED <<enabled, queue, counts, flushEvent, task, batch, logged, target, accepted,
                 history, faults>>

TakeTarget(l) ==
  /\ LoggerGoes(l, "targeting", "waiting")
  /\ target' = [target EXCEPT ![l] = push]
  /\ UNCHANGED <<enabled, queue, counts, flushEvent, task, batch, logged, accepted,
                 history, faults>>

(* Mutant: one event short of what was pushed. *)
DrainedTooStrict(l) ==
  /\ MayRun(l) /\ LoopFree
  /\ flush > target[l]
  /\ LoggerGoes(l, "waiting", "returned")
  /\ UNCHANGED <<enabled, queue, counts, flushEvent, task, batch, logged, target,
                 accepted, history, faults>>

Drained(l) ==
  /\ MayRun(l) /\ LoopFree
  /\ flush >= target[l]
  /\ LoggerGoes(l, "waiting", "returned")
  /\ UNCHANGED <<enabled, queue, counts, flushEvent, task, batch, logged, target,
                 accepted, history, faults>>

WaitTimesOut(l) ==
  /\ MayRun(l) /\ LoopFree
  /\ LoggerGoes(l, "waiting", "timedOut")
  /\ UNCHANGED <<enabled, queue, counts, flushEvent, task, batch, logged, target,
                 accepted, history, faults>>

-----------------------------------------------------------------------------
(* The flushing task *)

TaskGoes(from, to) == LoopFree /\ task = from /\ task' = to

StartTask ==
  /\ TaskGoes("none", "waiting")
  /\ UNCHANGED <<enabled, queue, counts, flushEvent, batch, calls, history, faults>>

(* The event is set, or FLUSH_INTERVAL is over. *)
WakeUp ==
  /\ TaskGoes("waiting", "taking")
  /\ flushEvent' = FALSE
  /\ UNCHANGED <<enabled, queue, counts, batch, calls, history, faults>>

(* Mutant: the newest events are taken. *)
TakeNewest ==
  /\ TaskGoes("taking", "sending")
  /\ queue # <<>>
  /\ LET n == IF MaxBatchSize < Len(queue) THEN MaxBatchSize ELSE Len(queue) IN
       /\ batch' = SubSeq(queue, Len(queue) - n + 1, Len(queue))
       /\ queue' = SubSeq(queue, 1, Len(queue) - n)
  /\ UNCHANGED <<enabled, counts, flushEvent, calls, history, faults>>

TakeBatch ==
  /\ TaskGoes("taking", "sending")
  /\ queue # <<>>
  /\ LET n == IF MaxBatchSize < Len(queue) THEN MaxBatchSize ELSE Len(queue) IN
       /\ batch' = SubSeq(queue, 1, n)
       /\ queue' = SubSeq(queue, n + 1, Len(queue))
  /\ UNCHANGED <<enabled, counts, flushEvent, calls, history, faults>>

QueueEmpty ==
  /\ queue = <<>>
  /\ TaskGoes("taking", IF enabled THEN "waiting" ELSE "ended")
  /\ UNCHANGED <<enabled, queue, counts, flushEvent, batch, calls, history, faults>>

(* The finally of _flush counts the batch, whatever came of it. *)
CountBatch == flush' = flush + Len(batch) /\ batch' = <<>>

SendOk ==
  /\ TaskGoes("sending", "taking")
  /\ arrived' = Append(arrived, batch)
  /\ CountBatch
  /\ UNCHANGED <<enabled, queue, push, flushEvent, calls, late, lost, faults>>

(* An APIError: an error status, a timeout, a connection that breaks. *)
SendFails ==
  /\ TaskGoes("sending", "backoff")
  /\ faults.errors < MaxErrors
  /\ faults' = [faults EXCEPT !.errors = @ + 1]
  /\ late' = late \union {batch}
  /\ UNCHANGED <<enabled, queue, counts, flushEvent, batch, calls, arrived, lost>>

ArrivesLate(b) ==
  /\ b \in late
  /\ arrived' = Append(arrived, b)
  /\ late' = late \ {b}
  /\ UNCHANGED <<enabled, queue, counts, flushEvent, task, batch, calls, lost, faults>>

SendAgain ==
  /\ TaskGoes("backoff", "sending")
  /\ UNCHANGED <<enabled, queue, counts, flushEvent, batch, calls, history, faults>>

(* The endpoint is not supported: _disable, in three steps that the threads *)
(* of the loggers can interleave with, and then the finally of _flush.      *)
Disable ==
  /\ TaskGoes("sending", "disabling")
  /\ faults.errors < MaxErrors
  /\ faults' = [faults EXCEPT !.errors = @ + 1]
  /\ enabled' = FALSE
  /\ UNCHANGED <<queue, counts, flushEvent, batch, calls, history>>

ClearQueue ==
  /\ TaskGoes("disabling", "cleared")
  /\ queue' = <<>>
  /\ lost' = TRUE
  /\ UNCHANGED <<enabled, counts, flushEvent, batch, calls, arrived, late, faults>>

(* Mutant: the counters are not reconciled. *)
SettleNothing ==
  /\ TaskGoes("cleared", "taking")
  /\ CountBatch
  /\ UNCHANGED <<enabled, queue, push, flushEvent, calls, history, faults>>

SettleCounters ==
  /\ TaskGoes("cleared", "taking")
  /\ flush' = push + Len(batch)
  /\ batch' = <<>>
  /\ UNCHANGED <<enabled, queue, push, flushEvent, calls, history, faults>>

(* Any other error ends the task. *)
SendRaises ==
  /\ TaskGoes("sending", "died")
  /\ faults.raises < MaxRaises
  /\ faults' = [faults EXCEPT !.raises = @ + 1]
  /\ lost' = TRUE
  /\ late' = late \union {batch}
  /\ CountBatch
  /\ UNCHANGED <<enabled, queue, push, flushEvent, calls, arrived>>

(* stop: the task is cancelled where it is suspended. *)
Stop ==
  /\ faults.stops < MaxStops
  /\ faults' = [faults EXCEPT !.stops = @ + 1]
  /\ LoopFree /\ task \in {"waiting", "sending", "backoff"}
  /\ task' = "ended"
  /\ lost' = (lost \/ batch # <<>>)
  /\ late' = IF task = "sending" THEN late \union {batch} ELSE late
  /\ CountBatch
  /\ flushEvent' = (flushEvent /\ task # "waiting")
  /\ UNCHANGED <<enabled, queue, push, calls, arrived>>

-----------------------------------------------------------------------------

LogStep(l) ==
  \/ CheckEnabled(l) \/ Enqueue(l) \/ CountPush(l) \/ TriggerFlush(l)
  \/ StartWaiting(l) \/ TakeTarget(l)

SendStep == SendOk \/ SendFails \/ Disable \/ SendRaises

TaskStep ==
  \/ StartTask \/ WakeUp \/ TakeBatch \/ QueueEmpty
  \/ SendStep \/ SendAgain \/ ClearQueue \/ SettleCounters

Next ==
  \/ \E l \in Loggers : LogStep(l) \/ Drained(l) \/ WaitTimesOut(l)
  \/ TaskStep
  \/ \E b \in late : ArrivesLate(b)
  \/ Stop

Spec == Init /\ [][Next]_vars

(* The loop runs its tasks, a request ends, and a thread that has begun a *)
(* call goes on.  Nobody has to time out or to close the holder.          *)
Fairness ==
  /\ WF_vars(TaskStep)
  /\ \A l \in Loggers :
       /\ WF_vars(logger[l] # "idle" /\ LogStep(l))
       /\ WF_vars(Drained(l))

FairSpec == Spec /\ Fairness

-----------------------------------------------------------------------------
(* Properties *)

TypeOK ==
  /\ enabled \in BOOLEAN
  /\ queue \in Seq(Nat) /\ Len(queue) <= MaxQueueSize
  /\ push \in Nat /\ flush \in Nat
  /\ flushEvent \in BOOLEAN
  /\ task \in {"none", "waiting", "taking", "sending", "backoff", "ended", "died"} \union OnLoop
  /\ batch \in Seq(Nat) /\ Len(batch) <= MaxBatchSize
  /\ logger \in [Loggers -> {"idle", "checked", "enqueued", "logged", "triggered",
                             "targeting", "waiting", "returned", "timedOut"}]
  /\ logged \in [Loggers -> BOOLEAN]
  /\ target \in [Loggers -> Nat]
  /\ accepted \in Seq(Loggers \union {SessionStart})
  /\ arrived \in Seq(Seq(Nat)) /\ late \subseteq Seq(Nat)
  /\ lost \in BOOLEAN

Before(s, t) == \A m \in Range(s), n \in Range(t) : m < n
Increasing(s) == \A i, j \in DOMAIN s : i < j => s[i] < s[j]
FirstArrival(j) == \A i \in 1 .. j - 1 : arrived[i] # arrived[j]

(* Unless events were given up, by disabling, stopping or a lost task, every *)
(* event that was enqueued has arrived, is being sent or is queued; and the  *)
(* batches arrive in the order in which their events were enqueued, but for  *)
(* repetitions: a batch is sent again when its answer was lost, and a request*)
(* may arrive after the one that repeats it.                                 *)
NothingLostOrReordered ==
  ~lost =>
    /\ \A n \in DOMAIN accepted :
         n \in Range(queue) \union Range(batch) \/ \E i \in DOMAIN arrived : n \in Range(arrived[i])
    /\ \A j \in DOMAIN arrived :
         /\ Increasing(arrived[j])
         /\ FirstArrival(j) => \A i \in 1 .. j - 1 : Before(arrived[i], arrived[j])

(* A fatal call never waits for a count that cannot be reached: what is      *)
(* missing is being sent or queued, although pushes are counted late and     *)
(* _disable throws queued events away.  Only the target that a call on       *)
(* another loop takes after _disable may be out of reach.                    *)
NobodyWaitsInVain ==
  \A l \in Fatal :
    logger[l] = "waiting" =>
      \/ task \in {"ended", "died"} \union OnLoop
      \/ l \in Foreign /\ ~enabled
      \/ target[l] <= flush + Len(batch) + Len(queue)

(* A fatal call whose wait runs on the loop returns, without its timeout, as *)
(* long as the task lives, even if telemetry is disabled meanwhile.          *)
FatalCallsReturn ==
  \A l \in Fatal \ Foreign :
    logger[l] = "waiting" ~> logger[l] # "waiting" \/ task \in {"ended", "died"}

(* The comment on the wait: "wait for the flush to complete".  A fatal call *)
(* that returns without a timeout has had its events sent, if nothing else  *)
(* went wrong.                                                              *)
DrainedMeansSent ==
  \A l \in Fatal :
    logger[l] = "returned" /\ logged[l] /\ ~lost =>
      \A n \in DOMAIN accepted :
        accepted[n] = l => \E i \in DOMAIN arrived : n \in Range(arrived[i])

=============================================================================
