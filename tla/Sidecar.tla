------------------------------- MODULE Sidecar -------------------------------
(***************************************************************************)
(* One SubprocessSidecar: the parent's submitting threads, the response    *)
(* collector thread, the subprocess with its event loop, and the shutdown. *)
(*                                                                         *)
(* A critical section of _pending_lock is one action; what a thread does   *)
(* after leaving it (putting into a queue, resolving a future) is another, *)
(* so other threads come in between.  A request stands for its request id, *)
(* which the lock makes unique.  One target is registered through the      *)
(* request Register, used by the requests in Rpcs, and unregistered when   *)
(* its handle is dropped, by the request Unregister.                       *)
(***************************************************************************)
EXTENDS Naturals, Sequences

CONSTANTS
  Rpcs,          \* RPCs submitted through the handle
  Register,      \* the _RegisterTargetRPC of register_target
  Unregister,    \* the _UnregisterTargetRPC of SidecarHandle.__del__
  None,
  MaxBadPayloads, \* bound: RPCs that cannot be pickled
  MaxSilent,      \* bound: RPCs whose execution is cancelled in the subprocess
  MaxUnread,      \* bound: responses that cannot be sent, or not be unpickled
  MaxBreaks       \* bound: errors of the response queue while the process runs

Requests == Rpcs \union {Register, Unregister}
Outcomes == {"result", "error"}
Responses == [of : Requests, outcome : Outcomes]
Payloads  == [of : Requests, outcome : Outcomes \union {"garbled"}]

ASSUME SidecarAssumption ==
  /\ Register \notin Rpcs /\ Unregister \notin Rpcs /\ Register # Unregister
  /\ None \notin Requests \union Payloads
  /\ {MaxBadPayloads, MaxSilent, MaxUnread, MaxBreaks} \subseteq Nat

VARIABLES
  alive,      \* is the subprocess running?
  ready,      \* what wait_ready says to the thread that starts the sidecar
  closed,     \* has _shutdown closed the queues?
  requestQ,   \* payloads in request_queue, in the order they were put
  responseQ,  \* payloads in response_queue: a request and its outcome
  executing,  \* requests with a running task in the subprocess
  registered, \* is the target in _targets?
  missed,     \* history: RPCs that were told that their target is not registered
  pending,    \* requests with an entry in _pending_futures
  future,     \* state of each request's ConcurrentFuture
  submit,     \* where each _submit_rpc call is
  collector,  \* where the collector thread is
  popped,     \* the response whose future the collector is about to resolve
  failing,    \* futures collected to be failed, by the collector and by _shutdown
  shutdown,   \* where _shutdown is
  handle,     \* the SidecarHandle of the target
  faults      \* how much of the bounds is used up

vars == <<alive, ready, closed, requestQ, responseQ, executing, registered, missed,
          pending, future, submit, collector, popped, failing, shutdown, handle, faults>>

process == <<alive, requestQ, responseQ, executing, registered, missed>>
threads == <<submit, collector, popped, failing, shutdown>>
owner   == <<ready, closed>>

FutureStates == {"none", "pending", "result", "error", "cancelled"}
SubmitStates == {"idle", "registered", "failed", "unsettled", "returned", "refused", "raised"}
CollectorStates == {"startup", "loop", "resolve", "drain", "drainResolve", "failAll",
                    "failing", "ended"}
ShutdownStates == {"no", "killed", "collected", "done"}
HandleStates == {"none", "registering", "live", "dropped"}

Init ==
  /\ alive = TRUE
  /\ ready = "waiting"
  /\ closed = FALSE
  /\ requestQ = <<>>
  /\ responseQ = <<>>
  /\ executing = {}
  /\ registered = FALSE
  /\ missed = {}
  /\ pending = {}
  /\ future = [r \in Requests |-> "none"]
  /\ submit = [r \in Requests |-> "idle"]
  /\ collector = "startup"
  /\ popped = None
  /\ failing = [t \in {"collector", "shutdown"} |-> {}]
  /\ shutdown = "no"
  /\ handle = "none"
  /\ faults = [badPayloads |-> 0, silent |-> 0, unread |-> 0, breaks |-> 0]

(* set_result, set_exception and cancel leave a settled future alone. *)
Settle(r, outcome) ==
  future' = [future EXCEPT ![r] = IF @ = "pending" THEN outcome ELSE @]

-----------------------------------------------------------------------------
(***************************************************************************)
(* _submit_rpc                                                             *)
(***************************************************************************)

InSubmit == {r \in Requests : submit[r] \in {"registered", "failed", "unsettled"}}

(* Mutant: no check that the process is running. *)
EnterPendingUnchecked(r) ==
  /\ submit[r] = "idle"
  /\ ready = "up"
  /\ pending' = pending \union {r}
  /\ future' = [future EXCEPT ![r] = "pending"]
  /\ submit' = [submit EXCEPT ![r] = "registered"]

(* Under the lock: refused if the process is not running, else numbered and *)
(* entered into _pending_futures.  Callers get a sidecar that has started.  *)
EnterPending(r) ==
  /\ submit[r] = "idle"
  /\ ready = "up"
  /\ \/ /\ alive
        /\ pending' = pending \union {r}
        /\ future' = [future EXCEPT ![r] = "pending"]
        /\ submit' = [submit EXCEPT ![r] = "registered"]
     \/ /\ ~alive
        /\ submit' = [submit EXCEPT ![r] = "refused"]
        /\ UNCHANGED <<pending, future>>

(* register_target, from the one caller that creates the handle *)
SubmitRegister ==
  /\ handle = "none"
  /\ EnterPending(Register)
  /\ handle' = "registering"
  /\ UNCHANGED <<process, owner, collector, popped, failing, shutdown, faults>>

(* Mutant: the handle is returned before the registration is confirmed. *)
GetHandleEarly ==
  /\ handle = "registering"
  /\ submit[Register] = "returned"
  /\ handle' = "live"
  /\ UNCHANGED <<process, owner, threads, pending, future, faults>>

(* register_target returns the handle when its future has a result. *)
GetHandle ==
  /\ handle = "registering"
  /\ submit[Register] = "returned"
  /\ future[Register] = "result"
  /\ handle' = "live"
  /\ UNCHANGED <<process, owner, threads, pending, future, faults>>

SubmitRpc(r) ==
  /\ r \in Rpcs
  /\ handle = "live"
  /\ EnterPending(r)
  /\ UNCHANGED <<process, owner, collector, popped, failing, shutdown, handle, faults>>

(* The handle is collected once no call of submit_rpc uses it. *)
DropHandle ==
  /\ handle = "live"
  /\ InSubmit = {}
  /\ EnterPending(Unregister)
  /\ handle' = "dropped"
  /\ UNCHANGED <<process, owner, collector, popped, failing, shutdown, faults>>

(* request_queue.put: the process may have died, and then nobody reads it. *)
Put(r) ==
  /\ submit[r] = "registered"
  /\ ~closed
  /\ requestQ' = Append(requestQ, r)
  /\ submit' = [submit EXCEPT ![r] = "returned"]
  /\ UNCHANGED <<alive, responseQ, executing, registered, missed, owner, pending,
                 future, collector, popped, failing, shutdown, handle, faults>>

(* The RPC cannot be pickled, or the queue was closed: the entry is taken *)
(* back under the lock.                                                   *)
PutFails(r) ==
  /\ submit[r] = "registered"
  /\ \/ closed /\ UNCHANGED faults
     \/ /\ faults.badPayloads < MaxBadPayloads
        /\ faults' = [faults EXCEPT !.badPayloads = @ + 1]
  /\ pending' = pending \ {r}
  /\ submit' = [submit EXCEPT ![r] = "failed"]
  /\ UNCHANGED <<process, owner, future, collector, popped, failing, shutdown, handle>>

(* `if not future.done()` ... *)
CheckDone(r) ==
  /\ submit[r] = "failed"
  /\ submit' = [submit EXCEPT ![r] = IF future[r] = "pending" THEN "unsettled" ELSE "returned"]
  /\ UNCHANGED <<process, owner, pending, future, collector, popped, failing, shutdown,
                 handle, faults>>

(* ... `future.set_exception`, which raises out of _submit_rpc when the *)
(* future was settled in between.                                       *)
SetIpcError(r) ==
  /\ submit[r] = "unsettled"
  /\ Settle(r, "error")
  /\ submit' = [submit EXCEPT ![r] = IF future[r] = "pending" THEN "returned" ELSE "raised"]
  /\ UNCHANGED <<process, owner, pending, collector, popped, failing, shutdown, handle, faults>>

(* The caller cancels the future it was given. *)
CancelFuture(r) ==
  /\ r \in Rpcs
  /\ submit[r] = "returned"
  /\ future[r] = "pending"
  /\ Settle(r, "cancelled")
  /\ UNCHANGED <<process, owner, threads, pending, handle, faults>>

-----------------------------------------------------------------------------
(***************************************************************************)
(* The subprocess.  Tasks are created in the order of the queue and look   *)
(* their target up in their first step; they finish in any order.          *)
(***************************************************************************)

Take ==
  /\ alive
  /\ requestQ # <<>>
  /\ requestQ' = Tail(requestQ)
  /\ LET r == Head(requestQ) IN
       /\ executing' = executing \union {r}
       /\ \/ r = Register /\ registered' \in BOOLEAN  \* can it be unpickled?
          \/ r = Unregister /\ registered' = FALSE
          \/ r \in Rpcs /\ UNCHANGED registered
       /\ missed' = IF r \in Rpcs /\ ~registered THEN missed \union {r} ELSE missed
  /\ UNCHANGED <<alive, responseQ, owner, pending, future, threads, handle, faults>>

RespondWith(r, outcome) ==
  /\ alive
  /\ r \in executing
  /\ executing' = executing \ {r}
  /\ responseQ' = Append(responseQ, [of |-> r, outcome |-> outcome])
  /\ UNCHANGED <<alive, requestQ, registered, missed, owner, pending, future, threads, handle>>

(* The result, or the exception, of execute.  One that cannot be pickled is *)
(* replaced by an error.                                                    *)
Respond(r) ==
  /\ \E outcome \in Outcomes :
       /\ r \in missed => outcome = "error"
       /\ r = Register => (outcome = "result" <=> registered)
       /\ r = Unregister => outcome = "result"
       /\ RespondWith(r, outcome)
  /\ UNCHANGED faults

Unread == faults.unread < MaxUnread /\ faults' = [faults EXCEPT !.unread = @ + 1]

(* A result or an exception of the user's code that can be pickled here but *)
(* not be unpickled in the parent.                                          *)
RespondGarbled(r) ==
  /\ Unread
  /\ r \in Rpcs \ missed \/ (r = Register /\ ~registered)
  /\ RespondWith(r, "garbled")

EndsWithoutResponse(r) ==
  /\ alive
  /\ r \in executing
  /\ executing' = executing \ {r}
  /\ UNCHANGED <<alive, requestQ, responseQ, registered, missed, owner, pending, future,
                 threads, handle>>

(* The queue takes no response: _put_response gives up. *)
ResponseIsLost(r) == Unread /\ EndsWithoutResponse(r)

(* The awaited future of execute is cancelled: CancelledError is not an     *)
(* Exception, so _handle_request ends without a response.                   *)
EndsSilently(r) ==
  /\ r \in Rpcs
  /\ faults.silent < MaxSilent
  /\ faults' = [faults EXCEPT !.silent = @ + 1]
  /\ EndsWithoutResponse(r)

(* The process ends: what it had not written to the pipe is lost. *)
Dies ==
  /\ alive' = FALSE
  /\ executing' = {}
  /\ requestQ' = <<>>
  /\ \E n \in 0 .. Len(responseQ) : responseQ' = SubSeq(responseQ, 1, n)
  /\ UNCHANGED <<registered, missed>>

Crash ==
  /\ alive
  /\ Dies
  /\ UNCHANGED <<owner, pending, future, threads, handle, faults>>

-----------------------------------------------------------------------------
(***************************************************************************)
(* The collector thread                                                    *)
(***************************************************************************)

CollectorGoes(from, to) == collector = from /\ collector' = to

(* The handshake; _ready is set whatever came of it. *)
StartupOk ==
  /\ alive
  /\ CollectorGoes("startup", "loop")
  /\ ready' = "up"
  /\ UNCHANGED <<process, closed, pending, future, submit, popped, failing, shutdown,
                 handle, faults>>

(* The process died, said something unexpected, or took too long. *)
StartupFails ==
  /\ CollectorGoes("startup", "failAll")
  /\ ready' = "failed"
  /\ UNCHANGED <<process, closed, pending, future, submit, popped, failing, shutdown,
                 handle, faults>>

(* A response: its future is taken out under the lock and resolved after. *)
(* One that cannot be unpickled is skipped, and its future stays.         *)
Receive(from, to) ==
  /\ ~closed
  /\ responseQ # <<>>
  /\ responseQ' = Tail(responseQ)
  /\ LET response == Head(responseQ) IN
       \/ /\ response.of \in pending /\ response.outcome # "garbled"
          /\ CollectorGoes(from, to)
          /\ pending' = pending \ {response.of}
          /\ popped' = response
       \/ /\ response.of \notin pending \/ response.outcome = "garbled"
          /\ CollectorGoes(from, from)
          /\ UNCHANGED <<pending, popped>>
  /\ UNCHANGED <<alive, requestQ, executing, registered, missed, owner, future, submit,
                 failing, shutdown, handle, faults>>

SetResult(from, to) ==
  /\ CollectorGoes(from, to)
  /\ Settle(popped.of, popped.outcome)
  /\ popped' = None
  /\ UNCHANGED <<process, owner, pending, submit, failing, shutdown, handle, faults>>

(* The loop ends when the process is dead, or the queue closed or broken. *)
LeaveLoop ==
  /\ CollectorGoes("loop", "drain")
  /\ \/ (~alive \/ closed) /\ UNCHANGED faults
     \/ /\ alive
        /\ faults.breaks < MaxBreaks
        /\ faults' = [faults EXCEPT !.breaks = @ + 1]
  /\ UNCHANGED <<process, owner, pending, future, submit, popped, failing, shutdown, handle>>

(* Mutant: the collector ends without failing what is pending. *)
LeaveDrainAndEnd ==
  /\ CollectorGoes("drain", "ended")
  /\ responseQ = <<>> \/ closed
  /\ UNCHANGED <<process, owner, pending, future, submit, popped, failing, shutdown,
                 handle, faults>>

LeaveDrain ==
  /\ CollectorGoes("drain", "failAll")
  /\ responseQ = <<>> \/ closed
  /\ UNCHANGED <<process, owner, pending, future, submit, popped, failing, shutdown,
                 handle, faults>>

(* _fail_all_pending: collect under the lock, fail outside of it. *)
CollectPending ==
  /\ CollectorGoes("failAll", "failing")
  /\ failing' = [failing EXCEPT !["collector"] = pending]
  /\ pending' = {}
  /\ UNCHANGED <<process, owner, future, submit, popped, shutdown, handle, faults>>

FailOne(t, r) ==
  /\ r \in failing[t]
  /\ failing' = [failing EXCEPT ![t] = @ \ {r}]
  /\ Settle(r, "error")
  /\ UNCHANGED <<process, owner, pending, submit, collector, popped, shutdown, handle, faults>>

CollectorEnds ==
  /\ CollectorGoes("failing", "ended")
  /\ failing["collector"] = {}
  /\ UNCHANGED <<process, owner, pending, future, submit, popped, failing, shutdown,
                 handle, faults>>

-----------------------------------------------------------------------------
(***************************************************************************)
(* _shutdown, called when startup failed, when _get_sidecar replaces a     *)
(* dead sidecar, or when nobody refers to the sidecar any more.            *)
(***************************************************************************)

(* The references to process and queues are cleared right after, which      *)
(* nobody can tell: a submission is refused once the process is dead.       *)
Kill ==
  /\ shutdown = "no"
  /\ \/ ready = "failed"
     \/ ready = "up" /\ ~alive
     \/ handle = "dropped" /\ InSubmit = {}
  /\ shutdown' = "killed"
  /\ \/ alive /\ Dies
     \/ ~alive /\ UNCHANGED process
  /\ UNCHANGED <<owner, pending, future, submit, collector, popped, failing, handle, faults>>

(* Mutant: the futures are cleared before they are listed. *)
CollectAfterClearing ==
  /\ shutdown = "killed"
  /\ shutdown' = "collected"
  /\ pending' = {}
  /\ UNCHANGED <<process, owner, future, submit, collector, popped, failing, handle, faults>>

CollectOnShutdown ==
  /\ shutdown = "killed"
  /\ shutdown' = "collected"
  /\ failing' = [failing EXCEPT !["shutdown"] = pending]
  /\ pending' = {}
  /\ UNCHANGED <<process, owner, future, submit, collector, popped, handle, faults>>

CloseQueues ==
  /\ shutdown = "collected"
  /\ failing["shutdown"] = {}
  /\ shutdown' = "done"
  /\ closed' = TRUE
  /\ UNCHANGED <<process, ready, pending, future, submit, collector, popped, failing,
                 handle, faults>>

-----------------------------------------------------------------------------

SubmitStep(r) == Put(r) \/ PutFails(r) \/ CheckDone(r) \/ SetIpcError(r)

CollectorStep ==
  \/ StartupOk
  \/ StartupFails
  \/ Receive("loop", "resolve")
  \/ SetResult("resolve", "loop")
  \/ LeaveLoop
  \/ Receive("drain", "drainResolve")
  \/ SetResult("drainResolve", "drain")
  \/ LeaveDrain
  \/ CollectPending
  \/ CollectorEnds
  \/ \E r \in Requests : FailOne("collector", r)

Answers(r) == Respond(r) \/ RespondGarbled(r) \/ ResponseIsLost(r) \/ EndsSilently(r)

ShutdownStep ==
  \/ CollectOnShutdown
  \/ CloseQueues
  \/ \E r \in Requests : FailOne("shutdown", r)

Next ==
  \/ SubmitRegister
  \/ GetHandle
  \/ DropHandle
  \/ \E r \in Requests :
       \/ SubmitRpc(r)
       \/ SubmitStep(r)
       \/ CancelFuture(r)
       \/ Answers(r)
  \/ Take
  \/ Crash
  \/ CollectorStep
  \/ Kill
  \/ ShutdownStep

Spec == Init /\ [][Next]_vars

(* Threads of the parent run, and the subprocess runs, executes and answers *)
(* as long as it is alive.  Nobody has to submit, cancel, drop the handle   *)
(* or shut the sidecar down, and the process need not die.                  *)
Fairness ==
  /\ \A r \in Requests :
       /\ WF_vars(SubmitStep(r))
       /\ WF_vars(Answers(r))
  /\ WF_vars(Take)
  /\ WF_vars(CollectorStep)
  /\ WF_vars(ShutdownStep)

FairSpec == Spec /\ Fairness

-----------------------------------------------------------------------------
(***************************************************************************)
(* Properties                                                              *)
(***************************************************************************)

TypeOK ==
  /\ alive \in BOOLEAN
  /\ ready \in {"waiting", "up", "failed"}
  /\ closed \in BOOLEAN
  /\ requestQ \in Seq(Requests)
  /\ responseQ \in Seq(Payloads)
  /\ executing \in SUBSET Requests
  /\ registered \in BOOLEAN
  /\ missed \in SUBSET Rpcs
  /\ pending \in SUBSET Requests
  /\ future \in [Requests -> FutureStates]
  /\ submit \in [Requests -> SubmitStates]
  /\ collector \in CollectorStates
  /\ popped \in Responses \union {None}
  /\ failing \in [{"collector", "shutdown"} -> SUBSET Requests]
  /\ shutdown \in ShutdownStates
  /\ handle \in HandleStates
  /\ faults \in [badPayloads : Nat, silent : Nat, unread : Nat, breaks : Nat]

(* No future is lost: one that is not settled is still in _pending_futures, *)
(* or in the hands of a thread that is about to settle it.                  *)
NoFutureLost ==
  \A r \in Requests :
    future[r] = "pending" =>
      \/ r \in pending
      \/ popped # None /\ popped.of = r
      \/ r \in failing["collector"] \union failing["shutdown"]
      \/ submit[r] \in {"failed", "unsettled"}

(* After the collector has failed what was pending, nothing is entered any   *)
(* more that nobody would settle: the is_alive check is made under the lock. *)
(* (It leaves its loop while the process runs only if the queue broke.)      *)
NothingPendingAfterTheEnd ==
  collector \in {"failing", "ended"} /\ faults.breaks = 0 => pending = {}

(* An RPC of a live handle finds its target: registration comes before the  *)
(* handle, and the unregistration is behind every RPC in the queue.         *)
LiveHandleFindsTarget == missed = {}

(* Every future is settled in the end, whatever dies. *)
EveryFutureSettles ==
  \A r \in Requests : future[r] = "pending" ~> future[r] # "pending"

(* A future is left unsettled only by an execution that was cancelled in the *)
(* subprocess, by a response that could not be sent or unpickled, or by a    *)
(* broken queue; and once the process has died or was shut down, only by a   *)
(* broken queue.                                                             *)
OnlySilenceLeavesPending ==
  \A r \in Requests :
    <>[](future[r] = "pending") =>
      <>[](faults.breaks > 0 \/ (alive /\ (faults.silent > 0 \/ faults.unread > 0)))

(* _submit_rpc guards its set_exception: "a concurrent shutdown() may have  *)
(* already resolved this future".                                           *)
SubmitNeverRaisesInvalidState ==
  \A r \in Requests : submit[r] # "raised"

=============================================================================
