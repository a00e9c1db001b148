# Verification of the cybernetics SDK

`cybernetics` is a client SDK: user threads call training, sampling, simulation
and evaluation methods, and a background event loop talks to the server; the
command `cybernetic` offers part of it on the command line. The hard part is
what lies between a caller and the service: requests that must keep an order
although threads and coroutines race, limiters that requests pass and may be
cancelled in, two layers that repeat a request whose answer may only have been
lost, tasks that poll, flush, watch or collect in the background, a subprocess
that may die, and programs that may be killed between two writes. This project
models that part in TLA+, checks it with TLC on small instances, and proves the
invariants of the core with TLAPS.

Paths below are relative to `src/src/cybernetics/` (the repository's
`src/cybernetics/`).

- [1. The system](#1-the-system): components, state, operations, hazards
- [2. Modules](#2-modules): what models what, and how it corresponds to the code
- [3. Runs](#3-runs): what is checked, within which bounds, under which fairness
- [4. Findings](#4-findings)
- [5. Proofs](#5-proofs)
- [6. What is not modelled](#6-what-is-not-modelled)
- [7. Plan](#7-plan)

## 1. The system

### 1.1 Threads, loops, processes

| Actor | Runs | Meets the others at |
|---|---|---|
| user threads | synchronous methods, `result()`, `submit_rpc`, logging | locks of the client, the sidecar and the telemetry; `run_coroutine_threadsafe` |
| the holder's event loop (one daemon thread) | all requests, polls, limiters, heartbeats, the telemetry task | `asyncio` conditions and semaphores, plain attributes between awaits |
| loops of the user | the `_async` methods | the same objects, without a lock where the code assumes its own loop |
| the collector thread of a sidecar | the responses of the subprocess | `_pending_lock`, the futures |
| the subprocess | its own event loop with one task per RPC | two multiprocessing queues |
| the server | answers, rejects, times out, announces limits | HTTP only |
| processes of the command line | one command each | the credentials file, the output directories, the service |
| other users, editors | change the service and the files | meanwhile |

### 1.2 Components

**TrainingClient** (`lib/public_interfaces/training_client.py`). State:
`_request_id_counter` under a lock, `_turn_counter` and `_turn_waiters` on the
loop. Each method reserves an id per request, `forward` and `forward_backward`
one per chunk of the data, and `_take_turn` lets the requests go out one at a
time in the order of the ids. Hard: ids of several calls interleave; retries
happen inside the turn; a request may fail, and a call may be cancelled, at any
await. Correct if: one dispatch at a time, in order; no id or wakeup is lost;
whoever waits gets its turn. **Custom losses** are a forward pass, a function of
the user and a backward pass; correct if the gradients belong to the weights
that the flow knows of.

**Result polling** (`lib/api_future_impl.py`). State: one task per future, the
`allow_metadata_only` flag and the count of 400s in it; the shared budget of
response bytes. Hard: every way out must give the bytes back once; the first
error of a combined future leaves polls behind that hold bytes. Correct if: the
budget is exact, and every poll and every caller ends.

**BytesSemaphore, CountLimiter** (`lib/internal_client_holder.py`). State: a
counter and a condition. Hard: woken waiters compete with newcomers, waiters
with different limits share a condition, cancellation hits between wakeup and
entry. Correct if: counters equal what is inside, and nobody waits in front of
room.

**Sampling** (`lib/public_interfaces/sampling_client.py`,
`InternalClientHolder.sample_request_rate_limit` and below). State: the limits
derived from the server's capabilities, four gates and a byte budget; the local
and the shared backoff time and the streak; the request ids of a client and of
its copies; the future that proves the applied noise. A request passes the gates
on an exit stack and keeps all its places until its result is there. Correct if:
the server's recommendation is kept, a paused queue is remembered, holding some
places while waiting for the next never blocks everybody, and no unproven result
is handed out.

**RetryHandler** (`lib/retry_handler.py`). State: a semaphore, two counters, the
time of the last progress, a watchdog per request. Hard: the deadline is shared
and renewed by others, attempts may hang, cancellations of the watchdog and of
the caller race. Correct if: the counters are those of the requests, watchdogs
wake in time, and every request ends.

**Holders and sessions** (`lib/internal_client_holder.py`,
`lib/public_interfaces/service_client.py`). State: the loop thread, the cache of
shadow holders, heartbeats, the numbers of models. Hard: first looks without a
lock, a lock kept over a construction that waits for the loop. Correct if: one
loop, one shadow per session, models as they were asked for.

**Requests** (`_base_client.py`, `resources/`, `ClientConnectionPool`,
`execute_with_retries`). State: the retries and the idempotency key of a request,
the clients of a pool with their reference counts, one budget of connection
retries. Hard: repetitions nest, answers are lost after the service acted, a
client is replaced under its users. Correct if: the service acts at most once
per attempt, no client is overloaded, every call ends.

**Responses and streams** (`_response.py`, `_streaming.py`). State: what of a
body was read, the open connection, the buffer of the event decoder. Hard:
bodies end anywhere, streams are left half-read. Correct if: nothing is parsed
from part of a body, connections are given back, events do not depend on pieces.

**Sidecar** (`lib/sidecar.py`). State: the process, two queues,
`_pending_futures` under a lock, the registered targets, the collector thread.
Hard: the process dies between any two steps; submitters, collector and shutdown
settle the same futures; a response may be lost or not be readable. Correct if: no
future is lost, an RPC finds its target, and after a death everything is settled.

**Telemetry** (`lib/telemetry.py`). State: the queue and two counters, each
under its own lock, the `_enabled` flag under none, the flushing task. Hard:
queueing and counting are two steps; the task may be disabled, die or be
stopped in between; a batch is sent again when only its answer was lost; a fatal
call waits for a count. Correct if: every event arrives, in order but for
repetitions, and no wait is for a count that cannot come.

**REST client and checkpoint commands** (`rest_client.py`,
`cli/commands/checkpoint.py`, `run.py`). State: pages fetched, the report of a
deletion, the target directory. Hard: other users change the service between
pages and requests; an error may mean that the service acted. Correct if: what
a command reports is true.

**Credentials** (`lib/credentials.py`, `cli/commands/auth.py`, `doctor.py`).
State: one file, shared by processes that may be killed, and read twice by most
of them. Correct if: the file is always whole, doctor looks where a client looks,
and a process works with the key and the base URL of one login unless the file
changed between its reads.

**Simulation client** (`sim/client.py`, `sim/mcp.py`, `sim/packaging.py`,
`cli/commands/splat.py`). State: environments, sessions, keys and jobs at the
service, temporary bundles, tracked keys. Hard: each request may fail before or
after its effect, stops are verified by a second request, revocations may fail,
files change while they are packaged. Correct if: what was started is stopped or
tracked, a bundle is what its manifest says, waits end.

**Behaviour CI** (`behavior_ci/`). State: the hosted session, trials, replays,
the bundle directory, task locks. Hard: a request that creates a session is
repeated, any step may fail, the process may be killed, the files of a task
change after they were verified, and a lock may lack what is loaded. Correct if: a
printed verdict comes with a bundle of its own run, a known session is stopped, a
task is loaded as it was locked.

**Robotics artifacts** (`robotics/`). State: the files of an episode, and the
artifacts made of them and of each other: run records, datasets, policies,
requests for evaluations. Hard: a record only names the path of its rollout,
which a later episode may replace or leave torn; the hash of the task and its
spaces reach a policy by different ways. Correct if: what an artifact says of
its origin is true.

**Robot templates, types, renderers, helpers**: section 6.

### 1.3 How the components interact

A custom loss issues training requests. A training call takes its turn, sends
(TrainingTurns), and gets a future whose poll acquires response bytes
(ResultPolling over ByteBudget). A sampling call gets its id (SamplingCalls),
enters the retry handler (RetryHandler), passes the gates and the dispatch bytes
(SampleDispatch over CountLimiter and ByteBudget), is backed off
(SampleBackoff), and then polls in the same way. Every request takes a client
from the pool and is repeated by two layers (Requests over Endpoints), and its
answer is read or streamed (Responses, SseDecoder). All of this runs on the loop
of a holder (Holders); failures are logged to Telemetry; the sidecar runs the
same code in a subprocess and sends only results back. The commands use the REST
client, the simulation client or the behaviour runner, and find the service with
the stored login.

The layers take from each other only an answer or an error, and each model
leaves open what the next layer answers. `Client` and `CommandLine` therefore
compose by choice: a behaviour is about one layer or one group of commands, the
others stay in an initial state. Where components share state (gates and bytes,
polls and bytes) the modules are composed for real.

## 2. Modules

| Module | Models | Rests on |
|---|---|---|
| `OrderedDispatch` | abstract: numbered requests, dispatched one at a time, in order | |
| `TrainingTurns` | `TrainingClient`: ids, turns, dispatch | refines `OrderedDispatch` |
| `ConcurrentCalls` | only declares the calls that meet at the limiters | |
| `ByteBudget` | `BytesSemaphore` | `ConcurrentCalls` |
| `CountLimiter` | `CountLimiter`, the gates of one holder | `ConcurrentCalls` |
| `ResultPolling` | `_APIFuture`, `_CombinedAPIFuture` | instance of and refines `ByteBudget` |
| `SampleDispatch` | the limits and gates of sampling requests | extends `CountLimiter`, `ByteBudget` |
| `Sidecar` | `SubprocessSidecar`, `SidecarHandle`, `_ResponseCollector`, the worker | |
| `Telemetry` | `Telemetry` | |
| `Holders` | loop thread, shadow holders, sessions, heartbeats, creation of models | |
| `CustomLoss` | `forward_backward_custom`, both versions | its requests are ordered as in `TrainingTurns` |
| `SamplingCalls` | the calls of a `SamplingClient` and of its copies | |
| `SampleBackoff` | backoff times of several holders, with a clock | |
| `RetryHandler` | `RetryHandler`, with a clock | |
| `Endpoints` | the table of endpoints | |
| `Requests` | `AsyncAPIClient.request`, `ClientConnectionPool`, `execute_with_retries` | `Endpoints` |
| `Responses` | one response in the hands of its consumer | |
| `SseDecoder` | `SSEDecoder` | |
| `Client` | composes the eight above | |
| `RestClient` | the operations of `RestClient`, as steps on a service | |
| `CheckpointCommands` | `checkpoint ...` and `run ...` | extends `RestClient` |
| `Credentials` | the stored login, `auth ...`, `doctor` | |
| `SimSessions` | import, launch, render, wait, stop | |
| `ScopedKeys` | session-scoped keys, their clients and their revocation | |
| `SplatJobs` | `splat ...` | |
| `Packaging` | `package_asset`, the two `.ply` parsers | |
| `HostedSession` | the adapter of a hosted simulator session | |
| `BehaviorRun` | `behavior-ci run` | extends `HostedSession` |
| `TaskKit` | `lock-task` and `verify-task` | |
| `RobotArtifacts` | episodes, datasets, policies and evaluations of `robotics/` | |
| `CommandLine` | composes the groups of commands | |
| `MCResultPolling`, `MCSampleDispatch`, `MCClient` | definitions for TLC | extend the module of the name |
| `TrainingTurnsProofs`, `ResultPollingProofs`, `SampleDispatchProofs`, `SidecarProofs`, `TelemetryProofs`, `ClientProofs`, `CommandLineProofs` | the theorems about the module of the same name and about what it composes, and their proofs | extends that module |
| `SumTheorems` | facts about least members, sums and counts that the proofs share | |

`PROJECT.json` maps each definition to its lines. The conventions:

- **Steps.** On the loop, a step ends where the code may be suspended. A thread's
  step ends at each lock it takes or leaves and at each unlocked access of
  something shared. `asyncio.Condition` locks that are never held across a
  suspension are one action with what they protect. A command is one thread; its
  steps end at each request, and at each write where something could interfere.
- **Cancellation** is an action at every await, and does what the `finally`
  clauses and exit stacks do.
- **Time** is left out where only its order matters: a timeout or the end of a
  sleep may come at any moment. `SampleBackoff` and `RetryHandler` have clocks,
  because what they promise is about durations: times are kept relative to now
  and no further than anyone looks back, so that they stay small, and a tick is
  not taken past a deadline that the loop has to serve.
- **Requests** of the simulation client, the REST client and the behaviour
  adapter may be refused, may fail before the service acts, or after. What the
  service does in between is an action of its own.
- **Changes of the code.** A definition whose comment begins with "A change of
  the code" or "Mutant" is a plausible bug, used to show that a property depends
  on the code it is about. It is not part of the specification.

### 2.1 TrainingTurns

`counter`, `turn`, `waiters`, `fired` are the client's `_request_id_counter`,
`_turn_counter`, `_turn_waiters` and the set events among them; `queued` is what
is left of a coroutine's list of (id, chunk) pairs. The synchronous methods
reserve in their thread (`CallSync`, `ReserveId`, `Post`) and the async ones on
the loop in one go (`StartReserving`, `LoopFree`). `Continue` is what a
coroutine does until it suspends: ask for the next turn, and take it or register
an event. `Release` is the outer `finally` of `_take_turn`. `SendOk` does both,
because the loop over the chunks does not suspend between them. `Cancel` is
split by where the coroutine is suspended.

### 2.2 ByteBudget, CountLimiter

Both model `acquire` as enter-or-wait (`TryEnter`, `TryPass`), the woken
waiter's second look, the exit and the cancelled wait. In `BytesSemaphore` the
exit gives the bytes back at once and wakes the others from a separate task
(`releasing`); entry needs a budget that is not overdrawn, not one that is large
enough. In `CountLimiter` each call brings the limit it has read, and the exit
wakes everybody. `LeaveGates` takes a call out of all gates, as the exit stack
does.

### 2.3 ResultPolling

`poll` is the state of each future's task. `StillWaiting`, `ServerError`,
`BadRequest` and `ConnectionError` ask again, `Metadata` acquires the announced
size through `ByteBudget`, and `Answer`, `Fail` and `Stop` end the task and
unwind its exit stack. `result` gives up the wait and leaves the poll;
`result_async` cancels it. `GetError` is the first error that `gather` passes
on.

### 2.4 SampleDispatch, SampleBackoff

In `SampleDispatch` the limits are operators with the names of the code's
(`DispatchLimit`, `OutstandingLimit`, `ThrottledLimit`). They are fetched under
an asyncio lock, and a forced refresh unsets them while requests are inside. A
call may wait out a coalescing window, and then goes through `resolving`, the
gates `outstanding`, `count`, `profile`, `throttled`, the bytes, sending and
polling. What the server reports as pending, and whether there was a backoff
recently, is open here: the throttled gate may be skipped or passed with any of
the limits that a streak of backoffs gives. The dispatch semaphore and the
dispatch bytes are modelled for one holder.

`SampleBackoff` adds the times. `localUntil` and `sharedUntil` are the two
backoff times, `streak` the count of rejections that lie close together, and
`sinceAsked` is a history variable. `RejectSample` is a 429 in the loop that
sends a sample, which raises the local time only; `NoteActive` and `NotePaused`
are the queue states that a poll reports. `Backoff` is the getter, which prefers
the shared time. The model showed some behaviour that no run forbids, because no
text of the repository promises better: the local time raised by a 429 is hidden
by a shared time that has expired (line 817), so that the sample sleeps for zero
seconds in a loop until it is accepted; `NotePaused` can lower the local time;
the other holders look at the shared time only if it is set.

### 2.5 Sidecar

A request stands for its id. `EnterPending` is the critical section of
`_submit_rpc`, `Put` and `PutFails` what follows it, `CheckDone` and
`SetIpcError` the two steps of its error path. In the subprocess an execution ends
with a response (`Respond`), with one that is pickled there and cannot be unpickled
here (`RespondGarbled`), with one that the queue does not take (`ResponseIsLost`,
lines 357-365), or without (`EndsSilently`); `Dies` loses what it has not
written. The collector receives, resolves, drains and fails what is pending. An
unreadable response is skipped (lines 431-435) and its future stays in
`_pending_futures` until the end of the process, where the sweep settles it:
`OnlySilenceLeavesPending` says that while the process lives nothing else leaves a
future pending, and after its end only a broken queue. `Kill`, `CollectOnShutdown`
and `CloseQueues` are `_shutdown`.

### 2.6 Telemetry

Events are numbered as they are enqueued, and `accepted` tells who logged each.
`CheckEnabled`, `Enqueue`, `CountPush`,
`TriggerFlush` are the steps of logging, `StartWaiting`, `TakeTarget` and
`Drained` those of a fatal call. The task wakes, takes batches, sends with
retries, and counts each batch in a `finally`; `Disable`, `ClearQueue` and
`SettleCounters` are the three steps of `_disable`. `Foreign` calls wait on a
loop of the user, where the task can run between the steps of the wait. An
`APIError` does not tell whether the server took the batch: `SendFails` leaves the
request in `late`, from where it may arrive at any time or never (`ArrivesLate`),
while the same batch is sent again. `NothingLostOrReordered` therefore does not
promise that an event arrives once. It says that none is missing and that, of the
first arrivals of each batch, none overtakes an earlier one.

### 2.7 Holders, CustomLoss, SamplingCalls

`Holders`: `GetLoop` looks without the lock and `LockLoop` again with it; the
shadow cache does both under one lock, which it keeps over the construction of a
holder (line 143). That is safe although the construction waits for the loop,
because in the subprocess of a sidecar everything is unpickled on the loop
thread itself and nobody else can hold the lock; the two values of `place`
model both worlds. A heartbeat task refers to its holder, so that
`InternalClientHolder.__del__` (line 1234) does not run while it beats.

`CustomLoss`: a flow is a thread or a task. The server takes requests in the
order of their ids, which is what `TrainingTurns` proves, so `issued` and
`dispatched` stand for all of it. A loss function of a synchronous call runs on
the holder's loop thread; if it calls a synchronous method, the loop waits for
itself (`blocked`), and `sync_only` only logs a warning. `GradientsAreCurrent`
is about one flow: an optimizer step of another flow may lie between the forward
and the backward pass.

`SamplingCalls`: `counter` is the unlocked request id. Reading and incrementing
it is one step, as the interpreter lock makes it in practice; a copy starts at a
random multiple of a base far away from the original's. `Verify`, `CheckAck` and
`CancelSourceIfNeeded` are the callbacks between the future of the caller and the one of the request.

### 2.8 RetryHandler

`idle` is the time since the last progress, `alarm` what is left of a watchdog's
sleep, `delay` of the pause before an attempt. An attempt may hang for ever
(no fairness is put on `Attempt`); `Watch` cancels it, and `Unwind` leaves
the semaphore. The counters are compared with the requests (`CountersMatch`),
and a watchdog that sleeps must not sleep past the deadline
(`WatchdogsAreInTime`). A caller that is cancelled at the semaphore is never
subtracted from `_waiting_at_semaphore_count`; that count is used in log
messages only, and the invariant states what it does count.

### 2.9 Requests, Responses, SseDecoder

An endpoint is what the transport can tell of it: whether it changes the
service, how often the HTTP client repeats it, whether `execute_with_retries`
wraps it (`Endpoints`). `Start` takes a client from the pool and makes the key,
`Backoff` sends again under the same key, `OutOfPool` leaves the pool and hands
the error to the outer layer. `ServiceActs` may happen at any time between a
sending and its end. The key is made once per attempt of the outer layer, so
that the service may act once per attempt, more than once per call.

`Responses` has the ways to read a body and whether the connection is given
back. `SseDecoder` decodes a body that arrives in any pieces and compares with
its decoding in one. Its loops go byte by byte (`Decoding`, `Taking`): a line is
decoded where it ends, and what was collected is handed on where a line of the
piece ends an event.

### 2.10 CheckpointCommands, RestClient, Credentials

`RestClient` gives each operation as an operator that takes what the caller does
with the answer and what it does with an error; after an error the service may
or may not have acted. The commands use them as their steps. `OthersChange`
is another user of the service. The command `list` (line 655) is the name `list`
for the rest of the module, so that lines 545, 546, 1084, 1294 and 1295 call it
(`ListIsACommand`).

A deletion is followed to the service: `removed` is what the requests of the
command removed there. `DeletionReportIsTrue` says that only checkpoints which
match the filters are among it, and that what is counted as deleted is. The
converse does not hold of the code: when the answer is lost after the service
acted, `_delete_one` lists a checkpoint as failed that is gone.

In `Credentials` every process runs one program and may be killed at each step.
A key stands for the login that made it. A client reads the file once for its key
and once for its base URL, `doctor` the other way round, `status` loads it a second
time; `disturbed` tells whether the file changed between these reads or after them.
What a doctor found is what a client finds only if the file did not change since
one of them began to read, and with a change between its reads a process sends the
key of one login to the base URL of another: `DoctorAgreesWithClient` excludes
these cases by name and no others. The default base URL differs: `doctor`, `auth` and
the simulation client fall back to `https://api.cyberneticphysics.com`, and
`AsyncCybernetics` to `http://127.0.0.1:8000`; `DoctorAgreesWithClient` is
therefore about the sources that are configured.

### 2.11 SimSessions, ScopedKeys, SplatJobs, Packaging

`SimSessions` follows one operation with its budget of transient failures
(`late` is the deadline); `VerifyStop` is the second look of a stop. `render`
launches and waits before its `try` (lines 492-498): if that wait fails, the session
goes on and nobody stops it, which is why `RenderReleasesItsSession` says that a stop
is asked for exactly if the launch returned (`launched`). `NothingHalfMade` says
what a failed import leaves behind, and that it is never more than an error without
a session. `ScopedKeys` has several keys, their revocation by a context manager and by
`close`, and the gateway session ids that the client hears. A key whose grant was
lost, or which the checks of `mcp_session` refused while its revocation failed
(lines 791-796, `except SimulationError: pass`), is live and known to nobody;
`NoKeyForgotten` names these (`dropped`) and says that there are no others.

`SplatJobs` is a job that may never end. `Packaging` follows collecting, choosing the root, hashing
and archiving while somebody edits; digests are taken before the archive reads
the files again, and `overtaken` are the files edited in between. The manifest is
the last entry of the archive (`WriteManifest`, line 364) and hides a file of its
name, whose digest the manifest then still lists. The two parsers of a header take
different lines for a vertex element: line 130 wants three tokens, line 234 three or
more, so that `element vertex 5 extra` after `element vertex 3` is admitted with 3
Gaussians and described with 5. `ParsersAgree` excepts this, a blank before the
magic and a comment that quotes the end of the header, and nothing else. When
anything fails after `mkstemp`, the temporary file stays.
An explicit root only has to exist on disk, although the message speaks of the
asset bundle.

### 2.12 BehaviorRun, HostedSession, TaskKit

`HostedSession` creates, waits for, uses and stops a session; `BehaviorRun`
extends it by the run around it and writes the files of the bundle one by one.
The process may be killed in one of them or a write may fail, and the next run uses
the same directory. `verdict` is the line that the command prints and `exit` the
status of its process. An error that no handler names (a `KeyError` of
`evaluate_trial`, a write that fails) leaves `main` (`cli/__main__.py:47`) and ends
the process with status 1, which is also that of a regression, so that status 1 by
itself says nothing about the directory: `VerdictHasItsBundle` is about the line,
and about status 0.

`TaskKit` shows where a lock ends. `verify_lock` looks at the entries only
(`lock.py:120`), so that a lock which lacks `task.py` lets an unverified module be
imported; a grader that is added after `lock-task` is in no digest and is read
unverified; the files are read again after they were verified; the signature does
not cover the entry point of the grader, and the runner passes no resolver of public
keys. Authors edit and remove files at any time and change or drop entries of the
lock between commands. `LoadedAsLocked` excepts a file only if it was edited after
it was hashed and before it was read again (`touched`), and says which locks list
the module: those whose signature is still good. The names of the module, the
grader and the lock in `task.toml` are fixed in the model.

### 2.13 RobotArtifacts

The functions of `robotics/` are called one after the other on artifacts that
their callers keep; only an episode has steps of its own, because the process may
be killed between its files or in one. `folder` holds what `rollout.json` of each
directory contains, the one file that is read again. A task is its reward and its
spaces, and its hash is the task. The code does not compare the `run_id` in a
rollout with that of the record, and run ids are made of the task and the seed:
`RolloutBehindRecord` and `IdsTellDatasetsApart` say what is left, namely that the
rollout is never older than its record, and that two datasets of rollouts with one
id differ only if a rollout was replaced or two episodes had one run id. The frames
of a generated dataset are an argument and not part of its id
(`world_models.py:63` and `169-176`), so that of these the id tells the task and the
spaces only. `train_policy` takes the hash of the task from its caller;
`EvaluatedAsRecorded` follows a policy to the rollouts that were read for its data
(`behind`, also through generated datasets) and says that an evaluation runs in
their spaces and, unless the trainer was told another task, for their task. It
excepts a rollout that had replaced that of its record: nothing compares the two, and
a later episode in the same directory may be one of another task. The model follows
one policy to one request.

### 2.14 Client, CommandLine

Both compose by a variable that says which layer or which program a behaviour is
about; `Only` and `Runs` leave the rest unchanged. `Requests`, `CustomLoss` and
`ScopedKeys` are extended; the other modules are instances, and each property
that is defined in the composition names the properties of one or two of them.
The theorems are about the composition: a step of it is a step of a layer or
leaves that layer as it is, so that an invariant of the layer is one of `Spec`.

## 3. Runs

| Run | Instance and bounds | Distinct states | Shows |
|---|---|---|---|
| `Turns` | 3 calls of any method, up to 2 chunks, 1 retry, 1 failure, 1 cancellation | 1.03 million | order, exclusion, wakeups, owners of ids, refinement; what blocks is an id left behind, and nothing else |
| `TurnsLost` | 2 calls, 2 chunks, 1 failure | finding | a waiter that never gets its turn |
| `Polling` | futures of 2 chunks and of 1, answers of 2 bytes over a budget of 1, one 400 too many, 1 fault | 237 thousand | exact bytes, refinement of the budget, ends of polls and waits |
| `Dispatch` | 2 samples, 1 logprobs; tight, uneven or unknown limits; refresh and coalescing; 1 fault | 141 thousand | recommendation, counters, no forgotten call, no deadlock between gates |
| `Sidecar` | 1 target, 2 RPCs, 1 bad payload, 1 silent end, 1 lost or unreadable response, 1 broken queue; death and shutdown anywhere | 458 thousand | no lost future, no missed target, what stays pending |
| `SidecarSilent` | 1 RPC, 1 silent end | finding | a future that is never settled |
| `SidecarRaises` | 1 RPC, 1 bad payload | finding | `InvalidStateError` out of `_submit_rpc` |
| `Telemetry` | 2 fatal calls, one on another loop, batches of 2, queue of 4, 1 API error, 1 other error, 1 stop, late arrivals | 144 thousand | nothing lost, order, no vain wait, return of fatal calls |
| `TelemetryEarly` | 1 fatal and 1 plain call | finding | a wait that ends too early |
| `Client` | per layer: 2 threads, 2 flows, 2 samplings, 2 samples over 2 holders, 3 handled requests over 2 connections, 2 calls of different kinds through a pool of 1 per client, bodies of up to 5 characters | 265 thousand | the layers between a caller and the wire |
| `CommandLine` | per group: 3 checkpoints in pages of 2, 2 processes, 2 keys, 2 runs of 2 trials, assets of 4 files, 1 edit, headers of 3 lines, 2 episodes and 2 datasets | 891 thousand | what commands report, store, describe and leave running |
| `DeletePaths` | the same | finding | `checkpoint delete` with explicit paths deletes nothing |

**Why these bounds.** Three training calls are a holder, a waiter that is next
and one behind it; two chunks are the least with an id that a failure can leave
behind. Ids differ only in their order, which the proofs cover for any number.
In `Polling` one answer overdraws the budget, so that the second and the third
wait and are woken together; a 400 too many and every other answer end a poll,
and the one fault is each answer that does not. In `Dispatch` the servers admit
one or two of three, or do not say, so that every gate makes somebody wait; a
payload of 3 overdraws the dispatch bytes of 2, while payloads of 1 would let
all three in, so that the bytes do not hide what the gates do. In `Sidecar`, one
RPC can be behind the other in the queue, the pipe and the sweep. In
`Telemetry`, a queue of four takes the first event and one fatal call but not
both, so that events are dropped, and a batch of two splits a fatal call; one API
error sends one batch twice, and its first request arrives before, between or after
the others.

In `Client`, two threads race for the loop and for a shadow holder; two holders
raise the same shared backoff time, and two rejections are a streak. Three
requests over two connections make one wait at the semaphore of the handler; a
timeout of 3 and delays of up to 2 let the deadline pass in a delay, in an
attempt and at the semaphore. Two calls over clients of one make the pool add a
client, and a retry budget of 1 is spent by the first empty 400, so that the
second is not retried; two attempts with one retry each are the least in which
the layers nest. Two flows let an optimizer step come between the passes of a
custom loss. Bodies of up to five characters hold two events and every way to
split a line end. `MCClient` leaves two things out, to keep the liveness check
short: of the behaviours that differ only in the names of the actors it keeps
those in which one given actor of each layer starts first, which is enough,
since neither `Spec` nor the properties tell the actors of a layer apart; and
the two calls through the pool are of different kinds, so that two calls of one
kind are covered by the theorems alone, and not by `CallsEnd`. In `CommandLine`, three checkpoints in pages of two make a
second page; a change by others lies between any two requests; the second run
finds what the first has left in its directory; two attempts are one that was
lost and one that is answered with a conflict; two keys are one that was revoked
and one whose revocation has failed, and a second `close()` finds it. Two
episodes are one and a later one in its directory, or with its run id; two
datasets are a source and what a world model makes of it, or two of rollouts with one
id; two generated datasets with one id would take three, and are covered by the
theorem alone. Assets of four files are a root, another stage, and two of a link, an
earlier bundle, a file of the manifest's name and a file that is skipped.

**Deadlock** is not checked: every run ends in states where all calls are over,
or, in the runs of `TrainingTurns` and with a synchronous custom loss that calls
the client, wait for ever. The liveness properties say which of these states may
be reached.

**Fairness** is weak and only on what the code drives itself. The loop runs ready
tasks in order, threads inside a call go on, and a request ends with an answer,
an error or a timeout of the transport. It is never on a call of the user, a
cancellation, a crash, a stop or a fault. In `Turns` the fairness of a request
is on its end in any way, so success is not assumed. In `Polling` it assumes
that the server answers in the end, since a poll has no bound of its own, and
in `Dispatch` that requests are accepted and answered. In `Sidecar`, the
subprocess ends each execution, by a response or silently, while it is alive.

In `Client` each layer has the fairness of its own steps, and the clocks of
`SampleBackoff` and `RetryHandler` tick. The attempts of the retry handler have
none: an attempt may hang for ever, and the watchdog has to end it. Its step
into the loop has strong fairness, since the waiters of an `asyncio.Semaphore`
are a queue: a request that waits while others come and go is served. In
`CommandLine` the clients that wait (`SplatStep`, `ClientStep`) are single
threads that go on, and their deadlines pass; the service need not finish what
it was asked for.

**Liveness that does not hold** as the documentation has it is not weakened
silently: `WaitersGetTheirTurn` and `EveryFutureSettles` are the findings, and
`OnlyLostIdsBlock` and `OnlySilenceLeavesPending` say exactly how far the code
falls short and that nothing else does (besides an execution without a response,
one whose response is lost or cannot be read). `CallsEnd` excludes in the same way a
loss function that waits for the loop it runs on.

**Type invariants** are not run as such; the proofs need them, and they are part
of the inductive invariants that section 5 names.

## 4. Findings

1. **A lost id blocks the client** (`TurnsLost`). When one chunk fails for good,
   chunking raises half-way, or a waiting call is cancelled, its remaining ids
   never take their turn, and every later request of the client waits for ever.
2. **A cancelled execution sends no response** (`SidecarSilent`).
   `CancelledError` is not an `Exception`; the future stays pending.
3. **`_submit_rpc` can raise `InvalidStateError`** (`SidecarRaises`): the guard
   for a concurrent shutdown checks and sets in two steps.
4. **A fatal call may return before its events are sent** (`TelemetryEarly`): a
   push is counted after it can have been flushed.
5. **`checkpoint delete` with explicit paths ends in a usage error**
   (`DeletePaths`): `list(...)` in its body is the command `list` of the module,
   not the builtin.

Divergences between code and text that the models show and that have no run of
their own:

- The comment at `lib/public_interfaces/training_client.py:133` says that only a
  successful dispatch releases the turn; line 151 is in a `finally`, and has to
  be, or every failure would block.
- An error that is not an `APIError` ends the task of the telemetry in the
  middle of a flush (`lib/telemetry.py:101`); fatal calls then wait for their
  timeout, which is why `FatalCallsReturn` says "while the task lives".
- `behavior_ci/simulators/isaac_session.py:106` promises that the session is
  released; a session whose creation was answered by a lost response is not
  known to the client and is not. `KnownSessionIsStopped` is about the others.
- `cli/commands/behavior_ci.py:6` gives status 1 the meaning "behavior regression
  (artifacts still written)". An exception that no handler names ends the process
  with the same status and may leave no artifacts at all; in the model these ends
  have `exit = "1"` and `verdict = "none"`.
- `behavior_ci/artifacts.py:13-15` says that `failed-rollout.mp4` is there only when
  a trial fails. A green run writes none, but leaves the clip of an earlier failed
  run in its directory; `VerdictHasItsBundle` does not say otherwise.
- `cli/commands/behavior_ci.py:158` says that any edit to a judge file changes its
  digest. That is so of the files which the lock lists; a lock that lacks the module
  is accepted, and the module is then imported as it is.
- `sim/client.py:492-498`: a `render` whose wait for its new session fails leaves the
  session running, since the `try` whose `finally` stops it begins after the launch.
- `sim/client.py:791-796`: a key that `mcp_session` refuses to hand out is forgotten
  when its revocation fails, so that `close()` does not try again.
- `splats/packaging.py:130` and `234` do not take the same lines for a vertex element.
- The comment at `_base_client.py:949` says the idempotency key is reused between
  requests; `execute_with_retries` around it makes a new one for each of its
  attempts, so that the service may act once per attempt, more than once per
  call. `OneEffectPerAttempt` states what the code does.

## 5. Proofs

Every safety property and every refinement that the runs check is also a theorem,
for any sets of calls, threads, files or keys and any values of the bounds that
satisfy the named `ASSUME`s, which the runs evaluate. `PROJECT.json` lists the
theorems with the properties they state. The assumptions say no more than what
the code relies on: the sets of calls are finite where something is counted,
limits and windows are positive, `None` is not a thread, and a copy of a sampling
client begins its ids further away than there are calls (`Cardinality(Samplings)
<= Base`; the code's base is a billion).

Each proof has the same form. A property is seldom inductive, so that an
invariant is stated that is, as a conjunction of named parts; TLC has checked
each of them over the states of the run before it was proved. The proof has one
step for each action, and the property follows from the invariant.

**TrainingTurns.** The safety properties are not inductive. `IInv` adds where an
id can be: open ids lie between `turn` and `counter` (`OpenIdsAreAhead`), each
has exactly one owner (`OneOwner`, `SomeOwner`), a holder's id is the turn
(`HolderHasTurn`), registered events are those of waiting calls (`WaitersWait`),
and the only set event is that of the turn (`FiredIsTheTurn`). The last is the
heart of it: a release sets the event of the next id only, and the woken call can
be overtaken by nobody, since nobody else owns the id. `Invariance` proves
`Spec => []IInv`. From it follow `TypeCorrect`, `MutualExclusion`,
`AssertionsHold`, `NoWakeupIsLost`, `IdsHaveOwners`, and `Refinement`: each step
of `TrainingTurns` is a step of `OrderedDispatch` or leaves its variables
unchanged.

**SampleDispatch, and the limiters below it.** The budget and the gates are
proved for themselves first. `BudgetInvariance` gives `NoWakeupLost` (whoever
waits although the budget is not overdrawn is about to be woken) and
`OneOverdraft` (the budget is overdrawn by one payload at most; the bound rests
on the second look of a woken waiter). `LimiterInvariance` gives `CounterExact`
(the counter is the number of calls inside), `NoLimiterWakeupLost` (whoever waits
has no room by its own limit) and `NeverAboveLimit`. `PassesTheGates` and
`SpendsTheBudget` are the refinements `Spec => LimiterSpec` and
`Spec => BudgetSpec`: each stage of the chain is a step of the limiter, of the
budget, of both or of neither, so that all of the above holds for the dispatch.
`RecommendationHolds` needs `ProfileInv` on top of the invariant of the gates:
while the server recommends a number, no waiter at the gate of the profile
brought a larger limit, and whoever is past that gate is still inside it,
through backoff, polling and the failures of others.

**ResultPolling.** `PollingRefinesBudget`: every step of a poll is one of
`ByteBudget`. `PollsKeepBudget` proves the invariant of the budget for the polls.
`EveryByteIsAccountedFor` is the exact sum, `BytesInv`: the finite set of polls
inside holds what the budget lacks. It rests on `SumTheorems`.

**Sidecar.** `FutureInv` says in whose hands a future can be: the collector holds
a response exactly while it resolves it, and futures to fail only at its end
(`HandsAreFree`); who could still enter a future when the collector has left its
loop has a dead process or never got the sidecar (`EndsWithTheProcess`). From it
follow `SidecarTypes`, `FuturesAreKept` and `SweptIsSwept`. `TargetInv` follows
the registration through the queue, the subprocess and the pipe: it is taken from
the queue once (`PutOnce`), a handle exists only after the good answer, and is
dropped only when no RPC is on its way into the queue (`HandleAfterTarget`), so
that the unregistration is behind every RPC (`UnregisterComesLast`).
`LiveHandlesWork` follows, also over the death of the process.

**Telemetry.** The counters are not those of the queue: an event is counted after
it can have been flushed. `PushesAreCounted` states the exact relation, in which
the calls between `Enqueue` and `CountPush` are missing from `push`, a fatal one
with two events. With `BatchIsBeingSent` and `TargetsWerePushed` it is inductive,
together with `TargetsAreInReach`. For `EveryEventInOrder` the batches are followed
to the server: what was sent, is in flight or queued is a growing run of numbers, and
a request that arrives late is one whose events were sent before
(`QueuedInOrder`, `ArrivedInOrder`).

**Client**, one layer after the other:

- *Custom losses.* `GradientsFollowTheirForward`: a flow in a pass waits for a
  request it has issued (`PassesAreAwaited`), for one only (`OnePassEach`), and
  between the passes nothing of its own is in the way (`ForwardIsCurrent`).
- *Requests.* `AtMostOnce`: the keys of different calls and attempts differ
  (`KeysAreTheirOwn`), and an effect that is not counted yet has room in the
  attempts that were begun (`RoomForOne`). `PoolKeepsItsBounds`: `PlacesAreCounted`
  alone is not inductive, since a client is replaced under its calls;
  `OnePlacePerClient` says that a client stays at the place at which its calls
  count.
- *Retry handler.* `HandlerIsRight`: types and the two properties are inductive
  together; the steps are about cardinalities of two sets of requests.
- *Holders.* `HoldersShare`: whoever is past the loop has started it or found it
  (`LoopIsThere`), whoever makes a shadow holder has the lock of the cache, which
  is empty until then (`ShadowIsCached`), and a thread loads the model it made
  itself (`ModelsAreOwned`).
- *Sampling calls.* `NoiseProvenAndIdsApart`: the counter of the original is no
  larger than the number of calls, and the copy's begins beyond it
  (`IdsAreApart`).
- *Backoff.* `PausedRemembered` is an action property. `PauseIsKept`: while the
  window since the last paused answer lasts, the time that the holders share is
  not before that answer, whatever later answers name. A sample pays for its
  bytes once only if the shared time is over by the whole window.
- *Responses.* `ResponsesGiveBack` is all of `ResponsesAreWhole`. Connections and what
  was parsed follow from `ResponsesInv`. For the events, `EventsInv` says that
  what has arrived was decoded up to the end of a line, exactly as the whole body
  is, and that the rest is kept. It needs that a part which begins and ends with
  a line is decoded alike by itself and in the body (`PartsAreDecodedAlike`), and
  that what ends an event ends a line of the body, also when it is cut inside a
  CRLF (`EventsEndLines`). This is where the restriction to one kind of line end
  is used: in a body that mixes them, `\r\r` can be followed by `\n`.

**CommandLine**, one group of commands after the other:

- *Session keys.* `KeysAreInSight`: a key that lives is tracked or about to be
  visited, or was never handed out (its grant was lost, or it was refused and its
  revocation failed), although a revocation may fail at any point of `close`
  (`ClosingMissesNone`, `ClientsHaveKeys`), and a client accepts only the gateway
  session it heard first (`HeardTheFirst`).
- *Locks of tasks.* `TasksAreTheLockedOnes`: what a command has hashed so far
  agrees with the disk or was edited since (`HashesAreCurrent`), what it has
  imported agrees with the lock, was edited on the way or is not listed
  (`ImportedAsLocked`), and a lock whose signature is good lists the two files
  that no task is without (`LocksNameTheTask`).
- *Simulations.* `SimulationsTidyUp`: `ImportInOrder` says how far environment
  and bundle are at each request, `StopOnTheWay` that a render whose launch has
  returned (`launched`) cannot leave without passing the stop.
- *Robot artifacts.* `LineageIsTold`: a record is not younger than the rollout of
  its folder, which is of the task of the episode that wrote it (`LatestRollout`), a
  dataset carries the task of the rollouts behind it, unless they had been replaced
  (`DatasetsTellTheirTask`), and the number of its frames is the sum over its runs,
  or was chosen by the caller of a world model (`DatasetsAddUp`). Two datasets of
  rollouts with one id were made of the same runs; if no rollout was replaced between
  them, the sums are over equal summands (`SameKeysSameSum`).
- *Login.* `LoginsAreWhole`: the temporary file of a login holds nothing, a torn
  key or its own key (`LoginHoldsItsKey`), and the stored file is whole and was
  some login's (`FileIsSomebodys`), who has saved it (`SavedKeys`). What a reader
  took from the file is still there unless the file changed since (`ReadsAgree`);
  this is what makes the answers of `doctor` and of a client comparable.
- *Behaviour runs.* `VerdictsHaveTheirBundle`: trials, replays and files come in
  order (`TrialsThenReplays`), a file of the bundle is of this run or still to be
  written (`WrittenOrToCome`), never of a later one (`FilesOfTheRun`), the verdict is
  printed when all is written (`SaidAtTheEnd`), and past its adapter a hosted run has
  asked its session to stop (`SessionOfTheRun`).
- *Packaging.* `BundlesAreAsDescribed`: what is archived was described, with the
  same contents unless the file was edited between the two, and the manifest is
  written last (`ManifestHolds`); the chosen root is in the manifest unless the
  caller named one that is not collected (`RootIsListed`). That the two parsers of a
  header agree but for the three exceptions is proved for headers of any length
  (`ParsersCountAlike`).
- *Reports.* `ReportsStayTrue`: the pages so far are a prefix of what the service
  lists (`ListingGoesOn`), and each path of a deletion is in one part of the
  summary (`DeletionGoesOn`). What the service removed for it was selected and
  matches the filters, and what is reported as deleted is among it (`RemovalsMatch`).

**Sums and counts.** The induction theorems of the library have an operator as
parameter, which the provers cannot instantiate. `SumTheorems` takes another way:
a set of naturals that is not empty has a least member (`LeastOf`), so that a
claim about all finite sets has a smallest counterexample (`SmallestSet`), which
a proof by contradiction takes one member away from. The positions of a body are
treated in the same way. Sums are recursive functions
over finite sets; that they do not depend on the order, and what adding or
removing a member does to them, are lemmas there.

**Only model-checked:** liveness under fairness, which this prover cannot do:
`OnlyLostIdsBlock`, `EveryPollEnds`, `CallersReturn`, `EveryRequestEnds`,
`OnlySilenceLeavesPending`, `FatalCallsReturn`, `CallsEnd` and `CommandsEnd`.

## 6. What is not modelled

- **Robot templates** (`robotics/providers/`, `fixture.py`, `locomujoco.py`,
  `lib/async_worldlines_provider.py`): tables of one robot, environments that
  stand in for simulators, a protocol class. Of the contracts in
  `robotics/contracts.py`, checks of single fields are left out.
- **Types and models** (`_models.py`, `types/`, `_compat.py`, `_qs.py`): pydantic
  declarations and conversions.
- **Renderers and media** (`behavior_ci/renderers.py`, `media.py`): HTML, Markdown
  and video bytes.
- **Request helpers** (`lib/chunked_fwdbwd_helpers.py` and others): splitting and
  combination of results with floating-point weights. Splitting enters
  `TrainingTurns` as the number of chunks.
- **Payloads**: contents, serialization, headers, URLs, tables and JSON output of
  the commands.
- **Garbage collection inside a critical section** (`SidecarHandle.__del__` with
  `_pending_lock` held, `lib/sidecar.py:626`): below the grain of the model, in
  which a critical section is one action. `PROJECT.json` lists it as a hazard
  without a property.
- **A pipe that breaks while the subprocess lives** (`lib/sidecar.py:425`) is
  modelled, and `NothingPendingAfterTheEnd` and `OnlySilenceLeavesPending` exclude
  it by name, because the code does not handle it. In the same way the properties
  of `Telemetry` exclude what `stop` gives up on purpose (`lib/telemetry.py:77`).

## 7. Plan

Done: everything in section 2. What would add most, in this order:

1. `SampleDispatch` with several holders that share the dispatch bytes of the
   process.
2. The combination of chunked results as pure operators, checked against a
   reference over bounded inputs.
