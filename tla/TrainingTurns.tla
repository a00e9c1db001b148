---------------------------- MODULE TrainingTurns ----------------------------
(***************************************************************************)
(* How a TrainingClient orders its requests.                               *)
(*                                                                         *)
(* Any thread may call a method of the client.  A call reserves one        *)
(* request id per request it will send (forward and forward_backward send  *)
(* one request per chunk of the data, the other methods one request) and   *)
(* runs a coroutine on the holder's event loop that sends the requests one *)
(* by one.  Each request waits for the turn of its id, is dispatched under *)
(* execute_with_retries while it holds the turn, and passes the turn on.   *)
(*                                                                         *)
(* An action is what the code does between two suspension points: of the   *)
(* calling thread (the lock around the id counter) or of the event loop    *)
(* (an await that really suspends).  A call is made by a thread of its     *)
(* own, so calls made one after another by one thread are among the        *)
(* interleavings.  Request payloads and results are left out.              *)
(***************************************************************************)
EXTENDS Integers

CONSTANTS
  Calls,         \* calls of methods of one TrainingClient
  MaxChunks,     \* bound: requests one forward or forward_backward is split into
  MaxRetries,    \* bound: retryable errors of one request (the code has 5 minutes)
  MaxFailures,   \* bound: calls that raise because of a request or of their data
  MaxCancels     \* bound: calls cancelled by their user

ASSUME BoundsAssumption ==
  /\ MaxChunks \in Nat
  /\ MaxRetries \in Nat
  /\ MaxFailures \in Nat
  /\ MaxCancels \in Nat

NoId == -1

Phases == {"idle", "reserving", "posted", "waiting", "sending", "backoff",
           "awaiting", "returned", "raised", "cancelled"}

(* Phases in which the coroutine of a call is over: it takes no more turns. *)
Ended == {"returned", "raised", "cancelled"}

(* Phases between taking a turn and releasing it. *)
HoldsTurn == {"sending", "backoff"}

VARIABLES
  counter,   \* _request_id_counter: the next id to reserve
  turn,      \* _turn_counter: the id whose turn it is
  waiters,   \* ids with an event in _turn_waiters
  fired,     \* the waiters whose event is set
  phase,     \* where each call is
  onLoop,    \* does the call reserve its ids in its coroutine (the async methods)?
  left,      \* requests of the call that have no id yet
  queued,    \* reserved ids that have not asked for their turn; the code's list
             \* of (id, chunk) pairs is in increasing order of ids
  cur,       \* the id that the call is waiting with or holds the turn for
  retries,   \* retryable errors of the request being sent
  sent,      \* history: ids of the requests that were dispatched successfully
  failures,  \* how much of MaxFailures and MaxCancels is used up
  cancels

vars == <<counter, turn, waiters, fired, phase, onLoop, left, queued, cur,
          retries, sent, failures, cancels>>

ids     == <<counter, onLoop, left>>
turns   == <<turn, waiters, fired>>
budgets == <<failures, cancels>>

Init ==
  /\ counter = 0
  /\ turn = 0
  /\ waiters = {}
  /\ fired = {}
  /\ phase = [c \in Calls |-> "idle"]
  /\ onLoop = [c \in Calls |-> FALSE]
  /\ left = [c \in Calls |-> 0]
  /\ queued = [c \in Calls |-> {}]
  /\ cur = [c \in Calls |-> NoId]
  /\ retries = [c \in Calls |-> 0]
  /\ sent = {}
  /\ failures = 0
  /\ cancels = 0

GoTo(c, p) == phase' = [phase EXCEPT ![c] = p]

-----------------------------------------------------------------------------
(***************************************************************************)
(* Calling a method.  The synchronous methods reserve their ids in the     *)
(* calling thread and then post the coroutine; the async ones post a       *)
(* coroutine that reserves them on the loop.                               *)
(***************************************************************************)

CallSync(c, n) ==
  /\ phase[c] = "idle"
  /\ GoTo(c, "reserving")
  /\ left' = [left EXCEPT ![c] = n]
  /\ UNCHANGED <<counter, onLoop, turns, queued, cur, retries, sent, budgets>>

CallAsync(c, n) ==
  /\ phase[c] = "idle"
  /\ GoTo(c, "posted")
  /\ left' = [left EXCEPT ![c] = n]
  /\ onLoop' = [onLoop EXCEPT ![c] = TRUE]
  /\ UNCHANGED <<counter, turns, queued, cur, retries, sent, budgets>>

(* Empty data makes no chunk: the combined result of no request. *)
Forward(c)               == \E n \in 0 .. MaxChunks : CallSync(c, n)
ForwardAsync(c)          == \E n \in 0 .. MaxChunks : CallAsync(c, n)
ForwardBackward(c)       == \E n \in 0 .. MaxChunks : CallSync(c, n)
ForwardBackwardAsync(c)  == \E n \in 0 .. MaxChunks : CallAsync(c, n)
OptimStep(c)             == CallSync(c, 1)
OptimStepAsync(c)        == CallAsync(c, 1)
SaveState(c)             == CallSync(c, 1)
LoadState(c)             == CallSync(c, 1)
LoadWithOptimizerAsync(c) == CallAsync(c, 1)
SaveWeightsForSampler(c) == CallSync(c, 1)
SaveWeightsAndGetSamplingClient(c) == CallSync(c, 1)

Call(c) ==
  \/ Forward(c)
  \/ ForwardAsync(c)
  \/ ForwardBackward(c)
  \/ ForwardBackwardAsync(c)
  \/ OptimStep(c)
  \/ OptimStepAsync(c)
  \/ SaveState(c)
  \/ LoadState(c)
  \/ LoadWithOptimizerAsync(c)
  \/ SaveWeightsForSampler(c)
  \/ SaveWeightsAndGetSamplingClient(c)

(* An async method is reserving on the loop: nothing else runs there. *)
LoopFree == \A c \in Calls : ~(onLoop[c] /\ phase[c] = "reserving")

(* _get_request_id, under _request_id_lock: threads and the loop interleave *)
(* between two ids of one call.                                             *)
ReserveId(c) ==
  /\ phase[c] = "reserving"
  /\ left[c] > 0
  /\ queued' = [queued EXCEPT ![c] = @ \union {counter}]
  /\ counter' = counter + 1
  /\ left' = [left EXCEPT ![c] = @ - 1]
  /\ UNCHANGED <<onLoop, turns, phase, cur, retries, sent, budgets>>

(* _chunked_requests walks the generator of chunks: measuring a datum that *)
(* is malformed raises after earlier chunks have reserved their ids.       *)
ChunkingRaises(c) ==
  /\ phase[c] = "reserving"
  /\ left[c] > 0
  /\ failures < MaxFailures
  /\ failures' = failures + 1
  /\ GoTo(c, "raised")
  /\ UNCHANGED <<ids, turns, queued, cur, retries, sent, cancels>>

Post(c) ==
  /\ phase[c] = "reserving"
  /\ ~onLoop[c]
  /\ left[c] = 0
  /\ GoTo(c, "posted")
  /\ UNCHANGED <<ids, turns, queued, cur, retries, sent, budgets>>

-----------------------------------------------------------------------------
(***************************************************************************)
(* The coroutine.                                                          *)
(***************************************************************************)

(* Mutant: the wait for the turn ends one turn early. *)
ContinueEarly(c, t) ==
  \/ /\ queued[c] = {}
     /\ GoTo(c, "awaiting")
     /\ cur' = [cur EXCEPT ![c] = NoId]
     /\ UNCHANGED <<queued, waiters>>
  \/ \E id \in queued[c] :
       /\ \A other \in queued[c] : id <= other
       /\ queued' = [queued EXCEPT ![c] = @ \ {id}]
       /\ cur' = [cur EXCEPT ![c] = id]
       /\ \/ /\ t + 1 < id
             /\ GoTo(c, "waiting")
             /\ waiters' = waiters \union {id}
          \/ /\ ~(t + 1 < id)
             /\ GoTo(c, "sending")
             /\ UNCHANGED waiters

(* What the coroutine does until it suspends, given that it is now the turn *)
(* of id t: it asks for the turn of its next id, and either takes it or     *)
(* registers an event; without a next id it awaits the results.             *)
Continue(c, t) ==
  \/ /\ queued[c] = {}
     /\ GoTo(c, "awaiting")
     /\ cur' = [cur EXCEPT ![c] = NoId]
     /\ UNCHANGED <<queued, waiters>>
  \/ \E id \in queued[c] :
       /\ \A other \in queued[c] : id <= other
       /\ queued' = [queued EXCEPT ![c] = @ \ {id}]
       /\ cur' = [cur EXCEPT ![c] = id]
       /\ \/ /\ t < id
             /\ GoTo(c, "waiting")
             /\ waiters' = waiters \union {id}
          \/ /\ ~(t < id)
             /\ GoTo(c, "sending")
             /\ UNCHANGED waiters

(* Mutant: nobody is woken. *)
ReleaseSilently ==
  /\ turn' = turn + 1
  /\ fired' = fired

(* The finally of _take_turn: pass the turn on and wake who waits for it. *)
Release ==
  /\ turn' = turn + 1
  /\ fired' = fired \union ({turn + 1} \intersect waiters)

(* The loop starts the coroutine of a synchronous call. *)
Start(c) ==
  /\ phase[c] = "posted"
  /\ ~onLoop[c]
  /\ LoopFree
  /\ Continue(c, turn)
  /\ UNCHANGED <<ids, turn, fired, retries, sent, budgets>>

(* The loop starts the coroutine of an async call, which reserves its ids *)
(* and goes on without suspending.                                        *)
StartReserving(c) ==
  /\ phase[c] = "posted"
  /\ onLoop[c]
  /\ LoopFree
  /\ GoTo(c, "reserving")
  /\ UNCHANGED <<ids, turns, queued, cur, retries, sent, budgets>>

FinishReserving(c) ==
  /\ phase[c] = "reserving"
  /\ onLoop[c]
  /\ left[c] = 0
  /\ Continue(c, turn)
  /\ UNCHANGED <<ids, turn, fired, retries, sent, budgets>>

(* event.wait() returns: the event is removed and the turn is taken. *)
Wake(c) ==
  /\ phase[c] = "waiting"
  /\ cur[c] \in fired
  /\ LoopFree
  /\ waiters' = waiters \ {cur[c]}
  /\ fired' = fired \ {cur[c]}
  /\ GoTo(c, "sending")
  /\ UNCHANGED <<ids, turn, queued, cur, retries, sent, budgets>>

(* The request is accepted: the turn is released and the coroutine goes on *)
(* to its next chunk without suspending in between.                        *)
SendOk(c) ==
  /\ phase[c] = "sending"
  /\ LoopFree
  /\ sent' = sent \union {cur[c]}
  /\ Release
  /\ Continue(c, turn + 1)
  /\ retries' = [retries EXCEPT ![c] = 0]
  /\ UNCHANGED <<ids, budgets>>

(* A retryable error: execute_with_retries sleeps, still holding the turn. *)
SendRetryable(c) ==
  /\ phase[c] = "sending"
  /\ LoopFree
  /\ retries[c] < MaxRetries
  /\ retries' = [retries EXCEPT ![c] = @ + 1]
  /\ GoTo(c, "backoff")
  /\ UNCHANGED <<ids, turns, queued, cur, sent, budgets>>

SendAgain(c) ==
  /\ phase[c] = "backoff"
  /\ LoopFree
  /\ GoTo(c, "sending")
  /\ UNCHANGED <<ids, turns, queued, cur, retries, sent, budgets>>

(* Mutant: the turn is not released in a finally. *)
SendFailsKeepingTurn(c) ==
  /\ phase[c] = "sending"
  /\ LoopFree
  /\ failures < MaxFailures
  /\ failures' = failures + 1
  /\ GoTo(c, "raised")
  /\ cur' = [cur EXCEPT ![c] = NoId]
  /\ UNCHANGED <<ids, turns, queued, retries, sent, cancels>>

(* An error that is not retryable, or the retry budget is exhausted: the   *)
(* error leaves the with block, which releases the turn, and the coroutine.*)
SendFails(c) ==
  /\ phase[c] = "sending"
  /\ LoopFree
  /\ failures < MaxFailures
  /\ failures' = failures + 1
  /\ Release
  /\ GoTo(c, "raised")
  /\ cur' = [cur EXCEPT ![c] = NoId]
  /\ UNCHANGED <<ids, waiters, queued, retries, sent, cancels>>

(* The results of all requests have arrived, or one of them is an error. *)
Settle(c) ==
  /\ phase[c] = "awaiting"
  /\ LoopFree
  /\ GoTo(c, "returned")
  /\ UNCHANGED <<ids, turns, queued, cur, retries, sent, budgets>>

-----------------------------------------------------------------------------
(***************************************************************************)
(* The user cancels the call, or stops waiting for it with a timeout:      *)
(* CancelledError is thrown where the coroutine is suspended.              *)
(***************************************************************************)

(* Not started: the body never runs. *)
CancelPosted(c) ==
  /\ phase[c] = "posted"
  /\ UNCHANGED <<turns, cur>>

(* Mutant: a cancelled waiter passes the turn on, though it never had it. *)
CancelWaitingReleases(c) ==
  /\ phase[c] = "waiting"
  /\ waiters' = waiters \ {cur[c]}
  /\ turn' = turn + 1
  /\ fired' = (fired \union ({turn + 1} \intersect waiters)) \ {cur[c]}
  /\ UNCHANGED cur

(* In event.wait(), set or not: the inner finally removes the event; the   *)
(* turn was not taken and is not released.                                 *)
CancelWaiting(c) ==
  /\ phase[c] = "waiting"
  /\ waiters' = waiters \ {cur[c]}
  /\ fired' = fired \ {cur[c]}
  /\ UNCHANGED <<turn, cur>>

(* Mutant: the turn is not released when the holder is cancelled. *)
CancelHoldingKeepsTurn(c) ==
  /\ phase[c] \in HoldsTurn
  /\ cur' = [cur EXCEPT ![c] = NoId]
  /\ UNCHANGED turns

(* In the request or in the backoff: the outer finally releases the turn. *)
CancelHolding(c) ==
  /\ phase[c] \in HoldsTurn
  /\ Release
  /\ cur' = [cur EXCEPT ![c] = NoId]
  /\ UNCHANGED waiters

CancelAwaiting(c) ==
  /\ phase[c] = "awaiting"
  /\ UNCHANGED <<turns, cur>>

Cancel(c) ==
  /\ LoopFree
  /\ cancels < MaxCancels
  /\ cancels' = cancels + 1
  /\ \/ CancelPosted(c)
     \/ CancelWaiting(c)
     \/ CancelHolding(c)
     \/ CancelAwaiting(c)
  /\ GoTo(c, "cancelled")
  /\ UNCHANGED <<ids, queued, retries, sent, failures>>

-----------------------------------------------------------------------------

Next ==
  \E c \in Calls :
    \/ Call(c)
    \/ ReserveId(c)
    \/ ChunkingRaises(c)
    \/ Post(c)
    \/ Start(c)
    \/ StartReserving(c)
    \/ FinishReserving(c)
    \/ Wake(c)
    \/ SendOk(c)
    \/ SendRetryable(c)
    \/ SendAgain(c)
    \/ SendFails(c)
    \/ Settle(c)
    \/ Cancel(c)

Spec == Init /\ [][Next]_vars

(* Threads that are reserving go on, the loop runs what is ready, and every *)
(* request gets an answer, an error or a timeout.  Nobody has to call,      *)
(* cancel, or pass malformed data.                                          *)
Fairness ==
  \A c \in Calls :
    /\ WF_vars(ReserveId(c))
    /\ WF_vars(Post(c))
    /\ WF_vars(Start(c))
    /\ WF_vars(StartReserving(c))
    /\ WF_vars(FinishReserving(c))
    /\ WF_vars(Wake(c))
    /\ WF_vars(SendOk(c) \/ SendRetryable(c) \/ SendFails(c))
    /\ WF_vars(SendAgain(c))
    /\ WF_vars(Settle(c))

FairSpec == Spec /\ Fairness

-----------------------------------------------------------------------------
(***************************************************************************)
(* Properties                                                              *)
(***************************************************************************)

TypeOK ==
  /\ counter \in Nat
  /\ turn \in Nat
  /\ waiters \in SUBSET Nat
  /\ fired \in SUBSET Nat
  /\ phase \in [Calls -> Phases]
  /\ onLoop \in [Calls -> BOOLEAN]
  /\ left \in [Calls -> Nat]
  /\ queued \in [Calls -> SUBSET Nat]
  /\ cur \in [Calls -> Nat \union {NoId}]
  /\ retries \in [Calls -> Nat]
  /\ sent \in SUBSET Nat
  /\ failures \in Nat
  /\ cancels \in Nat

(* The ids that belong to a call and whose turn is not over. *)
OpenIds(c) == queued[c] \union ({cur[c]} \ {NoId})

(* At most one request is being dispatched, with all its retries and        *)
(* backoffs, and it is the one whose turn it is: the purpose of _take_turn. *)
OneRequestAtATime ==
  \A c, d \in Calls :
    phase[c] \in HoldsTurn =>
      /\ cur[c] = turn
      /\ phase[d] \in HoldsTurn => c = d

(* The two assertions of _take_turn cannot fail: no id asks for its turn    *)
(* after the turn has passed, and a waiter that is woken has the turn.      *)
TurnAssertionsHold ==
  \A c \in Calls :
    /\ \A id \in OpenIds(c) : turn <= id
    /\ phase[c] = "waiting" /\ cur[c] \in fired => cur[c] = turn

(* No wakeup is lost: a call that waits with the id whose turn it is has its *)
(* event set, whichever of registering and releasing came first.             *)
NoMissedWakeup ==
  \A c \in Calls :
    phase[c] = "waiting" /\ cur[c] = turn => cur[c] \in fired

(* The only way to lose the turn: every reserved id whose turn is not over   *)
(* still belongs to exactly one call, so when the requests behind an id are  *)
(* stuck, that id was left behind by a call that raised or was cancelled.    *)
EveryIdHasAnOwner ==
  /\ \A id \in turn .. counter - 1 : \E c \in Calls : id \in OpenIds(c)
  /\ \A c, d \in Calls : c # d => OpenIds(c) \intersect OpenIds(d) = {}

(* Nothing else can block a call: whoever does not end waits for a turn that *)
(* is stuck at the id of a call that raised or was cancelled.                *)
OnlyLostIdsBlock ==
  <>[](\A c \in Calls :
         \/ phase[c] \in {"idle"} \cup Ended
         \/ \E d \in Calls : phase[d] \in Ended /\ turn \in OpenIds(d))

(* The other comment on it: "Waits for the turn for a given request id to   *)
(* be executed": a request that waits gets its turn, unless it is cancelled.*)
WaitersGetTheirTurn ==
  \A c \in Calls : phase[c] = "waiting" ~> phase[c] # "waiting"

-----------------------------------------------------------------------------
(***************************************************************************)
(* The inductive invariant behind the safety properties: what is true of   *)
(* ids, waiters and the turn between any two steps.                        *)
(***************************************************************************)

Owns(c, id) == id \in queued[c] \/ cur[c] = id

(* A call has a current id while it waits or holds the turn; a cancelled   *)
(* call may be left with the id it was waiting for.                        *)
CurrentIds ==
  \A c \in Calls :
    /\ phase[c] = "waiting" \/ phase[c] \in HoldsTurn => cur[c] # NoId
    /\ phase[c] \notin {"waiting", "sending", "backoff", "cancelled"} => cur[c] = NoId
    /\ cur[c] \notin queued[c]

OpenIdsAreAhead ==
  /\ turn <= counter
  /\ \A c \in Calls : \A id \in Nat : Owns(c, id) => turn <= id /\ id < counter

OneOwner ==
  \A c, d \in Calls : \A id \in Nat : Owns(c, id) /\ Owns(d, id) => c = d

SomeOwner ==
  \A id \in Nat : turn <= id /\ id < counter => \E c \in Calls : Owns(c, id)

HolderHasTurn ==
  \A c \in Calls : phase[c] \in HoldsTurn => cur[c] = turn

WaitersWait ==
  /\ \A c \in Calls : phase[c] = "waiting" => cur[c] \in waiters
  /\ \A id \in waiters : \E c \in Calls : phase[c] = "waiting" /\ cur[c] = id

FiredIsTheTurn ==
  \A id \in Nat : id \in fired <=> id \in waiters /\ id = turn

IInv ==
  /\ TypeOK
  /\ CurrentIds
  /\ OpenIdsAreAhead
  /\ OneOwner
  /\ SomeOwner
  /\ HolderHasTurn
  /\ WaitersWait
  /\ FiredIsTheTurn

-----------------------------------------------------------------------------
(* What the ids and turns amount to: one numbered request at a time. *)
Dispatching == \E c \in Calls : phase[c] \in HoldsTurn

Order == INSTANCE OrderedDispatch
           WITH issued <- counter, next <- turn, busy <- Dispatching

(* The dispatches are those of a single server that takes the requests in   *)
(* the order of their numbers: "Requests are to be executed in the order of *)
(* request ids".                                                            *)
ImplementsOrderedDispatch == Order!Spec

=============================================================================
