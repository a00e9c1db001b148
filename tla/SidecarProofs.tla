---------------------------- MODULE SidecarProofs ----------------------------
(* Theorems about Sidecar, for any RPCs and any bounds on the faults. *)
EXTENDS Sidecar, TLAPS

(* The collector holds a response between taking it out and resolving it,   *)
(* and futures to fail only at its end; _shutdown holds none before it has  *)
(* listed them.                                                             *)
HandsAreFree ==
  /\ popped # None <=> collector \in {"resolve", "drainResolve"}
  /\ collector # "failing" => failing["collector"] = {}
  /\ shutdown \in {"no", "killed"} => failing["shutdown"] = {}

(* Who could still enter a future when the collector leaves its loop: the   *)
(* process is dead, or the callers never got the sidecar.                   *)
EndsWithTheProcess ==
  /\ closed => shutdown = "done"
  /\ shutdown # "no" => ~alive
  /\ collector = "startup" => ready = "waiting"
  /\ collector \in {"drain", "drainResolve", "failAll", "failing", "ended"} /\ faults.breaks = 0
       => ~alive \/ ready = "failed"

FutureInv == /\ TypeOK /\ HandsAreFree /\ EndsWithTheProcess
             /\ NoFutureLost /\ NothingPendingAfterTheEnd

LEMMA FutureInitially == Init => FutureInv
<1> SUFFICES ASSUME Init PROVE FutureInv
  OBVIOUS
<1>1. TypeOK
  <2>1. faults \in [badPayloads : Nat, silent : Nat, unread : Nat, breaks : Nat]
    BY DEF Init
  <2>2. future \in [Requests -> FutureStates] /\ submit \in [Requests -> SubmitStates]
        /\ failing \in [{"collector", "shutdown"} -> SUBSET Requests]
    BY DEF Init, FutureStates, SubmitStates
  <2>3. requestQ \in Seq(Requests) /\ responseQ \in Seq(Payloads)
    BY DEF Init
  <2>4. collector \in CollectorStates /\ shutdown \in ShutdownStates /\ handle \in HandleStates
    BY DEF Init, CollectorStates, ShutdownStates, HandleStates
  <2>5. /\ alive \in BOOLEAN /\ closed \in BOOLEAN /\ registered \in BOOLEAN
        /\ ready \in {"waiting", "up", "failed"} /\ popped \in Responses \union {None}
        /\ executing \in SUBSET Requests /\ missed \in SUBSET Rpcs /\ pending \in SUBSET Requests
    BY DEF Init
  <2> QED
    BY <2>1, <2>2, <2>3, <2>4, <2>5 DEF TypeOK
<1>2. HandsAreFree /\ EndsWithTheProcess /\ NoFutureLost /\ NothingPendingAfterTheEnd
  BY DEF Init, HandsAreFree, EndsWithTheProcess, NoFutureLost, NothingPendingAfterTheEnd
<1> QED
  BY <1>1, <1>2 DEF FutureInv

LEMMA QueueHead ==
  ASSUME NEW S, NEW q \in Seq(S), q # <<>>
  PROVE  Head(q) \in S /\ Tail(q) \in Seq(S)
  OBVIOUS

(* Entering a future, from register_target, submit_rpc or __del__. *)
LEMMA EnterKeeps ==
  ASSUME FutureInv, NEW r \in Requests, EnterPending(r),
         handle' \in HandleStates,
         UNCHANGED <<process, owner, collector, popped, failing, shutdown, faults>>
  PROVE  FutureInv'
<1> USE DEF FutureInv, process, owner
<1>1. TypeOK'
  BY ZenonT(60) DEF TypeOK, EnterPending, SubmitStates, FutureStates
<1>2. HandsAreFree' /\ EndsWithTheProcess'
  BY DEF HandsAreFree, EndsWithTheProcess
<1>3. NoFutureLost'
  BY DEF NoFutureLost, EnterPending, TypeOK
<1>4. NothingPendingAfterTheEnd'
  BY DEF NothingPendingAfterTheEnd, EndsWithTheProcess, EnterPending
<1> QED
  BY <1>1, <1>2, <1>3, <1>4

LEMMA SubmitKeeps ==
  ASSUME FutureInv, NEW r \in Requests, SubmitStep(r) \/ CancelFuture(r)
  PROVE  FutureInv'
<1> USE DEF FutureInv, process, owner, threads
<1>1. CASE Put(r)
  BY <1>1 DEF Put, TypeOK, HandsAreFree, EndsWithTheProcess, NoFutureLost,
              NothingPendingAfterTheEnd, SubmitStates
<1>2. CASE PutFails(r)
  <2>1. /\ faults' \in [badPayloads : Nat, silent : Nat, unread : Nat, breaks : Nat]
        /\ faults'.breaks = faults.breaks
    BY <1>2 DEF PutFails, TypeOK
  <2> QED
    BY <1>2, <2>1 DEF PutFails, TypeOK, HandsAreFree, EndsWithTheProcess, NoFutureLost,
              NothingPendingAfterTheEnd, SubmitStates
<1>3. CASE CheckDone(r)
  BY <1>3 DEF CheckDone, TypeOK, HandsAreFree, EndsWithTheProcess, NoFutureLost,
              NothingPendingAfterTheEnd, SubmitStates
<1>4. CASE SetIpcError(r)
  BY <1>4 DEF SetIpcError, Settle, TypeOK, HandsAreFree, EndsWithTheProcess, NoFutureLost,
              NothingPendingAfterTheEnd, SubmitStates, FutureStates
<1>5. CASE CancelFuture(r)
  BY <1>5 DEF CancelFuture, Settle, TypeOK, HandsAreFree, EndsWithTheProcess, NoFutureLost,
              NothingPendingAfterTheEnd, FutureStates
<1> QED
  BY <1>1, <1>2, <1>3, <1>4, <1>5 DEF SubmitStep

(* What a death leaves of the queues. *)
LEMMA Dying ==
  ASSUME TypeOK, Dies
  PROVE  /\ alive' = FALSE /\ executing' = {} /\ requestQ' = <<>> /\ responseQ' \in Seq(Payloads)
         /\ UNCHANGED <<registered, missed>>
  BY DEF TypeOK, Dies

(* What an execution that ends changes. *)
AnswersAlone(r) ==
  /\ faults' \in [badPayloads : Nat, silent : Nat, unread : Nat, breaks : Nat]
  /\ faults'.breaks = faults.breaks
  /\ responseQ' \in Seq(Payloads)
  /\ executing' = executing \ {r}
  /\ UNCHANGED <<alive, requestQ, registered, missed, owner, pending, future, threads, handle>>

LEMMA AnswerIsAlone ==
  ASSUME TypeOK, NEW r \in Requests, Answers(r)
  PROVE  AnswersAlone(r)
<1>1. ASSUME NEW outcome \in Outcomes \union {"garbled"}, RespondWith(r, outcome)
      PROVE  /\ responseQ' \in Seq(Payloads) /\ executing' = executing \ {r}
             /\ UNCHANGED <<alive, requestQ, registered, missed, owner, pending, future, threads, handle>>
  <2>1. [of |-> r, outcome |-> outcome] \in Payloads
    BY DEF Payloads
  <2> QED
    BY <1>1, <2>1 DEF RespondWith, TypeOK
<1>2. ASSUME EndsWithoutResponse(r)
      PROVE  /\ responseQ' \in Seq(Payloads) /\ executing' = executing \ {r}
             /\ UNCHANGED <<alive, requestQ, registered, missed, owner, pending, future, threads, handle>>
  BY <1>2 DEF EndsWithoutResponse, TypeOK
<1>3. CASE Respond(r)
  BY <1>1, <1>3 DEF Respond, AnswersAlone, TypeOK
<1>4. ASSUME Unread
      PROVE  /\ faults' \in [badPayloads : Nat, silent : Nat, unread : Nat, breaks : Nat]
             /\ faults'.breaks = faults.breaks
  BY <1>4 DEF Unread, TypeOK
<1>5. CASE RespondGarbled(r)
  BY <1>1, <1>4, <1>5 DEF RespondGarbled, AnswersAlone
<1>6. CASE ResponseIsLost(r)
  BY <1>2, <1>4, <1>6 DEF ResponseIsLost, AnswersAlone
<1>7. CASE EndsSilently(r)
  <2>1. /\ faults' \in [badPayloads : Nat, silent : Nat, unread : Nat, breaks : Nat]
        /\ faults'.breaks = faults.breaks
    BY <1>7 DEF EndsSilently, TypeOK
  <2> QED
    BY <1>2, <1>7, <2>1 DEF EndsSilently, AnswersAlone
<1> QED
  BY <1>3, <1>5, <1>6, <1>7 DEF Answers

LEMMA ProcessKeeps ==
  ASSUME FutureInv,
         Take \/ Crash \/ \E r \in Requests : Answers(r)
  PROVE  FutureInv'
<1> USE DEF FutureInv, owner, threads
<1>1. CASE Take
  <2>1. Head(requestQ) \in Requests /\ Tail(requestQ) \in Seq(Requests)
    BY <1>1, QueueHead DEF Take, TypeOK
  <2>2. TypeOK'
    <3>1. registered' \in BOOLEAN
      BY <1>1 DEF Take, TypeOK
    <3>2. missed' \in SUBSET Rpcs /\ executing' \in SUBSET Requests
      BY <1>1, <2>1 DEF Take, TypeOK
    <3> QED
      BY <1>1, <2>1, <3>1, <3>2 DEF Take, TypeOK
  <2> QED
    BY <1>1, <2>2 DEF Take, HandsAreFree, EndsWithTheProcess, NoFutureLost,
                      NothingPendingAfterTheEnd
<1>2. CASE Crash
  <2>1. TypeOK'
    <3>1. /\ alive' \in BOOLEAN /\ executing' \in SUBSET Requests /\ requestQ' \in Seq(Requests)
          /\ responseQ' \in Seq(Payloads)
      BY <1>2, Dying DEF Crash
    <3> QED
      BY <1>2, <3>1, Dying DEF Crash, TypeOK
  <2> QED
    BY <1>2, <2>1, Dying DEF Crash, HandsAreFree, EndsWithTheProcess, NoFutureLost,
                             NothingPendingAfterTheEnd
<1>3. ASSUME NEW r \in Requests, Answers(r)
      PROVE  FutureInv'
  <2>1. AnswersAlone(r)
    BY <1>3, AnswerIsAlone
  <2>2. TypeOK'
    BY <2>1 DEF AnswersAlone, TypeOK
  <2> QED
    BY <2>1, <2>2 DEF AnswersAlone, HandsAreFree, EndsWithTheProcess, NoFutureLost,
                      NothingPendingAfterTheEnd
<1> QED
  BY <1>1, <1>2, <1>3

(* Settling a future leaves the others as they are, and is never undone. *)
LEMMA Settling ==
  ASSUME TypeOK, NEW r, NEW outcome \in {"result", "error", "cancelled"}, Settle(r, outcome)
  PROVE  /\ future' \in [Requests -> FutureStates]
         /\ \A q \in Requests : future'[q] = "pending" => q # r /\ future[q] = "pending"
  BY DEF TypeOK, Settle, FutureStates

LEMMA ReceiveKeeps ==
  ASSUME FutureInv, NEW from, NEW to, Receive(from, to),
         \/ from = "loop" /\ to = "resolve"
         \/ from = "drain" /\ to = "drainResolve"
  PROVE  FutureInv'
<1> USE DEF FutureInv, owner
<1>1. /\ Head(responseQ) \in Payloads /\ Head(responseQ).of \in Requests
      /\ Tail(responseQ) \in Seq(Payloads) /\ Head(responseQ) # None
      /\ Head(responseQ).outcome # "garbled" => Head(responseQ) \in Responses
  <2>1. Head(responseQ) \in Payloads /\ Tail(responseQ) \in Seq(Payloads)
    BY QueueHead DEF Receive, TypeOK
  <2>2. Head(responseQ).of \in Requests
        /\ (Head(responseQ).outcome # "garbled" => Head(responseQ) \in Responses)
    BY <2>1 DEF Payloads, Responses
  <2> QED
    BY <2>1, <2>2, SidecarAssumption
<1>2. CASE collector' = from
  <2>1. UNCHANGED <<pending, popped>> /\ collector' = collector
    BY <1>2 DEF Receive, CollectorGoes
  <2>2. TypeOK'
    BY <1>1, <2>1 DEF Receive, TypeOK
  <2> QED
    BY <2>1, <2>2
    DEF Receive, HandsAreFree, EndsWithTheProcess, NoFutureLost, NothingPendingAfterTheEnd
<1>3. CASE collector' # from
  <2>1. /\ collector = from /\ collector' = to
        /\ popped' = Head(responseQ) /\ pending' = pending \ {popped'.of}
        /\ popped' \in Responses
    BY <1>1, <1>3 DEF Receive, CollectorGoes
  <2>2. TypeOK'
    BY <1>1, <2>1 DEF Receive, TypeOK, CollectorStates
  <2>3. popped = None /\ popped' # None
    BY <1>1, <2>1 DEF HandsAreFree
  <2>4. HandsAreFree' /\ EndsWithTheProcess' /\ NothingPendingAfterTheEnd'
    BY <2>1, <2>3 DEF Receive, HandsAreFree, EndsWithTheProcess, NothingPendingAfterTheEnd
  <2>5. NoFutureLost'
    BY <2>1, <2>3 DEF Receive, NoFutureLost
  <2> QED
    BY <2>2, <2>4, <2>5
<1> QED
  BY <1>2, <1>3

LEMMA SetResultKeeps ==
  ASSUME FutureInv, NEW from, NEW to, SetResult(from, to),
         \/ from = "resolve" /\ to = "loop"
         \/ from = "drainResolve" /\ to = "drain"
  PROVE  FutureInv'
<1> USE DEF FutureInv, owner, process
<1>1. /\ collector = from /\ collector' = to /\ popped' = None /\ popped # None
      /\ UNCHANGED <<alive, requestQ, responseQ, executing, registered, missed, ready, closed,
                     pending, submit, failing, shutdown, handle, faults>>
  BY DEF SetResult, CollectorGoes, HandsAreFree
<1>2. popped.outcome \in {"result", "error", "cancelled"}
  BY <1>1 DEF TypeOK, Responses, Outcomes
<1>3. /\ future' \in [Requests -> FutureStates]
      /\ \A q \in Requests : future'[q] = "pending" => q # popped.of /\ future[q] = "pending"
  BY <1>2, Settling DEF SetResult
<1>4. TypeOK'
  BY <1>1, <1>3 DEF TypeOK, CollectorStates
<1>5. HandsAreFree' /\ EndsWithTheProcess' /\ NothingPendingAfterTheEnd'
  BY <1>1 DEF HandsAreFree, EndsWithTheProcess, NothingPendingAfterTheEnd
<1>6. NoFutureLost'
  BY <1>1, <1>3 DEF NoFutureLost
<1> QED
  BY <1>4, <1>5, <1>6

LEMMA FailOneKeeps ==
  ASSUME FutureInv, NEW t \in {"collector", "shutdown"}, NEW r \in Requests, FailOne(t, r)
  PROVE  FutureInv'
<1> USE DEF FutureInv, owner, process
<1>1. /\ future' \in [Requests -> FutureStates]
      /\ \A q \in Requests : future'[q] = "pending" => q # r /\ future[q] = "pending"
  BY Settling DEF FailOne
<1>2. /\ failing' \in [{"collector", "shutdown"} -> SUBSET Requests]
      /\ \A u \in {"collector", "shutdown"} : failing[u] \ {r} \subseteq failing'[u]
      /\ \A u \in {"collector", "shutdown"} : failing'[u] \subseteq failing[u]
  BY DEF FailOne, TypeOK
<1>3. TypeOK'
  BY <1>1, <1>2 DEF FailOne, TypeOK
<1>4. HandsAreFree' /\ EndsWithTheProcess' /\ NothingPendingAfterTheEnd'
  BY <1>2 DEF FailOne, HandsAreFree, EndsWithTheProcess, NothingPendingAfterTheEnd
<1>5. NoFutureLost'
  BY <1>1, <1>2 DEF FailOne, NoFutureLost
<1> QED
  BY <1>3, <1>4, <1>5

LEMMA CollectorKeeps ==
  ASSUME FutureInv, CollectorStep
  PROVE  FutureInv'
<1> USE DEF FutureInv, owner, process
<1>1. CASE StartupOk \/ StartupFails
  <2>1. TypeOK'
    BY <1>1 DEF StartupOk, StartupFails, CollectorGoes, TypeOK, CollectorStates
  <2>2. HandsAreFree' /\ EndsWithTheProcess'
    BY <1>1 DEF StartupOk, StartupFails, CollectorGoes, HandsAreFree, EndsWithTheProcess
  <2>3. NoFutureLost' /\ NothingPendingAfterTheEnd'
    BY <1>1 DEF StartupOk, StartupFails, CollectorGoes, NoFutureLost, NothingPendingAfterTheEnd
  <2> QED
    BY <2>1, <2>2, <2>3
<1>2. CASE LeaveLoop
  <2>1. /\ faults' \in [badPayloads : Nat, silent : Nat, unread : Nat, breaks : Nat]
        /\ \/ faults' = faults /\ (~alive \/ closed)
           \/ faults'.breaks > 0
    BY <1>2 DEF LeaveLoop, TypeOK
  <2>2. TypeOK'
    BY <1>2, <2>1 DEF LeaveLoop, CollectorGoes, TypeOK, CollectorStates
  <2>3. HandsAreFree' /\ EndsWithTheProcess'
    BY <1>2, <2>1 DEF LeaveLoop, CollectorGoes, HandsAreFree, EndsWithTheProcess
  <2>4. NoFutureLost' /\ NothingPendingAfterTheEnd'
    BY <1>2 DEF LeaveLoop, CollectorGoes, NoFutureLost, NothingPendingAfterTheEnd
  <2> QED
    BY <2>2, <2>3, <2>4
<1>3. CASE LeaveDrain \/ CollectorEnds
  <2>1. TypeOK'
    BY <1>3 DEF LeaveDrain, CollectorEnds, CollectorGoes, TypeOK, CollectorStates
  <2>2. HandsAreFree' /\ EndsWithTheProcess'
    BY <1>3 DEF LeaveDrain, CollectorEnds, CollectorGoes, HandsAreFree, EndsWithTheProcess
  <2>3. NoFutureLost' /\ NothingPendingAfterTheEnd'
    BY <1>3 DEF LeaveDrain, CollectorEnds, CollectorGoes, NoFutureLost, NothingPendingAfterTheEnd
  <2> QED
    BY <2>1, <2>2, <2>3
<1>4. CASE CollectPending
  <2>1. failing["collector"] = {} /\ collector = "failAll" /\ collector' = "failing"
    BY <1>4 DEF CollectPending, CollectorGoes, HandsAreFree
  <2>2. TypeOK'
    BY <1>4, <2>1 DEF CollectPending, TypeOK, CollectorStates
  <2>3. HandsAreFree' /\ EndsWithTheProcess' /\ NothingPendingAfterTheEnd'
    BY <1>4, <2>1
    DEF CollectPending, TypeOK, HandsAreFree, EndsWithTheProcess, NothingPendingAfterTheEnd
  <2>4. NoFutureLost'
    BY <1>4, <2>1 DEF CollectPending, TypeOK, NoFutureLost
  <2> QED
    BY <2>2, <2>3, <2>4
<1> QED
  BY <1>1, <1>2, <1>3, <1>4, ReceiveKeeps, SetResultKeeps, FailOneKeeps DEF CollectorStep

LEMMA ShutdownKeeps ==
  ASSUME FutureInv, Kill \/ ShutdownStep
  PROVE  FutureInv'
<1> USE DEF FutureInv, owner
<1>1. CASE Kill
  <2>1. /\ ~alive' /\ alive' \in BOOLEAN /\ executing' \in SUBSET Requests
        /\ requestQ' \in Seq(Requests) /\ responseQ' \in Seq(Payloads)
        /\ UNCHANGED <<registered, missed>>
    <3>1. CASE Dies
      BY <3>1, Dying
    <3>2. CASE ~alive /\ UNCHANGED process
      BY <3>2 DEF process, TypeOK
    <3> QED
      BY <1>1, <3>1, <3>2 DEF Kill
  <2>2. TypeOK'
    BY <1>1, <2>1 DEF Kill, TypeOK, ShutdownStates
  <2>3. HandsAreFree' /\ EndsWithTheProcess' /\ NoFutureLost' /\ NothingPendingAfterTheEnd'
    BY <1>1, <2>1
    DEF Kill, HandsAreFree, EndsWithTheProcess, NoFutureLost, NothingPendingAfterTheEnd
  <2> QED
    BY <2>2, <2>3
<1>2. CASE CollectOnShutdown
  <2>1. failing["shutdown"] = {} /\ failing' = [failing EXCEPT !["shutdown"] = pending]
    BY <1>2 DEF CollectOnShutdown, HandsAreFree
  <2>2. TypeOK'
    BY <1>2, <2>1 DEF CollectOnShutdown, TypeOK, ShutdownStates, process
  <2>3. HandsAreFree' /\ EndsWithTheProcess' /\ NothingPendingAfterTheEnd'
    BY <1>2, <2>1 DEF CollectOnShutdown, TypeOK, HandsAreFree, EndsWithTheProcess,
                      NothingPendingAfterTheEnd, process
  <2>4. NoFutureLost'
    BY <1>2, <2>1 DEF CollectOnShutdown, TypeOK, NoFutureLost
  <2> QED
    BY <2>2, <2>3, <2>4
<1>3. CASE CloseQueues
  <2>1. TypeOK'
    BY <1>3 DEF CloseQueues, TypeOK, ShutdownStates, process
  <2>2. HandsAreFree' /\ EndsWithTheProcess' /\ NoFutureLost' /\ NothingPendingAfterTheEnd'
    BY <1>3 DEF CloseQueues, HandsAreFree, EndsWithTheProcess, NoFutureLost,
                NothingPendingAfterTheEnd, process
  <2> QED
    BY <2>1, <2>2
<1> QED
  BY <1>1, <1>2, <1>3, FailOneKeeps DEF ShutdownStep

LEMMA FutureStep == FutureInv /\ [Next]_vars => FutureInv'
<1> SUFFICES ASSUME FutureInv, [Next]_vars PROVE FutureInv'
  OBVIOUS
<1>1. CASE UNCHANGED vars
  BY <1>1 DEF vars, FutureInv, TypeOK, HandsAreFree, EndsWithTheProcess, NoFutureLost,
              NothingPendingAfterTheEnd
<1>2. CASE SubmitRegister
  BY <1>2, EnterKeeps DEF SubmitRegister, HandleStates, Requests
<1>3. CASE DropHandle
  BY <1>3, EnterKeeps DEF DropHandle, HandleStates, Requests
<1>4. ASSUME NEW r \in Requests, SubmitRpc(r)
      PROVE  FutureInv'
  BY <1>4, EnterKeeps DEF SubmitRpc, FutureInv, TypeOK
<1>5. CASE GetHandle
  BY <1>5 DEF GetHandle, FutureInv, TypeOK, HandsAreFree, EndsWithTheProcess, NoFutureLost,
              NothingPendingAfterTheEnd, HandleStates, process, owner, threads
<1> QED
  BY <1>1, <1>2, <1>3, <1>4, <1>5, SubmitKeeps, ProcessKeeps, CollectorKeeps, ShutdownKeeps
  DEF Next

(* Every variable keeps its type, whatever dies: the domain of the futures   *)
(* and of the calls of _submit_rpc is the requests, and what the collector  *)
(* holds is a response.                                                     *)
THEOREM SidecarTypes == Spec => []TypeOK
<1>1. FutureInv => TypeOK
  BY DEF FutureInv
<1> QED
  BY <1>1, FutureInitially, FutureStep, PTL DEF Spec

(* A future that is not settled is still in _pending_futures or in the hands *)
(* of a thread that is about to settle it, whoever dies in between.          *)
THEOREM FuturesAreKept == Spec => []NoFutureLost
<1>1. FutureInv => NoFutureLost
  BY DEF FutureInv
<1> QED
  BY <1>1, FutureInitially, FutureStep, PTL DEF Spec

(* After the sweep of the collector nothing is entered any more, because the *)
(* check of is_alive and the entry are under one lock.                       *)
THEOREM SweptIsSwept == Spec => []NothingPendingAfterTheEnd
<1>1. FutureInv => NothingPendingAfterTheEnd
  BY DEF FutureInv
<1> QED
  BY <1>1, FutureInitially, FutureStep, PTL DEF Spec

-----------------------------------------------------------------------------
(* The target of a live handle. *)

(* The registration was taken from the queue, and what became of it. *)
RegistrationTaken ==
  \/ Register \in executing
  \/ \E i \in DOMAIN responseQ : responseQ[i].of = Register
  \/ popped # None /\ popped.of = Register
  \/ future[Register] = "result"
RegistrationGood ==
  \/ \E i \in DOMAIN responseQ : responseQ[i].of = Register /\ responseQ[i].outcome = "result"
  \/ popped # None /\ popped.of = Register /\ popped.outcome = "result"
  \/ future[Register] = "result"

(* Each request is put into the queue once, and the registration taken once. *)
PutOnce ==
  /\ \A i \in DOMAIN requestQ : submit[requestQ[i]] = "returned"
  /\ \A i, j \in DOMAIN requestQ : requestQ[i] = Register /\ requestQ[j] = Register => i = j
  /\ RegistrationTaken => /\ submit[Register] = "returned"
                          /\ \A i \in DOMAIN requestQ : requestQ[i] # Register

(* The handle is there only after the registration, and no RPC is on its way *)
(* to the queue when it is dropped.                                          *)
HandleAfterTarget ==
  /\ handle \in {"none", "registering"} => /\ \A r \in Rpcs \union {Unregister} : submit[r] = "idle"
                                           /\ RegistrationGood => registered
  /\ handle \in {"live", "dropped"} => future[Register] = "result"
  /\ handle = "live" => registered /\ submit[Unregister] = "idle"
  /\ handle = "dropped" => \A r \in Rpcs : submit[r] # "registered"

(* The unregistration is behind every RPC. *)
UnregisterComesLast ==
  \A i \in DOMAIN requestQ :
    requestQ[i] \in Rpcs =>
      registered /\ \A j \in DOMAIN requestQ : requestQ[j] = Unregister => i < j

TargetInv == PutOnce /\ HandleAfterTarget /\ UnregisterComesLast /\ LiveHandleFindsTarget

LEMMA TargetInitially == Init => TargetInv
  BY DEF Init, TargetInv, PutOnce, HandleAfterTarget, UnregisterComesLast, LiveHandleFindsTarget,
         RegistrationTaken, RegistrationGood, Requests

(* A call stays where it is, or goes on without putting its request. *)
FallsBack(r) ==
  \/ submit'[r] = submit[r]
  \/ /\ submit[r] \in {"registered", "failed", "unsettled"}
     /\ submit'[r] \in {"failed", "unsettled", "returned", "raised"}

(* What leaves the queues and the process alone, and takes no call back to   *)
(* the queue.                                                                *)
LEMMA BystanderKeeps ==
  ASSUME TypeOK, TargetInv,
         UNCHANGED <<requestQ, registered, missed, handle>>,
         executing' \subseteq executing,
         \A r \in Requests : FallsBack(r),
         future'[Register] = "result" => RegistrationGood,
         RegistrationGood' => RegistrationGood, RegistrationTaken' => RegistrationTaken,
         future[Register] = "result" => future'[Register] = "result"
  PROVE  TargetInv'
<1>1. PutOnce'
  <2>1. \A i \in DOMAIN requestQ : requestQ[i] \in Requests
    BY DEF TypeOK
  <2> QED
    BY <2>1 DEF TargetInv, PutOnce, Requests, FallsBack
<1>2. HandleAfterTarget'
  BY DEF TargetInv, HandleAfterTarget, Requests, FallsBack
<1>3. UnregisterComesLast' /\ LiveHandleFindsTarget'
  BY DEF TargetInv, UnregisterComesLast, LiveHandleFindsTarget
<1> QED
  BY <1>1, <1>2, <1>3 DEF TargetInv

LEMMA QueueElements ==
  ASSUME TypeOK
  PROVE  /\ \A i \in DOMAIN requestQ : requestQ[i] \in Requests
         /\ \A i \in DOMAIN responseQ : responseQ[i] \in Payloads /\ responseQ[i] # None
         /\ DOMAIN requestQ = 1..Len(requestQ) /\ Len(requestQ) \in Nat
         /\ DOMAIN responseQ = 1..Len(responseQ) /\ Len(responseQ) \in Nat
<1>1. \A i \in DOMAIN responseQ : responseQ[i] \in Payloads
  BY DEF TypeOK
<1> QED
  BY <1>1, SidecarAssumption DEF TypeOK

LEMMA EnterKeepsTarget ==
  ASSUME TypeOK, TargetInv, SubmitRegister \/ DropHandle \/ \E r \in Requests : SubmitRpc(r)
  PROVE  TargetInv'
<1> USE DEF TargetInv, process
<1>1. CASE SubmitRegister
  <2>1. submit[Register] = "idle" /\ handle = "none" /\ handle' = "registering"
    BY <1>1 DEF SubmitRegister, EnterPending
  <2>2. /\ \A q \in Requests \ {Register} : submit'[q] = submit[q] /\ future'[q] = future[q]
        /\ future'[Register] # "result" \/ future'[Register] = future[Register]
        /\ UNCHANGED <<requestQ, responseQ, executing, registered, missed, popped>>
    BY <1>1 DEF SubmitRegister, EnterPending, TypeOK
  <2>3. ~RegistrationTaken
    BY <2>1 DEF PutOnce
  <2>4. ~RegistrationTaken' /\ ~RegistrationGood'
    BY <2>2, <2>3 DEF RegistrationTaken, RegistrationGood
  <2>5. PutOnce'
    BY <2>1, <2>2, <2>4, QueueElements DEF PutOnce
  <2>6. HandleAfterTarget'
    BY <2>1, <2>2, <2>4, SidecarAssumption DEF HandleAfterTarget, Requests
  <2> QED
    BY <2>2, <2>5, <2>6 DEF UnregisterComesLast, LiveHandleFindsTarget
<1>2. ASSUME NEW r \in Requests,
             (r \in Rpcs /\ handle' = handle) \/ (r = Unregister /\ handle' = "dropped"),
             handle = "live", submit[r] = "idle", \A q \in Requests \ {r} : submit'[q] = submit[q],
             r = Unregister => \A q \in Rpcs : submit[q] # "registered",
             future'[Register] = future[Register],
             UNCHANGED <<requestQ, responseQ, executing, registered, missed, popped>>
      PROVE  TargetInv'
  <2>1. r # Register /\ Register \in Requests /\ Unregister \in Requests /\ Rpcs \subseteq Requests
    BY <1>2, SidecarAssumption DEF Requests
  <2>2. RegistrationTaken' = RegistrationTaken /\ RegistrationGood' = RegistrationGood
    BY <1>2 DEF RegistrationTaken, RegistrationGood
  <2>3. PutOnce'
    BY <1>2, <2>1, <2>2, QueueElements DEF PutOnce
  <2>4. HandleAfterTarget'
    BY <1>2, <2>1, <2>2, SidecarAssumption DEF HandleAfterTarget
  <2> QED
    BY <1>2, <2>3, <2>4 DEF UnregisterComesLast, LiveHandleFindsTarget
<1>3. CASE DropHandle
  <2>1. /\ handle = "live" /\ handle' = "dropped" /\ submit[Unregister] = "idle"
        /\ \A q \in Rpcs : submit[q] # "registered"
    BY <1>3 DEF DropHandle, EnterPending, InSubmit, Requests
  <2>2. /\ \A q \in Requests \ {Unregister} : submit'[q] = submit[q]
        /\ future'[Register] = future[Register] /\ UNCHANGED popped
    BY <1>3, SidecarAssumption DEF DropHandle, EnterPending, TypeOK, Requests
  <2> QED
    BY <1>2, <1>3, <2>1, <2>2 DEF DropHandle, Requests
<1>4. ASSUME NEW r \in Requests, SubmitRpc(r)
      PROVE  TargetInv'
  <2>1. /\ handle = "live" /\ handle' = handle /\ submit[r] = "idle" /\ r \in Rpcs
        /\ UNCHANGED popped
    BY <1>4 DEF SubmitRpc, EnterPending
  <2>2. /\ \A q \in Requests \ {r} : submit'[q] = submit[q]
        /\ future'[Register] = future[Register] /\ r # Unregister
    BY <1>4, <2>1, SidecarAssumption DEF SubmitRpc, EnterPending, TypeOK, Requests
  <2>3. UNCHANGED <<requestQ, responseQ, executing, registered, missed>>
    BY <1>4 DEF SubmitRpc
  <2> QED
    BY <1>2, <2>1, <2>2, <2>3
<1> QED
  BY <1>1, <1>3, <1>4

LEMMA PutKeepsTarget ==
  ASSUME TypeOK, TargetInv, NEW r \in Requests, Put(r)
  PROVE  TargetInv'
<1> USE DEF TargetInv
<1> DEFINE n == Len(requestQ)
<1>1. /\ submit[r] = "registered" /\ submit'[r] = "returned"
      /\ \A q \in Requests \ {r} : submit'[q] = submit[q]
      /\ UNCHANGED <<responseQ, executing, registered, missed, popped, future, handle>>
  BY DEF Put, TypeOK
<1>2. /\ n \in Nat /\ DOMAIN requestQ = 1..n /\ DOMAIN requestQ' = 1..n+1
      /\ requestQ'[n + 1] = r
      /\ \A i \in 1..n : requestQ'[i] = requestQ[i] /\ requestQ[i] \in Requests
  BY QueueElements DEF Put, TypeOK
<1>3. RegistrationTaken' = RegistrationTaken /\ RegistrationGood' = RegistrationGood
  BY <1>1 DEF RegistrationTaken, RegistrationGood
<1>4. \A i \in 1..n : requestQ[i] # r
  BY <1>1, <1>2 DEF PutOnce
<1>5. PutOnce'
  <2>1. \A i \in DOMAIN requestQ' : submit'[requestQ'[i]] = "returned"
    BY <1>1, <1>2, <1>4 DEF PutOnce
  <2>2. \A i, j \in DOMAIN requestQ' :
          requestQ'[i] = Register /\ requestQ'[j] = Register => i = j
    BY <1>2, <1>4 DEF PutOnce
  <2>3. RegistrationTaken => r # Register
    BY <1>1 DEF PutOnce
  <2>4. RegistrationTaken => submit'[Register] = "returned"
    BY <1>1, <2>3 DEF PutOnce, Requests
  <2>5. RegistrationTaken => \A i \in DOMAIN requestQ' : requestQ'[i] # Register
    BY <1>2, <2>3 DEF PutOnce
  <2> QED
    BY <1>3, <2>1, <2>2, <2>4, <2>5 DEF PutOnce
<1>6. HandleAfterTarget'
  BY <1>1, <1>3, SidecarAssumption DEF HandleAfterTarget, Requests, TypeOK
<1>7. UnregisterComesLast'
  <2>1. r \in Rpcs => registered /\ \A j \in 1..n : requestQ[j] # Unregister
    BY <1>1, <1>2 DEF HandleAfterTarget, PutOnce, TypeOK, HandleStates, Requests
  <2>2. ASSUME NEW i \in 1..n+1, requestQ'[i] \in Rpcs
        PROVE  registered /\ \A j \in 1..n+1 : requestQ'[j] = Unregister => i < j
    <3>1. CASE i = n + 1
      BY <1>2, <2>1, <2>2, <3>1, SidecarAssumption
    <3>2. CASE i # n + 1
      BY <1>2, <2>2, <3>2 DEF UnregisterComesLast
    <3> QED
      BY <3>1, <3>2
  <2> QED
    BY <1>1, <1>2, <2>2 DEF UnregisterComesLast
<1> QED
  BY <1>1, <1>5, <1>6, <1>7 DEF LiveHandleFindsTarget

LEMMA TakeKeepsTarget ==
  ASSUME TypeOK, TargetInv, Take
  PROVE  TargetInv'
<1> USE DEF TargetInv
<1> DEFINE n == Len(requestQ)
           r == Head(requestQ)
<1>1. /\ n \in Nat /\ n > 0 /\ DOMAIN requestQ = 1..n /\ DOMAIN requestQ' = 1..n-1
      /\ r = requestQ[1] /\ r \in Requests
      /\ \A i \in 1..n-1 : requestQ'[i] = requestQ[i + 1] /\ i + 1 \in 1..n
      /\ \A i \in 1..n : requestQ[i] \in Requests
  BY QueueElements DEF Take, TypeOK
<1>2. /\ executing' = executing \union {r}
      /\ r \in Rpcs => registered' = registered
      /\ missed' = IF r \in Rpcs /\ ~registered THEN missed \union {r} ELSE missed
      /\ UNCHANGED <<responseQ, future, submit, popped, handle>>
  BY SidecarAssumption DEF Take, threads, Requests
<1>3. r \in Rpcs => registered
  BY <1>1 DEF UnregisterComesLast
<1>4. /\ RegistrationGood' = RegistrationGood
      /\ RegistrationTaken' => RegistrationTaken \/ r = Register
  BY <1>2 DEF RegistrationTaken, RegistrationGood
<1>5. PutOnce'
  <2>1. \A i, j \in 1..n-1 : requestQ'[i] = Register /\ requestQ'[j] = Register => i = j
    BY <1>1 DEF PutOnce
  <2>2. \A i \in 1..n-1 : submit'[requestQ'[i]] = "returned"
    BY <1>1, <1>2 DEF PutOnce
  <2>3. r = Register => \A i \in 1..n-1 : requestQ'[i] # Register
    BY <1>1 DEF PutOnce
  <2>4. r = Register => submit[Register] = "returned"
    BY <1>1 DEF PutOnce
  <2>5. RegistrationTaken => \A i \in 1..n-1 : requestQ'[i] # Register
    BY <1>1 DEF PutOnce
  <2> QED
    BY <1>1, <1>2, <1>4, <2>1, <2>2, <2>3, <2>4, <2>5 DEF PutOnce
<1>6. HandleAfterTarget'
  <2>1. CASE r \in Rpcs
    BY <1>2, <1>4, <2>1 DEF HandleAfterTarget
  <2>2. CASE r = Register
    <3>1. ~RegistrationTaken /\ ~RegistrationGood
      BY <1>1, <2>2 DEF PutOnce, RegistrationTaken, RegistrationGood
    <3>2. handle \in {"none", "registering"}
      BY <3>1 DEF HandleAfterTarget, RegistrationTaken, TypeOK, HandleStates
    <3> QED
      BY <1>2, <1>4, <3>1, <3>2 DEF HandleAfterTarget
  <2>3. CASE r = Unregister
    <3>1. submit[Unregister] = "returned"
      BY <1>1, <2>3 DEF PutOnce
    <3>2. handle = "dropped"
      BY <3>1 DEF HandleAfterTarget, TypeOK, HandleStates
    <3> QED
      BY <1>2, <3>2 DEF HandleAfterTarget
  <2> QED
    BY <1>1, <2>1, <2>2, <2>3 DEF Requests
<1>7. UnregisterComesLast'
  <2> SUFFICES ASSUME NEW i \in 1..n-1, requestQ'[i] \in Rpcs
               PROVE  registered' /\ \A j \in 1..n-1 : requestQ'[j] = Unregister => i < j
    BY <1>1 DEF UnregisterComesLast
  <2>1. i + 1 \in 1..n /\ requestQ[i + 1] \in Rpcs
    BY <1>1
  <2>2. registered /\ \A j \in 1..n : requestQ[j] = Unregister => i + 1 < j
    BY <1>1, <2>1 DEF UnregisterComesLast
  <2>3. r # Unregister
    BY <1>1, <2>2
  <2>4. r # Register
    <3>1. submit[requestQ[i + 1]] = "returned"
      BY <1>1, <2>1 DEF PutOnce
    <3>2. handle \in {"live", "dropped"}
      BY <2>1, <3>1 DEF HandleAfterTarget, TypeOK, HandleStates
    <3>3. RegistrationTaken
      BY <3>2 DEF HandleAfterTarget, RegistrationTaken
    <3> QED
      BY <1>1, <3>3 DEF PutOnce
  <2>5. registered'
    BY <1>1, <1>2, <2>2, <2>3, <2>4 DEF Requests
  <2>6. \A j \in 1..n-1 : requestQ'[j] = Unregister => i < j
    BY <1>1, <2>2
  <2> QED
    BY <2>5, <2>6
<1> QED
  BY <1>2, <1>3, <1>5, <1>6, <1>7 DEF LiveHandleFindsTarget

LEMMA RespondKeepsTarget ==
  ASSUME TypeOK, TargetInv, NEW r \in Requests, NEW outcome, RespondWith(r, outcome),
         r = Register => (outcome = "result" <=> registered)
  PROVE  TargetInv'
<1> USE DEF TargetInv
<1> DEFINE n == Len(responseQ)
<1>1. responseQ' = Append(responseQ, [of |-> r, outcome |-> outcome])
  BY DEF RespondWith
<1>2. /\ executing' = executing \ {r} /\ r \in executing
      /\ UNCHANGED <<requestQ, registered, missed, future, submit, popped, handle>>
  BY DEF RespondWith, threads
<1>3. /\ n \in Nat /\ DOMAIN responseQ = 1..n /\ DOMAIN responseQ' = 1..n+1
      /\ responseQ'[n + 1] = [of |-> r, outcome |-> outcome]
      /\ \A i \in 1..n : responseQ'[i] = responseQ[i]
  BY <1>1, QueueElements DEF TypeOK
<1>4. RegistrationTaken' => RegistrationTaken
  BY <1>2, <1>3 DEF RegistrationTaken
<1>5. RegistrationGood' => RegistrationGood \/ (r = Register /\ registered)
  BY <1>1, <1>2, <1>3 DEF RegistrationGood
<1>6. PutOnce'
  BY <1>2, <1>4 DEF PutOnce
<1>7. HandleAfterTarget'
  BY <1>2, <1>5 DEF HandleAfterTarget
<1> QED
  BY <1>2, <1>6, <1>7 DEF UnregisterComesLast, LiveHandleFindsTarget

(* What is left of the responses was there before; the queue of the requests *)
(* is gone.                                                                  *)
LEMMA DyingKeepsTarget ==
  ASSUME TypeOK, TargetInv, Dies, UNCHANGED <<future, submit, popped, handle>>
  PROVE  TargetInv'
<1> USE DEF TargetInv
<1>1. PICK k \in 0..Len(responseQ) : responseQ' = SubSeq(responseQ, 1, k)
  BY DEF Dies
<1>2. \A i \in DOMAIN responseQ' : i \in DOMAIN responseQ /\ responseQ'[i] = responseQ[i]
  BY <1>1, QueueElements DEF TypeOK
<1>3. /\ executing' = {} /\ requestQ' = <<>> /\ UNCHANGED <<registered, missed>>
  BY DEF Dies
<1>4. (RegistrationTaken' => RegistrationTaken) /\ (RegistrationGood' => RegistrationGood)
  BY <1>2, <1>3 DEF RegistrationTaken, RegistrationGood
<1>5. PutOnce'
  BY <1>3, <1>4 DEF PutOnce
<1>6. HandleAfterTarget'
  BY <1>3, <1>4 DEF HandleAfterTarget
<1> QED
  BY <1>3, <1>5, <1>6 DEF UnregisterComesLast, LiveHandleFindsTarget

LEMMA ReceiveKeepsTarget ==
  ASSUME TypeOK, TargetInv, popped = None, NEW from, NEW to, Receive(from, to)
  PROVE  TargetInv'
<1> DEFINE n == Len(responseQ)
<1>1. /\ n \in Nat /\ n > 0 /\ DOMAIN responseQ = 1..n /\ DOMAIN responseQ' = 1..n-1
      /\ \A i \in 1..n-1 : responseQ'[i] = responseQ[i + 1] /\ i + 1 \in 1..n
      /\ Head(responseQ) = responseQ[1] /\ 1 \in 1..n
  BY QueueElements DEF Receive, TypeOK
<1>2. popped' = None \/ popped' = responseQ[1]
  BY <1>1 DEF Receive
<1>3. UNCHANGED <<requestQ, executing, registered, missed, future, submit, handle>>
  BY DEF Receive
<1>4. \A i \in DOMAIN responseQ' : \E j \in DOMAIN responseQ : responseQ'[i] = responseQ[j]
  BY <1>1
<1>5. RegistrationTaken' => RegistrationTaken
  BY <1>1, <1>2, <1>3, <1>4 DEF RegistrationTaken
<1>6. RegistrationGood' => RegistrationGood
  BY <1>1, <1>2, <1>3, <1>4 DEF RegistrationGood
<1>7. future[Register] = "result" => RegistrationGood
  BY DEF RegistrationGood
<1> QED
  BY <1>3, <1>5, <1>6, <1>7, BystanderKeeps DEF FallsBack

(* A settled future gets its outcome from the response that was popped. *)
LEMMA SetResultKeepsTarget ==
  ASSUME TypeOK, TargetInv, popped # None, NEW from, NEW to, SetResult(from, to)
  PROVE  TargetInv'
<1>1. /\ popped' = None
      /\ UNCHANGED <<requestQ, responseQ, executing, registered, missed, submit, handle>>
  BY DEF SetResult, process
<1>2. popped.of \in Requests /\ popped.outcome \in Outcomes
  BY DEF TypeOK, Responses
<1>3. /\ future'[Register] = "result" =>
           future[Register] = "result" \/ (popped.of = Register /\ popped.outcome = "result")
      /\ future[Register] = "result" => future'[Register] = "result"
  BY <1>2 DEF SetResult, Settle, TypeOK, Requests
<1>4. (RegistrationTaken' => RegistrationTaken) /\ (RegistrationGood' => RegistrationGood)
  BY <1>1, <1>3 DEF RegistrationTaken, RegistrationGood
<1>5. future'[Register] = "result" => RegistrationGood
  BY <1>3 DEF RegistrationGood
<1> QED
  BY <1>1, <1>3, <1>4, <1>5, BystanderKeeps DEF FallsBack

LEMMA GetHandleKeepsTarget ==
  ASSUME TypeOK, TargetInv, GetHandle
  PROVE  TargetInv'
<1> USE DEF TargetInv
<1>1. /\ handle = "registering" /\ handle' = "live" /\ future[Register] = "result"
      /\ UNCHANGED <<requestQ, responseQ, executing, registered, missed, future, submit, popped>>
  BY DEF GetHandle, process, threads
<1>2. RegistrationTaken' = RegistrationTaken /\ RegistrationGood' = RegistrationGood
  BY <1>1 DEF RegistrationTaken, RegistrationGood
<1>3. HandleAfterTarget'
  BY <1>1 DEF HandleAfterTarget, RegistrationGood
<1> QED
  BY <1>1, <1>2, <1>3 DEF PutOnce, UnregisterComesLast, LiveHandleFindsTarget

(* A future is settled with an error, or cancelled, or left alone. *)
LEMMA OthersKeepTarget ==
  ASSUME TypeOK, TargetInv,
         UNCHANGED <<requestQ, responseQ, registered, missed, popped, handle>>,
         executing' \subseteq executing,
         \A r \in Requests : FallsBack(r),
         \/ UNCHANGED future
         \/ \E r \in Requests : Settle(r, "error") \/ Settle(r, "cancelled")
  PROVE  TargetInv'
<1>1. future'[Register] = "result" <=> future[Register] = "result"
  BY DEF Settle, TypeOK, Requests
<1>2. (RegistrationTaken' => RegistrationTaken) /\ (RegistrationGood' => RegistrationGood)
  BY <1>1 DEF RegistrationTaken, RegistrationGood
<1>3. future[Register] = "result" => RegistrationGood
  BY DEF RegistrationGood
<1> QED
  BY <1>1, <1>2, <1>3, BystanderKeeps

LEMMA TargetStep == FutureInv /\ TargetInv /\ [Next]_vars => TargetInv'
<1> SUFFICES ASSUME FutureInv, TargetInv, [Next]_vars PROVE TargetInv'
  OBVIOUS
<1> USE DEF process, owner, threads
<1>1. TypeOK /\ HandsAreFree
  BY DEF FutureInv
<1>2. CASE UNCHANGED vars
  BY <1>1, <1>2, OthersKeepTarget DEF vars, FallsBack
<1>3. ASSUME NEW r \in Requests, PutFails(r) \/ CheckDone(r) \/ SetIpcError(r)
      PROVE  TargetInv'
  <2>1. \A q \in Requests : FallsBack(q)
    BY <1>1, <1>3 DEF PutFails, CheckDone, SetIpcError, TypeOK, FallsBack
  <2>2. UNCHANGED <<requestQ, responseQ, executing, registered, missed, popped, handle>>
    BY <1>3 DEF PutFails, CheckDone, SetIpcError
  <2>3. UNCHANGED future \/ Settle(r, "error")
    BY <1>3 DEF PutFails, CheckDone, SetIpcError
  <2> QED
    BY <1>1, <2>1, <2>2, <2>3, OthersKeepTarget
<1>4. ASSUME NEW r \in Requests, CancelFuture(r) \/ EndsWithoutResponse(r)
      PROVE  TargetInv'
  BY <1>1, <1>4, OthersKeepTarget DEF CancelFuture, EndsWithoutResponse, FallsBack
<1>5. ASSUME NEW r \in Requests, NEW t \in {"collector", "shutdown"}, FailOne(t, r)
      PROVE  TargetInv'
  BY <1>1, <1>5, OthersKeepTarget DEF FailOne, FallsBack
<1>6. CASE StartupOk \/ StartupFails \/ LeaveLoop \/ LeaveDrain \/ CollectPending \/ CollectorEnds
  BY <1>1, <1>6, OthersKeepTarget
  DEF StartupOk, StartupFails, LeaveLoop, LeaveDrain, CollectPending, CollectorEnds, FallsBack
<1>7. CASE CollectOnShutdown \/ CloseQueues
  BY <1>1, <1>7, OthersKeepTarget DEF CollectOnShutdown, CloseQueues, FallsBack
<1>8. CASE Receive("loop", "resolve") \/ Receive("drain", "drainResolve")
  <2>1. popped = None
    BY <1>1, <1>8 DEF Receive, CollectorGoes, HandsAreFree
  <2> QED
    BY <1>1, <1>8, <2>1, ReceiveKeepsTarget
<1>9. CASE SetResult("resolve", "loop") \/ SetResult("drainResolve", "drain")
  <2>1. popped # None
    BY <1>1, <1>9 DEF SetResult, CollectorGoes, HandsAreFree
  <2> QED
    BY <1>1, <1>9, <2>1, SetResultKeepsTarget
<1>10. CASE Crash
  BY <1>1, <1>10, DyingKeepsTarget DEF Crash
<1>11. CASE Kill
  <2>1. CASE Dies
    BY <1>1, <1>11, <2>1, DyingKeepsTarget DEF Kill
  <2>2. CASE UNCHANGED process
    BY <1>1, <1>11, <2>2, OthersKeepTarget DEF Kill, FallsBack
  <2> QED
    BY <1>11, <2>1, <2>2 DEF Kill
<1>12. CASE CollectorStep
  BY <1>5, <1>6, <1>8, <1>9, <1>12 DEF CollectorStep
<1>13. CASE ShutdownStep
  BY <1>5, <1>7, <1>13 DEF ShutdownStep
<1>14. ASSUME NEW r \in Requests, SubmitStep(r)
       PROVE  TargetInv'
  BY <1>1, <1>3, <1>14, PutKeepsTarget DEF SubmitStep
<1>15. CASE GetHandle
  BY <1>1, <1>15, GetHandleKeepsTarget
<1>16. CASE SubmitRegister \/ DropHandle \/ \E r \in Requests : SubmitRpc(r)
  BY <1>1, <1>16, EnterKeepsTarget
<1>17. CASE Take
  BY <1>1, <1>17, TakeKeepsTarget
<1>18. ASSUME NEW r \in Requests, Answers(r)
       PROVE  TargetInv'
  <2>1. CASE Respond(r)
    BY <1>1, <2>1, RespondKeepsTarget DEF Respond
  <2>2. CASE RespondGarbled(r)
    BY <1>1, <2>2, RespondKeepsTarget, SidecarAssumption DEF RespondGarbled
  <2>3. CASE ResponseIsLost(r) \/ EndsSilently(r)
    BY <1>4, <2>3 DEF ResponseIsLost, EndsSilently
  <2> QED
    BY <1>18, <2>1, <2>2, <2>3 DEF Answers
<1> QED
  BY <1>2, <1>4, <1>10, <1>11, <1>12, <1>13, <1>14, <1>15, <1>16, <1>17, <1>18 DEF Next

(* An RPC of a live handle finds its target: the handle is given out after  *)
(* the registration has been answered, and the unregistration is put behind *)
(* every RPC that was submitted through the handle.                         *)
THEOREM LiveHandlesWork == Spec => []LiveHandleFindsTarget
<1>1. TargetInv => LiveHandleFindsTarget
  BY DEF TargetInv
<1> QED
  BY <1>1, FutureInitially, FutureStep, TargetInitially, TargetStep, PTL DEF Spec
===============================================================================
