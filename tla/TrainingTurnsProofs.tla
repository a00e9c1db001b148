------------------------- MODULE TrainingTurnsProofs -------------------------
(***************************************************************************)
(* Proofs about TrainingTurns, for any set of calls and any bounds.        *)
(***************************************************************************)
EXTENDS TrainingTurns, TLAPS

(* A call is made, or its coroutine starts to reserve ids: no id, turn or  *)
(* waiter changes, and the call had and has no current id.                 *)
LEMMA QuietStep ==
  ASSUME IInv, NEW c \in Calls,
         phase[c] \notin {"waiting", "sending", "backoff", "cancelled"},
         NEW p \in Phases \ {"waiting", "sending", "backoff"}, GoTo(c, p),
         UNCHANGED <<counter, turn, waiters, fired, queued, cur>>
  PROVE  /\ CurrentIds' /\ OpenIdsAreAhead' /\ OneOwner' /\ SomeOwner'
         /\ HolderHasTurn' /\ WaitersWait' /\ FiredIsTheTurn'
<1> USE DEF IInv, TypeOK, GoTo, HoldsTurn, Phases
<1>1. CurrentIds'
  BY DEF CurrentIds
<1>2. OpenIdsAreAhead' /\ OneOwner' /\ SomeOwner'
  BY DEF OpenIdsAreAhead, OneOwner, SomeOwner, Owns
<1>3. HolderHasTurn' /\ WaitersWait' /\ FiredIsTheTurn'
  BY DEF HolderHasTurn, WaitersWait, FiredIsTheTurn
<1> QED
  BY <1>1, <1>2, <1>3

LEMMA ReserveStep ==
  ASSUME IInv, NEW c \in Calls, ReserveId(c)
  PROVE  IInv'
<1> USE DEF IInv, TypeOK, ReserveId, turns, budgets, HoldsTurn, Phases, NoId
<1>1. TypeOK'
  OBVIOUS
<1>2. CurrentIds'
  BY DEF CurrentIds
<1>3. OpenIdsAreAhead'
  BY DEF OpenIdsAreAhead, CurrentIds, Owns
<1>4. OneOwner'
  BY DEF OneOwner, OpenIdsAreAhead, CurrentIds, Owns
<1>5. SomeOwner'
  BY DEF SomeOwner, CurrentIds, Owns
<1>6. HolderHasTurn' /\ WaitersWait' /\ FiredIsTheTurn'
  BY DEF HolderHasTurn, WaitersWait, FiredIsTheTurn
<1> QED
  BY <1>1, <1>2, <1>3, <1>4, <1>5, <1>6

(* The coroutine goes on after its reserved ids are all there: it asks for *)
(* the turn of its least id when the turn is unchanged.                    *)
LEMMA ContinueStep ==
  ASSUME IInv, NEW c \in Calls, phase[c] \in {"posted", "reserving"},
         Continue(c, turn),
         UNCHANGED <<ids, turn, fired, retries, sent, budgets>>
  PROVE  IInv'
<1> USE DEF IInv, TypeOK, Continue, GoTo, ids, budgets, HoldsTurn, Phases, NoId
<1>1. CASE queued[c] = {}
  <2>1. TypeOK'
    BY <1>1
  <2>2. CurrentIds'
    BY <1>1 DEF CurrentIds
  <2>3. cur' = cur /\ queued' = queued /\ waiters' = waiters
    BY <1>1 DEF CurrentIds
  <2>4. OpenIdsAreAhead' /\ OneOwner' /\ SomeOwner'
    BY <2>3 DEF OpenIdsAreAhead, OneOwner, SomeOwner, Owns
  <2>5. HolderHasTurn' /\ WaitersWait' /\ FiredIsTheTurn'
    BY <1>1, <2>3 DEF HolderHasTurn, WaitersWait, FiredIsTheTurn
  <2> QED
    BY <2>1, <2>2, <2>4, <2>5
<1>2. CASE queued[c] # {}
  <2>1. PICK id \in queued[c] :
          /\ queued' = [queued EXCEPT ![c] = @ \ {id}]
          /\ cur' = [cur EXCEPT ![c] = id]
          /\ \/ /\ turn < id
                /\ GoTo(c, "waiting")
                /\ waiters' = waiters \union {id}
             \/ /\ ~(turn < id)
                /\ GoTo(c, "sending")
                /\ UNCHANGED waiters
    BY <1>2
  <2>2. id \in Nat /\ turn <= id /\ cur[c] = NoId
    BY <2>1 DEF OpenIdsAreAhead, Owns, CurrentIds
  <2>3. TypeOK'
    BY <2>1, <2>2
  <2>4. CurrentIds'
    BY <2>1, <2>2 DEF CurrentIds
  <2>5. \A d \in Calls, n \in Nat : Owns(d, n)' <=> Owns(d, n)
    BY <2>1, <2>2 DEF Owns
  <2>6. OpenIdsAreAhead' /\ OneOwner' /\ SomeOwner'
    BY <2>5 DEF OpenIdsAreAhead, OneOwner, SomeOwner
  <2>7. HolderHasTurn'
    BY <2>1, <2>2 DEF HolderHasTurn
  <2>8. WaitersWait'
    <3>1. \A d \in Calls : phase'[d] = "waiting" => cur'[d] \in waiters'
      BY <2>1, <2>2 DEF WaitersWait
    <3>2. ASSUME NEW n \in waiters'
          PROVE  \E d \in Calls : phase'[d] = "waiting" /\ cur'[d] = n
      <4>1. CASE n \in waiters
        <5>1. PICK d \in Calls : phase[d] = "waiting" /\ cur[d] = n
          BY <4>1 DEF WaitersWait
        <5> QED
          BY <2>1, <5>1
      <4>2. CASE n \notin waiters
        BY <2>1, <3>2, <4>2
      <4> QED
        BY <4>1, <4>2
    <3> QED
      BY <3>1, <3>2 DEF WaitersWait
  <2>9. FiredIsTheTurn'
    BY <2>1, <2>2 DEF FiredIsTheTurn
  <2> QED
    BY <2>3, <2>4, <2>6, <2>7, <2>8, <2>9
<1> QED
  BY <1>1, <1>2

LEMMA WakeStep ==
  ASSUME IInv, NEW c \in Calls, Wake(c)
  PROVE  IInv'
<1> USE DEF IInv, TypeOK, Wake, GoTo, ids, budgets, HoldsTurn, Phases, NoId
<1>1. cur[c] = turn /\ cur[c] \in Nat
  BY DEF CurrentIds, FiredIsTheTurn
<1>2. TypeOK' /\ CurrentIds'
  BY DEF CurrentIds
<1>3. OpenIdsAreAhead' /\ OneOwner' /\ SomeOwner'
  BY DEF OpenIdsAreAhead, OneOwner, SomeOwner, Owns
<1>4. HolderHasTurn' /\ FiredIsTheTurn'
  BY <1>1 DEF HolderHasTurn, FiredIsTheTurn
<1>5. WaitersWait'
  BY <1>1 DEF WaitersWait, OneOwner, Owns
<1> QED
  BY <1>2, <1>3, <1>4, <1>5

(* Releasing the turn, whatever its holder does next: every id that is      *)
(* still open is above the turn, and the next id has its event set.         *)
LEMMA ReleaseFacts ==
  ASSUME IInv, NEW c \in Calls, phase[c] \in HoldsTurn
  PROVE  /\ cur[c] = turn /\ turn + 1 <= counter
         /\ \A n \in queued[c] : n \in Nat /\ turn < n
         /\ \A d \in Calls \ {c} : \A n \in Nat : Owns(d, n) => turn < n
         /\ turn \notin waiters
         /\ fired = {}
<1> USE DEF IInv, TypeOK, HoldsTurn, Phases, NoId
<1>1. cur[c] = turn
  BY DEF HolderHasTurn
<1>2. Owns(c, turn) /\ turn + 1 <= counter
  BY <1>1 DEF Owns, OpenIdsAreAhead
<1>3. \A n \in queued[c] : n \in Nat /\ turn < n
  BY <1>1 DEF OpenIdsAreAhead, CurrentIds, Owns
<1>4. ASSUME NEW d \in Calls \ {c}, NEW n \in Nat, Owns(d, n)
      PROVE  turn < n
  <2>1. n # turn
    BY <1>2, <1>4 DEF OneOwner
  <2> QED
    BY <1>4, <2>1 DEF OpenIdsAreAhead
<1>5. turn \notin waiters
  <2> SUFFICES ASSUME turn \in waiters PROVE FALSE
    OBVIOUS
  <2>1. PICK d \in Calls : phase[d] = "waiting" /\ cur[d] = turn
    BY DEF WaitersWait
  <2>2. d # c
    BY <2>1
  <2> QED
    BY <1>4, <2>1, <2>2 DEF Owns
<1>6. fired = {}
  BY <1>5 DEF FiredIsTheTurn
<1> QED
  BY <1>1, <1>2, <1>3, <1>4, <1>5, <1>6

(* The holder of the turn raises or is cancelled: its id is used up, the    *)
(* ids it has not asked for stay with it.                                   *)
LEMMA AbandonStep ==
  ASSUME IInv, NEW c \in Calls, phase[c] \in HoldsTurn,
         Release, cur' = [cur EXCEPT ![c] = NoId],
         NEW p \in Ended, GoTo(c, p),
         UNCHANGED <<counter, waiters, queued>>
  PROVE  /\ CurrentIds' /\ OpenIdsAreAhead' /\ OneOwner' /\ SomeOwner'
         /\ HolderHasTurn' /\ WaitersWait' /\ FiredIsTheTurn'
<1> USE DEF IInv, TypeOK, Release, GoTo, HoldsTurn, Ended, Phases, NoId
<1>1. /\ cur[c] = turn /\ turn + 1 <= counter
      /\ \A n \in queued[c] : n \in Nat /\ turn < n
      /\ \A d \in Calls \ {c} : \A n \in Nat : Owns(d, n) => turn < n
      /\ turn \notin waiters
      /\ fired = {}
  BY ReleaseFacts
<1>2. CurrentIds'
  BY DEF CurrentIds
<1>3. \A d \in Calls, n \in Nat : Owns(d, n)' <=> Owns(d, n) /\ n # turn
  BY <1>1 DEF Owns
<1>4. OpenIdsAreAhead'
  BY <1>1, <1>3 DEF OpenIdsAreAhead
<1>5. OneOwner' /\ SomeOwner'
  BY <1>3 DEF OneOwner, SomeOwner
<1>6. HolderHasTurn'
  BY <1>1 DEF HolderHasTurn, Owns
<1>7. WaitersWait'
  BY DEF WaitersWait
<1>8. FiredIsTheTurn'
  BY <1>1 DEF FiredIsTheTurn
<1> QED
  BY <1>2, <1>4, <1>5, <1>6, <1>7, <1>8

(* The holder releases the turn and goes on: it ends its loop, takes the    *)
(* next turn itself, or registers to wait for a later one.                  *)
LEMMA SendOkStep ==
  ASSUME IInv, NEW c \in Calls, SendOk(c)
  PROVE  IInv'
<1> USE DEF IInv, TypeOK, SendOk, Continue, Release, GoTo, ids, budgets,
            HoldsTurn, Phases, NoId
<1>1. /\ cur[c] = turn /\ turn + 1 <= counter
      /\ \A n \in queued[c] : n \in Nat /\ turn < n
      /\ \A d \in Calls \ {c} : \A n \in Nat : Owns(d, n) => turn < n
      /\ turn \notin waiters
      /\ fired = {}
  BY ReleaseFacts
<1>2. CASE queued[c] = {}
  <2>1. /\ cur' = [cur EXCEPT ![c] = NoId]
        /\ phase' = [phase EXCEPT ![c] = "awaiting"]
        /\ queued' = queued /\ waiters' = waiters
    BY <1>2
  <2>2. TypeOK' /\ CurrentIds'
    BY <1>1, <2>1 DEF CurrentIds
  <2>3. \A d \in Calls, n \in Nat : Owns(d, n)' <=> Owns(d, n) /\ n # turn
    BY <1>1, <2>1 DEF Owns
  <2>4. OpenIdsAreAhead' /\ OneOwner' /\ SomeOwner'
    BY <1>1, <2>3 DEF OpenIdsAreAhead, OneOwner, SomeOwner
  <2>5. HolderHasTurn'
    BY <1>1, <2>1 DEF HolderHasTurn, Owns
  <2>6. WaitersWait' /\ FiredIsTheTurn'
    BY <1>1, <2>1 DEF WaitersWait, FiredIsTheTurn
  <2> QED
    BY <2>2, <2>4, <2>5, <2>6
<1>3. CASE queued[c] # {}
  <2>1. PICK id \in queued[c] :
          /\ queued' = [queued EXCEPT ![c] = @ \ {id}]
          /\ cur' = [cur EXCEPT ![c] = id]
          /\ \/ /\ turn + 1 < id
                /\ phase' = [phase EXCEPT ![c] = "waiting"]
                /\ waiters' = waiters \union {id}
             \/ /\ ~(turn + 1 < id)
                /\ phase' = [phase EXCEPT ![c] = "sending"]
                /\ UNCHANGED waiters
    BY <1>3
  <2>2. id \in Nat /\ turn < id
    BY <1>1, <2>1
  <2>3. TypeOK' /\ CurrentIds'
    <3>0. turn' \in Nat /\ waiters' \in SUBSET Nat /\ fired' \in SUBSET Nat
      <4>1. turn' \in Nat
        OBVIOUS
      <4>2. waiters' \in SUBSET Nat
        BY <2>1, <2>2
      <4>3. fired' \in SUBSET Nat
        OBVIOUS
      <4> QED
        BY <4>1, <4>2, <4>3
    <3>1. sent' \in SUBSET Nat
      BY <1>1
    <3>2. /\ phase' \in [Calls -> Phases] /\ queued' \in [Calls -> SUBSET Nat]
          /\ cur' \in [Calls -> Nat \union {NoId}] /\ retries' \in [Calls -> Nat]
      BY <2>1, <2>2
    <3>3. TypeOK'
      BY <3>0, <3>1, <3>2
    <3>4. CurrentIds'
      BY <1>1, <2>1, <2>2 DEF CurrentIds
    <3> QED
      BY <3>3, <3>4
  <2>4. \A d \in Calls, n \in Nat : Owns(d, n)' <=> Owns(d, n) /\ n # turn
    BY <1>1, <2>1, <2>2 DEF Owns
  <2>5. OpenIdsAreAhead' /\ OneOwner' /\ SomeOwner'
    BY <1>1, <2>4 DEF OpenIdsAreAhead, OneOwner, SomeOwner
  <2>6. HolderHasTurn'
    BY <1>1, <2>1, <2>2 DEF HolderHasTurn, Owns
  <2>7. WaitersWait'
    <3>1. \A d \in Calls : phase'[d] = "waiting" => cur'[d] \in waiters'
      BY <2>1, <2>2 DEF WaitersWait
    <3>2. ASSUME NEW n \in waiters'
          PROVE  \E d \in Calls : phase'[d] = "waiting" /\ cur'[d] = n
      <4>1. CASE n \in waiters
        <5>1. PICK d \in Calls : phase[d] = "waiting" /\ cur[d] = n
          BY <4>1 DEF WaitersWait
        <5> QED
          BY <2>1, <5>1
      <4>2. CASE n \notin waiters
        BY <2>1, <3>2, <4>2
      <4> QED
        BY <4>1, <4>2
    <3> QED
      BY <3>1, <3>2 DEF WaitersWait
  <2>8. FiredIsTheTurn'
    BY <1>1, <2>1, <2>2 DEF FiredIsTheTurn
  <2> QED
    BY <2>3, <2>5, <2>6, <2>7, <2>8
<1> QED
  BY <1>2, <1>3

LEMMA SendFailsStep ==
  ASSUME IInv, NEW c \in Calls, SendFails(c)
  PROVE  IInv'
<1>1. TypeOK'
  BY DEF IInv, TypeOK, SendFails, Release, GoTo, ids, Phases
<1>2. /\ phase[c] \in HoldsTurn
      /\ GoTo(c, "raised") /\ "raised" \in Ended
      /\ Release /\ cur' = [cur EXCEPT ![c] = NoId]
      /\ UNCHANGED <<counter, waiters, queued>>
  BY DEF SendFails, HoldsTurn, Ended, ids
<1>3. /\ CurrentIds' /\ OpenIdsAreAhead' /\ OneOwner' /\ SomeOwner'
      /\ HolderHasTurn' /\ WaitersWait' /\ FiredIsTheTurn'
  BY <1>2, AbandonStep
<1> QED
  BY <1>1, <1>3 DEF IInv

(* A retryable error and the end of its backoff move nothing but the phase. *)
LEMMA RetryStep ==
  ASSUME IInv, NEW c \in Calls, SendRetryable(c) \/ SendAgain(c)
  PROVE  IInv'
<1> USE DEF IInv, TypeOK, HoldsTurn, Phases, NoId
<1>1. TypeOK'
  <2>1. CASE SendRetryable(c)
    BY <2>1 DEF SendRetryable, GoTo, ids, turns, budgets
  <2>2. CASE SendAgain(c)
    BY <2>2 DEF SendAgain, GoTo, ids, turns, budgets
  <2> QED
    BY <2>1, <2>2
<1>2. /\ UNCHANGED <<counter, turn, waiters, fired, queued, cur>>
      /\ phase[c] \in HoldsTurn
      /\ \E p \in HoldsTurn : phase' = [phase EXCEPT ![c] = p]
  BY DEF SendRetryable, SendAgain, GoTo, ids, turns
<1>3. CurrentIds'
  BY <1>2 DEF CurrentIds
<1>4. OpenIdsAreAhead' /\ OneOwner' /\ SomeOwner'
  BY <1>2 DEF OpenIdsAreAhead, OneOwner, SomeOwner, Owns
<1>5. HolderHasTurn' /\ WaitersWait' /\ FiredIsTheTurn'
  BY <1>2 DEF HolderHasTurn, WaitersWait, FiredIsTheTurn
<1> QED
  BY <1>1, <1>3, <1>4, <1>5

LEMMA CancelStep ==
  ASSUME IInv, NEW c \in Calls, Cancel(c)
  PROVE  IInv'
<1> USE DEF IInv, TypeOK, Cancel, GoTo, ids, turns, Phases, NoId
<1>1. CASE CancelPosted(c) \/ CancelAwaiting(c)
  <2>0. /\ phase[c] \in {"posted", "awaiting"}
        /\ UNCHANGED <<turn, waiters, fired, cur>>
    BY <1>1 DEF CancelPosted, CancelAwaiting
  <2> USE <2>0 DEF HoldsTurn
  <2>1. TypeOK' /\ CurrentIds'
    <3>1. TypeOK'
      OBVIOUS
    <3>2. CurrentIds'
      BY DEF CurrentIds
    <3> QED
      BY <3>1, <3>2
  <2>2. OpenIdsAreAhead' /\ OneOwner' /\ SomeOwner'
    BY DEF OpenIdsAreAhead, OneOwner, SomeOwner, Owns
  <2>3. HolderHasTurn' /\ WaitersWait' /\ FiredIsTheTurn'
    BY DEF HolderHasTurn, WaitersWait, FiredIsTheTurn
  <2> QED
    BY <2>1, <2>2, <2>3
<1>2. CASE CancelWaiting(c)
  <2> USE <1>2 DEF CancelWaiting, HoldsTurn
  <2>1. TypeOK' /\ CurrentIds'
    <3>1. TypeOK'
      <4>1. waiters' \in SUBSET Nat /\ fired' \in SUBSET Nat
        OBVIOUS
      <4>2. phase' \in [Calls -> Phases] /\ cancels' \in Nat
        OBVIOUS
      <4> QED
        BY <4>1, <4>2
    <3>2. CurrentIds'
      BY DEF CurrentIds
    <3> QED
      BY <3>1, <3>2
  <2>2. OpenIdsAreAhead' /\ OneOwner' /\ SomeOwner'
    BY DEF OpenIdsAreAhead, OneOwner, SomeOwner, Owns
  <2>3. HolderHasTurn' /\ FiredIsTheTurn'
    BY DEF HolderHasTurn, FiredIsTheTurn
  <2>4. ASSUME NEW d \in Calls, phase'[d] = "waiting"
        PROVE  cur'[d] \in waiters'
    <3>1. d # c /\ phase[d] = "waiting" /\ cur[d] \in Nat /\ cur[d] \in waiters
      BY <2>4 DEF WaitersWait, CurrentIds
    <3>2. cur[d] # cur[c]
      BY <3>1 DEF OneOwner, Owns
    <3> QED
      BY <3>1, <3>2
  <2>5. ASSUME NEW n \in waiters'
        PROVE  \E d \in Calls : phase'[d] = "waiting" /\ cur'[d] = n
    <3>1. PICK d \in Calls : phase[d] = "waiting" /\ cur[d] = n
      BY <2>5 DEF WaitersWait
    <3> QED
      BY <2>5, <3>1
  <2> QED
    BY <2>1, <2>2, <2>3, <2>4, <2>5 DEF WaitersWait
<1>3. CASE CancelHolding(c)
  <2>1. TypeOK'
    BY <1>3 DEF CancelHolding, Release
  <2>2. /\ phase[c] \in HoldsTurn
        /\ GoTo(c, "cancelled") /\ "cancelled" \in Ended
        /\ Release /\ cur' = [cur EXCEPT ![c] = NoId]
        /\ UNCHANGED <<counter, waiters, queued>>
    BY <1>3 DEF CancelHolding, Ended
  <2>3. /\ CurrentIds' /\ OpenIdsAreAhead' /\ OneOwner' /\ SomeOwner'
        /\ HolderHasTurn' /\ WaitersWait' /\ FiredIsTheTurn'
    BY <2>2, AbandonStep
  <2> QED
    BY <2>1, <2>3
<1> QED
  BY <1>1, <1>2, <1>3

-----------------------------------------------------------------------------

LEMMA InitIInv == Init => IInv
BY DEF Init, IInv, TypeOK, CurrentIds, OpenIdsAreAhead, OneOwner, SomeOwner,
       HolderHasTurn, WaitersWait, FiredIsTheTurn, Owns, HoldsTurn, Phases, NoId

(* The actions that move no id, no turn and no waiter. *)
LEMMA CallStep ==
  ASSUME IInv, NEW c \in Calls, Call(c)
  PROVE  IInv'
<1> USE BoundsAssumption DEF Phases
<1>1. PICK n \in Nat : CallSync(c, n) \/ CallAsync(c, n)
  BY DEF Call, Forward, ForwardAsync, ForwardBackward, ForwardBackwardAsync,
         OptimStep, OptimStepAsync, SaveState, LoadState, LoadWithOptimizerAsync,
         SaveWeightsForSampler, SaveWeightsAndGetSamplingClient
<1>2. TypeOK'
  <2>1. CASE CallSync(c, n)
    BY <2>1 DEF IInv, TypeOK, CallSync, GoTo, turns, budgets
  <2>2. CASE CallAsync(c, n)
    BY <2>2 DEF IInv, TypeOK, CallAsync, GoTo, turns, budgets
  <2> QED
    BY <1>1, <2>1, <2>2
<1>3. /\ phase[c] \notin {"waiting", "sending", "backoff", "cancelled"}
      /\ \E p \in Phases \ {"waiting", "sending", "backoff"} : GoTo(c, p)
      /\ UNCHANGED <<counter, turn, waiters, fired, queued, cur>>
  BY <1>1 DEF CallSync, CallAsync, turns
<1> QED
  BY <1>2, <1>3, QuietStep DEF IInv

LEMMA QuietActions ==
  ASSUME IInv, NEW c \in Calls,
         \/ ChunkingRaises(c)
         \/ Post(c)
         \/ StartReserving(c)
         \/ Settle(c)
  PROVE  IInv'
<1> USE DEF Phases
<1>1. TypeOK'
  <2> USE DEF IInv, TypeOK, GoTo, ids, turns, budgets
  <2>1. CASE ChunkingRaises(c)
    BY <2>1 DEF ChunkingRaises
  <2>2. CASE Post(c)
    BY <2>2 DEF Post
  <2>3. CASE StartReserving(c)
    BY <2>3 DEF StartReserving
  <2>4. CASE Settle(c)
    BY <2>4 DEF Settle
  <2> QED
    BY <2>1, <2>2, <2>3, <2>4
<1>2. /\ phase[c] \notin {"waiting", "sending", "backoff", "cancelled"}
      /\ \E p \in Phases \ {"waiting", "sending", "backoff"} : GoTo(c, p)
      /\ UNCHANGED <<counter, turn, waiters, fired, queued, cur>>
  BY DEF ChunkingRaises, Post, StartReserving, Settle, ids, turns
<1> QED
  BY <1>1, <1>2, QuietStep DEF IInv

LEMMA NextIInv == IInv /\ [Next]_vars => IInv'
<1> SUFFICES ASSUME IInv, [Next]_vars PROVE IInv'
  OBVIOUS
<1>1. CASE UNCHANGED vars
  BY <1>1 DEF vars, IInv, TypeOK, CurrentIds, OpenIdsAreAhead, OneOwner, SomeOwner,
              HolderHasTurn, WaitersWait, FiredIsTheTurn, Owns
<1>2. ASSUME NEW c \in Calls, Call(c) PROVE IInv'
  BY <1>2, CallStep
<1>3. ASSUME NEW c \in Calls, ReserveId(c) PROVE IInv'
  BY <1>3, ReserveStep
<1>4. ASSUME NEW c \in Calls,
             ChunkingRaises(c) \/ Post(c) \/ StartReserving(c) \/ Settle(c)
      PROVE  IInv'
  BY <1>4, QuietActions
<1>5. ASSUME NEW c \in Calls, Start(c) \/ FinishReserving(c) PROVE IInv'
  <2>1. /\ phase[c] \in {"posted", "reserving"}
        /\ Continue(c, turn)
        /\ UNCHANGED <<ids, turn, fired, retries, sent, budgets>>
    BY <1>5 DEF Start, FinishReserving
  <2> QED
    BY <2>1, ContinueStep
<1>6. ASSUME NEW c \in Calls, Wake(c) PROVE IInv'
  BY <1>6, WakeStep
<1>7. ASSUME NEW c \in Calls, SendOk(c) PROVE IInv'
  BY <1>7, SendOkStep
<1>8. ASSUME NEW c \in Calls, SendRetryable(c) \/ SendAgain(c) PROVE IInv'
  BY <1>8, RetryStep
<1>9. ASSUME NEW c \in Calls, SendFails(c) PROVE IInv'
  BY <1>9, SendFailsStep
<1>10. ASSUME NEW c \in Calls, Cancel(c) PROVE IInv'
  BY <1>10, CancelStep
<1> QED
  BY <1>1, <1>2, <1>3, <1>4, <1>5, <1>6, <1>7, <1>8, <1>9, <1>10 DEF Next

THEOREM Invariance == Spec => []IInv
<1>1. Init => IInv
  BY InitIInv
<1>2. IInv /\ [Next]_vars => IInv'
  BY NextIInv
<1> QED
  BY <1>1, <1>2, PTL DEF Spec

-----------------------------------------------------------------------------
(* Every variable keeps its type, whatever calls are made, fail or are     *)
(* cancelled.                                                              *)
THEOREM TypeCorrect == Spec => []TypeOK
<1>1. IInv => TypeOK
  BY DEF IInv
<1> QED
  BY <1>1, Invariance, PTL

(* _take_turn is a mutual exclusion lock on dispatching, held by the request *)
(* whose turn it is: for any number of calls, retries and cancellations.     *)
THEOREM MutualExclusion == Spec => []OneRequestAtATime
<1>1. IInv => OneRequestAtATime
  <2> SUFFICES ASSUME IInv, NEW c \in Calls, NEW d \in Calls, phase[c] \in HoldsTurn
               PROVE  cur[c] = turn /\ (phase[d] \in HoldsTurn => c = d)
    BY DEF OneRequestAtATime
  <2> QED
    BY DEF IInv, TypeOK, HolderHasTurn, OneOwner, Owns
<1> QED
  BY <1>1, Invariance, PTL

(* The assertions of _take_turn never fail. *)
THEOREM AssertionsHold == Spec => []TurnAssertionsHold
<1>1. IInv => TurnAssertionsHold
  BY DEF IInv, TypeOK, TurnAssertionsHold, OpenIds, OpenIdsAreAhead, Owns,
         FiredIsTheTurn, NoId
<1> QED
  BY <1>1, Invariance, PTL

(* A call whose turn it is has been woken, or is not waiting. *)
THEOREM NoWakeupIsLost == Spec => []NoMissedWakeup
<1>1. IInv => NoMissedWakeup
  BY DEF IInv, TypeOK, NoMissedWakeup, WaitersWait, FiredIsTheTurn
<1> QED
  BY <1>1, Invariance, PTL

(* Every open id has exactly one owner: the turn can only get stuck at an id *)
(* that a call which raised or was cancelled left behind.                    *)
THEOREM IdsHaveOwners == Spec => []EveryIdHasAnOwner
<1>1. IInv => EveryIdHasAnOwner
  <2> SUFFICES ASSUME IInv PROVE EveryIdHasAnOwner
    OBVIOUS
  <2> USE DEF IInv, TypeOK, OpenIds, Owns, NoId
  <2>1. ASSUME NEW id \in turn .. counter - 1
        PROVE  \E c \in Calls : id \in OpenIds(c)
    BY <2>1 DEF SomeOwner
  <2>2. ASSUME NEW c \in Calls, NEW d \in Calls, c # d
        PROVE  OpenIds(c) \intersect OpenIds(d) = {}
    <3>1. \A id \in OpenIds(c) : id \in Nat /\ Owns(c, id)
      OBVIOUS
    <3>2. \A id \in OpenIds(d) : id \in Nat /\ Owns(d, id)
      OBVIOUS
    <3> QED
      BY <2>2, <3>1, <3>2 DEF OneOwner
  <2> QED
    BY <2>1, <2>2 DEF EveryIdHasAnOwner
<1> QED
  BY <1>1, Invariance, PTL

-----------------------------------------------------------------------------
(***************************************************************************)
(* Refinement: the steps of TrainingTurns are steps of OrderedDispatch, or *)
(* leave its variables alone.                                              *)
(***************************************************************************)

(* Only the holder of the turn dispatches: when it stops, nobody does. *)
LEMMA HolderStops ==
  ASSUME IInv, NEW c \in Calls, phase[c] \in HoldsTurn,
         NEW p \in Phases, GoTo(c, p)
  PROVE  Dispatching' <=> p \in HoldsTurn
<1>1. \A d \in Calls : phase[d] \in HoldsTurn => d = c
  BY DEF IInv, TypeOK, HolderHasTurn, OneOwner, Owns
<1> QED
  BY <1>1 DEF IInv, TypeOK, GoTo, Dispatching

(* Nobody dispatches while a call asks for the turn of an id it owns. *)
LEMMA NobodyElse ==
  ASSUME IInv, NEW c \in Calls, Owns(c, turn), phase[c] \notin HoldsTurn
  PROVE  ~Dispatching
BY DEF IInv, TypeOK, HolderHasTurn, OneOwner, Owns, Dispatching

LEMMA ReleaseRefines ==
  ASSUME IInv, NEW c \in Calls, phase[c] \in HoldsTurn, counter' = counter,
         Release, NEW p \in Phases, GoTo(c, p),
         p \in HoldsTurn => turn + 1 < counter
  PROVE  Order!End
<1>1. Dispatching' <=> p \in HoldsTurn
  BY HolderStops
<1>2. Dispatching
  BY DEF Dispatching
<1>3. Dispatching' \in {FALSE, turn + 1 < counter}
  BY <1>1 DEF Dispatching
<1> QED
  BY <1>2, <1>3 DEF Order!End, Release

(* A step that moves one call and does not change who dispatches. *)
LEMMA StutterRefines ==
  ASSUME IInv, NEW c \in Calls, UNCHANGED <<counter, turn>>,
         NEW p \in Phases, GoTo(c, p),
         phase[c] \in HoldsTurn <=> p \in HoldsTurn
  PROVE  UNCHANGED Order!vars
<1>1. Dispatching' <=> Dispatching
  <2>1. \A d \in Calls : phase'[d] \in HoldsTurn <=> phase[d] \in HoldsTurn
    BY DEF IInv, TypeOK, GoTo
  <2> QED
    BY <2>1 DEF Dispatching
<1>2. Dispatching' = Dispatching
  BY <1>1 DEF Dispatching
<1> QED
  BY <1>2 DEF Order!vars

LEMMA BeginRefines ==
  ASSUME IInv, NEW c \in Calls, Owns(c, turn), phase[c] \notin HoldsTurn,
         UNCHANGED <<counter, turn>>, GoTo(c, "sending")
  PROVE  Order!Begin
<1>1. ~Dispatching
  BY NobodyElse
<1>2. turn < counter
  BY DEF IInv, TypeOK, OpenIdsAreAhead
<1>3. Dispatching'
  BY DEF IInv, TypeOK, GoTo, Dispatching, HoldsTurn
<1>4. Dispatching' = TRUE
  BY <1>3 DEF Dispatching
<1> QED
  BY <1>1, <1>2, <1>4 DEF Order!Begin

LEMMA ContinueRefines ==
  ASSUME IInv, NEW c \in Calls, phase[c] \in {"posted", "reserving"},
         Continue(c, turn), UNCHANGED <<counter, turn>>
  PROVE  [Order!Next]_Order!vars
<1> USE DEF Phases, HoldsTurn
<1>1. CASE GoTo(c, "awaiting") \/ GoTo(c, "waiting")
  BY <1>1, StutterRefines
<1>2. CASE GoTo(c, "sending") /\ turn \in queued[c]
  BY <1>2, BeginRefines DEF Owns, Order!Next
<1>3. \/ GoTo(c, "awaiting") \/ GoTo(c, "waiting")
      \/ GoTo(c, "sending") /\ turn \in queued[c]
  <2>1. \A id \in queued[c] : id \in Nat /\ turn <= id
    BY DEF IInv, TypeOK, OpenIdsAreAhead, Owns
  <2>2. \A id \in queued[c] : ~(turn < id) => id = turn
    BY <2>1 DEF IInv, TypeOK
  <2> QED
    BY <2>2 DEF Continue
<1> QED
  BY <1>1, <1>2, <1>3

LEMMA SendOkRefines ==
  ASSUME IInv, NEW c \in Calls, SendOk(c)
  PROVE  Order!End
<1> USE DEF Phases, HoldsTurn
<1>1. /\ phase[c] \in HoldsTurn /\ counter' = counter /\ Release
  BY DEF SendOk, ids
<1>2. \A n \in queued[c] : n \in Nat /\ turn < n /\ n < counter
  BY <1>1, ReleaseFacts DEF IInv, TypeOK, OpenIdsAreAhead, Owns
<1>3. CASE GoTo(c, "awaiting") \/ GoTo(c, "waiting")
  BY <1>1, <1>3, ReleaseRefines
<1>4. CASE GoTo(c, "sending") /\ turn + 1 < counter
  BY <1>1, <1>4, ReleaseRefines
<1>5. \/ GoTo(c, "awaiting") \/ GoTo(c, "waiting")
      \/ GoTo(c, "sending") /\ turn + 1 < counter
  <2>1. \A id \in queued[c] : turn + 1 < counter \/ turn + 1 = counter
    BY <1>2 DEF IInv, TypeOK
  <2>2. \A id \in queued[c] : ~(turn + 1 < id) => turn + 1 < counter
    BY <1>2 DEF IInv, TypeOK
  <2> QED
    BY <2>2 DEF SendOk, Continue
<1> QED
  BY <1>3, <1>4, <1>5

LEMMA NextRefines == IInv /\ [Next]_vars => [Order!Next]_Order!vars
<1> SUFFICES ASSUME IInv, [Next]_vars PROVE [Order!Next]_Order!vars
  OBVIOUS
<1> USE DEF Phases, HoldsTurn
<1>1. CASE UNCHANGED vars
  BY <1>1 DEF vars, Order!vars, Dispatching
<1>2. ASSUME NEW c \in Calls,
             Call(c) \/ ChunkingRaises(c) \/ Post(c) \/ StartReserving(c) \/ Settle(c)
      PROVE  UNCHANGED Order!vars
  <2>1. /\ phase[c] \notin HoldsTurn
        /\ \E p \in Phases \ HoldsTurn : GoTo(c, p)
        /\ UNCHANGED <<counter, turn>>
    BY <1>2 DEF Call, Forward, ForwardAsync, ForwardBackward, ForwardBackwardAsync,
         OptimStep, OptimStepAsync, SaveState, LoadState, LoadWithOptimizerAsync,
         SaveWeightsForSampler, SaveWeightsAndGetSamplingClient, CallSync, CallAsync,
         ChunkingRaises, Post, StartReserving, Settle, ids, turns
  <2> QED
    BY <2>1, StutterRefines
<1>3. ASSUME NEW c \in Calls, ReserveId(c) PROVE Order!Issue
  BY <1>3 DEF ReserveId, turns, Order!Issue, Dispatching
<1>4. ASSUME NEW c \in Calls, Start(c) \/ FinishReserving(c)
      PROVE  [Order!Next]_Order!vars
  BY <1>4, ContinueRefines DEF Start, FinishReserving, ids
<1>5. ASSUME NEW c \in Calls, Wake(c) PROVE Order!Begin
  <2>1. Owns(c, turn)
    BY <1>5 DEF Wake, IInv, TypeOK, FiredIsTheTurn, Owns
  <2> QED
    BY <1>5, <2>1, BeginRefines DEF Wake, ids
<1>6. ASSUME NEW c \in Calls, SendOk(c) PROVE Order!End
  BY <1>6, SendOkRefines
<1>7. ASSUME NEW c \in Calls, SendRetryable(c) \/ SendAgain(c)
      PROVE  UNCHANGED Order!vars
  BY <1>7, StutterRefines DEF SendRetryable, SendAgain, ids, turns
<1>8. ASSUME NEW c \in Calls, SendFails(c) PROVE Order!End
  BY <1>8, ReleaseRefines DEF SendFails, ids
<1>9. ASSUME NEW c \in Calls, Cancel(c) PROVE [Order!Next]_Order!vars
  <2>1. CASE CancelHolding(c)
    BY <1>9, <2>1, ReleaseRefines DEF Cancel, CancelHolding, ids, Order!Next
  <2>2. CASE CancelPosted(c) \/ CancelWaiting(c) \/ CancelAwaiting(c)
    BY <1>9, <2>2, StutterRefines
    DEF Cancel, CancelPosted, CancelWaiting, CancelAwaiting, ids, turns
  <2> QED
    BY <1>9, <2>1, <2>2 DEF Cancel
<1> QED
  BY <1>1, <1>2, <1>3, <1>4, <1>5, <1>6, <1>7, <1>8, <1>9 DEF Next, Order!Next

(* Requests are dispatched one at a time in the order of their ids, each    *)
(* exactly once, for any number of threads, chunks, retries and failures.   *)
THEOREM Refinement == Spec => ImplementsOrderedDispatch
<1>1. Init => Order!Init
  <2> SUFFICES ASSUME Init PROVE Order!Init
    OBVIOUS
  <2>1. Dispatching = FALSE
    BY DEF Init, Dispatching, HoldsTurn
  <2> QED
    BY <2>1 DEF Init, Order!Init
<1>2. IInv /\ [Next]_vars => [Order!Next]_Order!vars
  BY NextRefines
<1> QED
  BY <1>1, <1>2, Invariance, PTL DEF Spec, Order!Spec, ImplementsOrderedDispatch

=============================================================================
