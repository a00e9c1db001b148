------------------------- MODULE SampleDispatchProofs -------------------------
(***************************************************************************)
(* Theorems about the dispatch of samples: about the budget (ByteBudget)   *)
(* and the gates (CountLimiter) for themselves, for any calls, gates and   *)
(* limits; and about the chain of SampleDispatch, which uses both as they  *)
(* are specified and keeps to the server's recommendation, for any         *)
(* capabilities.                                                           *)
(***************************************************************************)
EXTENDS SampleDispatch, FiniteSetTheorems, TLAPS

(***************************************************************************)
(* The budget, for any calls, payloads and bounds.                         *)
(***************************************************************************)
(* The properties are inductive together. *)
BudgetInv == BudgetTypeOK /\ NoWaiterForgotten /\ OverdraftBounded

LEMMA SizesAreNat == Sizes \union {0} \subseteq Nat
  BY BudgetAssumption

LEMMA BudgetInitially == BudgetInit => BudgetInv
  BY BudgetAssumption DEF BudgetInit, BudgetInv, BudgetTypeOK, NoWaiterForgotten, OverdraftBounded

(* The step that Acquire and WakeUp share: whoever goes in leaves no more   *)
(* than one payload of debt, and whoever waits sees the budget overdrawn.   *)
LEMMA Entering ==
  ASSUME BudgetInv, NEW c \in Calls, NEW n \in Sizes \union {0},
         size' = [size EXCEPT ![c] = n], TryEnter(c, n)
  PROVE  BudgetInv'
<1> USE DEF BudgetInv
<1>1. n \in Nat /\ n <= MaxSize
  BY BudgetAssumption
<1>2. CASE bytes >= 0 /\ bytes' = bytes - n /\ place' = [place EXCEPT ![c] = "in"]
  <2>1. BudgetTypeOK'
    BY <1>1, <1>2 DEF BudgetTypeOK, TryEnter
  <2>2. OverdraftBounded'
    BY <1>1, <1>2, BudgetAssumption DEF OverdraftBounded, BudgetTypeOK
  <2>3. NoWaiterForgotten'
    <3> SUFFICES ASSUME NEW d \in Calls, place'[d] = "waiting"
                 PROVE  bytes' < 0 \/ releasing' # {}
      BY DEF NoWaiterForgotten
    <3>1. place[d] = "waiting"
      BY <1>2 DEF BudgetTypeOK
    <3> QED
      BY <3>1, <1>2 DEF NoWaiterForgotten, TryEnter, BudgetTypeOK
  <2> QED
    BY <2>1, <2>2, <2>3
<1>3. CASE bytes < 0 /\ bytes' = bytes /\ place' = [place EXCEPT ![c] = "waiting"]
  BY <1>3, BudgetAssumption
  DEF BudgetTypeOK, OverdraftBounded, NoWaiterForgotten, TryEnter
<1> QED
  BY <1>2, <1>3 DEF TryEnter

LEMMA BudgetStep == BudgetInv /\ [BudgetNext]_budgetVars => BudgetInv'
<1> SUFFICES ASSUME BudgetInv, [BudgetNext]_budgetVars PROVE BudgetInv'
  OBVIOUS
<1>1. ASSUME NEW c \in Calls, NEW n \in Sizes, Acquire(c, n) PROVE BudgetInv'
  BY <1>1, Entering DEF Acquire
<1>2. ASSUME NEW c \in Calls, WakeUp(c) PROVE BudgetInv'
  <2>1. size[c] \in Sizes \union {0} /\ size' = [size EXCEPT ![c] = size[c]]
    BY <1>2 DEF WakeUp, BudgetInv, BudgetTypeOK
  <2> QED
    BY <1>2, <2>1, Entering DEF WakeUp
<1>3. ASSUME NEW c \in Calls, Leave(c) PROVE BudgetInv'
  <2>1. size[c] \in Nat
    BY SizesAreNat DEF BudgetInv, BudgetTypeOK
  <2> QED
    BY <1>3, <2>1, BudgetAssumption
    DEF Leave, BudgetInv, BudgetTypeOK, NoWaiterForgotten, OverdraftBounded
<1>4. ASSUME NEW c \in Calls, GiveUp(c) PROVE BudgetInv'
  BY <1>4, BudgetAssumption
  DEF GiveUp, BudgetInv, BudgetTypeOK, NoWaiterForgotten, OverdraftBounded
<1>5. ASSUME NEW c \in Calls, Release(c) PROVE BudgetInv'
  <2>1. \A d \in Calls : place'[d] # "waiting"
    BY <1>5 DEF Release
  <2>2. BudgetTypeOK'
    BY <1>5 DEF Release, BudgetInv, BudgetTypeOK
  <2> QED
    BY <1>5, <2>1, <2>2 DEF Release, BudgetInv, NoWaiterForgotten, OverdraftBounded
<1>6. CASE UNCHANGED budgetVars
  BY <1>6 DEF budgetVars, BudgetInv, BudgetTypeOK, NoWaiterForgotten, OverdraftBounded
<1> QED
  BY <1>1, <1>2, <1>3, <1>4, <1>5, <1>6 DEF BudgetNext

THEOREM BudgetInvariance == BudgetSpec => []BudgetInv
  BY BudgetInitially, BudgetStep, PTL DEF BudgetSpec

(* Nobody waits while there is room, unless the task that wakes it is about *)
(* to run: BytesSemaphore loses no wakeup, for any number of calls.         *)
THEOREM NoWakeupLost == BudgetSpec => []NoWaiterForgotten
<1>1. BudgetInv => NoWaiterForgotten
  BY DEF BudgetInv
<1> QED
  BY <1>1, BudgetInvariance, PTL

(* The budget is overdrawn by at most one payload, however many are woken. *)
THEOREM OneOverdraft == BudgetSpec => []OverdraftBounded
<1>1. BudgetInv => OverdraftBounded
  BY DEF BudgetInv
<1> QED
  BY <1>1, BudgetInvariance, PTL

(***************************************************************************)
(* The gates.                                                              *)
(***************************************************************************)
(* A call that waits does so in front of one gate, and is not inside it. *)
OneGateAtATime ==
  \A g, h \in Gates : \A c \in Calls :
    c \in waiting[g] \union woken[g] =>
      /\ c \notin inside[g]
      /\ ~(c \in waiting[g] /\ c \in woken[g])
      /\ c \in waiting[h] \union woken[h] => g = h

LimiterInv ==
  LimiterTypeOK /\ CounterCountsInside /\ NoCallForgotten /\ LimitRespected /\ OneGateAtATime

LEMMA InsideFinite ==
  ASSUME LimiterTypeOK, NEW g \in Gates
  PROVE  IsFiniteSet(inside[g]) /\ Cardinality(inside[g]) \in Nat
  BY LimiterAssumption, FS_Subset, FS_CardinalityType DEF LimiterTypeOK

LEMMA LimiterInitially == LimiterInit => LimiterInv
<1> SUFFICES ASSUME LimiterInit PROVE LimiterInv
  OBVIOUS
<1>1. CounterCountsInside
  BY FS_EmptySet DEF LimiterInit, CounterCountsInside
<1> QED
  BY <1>1, LimiterAssumption
  DEF LimiterInit, LimiterInv, LimiterTypeOK, NoCallForgotten, LimitRespected, OneGateAtATime

(* The step that Pass and PassWoken share: c is in front of no other gate. *)
LEMMA Passing ==
  ASSUME LimiterInv, NEW g \in Gates, NEW c \in Calls, NEW n \in 0 .. MaxLimit,
         c \notin inside[g], TryPass(g, c, n),
         \A h \in Gates : c \notin waiting[h] \union woken'[h],
         \A h \in Gates : woken'[h] = woken[h] \ {c},
         woken' \in [Gates -> SUBSET Calls]
  PROVE  LimiterInv'
<1> USE DEF LimiterInv
<1>1. n \in Nat /\ n <= MaxLimit /\ MaxLimit \in Nat
  BY LimiterAssumption
<1>2. CASE /\ inflight[g] < n /\ inflight' = [inflight EXCEPT ![g] = @ + 1]
           /\ inside' = [inside EXCEPT ![g] = @ \union {c}]
           /\ limit' = [limit EXCEPT ![c] = 0] /\ UNCHANGED waiting
  <2>1. LimiterTypeOK'
    BY <1>1, <1>2 DEF LimiterTypeOK
  <2>2. LimitRespected'
    BY <1>1, <1>2 DEF LimiterTypeOK, LimitRespected
  <2>3. CounterCountsInside'
    <3> SUFFICES ASSUME NEW h \in Gates PROVE inflight'[h] = Cardinality(inside'[h])
      BY DEF CounterCountsInside
    <3>1. CASE h = g
      <4>1. Cardinality(inside[g] \union {c}) = Cardinality(inside[g]) + 1
        BY InsideFinite, FS_AddElement
      <4> QED
        BY <1>2, <3>1, <4>1 DEF CounterCountsInside, LimiterTypeOK
    <3>2. CASE h # g
      BY <1>2, <3>2 DEF CounterCountsInside, LimiterTypeOK
    <3> QED
      BY <3>1, <3>2
  <2>4. NoCallForgotten'
    <3> SUFFICES ASSUME NEW h \in Gates, NEW d \in waiting[h]
                 PROVE  inflight'[h] >= limit'[d]
      BY <1>2 DEF NoCallForgotten
    <3>1. d # c /\ d \in Calls
      BY DEF LimiterTypeOK
    <3>2. limit'[d] = limit[d] /\ limit[d] \in Nat
      BY <1>1, <1>2, <3>1 DEF LimiterTypeOK
    <3>3. inflight'[h] >= inflight[h] /\ inflight[h] \in Nat /\ inflight'[h] \in Nat
      BY <1>2, <2>1 DEF LimiterTypeOK
    <3> QED
      BY <3>2, <3>3 DEF NoCallForgotten
  <2>5. OneGateAtATime'
    BY <1>2 DEF OneGateAtATime, LimiterTypeOK
  <2> QED
    BY <2>1, <2>2, <2>3, <2>4, <2>5
<1>3. CASE /\ inflight[g] >= n /\ UNCHANGED <<inflight, inside>>
           /\ waiting' = [waiting EXCEPT ![g] = @ \union {c}]
           /\ limit' = [limit EXCEPT ![c] = n]
  <2>1. LimiterTypeOK' /\ LimitRespected' /\ CounterCountsInside'
    BY <1>1, <1>3 DEF LimiterTypeOK, LimitRespected, CounterCountsInside
  <2>2. NoCallForgotten'
    <3> SUFFICES ASSUME NEW h \in Gates, NEW d \in waiting'[h] PROVE inflight[h] >= limit'[d]
      BY <1>3 DEF NoCallForgotten
    <3>1. CASE d = c
      BY <1>3, <3>1 DEF LimiterTypeOK
    <3>2. CASE d # c
      <4>1. d \in waiting[h] /\ d \in Calls
        BY <1>3, <3>2 DEF LimiterTypeOK
      <4> QED
        BY <1>3, <3>2, <4>1 DEF NoCallForgotten, LimiterTypeOK
    <3> QED
      BY <3>1, <3>2
  <2>3. OneGateAtATime'
    BY <1>3 DEF OneGateAtATime, LimiterTypeOK
  <2> QED
    BY <2>1, <2>2, <2>3
<1> QED
  BY <1>2, <1>3 DEF TryPass

LEMMA Leaving ==
  ASSUME LimiterInv, NEW c \in Calls, LeaveGates(c)
  PROVE  LimiterInv'
<1> USE DEF LimiterInv
<1>1. CounterCountsInside' /\ inflight' \in [Gates -> Nat]
  <2>1. ASSUME NEW g \in Gates
        PROVE  inflight'[g] = Cardinality(inside'[g]) /\ inflight'[g] \in Nat
    <3>1. CASE c \in inside[g]
      <4>1. /\ Cardinality(inside[g] \ {c}) = Cardinality(inside[g]) - 1
            /\ Cardinality(inside[g] \ {c}) \in Nat
        BY <3>1, InsideFinite, FS_RemoveElement, FS_CardinalityType
      <4> QED
        BY <3>1, <4>1 DEF LeaveGates, CounterCountsInside
    <3>2. CASE c \notin inside[g]
      <4>1. inside[g] \ {c} = inside[g]
        BY <3>2
      <4> QED
        BY <3>2, <4>1 DEF LeaveGates, CounterCountsInside, LimiterTypeOK
    <3> QED
      BY <3>1, <3>2
  <2> QED
    BY <2>1 DEF CounterCountsInside, LeaveGates
<1>2. LimiterTypeOK'
  BY <1>1, LimiterAssumption DEF LeaveGates, LimiterTypeOK
<1>3. LimitRespected'
  BY LimiterAssumption DEF LeaveGates, LimitRespected, LimiterTypeOK
<1>4. NoCallForgotten'
  BY DEF LeaveGates, NoCallForgotten, LimiterTypeOK
<1>5. OneGateAtATime'
  BY DEF LeaveGates, OneGateAtATime, LimiterTypeOK
<1> QED
  BY <1>1, <1>2, <1>3, <1>4, <1>5

LEMMA LimiterStep == LimiterInv /\ [LimiterNext]_limiterVars => LimiterInv'
<1> SUFFICES ASSUME LimiterInv, [LimiterNext]_limiterVars PROVE LimiterInv'
  OBVIOUS
<1>1. ASSUME NEW g \in Gates, NEW c \in Calls, NEW n \in 1 .. MaxLimit, Pass(g, c, n)
      PROVE  LimiterInv'
  <2>1. \A h \in Gates : woken'[h] = woken[h] \ {c} /\ c \notin waiting[h] \union woken'[h]
    BY <1>1 DEF Pass, Suspended
  <2>2. n \in 0 .. MaxLimit
    BY LimiterAssumption
  <2> QED
    BY <1>1, <2>1, <2>2, Passing DEF Pass, LimiterInv, LimiterTypeOK
<1>2. ASSUME NEW g \in Gates, NEW c \in Calls, PassWoken(g, c) PROVE LimiterInv'
  <2>1. /\ c \notin inside[g] /\ limit[c] \in 0 .. MaxLimit
        /\ \A h \in Gates : c \notin waiting[h] /\ (h # g => c \notin woken[h])
    BY <1>2 DEF PassWoken, LimiterInv, LimiterTypeOK, OneGateAtATime
  <2>2. \A h \in Gates : woken'[h] = woken[h] \ {c}
    BY <1>2, <2>1 DEF PassWoken, LimiterInv, LimiterTypeOK
  <2>3. woken' \in [Gates -> SUBSET Calls]
    BY <1>2 DEF PassWoken, LimiterInv, LimiterTypeOK
  <2> QED
    BY <1>2, <2>1, <2>2, <2>3, Passing DEF PassWoken
<1>3. ASSUME NEW c \in Calls, LeaveGates(c) PROVE LimiterInv'
  BY <1>3, Leaving
<1>4. CASE UNCHANGED limiterVars
  BY <1>4 DEF limiterVars, LimiterInv, LimiterTypeOK, CounterCountsInside, NoCallForgotten,
              LimitRespected, OneGateAtATime
<1> QED
  BY <1>1, <1>2, <1>3, <1>4 DEF LimiterNext

(* The inductive invariant holds. *)
THEOREM LimiterInvariance == LimiterSpec => []LimiterInv
  BY LimiterInitially, LimiterStep, PTL DEF LimiterSpec

(* The counter of each gate is the number of calls inside. *)
THEOREM CounterExact == LimiterSpec => []CounterCountsInside
<1>1. LimiterInv => CounterCountsInside
  BY DEF LimiterInv
<1> QED
  BY <1>1, LimiterInvariance, PTL

(* Whoever waits has no room by its own limit: no wakeup is lost, although *)
(* the limits of the waiting calls differ.                                 *)
THEOREM NoLimiterWakeupLost == LimiterSpec => []NoCallForgotten
<1>1. LimiterInv => NoCallForgotten
  BY DEF LimiterInv
<1> QED
  BY <1>1, LimiterInvariance, PTL

(* No more calls are inside a gate than the largest limit. *)
THEOREM NeverAboveLimit == LimiterSpec => []LimitRespected
<1>1. LimiterInv => LimitRespected
  BY DEF LimiterInv
<1> QED
  BY <1>1, LimiterInvariance, PTL

(***************************************************************************)
(* The limits of the chain.                                                *)
(***************************************************************************)
Recommended == Local /\ server.supported /\ server.recommended # None
Recommendation == AtLeastOne(server.recommended)

LEMMA MinOfFew ==
  ASSUME NEW a \in Int, NEW b \in Int, NEW c \in Int, NEW S \in SUBSET {a, b, c}, S # {}
  PROVE  Min(S) \in S /\ \A x \in S : Min(S) <= x
<1>1. \E x \in S : \A y \in S : x <= y
  <2>1. PICK x \in S : a \in S => x <= a
    <3>1. CASE a \in S
      BY <3>1, a <= a
    <3>2. CASE a \notin S
      BY <3>2
    <3> QED
      BY <3>1, <3>2
  <2>2. PICK y \in S : y <= x /\ (b \in S => y <= b)
    OBVIOUS
  <2>3. PICK z \in S : z <= y /\ (c \in S => z <= c)
    OBVIOUS
  <2>4. \A e \in S : z <= e
    BY <2>1, <2>2, <2>3
  <2> QED
    BY <2>4
<1> QED
  BY <1>1 DEF Min

LEMMA ServerNumbers ==
  ASSUME server \in Servers
  PROVE  /\ server.supported \in BOOLEAN /\ MaxLimit \in Nat /\ MaxLimit >= 10
         /\ \A n \in {server.recommended, server.active, server.queued, server.queuedLogprobs} :
              n # None => n \in 0 .. MaxLimit /\ AtLeastOne(n) \in 1 .. MaxLimit
<1>1. server \in Capabilities /\ MaxLimit \in Nat /\ MaxLimit >= 10
  BY DispatchAssumption, LimiterAssumption
<1> QED
  BY <1>1 DEF Capabilities, AtLeastOne

(* The smallest of the known limits is one of them. *)
LEMMA SmallestKnown ==
  ASSUME server \in Servers, NEW a, NEW b, NEW c,
         {a, b, c} \subseteq {server.recommended, server.active, server.queued,
                              server.queuedLogprobs, None},
         a # None
  PROVE  Min(Known({a, b, c})) \in 1 .. MaxLimit /\ Min(Known({a, b, c})) <= AtLeastOne(a)
<1> DEFINE K(n) == IF n = None THEN AtLeastOne(a) ELSE AtLeastOne(n)
<1>1. K(a) \in 1 .. MaxLimit /\ K(b) \in 1 .. MaxLimit /\ K(c) \in 1 .. MaxLimit
  BY ServerNumbers
<1>2. Known({a, b, c}) \subseteq {K(a), K(b), K(c)} /\ K(a) \in Known({a, b, c}) /\ K(a) = AtLeastOne(a)
  BY DEF Known
<1> HIDE DEF K
<1> DEFINE S == Known({a, b, c})
<1>3. K(a) \in Int /\ K(b) \in Int /\ K(c) \in Int
  BY <1>1
<1> HIDE DEF S
<1>4. S \in SUBSET {K(a), K(b), K(c)} /\ S # {} /\ K(a) \in S
  BY <1>2 DEF S
<1>5. Min(S) \in S /\ Min(S) <= K(a)
  BY <1>3, <1>4, MinOfFew
<1> QED
  BY <1>1, <1>2, <1>4, <1>5 DEF S

LEMMA DispatchLimitIsLimit ==
  ASSUME server \in Servers, NEW l \in BOOLEAN
  PROVE  /\ Recommended => /\ DispatchLimit(l) \in 1 .. MaxLimit
                           /\ DispatchLimit(l) <= Recommendation
         /\ ~Recommended => DispatchLimit(l) = None
<1> DEFINE q == IF l THEN server.queuedLogprobs ELSE None
<1>1. CASE Recommended
  <2>1. /\ Min(Known({server.recommended, server.active, q})) \in 1 .. MaxLimit
        /\ Min(Known({server.recommended, server.active, q})) <= AtLeastOne(server.recommended)
    BY <1>1, SmallestKnown DEF Recommended
  <2> QED
    BY <1>1, <2>1 DEF DispatchLimit, Recommended, Recommendation
<1>2. CASE ~Recommended
  BY <1>2 DEF DispatchLimit, Recommended
<1> QED
  BY <1>1, <1>2

LEMMA OutstandingLimitIsLimit ==
  ASSUME server \in Servers, NEW l \in BOOLEAN, OutstandingLimit(l) # None
  PROVE  OutstandingLimit(l) \in 1 .. MaxLimit
<1> DEFINE q == IF l THEN server.queuedLogprobs ELSE None
<1>1. server.queued # None /\ OutstandingLimit(l) = Min(Known({server.queued, q}))
  BY DEF OutstandingLimit
<1>2. Min(Known({server.queued, q, q})) \in 1 .. MaxLimit
  BY <1>1, SmallestKnown
<1>3. {server.queued, q, q} = {server.queued, q}
  OBVIOUS
<1> QED
  BY <1>1, <1>2, <1>3

LEMMA LessIsLess ==
  ASSUME NEW base \in 1 .. MaxLimit, NEW n \in Nat
  PROVE  Less(base, n) \in 1 .. MaxLimit /\ Less(base, n) <= base
  BY LimiterAssumption DEF Less, AtLeastOne

(* Whatever the server reports as pending, every gate leaves room for one. *)
LEMMA LimitsLeaveRoom ==
  ASSUME server \in Servers, NEW c \in Calls
  PROVE  /\ OutstandingLimits(c) \subseteq 1 .. MaxLimit
         /\ DispatchLimits(c) \subseteq 1 .. MaxLimit
         /\ ThrottledLimits(c) \subseteq 1 .. MaxLimit
         /\ MaxCount \in 1 .. MaxLimit
<1>1. Pending \union {0} \subseteq Nat /\ MaxLimit \in Nat /\ MaxLimit >= 10 /\ MaxCount \in 1 .. MaxLimit
      /\ None \notin Nat
  BY DispatchAssumption, LimiterAssumption
<1> DEFINE l == c \in Logprobs
<1>2. l \in BOOLEAN
  OBVIOUS
<1>3. OutstandingLimits(c) \subseteq 1 .. MaxLimit
  <2> DEFINE base == OutstandingLimit(l)
  <2>1. base # None => base \in 1 .. MaxLimit
    BY <1>2, OutstandingLimitIsLimit
  <2>2. ASSUME base # None, NEW n \in Pending \union {0}, NEW m \in Pending \union {0}
        PROVE  Less(base, n) \in 1 .. MaxLimit /\ Less(Less(base, n), m) \in 1 .. MaxLimit
    <3>1. Less(base, n) \in 1 .. MaxLimit
      BY <1>1, <2>1, <2>2, LessIsLess
    <3> QED
      BY <1>1, <3>1, LessIsLess
  <2> HIDE DEF base
  <2> QED
    BY <2>2 DEF OutstandingLimits, base
<1>4. DispatchLimits(c) \subseteq 1 .. MaxLimit
  <2> DEFINE base == DispatchLimit(l)
  <2>1. base # None => base \in 1 .. MaxLimit
    BY <1>2, DispatchLimitIsLimit
  <2>2. ASSUME base # None, NEW n \in Pending \union {0}
        PROVE  Less(base, n) \in 1 .. MaxLimit
    BY <1>1, <2>1, <2>2, LessIsLess
  <2> HIDE DEF base
  <2> QED
    BY <2>2 DEF DispatchLimits, base
<1>5. ASSUME NEW streak \in 0 .. 4 PROVE ThrottledLimit(l, streak) \in 1 .. MaxLimit
  <2> DEFINE own  == DispatchLimit(FALSE)
             most == IF Profile = "local_single_gpu" THEN 2 ELSE 4
             all  == IF own = None THEN most ELSE Min({own, most})
             base == IF l THEN AtLeastOne(all - 1) ELSE all
  <2>1. own # None => own \in 1 .. MaxLimit
    BY DispatchLimitIsLimit
  <2>2. most \in 1 .. MaxLimit
    BY <1>1
  <2> HIDE DEF own, most
  <2>3. all \in 1 .. MaxLimit
    <3>1. own # None => Min({own, most}) \in {own, most}
      <4>1. ASSUME own # None PROVE Min({own, most}) \in {own, most}
        <5>1. own \in Int /\ most \in Int /\ {own, most} \in SUBSET {own, most, most} /\ {own, most} # {}
          BY <2>1, <2>2, <4>1
        <5> HIDE DEF all
        <5> QED
          BY <5>1, MinOfFew
      <4> QED
        BY <4>1
    <3> QED
      BY <2>1, <2>2, <3>1
  <2> HIDE DEF all
  <2>4. base \in 1 .. MaxLimit
    BY <1>1, <2>3 DEF AtLeastOne
  <2>5. ThrottledLimit(l, streak) \in {10, base, AtLeastOne(base - 1)}
    BY DEF ThrottledLimit, own, most, all
  <2> HIDE DEF base
  <2> QED
    BY <1>1, <2>4, <2>5 DEF AtLeastOne
<1> QED
  BY <1>1, <1>3, <1>4, <1>5 DEF ThrottledLimits

(***************************************************************************)
(* The types of the dispatch.                                              *)
(***************************************************************************)
Stages == {"idle", "resolving", "fetching", "resolved", "coalescing", "acquiring", "sending",
           "backoff", "polling"} \union Gates \union Range(Following) \union Ended

DispatchTypeOK ==
  /\ server \in Servers /\ loaded \in BOOLEAN /\ cached \in BOOLEAN
  /\ fetching \in Calls \union {None}
  /\ stage \in [Calls -> Stages] /\ failures \in 0 .. MaxFailures

LEMMA StagesListed ==
  /\ {"idle", "resolving", "fetching", "resolved", "admitted", "coalescing", "counted", "profiled",
      "ready", "acquiring", "sending", "backoff", "polling", "ok", "failed", "cancelled"} \subseteq Stages
  /\ Gates = {"outstanding", "count", "profile", "throttled"} /\ Gates \subseteq Stages
  /\ Following["outstanding"] = "admitted" /\ Following["count"] = "counted"
  /\ Following["profile"] = "profiled" /\ Following["throttled"] = "ready"
<1>1. /\ Following["outstanding"] = "admitted" /\ Following["count"] = "counted"
      /\ Following["profile"] = "profiled" /\ Following["throttled"] = "ready"
      /\ DOMAIN Following = {"outstanding", "count", "profile", "throttled"}
  BY DEF Following
<1>2. {"admitted", "counted", "profiled", "ready"} \subseteq Range(Following)
  BY <1>1 DEF Range
<1> QED
  BY <1>1, <1>2, DispatchAssumption DEF Stages, Ended

(* A call moves on when the gate lets it in. *)
LEMMA GateMoves ==
  ASSUME NEW c \in Calls, NEW g \in Gates, NEW limits, PassOneOf(c, g, limits)
  PROVE  \E to \in {g, Following[g]} : stage' = [stage EXCEPT ![c] = to]
  BY DEF PassOneOf, PassesOrWaits, Goes

LEMMA DispatchInitially == Init => DispatchTypeOK
<1>1. 0 \in 0 .. MaxFailures /\ "idle" \in Stages
  BY StagesListed, DispatchAssumption
<1> QED
  BY <1>1 DEF Init, DispatchTypeOK

LEMMA DispatchTypes == DispatchTypeOK /\ [Next]_vars => DispatchTypeOK'
<1> SUFFICES ASSUME DispatchTypeOK, [Next]_vars PROVE DispatchTypeOK'
  OBVIOUS
<1> USE DEF DispatchTypeOK
<1>1. ASSUME NEW c \in Calls, NEW to \in Stages, stage' = [stage EXCEPT ![c] = to]
      PROVE  stage' \in [Calls -> Stages]
  BY <1>1
<1>2. \A c \in Calls : Fault => failures' \in 0 .. MaxFailures
  BY DispatchAssumption DEF Fault
<1>3. ASSUME NEW c \in Calls,
             Enter(c) \/ Resolved(c) \/ TakeLock(c) \/ Reload(c) \/ Fetched(c) \/ Coalesce(c)
             \/ SendAgain(c) \/ Accepted(c) \/ Answered(c)
             \/ FetchFails(c) \/ Rejected(c) \/ Fails(c) \/ Cancel(c)
      PROVE  DispatchTypeOK'
  BY <1>1, <1>2, <1>3, StagesListed
  DEF Goes, Finish, Enter, Resolved, TakeLock, Reload, Fetched, Coalesce, SendAgain, Accepted,
      Answered, FetchFails, Rejected, Fails, Cancel
<1>4. ASSUME NEW c \in Calls, Outstanding(c) \/ Count(c) \/ DispatchProfile(c) \/ Throttled(c) \/ LookAgain(c)
      PROVE  DispatchTypeOK'
  <2>1. PICK g \in Gates : \E to \in {g, Following[g]} : stage' = [stage EXCEPT ![c] = to]
    <3>1. CASE LookAgain(c)
      BY <3>1 DEF LookAgain, PassesOrWaits
    <3> QED
      BY <1>4, <3>1, GateMoves, StagesListed DEF Outstanding, Count, DispatchProfile, Throttled
  <2>2. stage' \in [Calls -> Stages]
    BY <1>1, <2>1, StagesListed
  <2> QED
    BY <1>4, <2>2 DEF Outstanding, Count, DispatchProfile, Throttled, LookAgain
<1>5. ASSUME NEW c \in Calls, AcquireBytes(c) \/ LookForBytes(c) \/ ReleaseBytes(c)
      PROVE  DispatchTypeOK'
  BY <1>1, <1>5, StagesListed DEF AcquireBytes, LookForBytes, ReleaseBytes, EntersOrWaits
<1>6. CASE Refresh
  <2>1. Fault => failures' \in 0 .. MaxFailures
    BY DispatchAssumption DEF Fault
  <2> QED
    BY <1>6, <2>1 DEF Refresh
<1>7. CASE UNCHANGED vars
  BY <1>7 DEF vars
<1> QED
  BY <1>3, <1>4, <1>5, <1>6, <1>7 DEF Next, Step, Failure

(***************************************************************************)
(* The dispatch uses gates and budget as these are specified.              *)
(***************************************************************************)
LEMMA StepOfLimiter == DispatchTypeOK /\ [Next]_vars => [LimiterNext]_limiterVars
<1> SUFFICES ASSUME DispatchTypeOK, [Next]_vars PROVE [LimiterNext]_limiterVars
  OBVIOUS
<1>1. server \in Servers
  BY DEF DispatchTypeOK
<1>2. ASSUME NEW c \in Calls, NEW g \in Gates, NEW limits \in SUBSET (1 .. MaxLimit),
             PassOneOf(c, g, limits)
      PROVE  [LimiterNext]_limiterVars
  BY <1>2 DEF PassOneOf, LimiterNext
<1>3. ASSUME NEW c \in Calls, Outstanding(c) \/ Count(c) \/ DispatchProfile(c) \/ Throttled(c)
      PROVE  [LimiterNext]_limiterVars
  <2>1. {} \subseteq 1 .. MaxLimit /\ {MaxCount} \subseteq 1 .. MaxLimit
    BY DispatchAssumption
  <2> QED
    BY <1>1, <1>2, <1>3, <2>1, LimitsLeaveRoom, StagesListed
    DEF Outstanding, Count, DispatchProfile, Throttled
<1>4. ASSUME NEW c \in Calls, LookAgain(c) PROVE LimiterNext
  BY <1>4 DEF LookAgain, LimiterNext
<1>5. ASSUME NEW c \in Calls, Answered(c) \/ Fails(c) \/ Cancel(c) PROVE LimiterNext
  BY <1>5 DEF Answered, Fails, Cancel, Finish, Unwind, LimiterNext
<1>6. ASSUME NEW c \in Calls,
             Enter(c) \/ Resolved(c) \/ TakeLock(c) \/ Reload(c) \/ Fetched(c) \/ Coalesce(c)
             \/ AcquireBytes(c) \/ LookForBytes(c) \/ ReleaseBytes(c) \/ SendAgain(c) \/ Accepted(c)
             \/ FetchFails(c) \/ Rejected(c)
      PROVE  UNCHANGED limiterVars
  BY <1>6 DEF Enter, Resolved, TakeLock, Reload, Fetched, Coalesce, AcquireBytes, LookForBytes,
              ReleaseBytes, SendAgain, Accepted, FetchFails, Rejected
<1>7. CASE Refresh \/ UNCHANGED vars
  BY <1>7 DEF Refresh, vars
<1> QED
  BY <1>3, <1>4, <1>5, <1>6, <1>7 DEF Next, Step, Failure

LEMMA StepOfBudget == [Next]_vars => [BudgetNext]_budgetVars
<1> SUFFICES ASSUME [Next]_vars PROVE [BudgetNext]_budgetVars
  OBVIOUS
<1>1. ASSUME NEW c \in Calls, AcquireBytes(c) \/ LookForBytes(c) \/ ReleaseBytes(c) PROVE BudgetNext
  BY <1>1 DEF AcquireBytes, LookForBytes, ReleaseBytes, BudgetNext
<1>2. ASSUME NEW c \in Calls, Answered(c) \/ Fails(c) \/ Cancel(c) PROVE [BudgetNext]_budgetVars
  BY <1>2 DEF Answered, Fails, Cancel, Finish, Unwind, BudgetNext
<1>3. ASSUME NEW c \in Calls,
             Enter(c) \/ Resolved(c) \/ TakeLock(c) \/ Reload(c) \/ Fetched(c) \/ Coalesce(c)
             \/ Outstanding(c) \/ Count(c) \/ DispatchProfile(c) \/ Throttled(c) \/ LookAgain(c)
             \/ SendAgain(c) \/ Accepted(c) \/ FetchFails(c) \/ Rejected(c)
      PROVE  UNCHANGED budgetVars
  BY <1>3 DEF Enter, Resolved, TakeLock, Reload, Fetched, Coalesce, Outstanding, Count,
              DispatchProfile, Throttled, LookAgain, SendAgain, Accepted, FetchFails, Rejected
<1>4. CASE Refresh \/ UNCHANGED vars
  BY <1>4 DEF Refresh, vars
<1> QED
  BY <1>1, <1>2, <1>3, <1>4 DEF Next, Step, Failure

(* Every step of the dispatch takes its calls through the gates as           *)
(* CountLimiter says, with limits between 1 and MaxLimit: what is pending    *)
(* never leaves a gate without room, and whoever ends is out of all of them. *)
THEOREM PassesTheGates == Spec => LimiterSpec
<1>1. Init => LimiterInit
  BY DEF Init
<1> QED
  BY <1>1, DispatchInitially, DispatchTypes, StepOfLimiter, PTL DEF Spec, LimiterSpec

(* Every step of the dispatch uses the bytes as ByteBudget says: acquired   *)
(* once, given back once, however a call ends.                              *)
THEOREM SpendsTheBudget == Spec => BudgetSpec
<1>1. Init => BudgetInit
  BY DEF Init
<1> QED
  BY <1>1, StepOfBudget, PTL DEF Spec, BudgetSpec

(* The types of the dispatch, of its gates and of its budget. *)
THEOREM DispatchTyped == Spec => []TypeOK
<1>1. Spec => []DispatchTypeOK
  BY DispatchInitially, DispatchTypes, PTL DEF Spec
<1>2. LimiterInv /\ BudgetInv /\ DispatchTypeOK => TypeOK
  BY DEF LimiterInv, BudgetInv, DispatchTypeOK, TypeOK, Stages
<1> QED
  BY <1>1, <1>2, PassesTheGates, SpendsTheBudget, LimiterInvariance, BudgetInvariance, PTL

(***************************************************************************)
(* The recommendation.  It is the gate of the profile that keeps to it: no *)
(* call brings a larger limit, and whoever is past the gate stays inside   *)
(* until it has ended.                                                     *)
(***************************************************************************)
PastProfile == {"profiled", "throttled", "ready", "acquiring", "sending", "backoff", "polling"}

ProfileGate ==
  /\ inflight["profile"] <= Recommendation
  /\ \A c \in waiting["profile"] \union woken["profile"] : limit[c] <= Recommendation

ProfileInv ==
  Recommended => ProfileGate /\ \A c \in Calls : stage[c] \in PastProfile => c \in inside["profile"]

LEMMA RecommendationIsNat ==
  ASSUME server \in Servers, Recommended
  PROVE  Recommendation \in Nat /\ 1 <= Recommendation
  BY ServerNumbers DEF Recommended, Recommendation

LEMMA ProfileInitially == Init => ProfileInv
<1> SUFFICES ASSUME Init, Recommended PROVE ProfileGate /\ \A c \in Calls : stage[c] \notin PastProfile
  BY DEF ProfileInv
<1>1. \A c \in Calls : stage[c] = "idle"
  BY DEF Init
<1>2. inflight["profile"] = 0 /\ waiting["profile"] = {} /\ woken["profile"] = {}
  BY StagesListed DEF Init, LimiterInit
<1>3. Recommendation \in Nat
  BY RecommendationIsNat DEF Init
<1> QED
  BY <1>1, <1>2, <1>3 DEF ProfileGate, PastProfile

(* What a step of the gates does to the one of the profile. *)
LEMMA ProfilePass ==
  ASSUME LimiterInv, NEW r \in Nat, NEW g \in Gates, NEW c \in Calls, NEW n \in Nat,
         \/ Pass(g, c, n) /\ (g = "profile" => n <= r)
         \/ PassWoken(g, c),
         inflight["profile"] <= r,
         \A d \in waiting["profile"] \union woken["profile"] : limit[d] <= r
  PROVE  /\ inflight'["profile"] <= r
         /\ \A d \in waiting'["profile"] \union woken'["profile"] : limit'[d] <= r
         /\ inside["profile"] \subseteq inside'["profile"]
<1> USE DEF LimiterInv
<1>1. PICK m \in Nat : /\ TryPass(g, c, m) /\ (g = "profile" => m <= r)
                       /\ \A h \in Gates : woken'[h] \subseteq woken[h]
                       /\ \A h \in Gates : h # g => c \notin waiting[h] \union woken[h]
  <2>1. CASE Pass(g, c, n) /\ (g = "profile" => n <= r)
    BY <2>1 DEF Pass, Suspended
  <2>2. CASE PassWoken(g, c)
    <3>1. limit[c] \in Nat /\ c \in woken[g] /\ woken' = [woken EXCEPT ![g] = @ \ {c}]
      BY <2>2, LimiterAssumption DEF PassWoken, LimiterTypeOK
    <3>2. \A h \in Gates : woken'[h] \subseteq woken[h]
      BY <3>1 DEF LimiterTypeOK
    <3> QED
      BY <2>2, <3>1, <3>2 DEF PassWoken, OneGateAtATime
  <2> QED
    BY <2>1, <2>2
<1>2. /\ inflight["profile"] \in Nat /\ limit \in [Calls -> 0 .. MaxLimit] /\ "profile" \in Gates
      /\ \A d \in waiting["profile"] \union woken["profile"] : d \in Calls
  BY StagesListed DEF LimiterTypeOK
<1>3. CASE /\ inflight[g] < m /\ inflight' = [inflight EXCEPT ![g] = @ + 1]
           /\ inside' = [inside EXCEPT ![g] = @ \union {c}]
           /\ limit' = [limit EXCEPT ![c] = 0] /\ UNCHANGED waiting
  <2>1. inflight'["profile"] <= r
    BY <1>1, <1>2, <1>3 DEF LimiterTypeOK
  <2>2. inside["profile"] \subseteq inside'["profile"]
    BY <1>2, <1>3 DEF LimiterTypeOK
  <2>3. \A d \in Calls : limit'[d] = limit[d] \/ limit'[d] = 0
    BY <1>2, <1>3
  <2> QED
    BY <1>1, <1>2, <1>3, <2>1, <2>2, <2>3
<1>4. CASE /\ inflight[g] >= m /\ UNCHANGED <<inflight, inside>>
           /\ waiting' = [waiting EXCEPT ![g] = @ \union {c}]
           /\ limit' = [limit EXCEPT ![c] = m]
  <2>1. ASSUME NEW d \in waiting'["profile"] \union woken'["profile"] PROVE limit'[d] <= r
    <3>1. CASE d = c
      <4>1. g = "profile"
        BY <1>1, <1>2, <1>4, <2>1, <3>1 DEF LimiterTypeOK
      <4> QED
        BY <1>1, <1>2, <1>4, <3>1, <4>1
    <3>2. CASE d # c
      <4>1. d \in waiting["profile"] \union woken["profile"]
        BY <1>1, <1>2, <1>4, <2>1, <3>2 DEF LimiterTypeOK
      <4> QED
        BY <1>2, <1>4, <3>2, <4>1
    <3> QED
      BY <3>1, <3>2
  <2> QED
    BY <1>4, <2>1
<1> QED
  BY <1>1, <1>3, <1>4 DEF TryPass

LEMMA ProfileLeave ==
  ASSUME LimiterInv, NEW r \in Nat, NEW c \in Calls, LeaveGates(c),
         inflight["profile"] <= r,
         \A d \in waiting["profile"] \union woken["profile"] : limit[d] <= r
  PROVE  /\ inflight'["profile"] <= r
         /\ \A d \in waiting'["profile"] \union woken'["profile"] : limit'[d] <= r
         /\ inside["profile"] \ {c} \subseteq inside'["profile"]
<1>1. "profile" \in Gates /\ inflight["profile"] \in Nat
  BY StagesListed DEF LimiterInv, LimiterTypeOK
<1>2. /\ inflight'["profile"] \in {inflight["profile"], inflight["profile"] - 1}
      /\ inside'["profile"] = inside["profile"] \ {c}
      /\ \A d \in waiting'["profile"] \union woken'["profile"] :
           d \in waiting["profile"] \union woken["profile"] /\ d # c /\ d \in Calls
  BY <1>1 DEF LeaveGates, LimiterInv, LimiterTypeOK
<1>3. \A d \in Calls : d # c => limit'[d] = limit[d]
  BY DEF LeaveGates, LimiterInv, LimiterTypeOK
<1> QED
  BY <1>1, <1>2, <1>3

LEMMA ProfileStep ==
  ASSUME DispatchTypeOK, LimiterInv, ProfileInv, [Next]_vars
  PROVE  ProfileInv'
<1>1. UNCHANGED server /\ server \in Servers
  BY DEF DispatchTypeOK, vars, Next, Step, Failure, Refresh, Enter, Resolved, TakeLock, Reload,
         Fetched, Outstanding, Coalesce, Count, DispatchProfile, Throttled, LookAgain,
         AcquireBytes, LookForBytes, ReleaseBytes, SendAgain, Accepted, Answered, Finish,
         FetchFails, Rejected, Fails, Cancel
<1> SUFFICES ASSUME Recommended
             PROVE  ProfileGate' /\ \A c \in Calls : stage'[c] \in PastProfile => c \in inside'["profile"]
  BY <1>1 DEF ProfileInv, Recommended
<1> DEFINE r == Recommendation
<1>2. /\ r \in Nat /\ UNCHANGED Recommendation /\ inflight["profile"] <= r
      /\ \A d \in waiting["profile"] \union woken["profile"] : limit[d] <= r
      /\ \A c \in Calls : stage[c] \in PastProfile => c \in inside["profile"]
      /\ stage \in [Calls -> Stages] /\ "profile" \in Gates
  BY <1>1, RecommendationIsNat, StagesListed DEF ProfileInv, ProfileGate, Recommendation, DispatchTypeOK
<1> HIDE DEF r
<1>3. ASSUME UNCHANGED limiterVars, \A c \in Calls : stage'[c] \in PastProfile => stage[c] \in PastProfile
      PROVE  ProfileGate' /\ \A c \in Calls : stage'[c] \in PastProfile => c \in inside'["profile"]
  BY <1>2, <1>3 DEF limiterVars, ProfileGate, r
<1>4. ASSUME NEW c \in Calls,
             Enter(c) \/ Resolved(c) \/ TakeLock(c) \/ Reload(c) \/ Fetched(c) \/ Coalesce(c)
             \/ SendAgain(c) \/ Accepted(c) \/ FetchFails(c) \/ Rejected(c)
      PROVE  UNCHANGED limiterVars /\ \A d \in Calls : stage'[d] \in PastProfile => stage[d] \in PastProfile
  BY <1>2, <1>4 DEF Goes, PastProfile, Enter, Resolved, TakeLock, Reload, Fetched, Coalesce,
                    SendAgain, Accepted, FetchFails, Rejected
<1>5. ASSUME NEW c \in Calls, AcquireBytes(c) \/ LookForBytes(c) \/ ReleaseBytes(c)
      PROVE  UNCHANGED limiterVars /\ \A d \in Calls : stage'[d] \in PastProfile => stage[d] \in PastProfile
  BY <1>2, <1>5 DEF PastProfile, AcquireBytes, LookForBytes, ReleaseBytes, EntersOrWaits
<1>6. ASSUME NEW c \in Calls, Answered(c) \/ Fails(c) \/ Cancel(c)
      PROVE  ProfileGate' /\ \A d \in Calls : stage'[d] \in PastProfile => d \in inside'["profile"]
  <2>1. LeaveGates(c) /\ stage'[c] \notin PastProfile /\ \A d \in Calls : d # c => stage'[d] = stage[d]
    BY <1>2, <1>6 DEF Answered, Fails, Cancel, Finish, Unwind, PastProfile
  <2>2. /\ inflight'["profile"] <= r
        /\ \A d \in waiting'["profile"] \union woken'["profile"] : limit'[d] <= r
        /\ inside["profile"] \ {c} \subseteq inside'["profile"]
    BY <1>2, <2>1, ProfileLeave
  <2> QED
    BY <1>2, <2>1, <2>2 DEF ProfileGate, r
<1>7. ASSUME NEW c \in Calls, NEW g \in Gates, NEW n \in Nat,
             \/ Pass(g, c, n) /\ (g = "profile" => n <= r)
             \/ PassWoken(g, c),
             PassesOrWaits(c, g), g = "throttled" => stage[c] \in PastProfile
      PROVE  ProfileGate' /\ \A d \in Calls : stage'[d] \in PastProfile => d \in inside'["profile"]
  <2>1. /\ inflight'["profile"] <= r
        /\ \A d \in waiting'["profile"] \union woken'["profile"] : limit'[d] <= r
        /\ inside["profile"] \subseteq inside'["profile"]
    BY <1>2, <1>7, ProfilePass
  <2>2. ASSUME NEW d \in Calls, stage'[d] \in PastProfile PROVE d \in inside'["profile"]
    <3>1. CASE d # c
      BY <1>2, <1>7, <2>1, <2>2, <3>1 DEF PassesOrWaits
    <3>2. CASE d = c
      <4>1. stage'[c] = IF c \in inside'[g] THEN Following[g] ELSE g
        BY <1>2, <1>7 DEF PassesOrWaits
      <4> QED
        BY <1>2, <1>7, <2>1, <2>2, <3>2, <4>1, StagesListed DEF PastProfile
    <3> QED
      BY <3>1, <3>2
  <2> QED
    BY <1>2, <2>1, <2>2 DEF ProfileGate, r
<1>8. ASSUME NEW c \in Calls, Outstanding(c) \/ Count(c) \/ DispatchProfile(c) \/ Throttled(c)
      PROVE  ProfileGate' /\ \A d \in Calls : stage'[d] \in PastProfile => d \in inside'["profile"]
  <2>1. DispatchLimits(c) # {} /\ \A n \in DispatchLimits(c) : n <= r
    <3> DEFINE base == DispatchLimit(c \in Logprobs)
    <3>1. /\ None \notin Nat /\ MaxLimit \in Nat /\ Pending \union {0} \subseteq Nat
          /\ (c \in Logprobs) \in BOOLEAN
      BY DispatchAssumption, LimiterAssumption
    <3>2. base \in 1 .. MaxLimit /\ base <= r
      BY <1>1, <3>1, DispatchLimitIsLimit DEF r
    <3>3. base \in Nat /\ base # None
      BY <3>1, <3>2
    <3>4. \A n \in Pending \union {0} : Less(base, n) <= base /\ Less(base, n) \in 1 .. MaxLimit
      BY <3>1, <3>2, LessIsLess
    <3> HIDE DEF base
    <3>5. DispatchLimits(c) = {Less(base, n) : n \in Pending \union {0}}
      BY <3>3 DEF DispatchLimits, base
    <3>6. \A n \in Pending \union {0} : Less(base, n) <= r
      BY <1>2, <3>1, <3>2, <3>3, <3>4
    <3> QED
      BY <3>5, <3>6
  <2>2. PICK g \in Gates : \E limits \in SUBSET Nat :
          /\ PassOneOf(c, g, limits)
          /\ g = "profile" => limits = DispatchLimits(c)
          /\ g = "throttled" => stage[c] = "profiled"
    BY <1>1, <1>8, LimitsLeaveRoom, StagesListed
    DEF Outstanding, Count, DispatchProfile, Throttled
  <2>3. PICK limits \in SUBSET Nat : PassOneOf(c, g, limits) /\ (g = "profile" => limits = DispatchLimits(c))
    BY <2>2
  <2>4. CASE limits = {} /\ Goes(c, stage[c], Following[g]) /\ UNCHANGED limiterVars
    BY <1>2, <1>3, <2>1, <2>2, <2>3, <2>4, StagesListed DEF Goes, PastProfile
  <2>5. CASE \E n \in limits : Pass(g, c, n) /\ PassesOrWaits(c, g)
    BY <1>7, <2>1, <2>2, <2>3, <2>5 DEF PastProfile
  <2> QED
    BY <2>3, <2>4, <2>5 DEF PassOneOf
<1>9. ASSUME NEW c \in Calls, LookAgain(c)
      PROVE  ProfileGate' /\ \A d \in Calls : stage'[d] \in PastProfile => d \in inside'["profile"]
  BY <1>7, <1>9 DEF LookAgain, PastProfile
<1>10. CASE Refresh \/ UNCHANGED vars
  BY <1>3, <1>10 DEF Refresh, vars
<1> QED
  BY <1>3, <1>4, <1>5, <1>6, <1>8, <1>9, <1>10 DEF Next, Step, Failure

(* However the limits that calls bring differ, whatever they waited with     *)
(* and whoever fails or is cancelled: the calls that were sent and have no   *)
(* result yet are never more than the server recommends, nor than one if it   *)
(* recommends 0.                                                             *)
THEOREM RecommendationHolds == Spec => []RecommendationKept
<1>1. Spec => [](DispatchTypeOK /\ LimiterInv)
  BY DispatchInitially, DispatchTypes, PassesTheGates, LimiterInvariance, PTL DEF Spec
<1>2. Spec => []ProfileInv
  <2>1. DispatchTypeOK /\ LimiterInv /\ ProfileInv /\ [Next]_vars => ProfileInv'
    BY ProfileStep
  <2> QED
    BY <1>1, <2>1, ProfileInitially, PTL DEF Spec
<1>3. DispatchTypeOK /\ LimiterInv /\ ProfileInv => RecommendationKept
  <2> SUFFICES ASSUME DispatchTypeOK, LimiterInv, ProfileInv, Recommended
               PROVE  Cardinality({c \in Calls : stage[c] \in {"sending", "backoff", "polling"}})
                        <= Recommendation
    BY DEF RecommendationKept, Recommended, Recommendation
  <2> DEFINE out == {c \in Calls : stage[c] \in {"sending", "backoff", "polling"}}
  <2>1. out \subseteq inside["profile"] /\ "profile" \in Gates
    BY StagesListed DEF ProfileInv, PastProfile
  <2>2. /\ IsFiniteSet(inside["profile"]) /\ Cardinality(inside["profile"]) \in Nat
        /\ Cardinality(inside["profile"]) <= Recommendation
    BY <2>1, InsideFinite DEF LimiterInv, CounterCountsInside, ProfileInv, ProfileGate
  <2>3. Cardinality(out) <= Cardinality(inside["profile"]) /\ Cardinality(out) \in Nat
    BY <2>1, <2>2, FS_Subset, FS_CardinalityType
  <2>4. Recommendation \in Nat
    BY RecommendationIsNat DEF DispatchTypeOK
  <2> QED
    BY <2>2, <2>3, <2>4
<1> QED
  BY <1>1, <1>2, <1>3, PTL

===============================================================================
