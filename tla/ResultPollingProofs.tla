------------------------- MODULE ResultPollingProofs -------------------------
(* The polls use the budget as ByteBudget allows, whatever the answers, the *)
(* callers and the bounds; so what is proved of ByteBudget holds for them.  *)
EXTENDS ResultPolling, SumTheorems

(* Each way to end a poll is a step of the budget, or none. *)
LEMMA Unwinding ==
  ASSUME NEW p \in Polls, Unwind(p)
  PROVE  Budget!BudgetNext \/ UNCHANGED budgetVars
  BY DEF Unwind, Budget!BudgetNext

LEMMA PollStep ==
  ASSUME NEW p \in Polls, Again(p) \/ Advance(p) \/ Stop(p) \/ Release(p)
  PROVE  Budget!BudgetNext \/ UNCHANGED budgetVars
<1>1. CASE Again(p)
  BY <1>1 DEF Again, StillWaiting, ServerError, BadRequest, ConnectionError, Fault
<1>2. CASE AskAgain(p)
  BY <1>2 DEF AskAgain
<1>3. CASE Metadata(p)
  BY <1>3 DEF Metadata, Budget!BudgetNext
<1>4. CASE LookAgain(p)
  BY <1>4 DEF LookAgain, Budget!BudgetNext
<1>5. CASE Answer(p) \/ Fail(p) \/ Stop(p)
  BY <1>5, Unwinding DEF Answer, Fail, Stop, Finish
<1>6. CASE Release(p)
  BY <1>6 DEF Release, Budget!BudgetNext
<1> QED
  BY <1>1, <1>2, <1>3, <1>4, <1>5, <1>6 DEF Advance, Ends

LEMMA CallerStep ==
  ASSUME NEW c \in Callers,
         Wait(c) \/ Returns(c) \/ SyncTimeout(c) \/ AsyncTimeout(c) \/ CancelCaller(c)
  PROVE  UNCHANGED budgetVars
  BY DEF Wait, Returns, GetResult, GetError, SyncTimeout, AsyncTimeout, CancelCaller, CallerGoes

LEMMA PollingStep == [Next]_vars => [Budget!BudgetNext]_(Budget!budgetVars)
  BY PollStep, CallerStep DEF Next, vars, budgetVars, Budget!budgetVars

(* ResultPolling implements ByteBudget. *)
THEOREM PollingRefinesBudget == Spec => ImplementsByteBudget
<1>1. Init => Budget!BudgetInit
  BY DEF Init
<1> QED
  BY <1>1, PollingStep, PTL DEF Spec, ImplementsByteBudget, Budget!BudgetSpec

-----------------------------------------------------------------------------
(* The budget in every step of every poll: nobody is forgotten, and the   *)
(* last one who is let in makes no more than one answer of debt.          *)

KeptInv == Budget!BudgetTypeOK /\ BudgetKept

LEMMA LettingIn ==
  ASSUME KeptInv, NEW p \in Polls, NEW n \in Sizes \union {0},
         size' = [size EXCEPT ![p] = n], Budget!TryEnter(p, n)
  PROVE  KeptInv'
<1> USE DEF KeptInv, BudgetKept
<1>1. n \in Nat /\ n <= MaxSize
  BY PollingAssumption
<1>2. CASE bytes >= 0 /\ bytes' = bytes - n /\ place' = [place EXCEPT ![p] = "in"]
  <2>1. Budget!BudgetTypeOK'
    BY <1>1, <1>2 DEF Budget!BudgetTypeOK, Budget!TryEnter
  <2>2. Budget!OverdraftBounded'
    BY <1>1, <1>2, PollingAssumption DEF Budget!OverdraftBounded, Budget!BudgetTypeOK
  <2>3. \A q \in Polls : place'[q] = "waiting" => place[q] = "waiting"
    BY <1>2 DEF Budget!BudgetTypeOK
  <2>4. Budget!NoWaiterForgotten'
    BY <1>2, <2>3 DEF Budget!NoWaiterForgotten, Budget!TryEnter, Budget!BudgetTypeOK
  <2> QED
    BY <2>1, <2>2, <2>4
<1>3. CASE bytes < 0 /\ bytes' = bytes /\ place' = [place EXCEPT ![p] = "waiting"]
  BY <1>3, PollingAssumption
  DEF Budget!BudgetTypeOK, Budget!OverdraftBounded, Budget!NoWaiterForgotten, Budget!TryEnter
<1> QED
  BY <1>2, <1>3 DEF Budget!TryEnter

LEMMA KeptStep == KeptInv /\ [Next]_vars => KeptInv'
<1> SUFFICES ASSUME KeptInv, [Budget!BudgetNext]_(Budget!budgetVars) PROVE KeptInv'
  BY PollingStep
<1>1. ASSUME NEW p \in Polls, NEW n \in Sizes, Budget!Acquire(p, n) PROVE KeptInv'
  BY <1>1, LettingIn DEF Budget!Acquire
<1>2. ASSUME NEW p \in Polls, Budget!WakeUp(p) PROVE KeptInv'
  <2>1. size[p] \in Sizes \union {0} /\ size' = [size EXCEPT ![p] = size[p]]
    BY <1>2 DEF Budget!WakeUp, KeptInv, Budget!BudgetTypeOK
  <2> QED
    BY <1>2, <2>1, LettingIn DEF Budget!WakeUp
<1>3. ASSUME NEW p \in Polls, Budget!Leave(p) PROVE KeptInv'
  <2>1. Sizes \union {0} \subseteq Nat
    BY PollingAssumption
  <2>2. size[p] \in Nat
    BY <2>1 DEF KeptInv, Budget!BudgetTypeOK
  <2> QED
    BY <1>3, <2>2, PollingAssumption
    DEF Budget!Leave, KeptInv, BudgetKept, Budget!BudgetTypeOK, Budget!NoWaiterForgotten,
        Budget!OverdraftBounded
<1>4. ASSUME NEW p \in Polls, Budget!GiveUp(p) PROVE KeptInv'
  BY <1>4, PollingAssumption
  DEF Budget!GiveUp, KeptInv, BudgetKept, Budget!BudgetTypeOK, Budget!NoWaiterForgotten,
      Budget!OverdraftBounded
<1>5. ASSUME NEW p \in Polls, Budget!Release(p) PROVE KeptInv'
  <2>1. \A q \in Polls : place'[q] # "waiting"
    BY <1>5 DEF Budget!Release
  <2>2. Budget!BudgetTypeOK'
    BY <1>5 DEF Budget!Release, KeptInv, Budget!BudgetTypeOK
  <2> QED
    BY <1>5, <2>1, <2>2
    DEF Budget!Release, KeptInv, BudgetKept, Budget!NoWaiterForgotten, Budget!OverdraftBounded
<1>6. CASE UNCHANGED Budget!budgetVars
  BY <1>6 DEF Budget!budgetVars, KeptInv, BudgetKept, Budget!BudgetTypeOK,
     Budget!NoWaiterForgotten, Budget!OverdraftBounded
<1> QED
  BY <1>1, <1>2, <1>3, <1>4, <1>5, <1>6 DEF Budget!BudgetNext

(* No poll waits for bytes while there are some, unless it is about to be *)
(* woken; and the budget is overdrawn by at most one response.            *)
THEOREM PollsKeepBudget == Spec => []BudgetKept
<1>1. Init => KeptInv
  BY PollingAssumption
  DEF Init, Budget!BudgetInit, KeptInv, BudgetKept, Budget!BudgetTypeOK,
      Budget!NoWaiterForgotten, Budget!OverdraftBounded
<1>2. KeptInv => BudgetKept
  BY DEF KeptInv
<1> QED
  BY <1>1, <1>2, KeptStep, PTL DEF Spec

-----------------------------------------------------------------------------
(* Where the bytes are: the budget less what the polls inside hold. *)

Inside == {p \in Polls : place[p] = "in"}

BytesInv ==
  /\ bytes \in Int
  /\ place \in [Polls -> {"out", "waiting", "woken", "in"}]
  /\ size \in [Polls -> Nat]
  /\ IsFiniteSet(Inside)
  /\ bytes = MaxBytes - Total(size, Inside)

LEMMA SumOfInside == BytesAccounted <=> bytes = MaxBytes - Total(size, Inside)
  BY DEF BytesAccounted, Total, Inside

(* A poll that goes in takes its bytes, whatever it had announced before. *)
LEMMA GoingIn ==
  ASSUME BytesInv, NEW p \in Polls, place[p] # "in",
         NEW n \in Nat, size' = [size EXCEPT ![p] = n], Budget!TryEnter(p, n)
  PROVE  BytesInv'
<1>1. place' \in [Polls -> {"out", "waiting", "woken", "in"}] /\ size' \in [Polls -> Nat]
  BY DEF BytesInv, Budget!TryEnter
<1>2. p \notin Inside /\ \A q \in Inside : size'[q] = size[q]
  BY DEF BytesInv, Inside
<1>3. Total(size', Inside) = Total(size, Inside)
  <2>1. IsFiniteSet(Inside)
    BY DEF BytesInv
  <2>2. \A q \in Inside : size'[q] = size[q]
    BY <1>2
  <2> QED
    BY <2>1, <2>2, TotalOfTheSame, ZenonT(60)
<1>4. \A q \in Inside \cup {p} : size'[q] \in Int
  BY <1>1 DEF Inside
<1>5. /\ Total(size', Inside) \in Int
      /\ Total(size', Inside \cup {p}) = size'[p] + Total(size', Inside)
  BY <1>2, <1>4, TotalWithOneMore DEF BytesInv
<1>6. MaxBytes \in Int /\ size'[p] = n
  BY PollingAssumption DEF BytesInv
<1>7. CASE bytes >= 0 /\ bytes' = bytes - n /\ place' = [place EXCEPT ![p] = "in"]
  <2>1. Inside' = Inside \cup {p}
    BY <1>7 DEF Inside, BytesInv
  <2>2. IsFiniteSet(Inside')
    BY <2>1, FS_AddElement DEF BytesInv
  <2>3. Total(size', Inside') = n + Total(size, Inside)
    BY <1>3, <1>5, <1>6, <2>1
  <2>4. bytes' = MaxBytes - (n + Total(size, Inside)) /\ bytes' \in Int
    BY <1>3, <1>5, <1>6, <1>7 DEF BytesInv
  <2> QED
    BY <1>1, <2>2, <2>3, <2>4 DEF BytesInv
<1>8. CASE bytes < 0 /\ bytes' = bytes /\ place' = [place EXCEPT ![p] = "waiting"]
  <2>1. Inside' = Inside
    BY <1>8 DEF Inside, BytesInv
  <2> QED
    BY <1>1, <1>3, <1>8, <2>1 DEF BytesInv
<1> QED
  BY <1>7, <1>8 DEF Budget!TryEnter

(* A poll that leaves gives back what it took. *)
LEMMA GoingOut ==
  ASSUME BytesInv, NEW p \in Polls, Budget!Leave(p)
  PROVE  BytesInv'
<1>1. /\ place[p] = "in" /\ place' = [place EXCEPT ![p] = "out"] /\ bytes' = bytes + size[p]
      /\ UNCHANGED size
  BY DEF Budget!Leave
<1> DEFINE rest == Inside \ {p}
<1>2. Inside' = rest /\ rest \cup {p} = Inside /\ p \notin rest
  BY <1>1 DEF Inside, BytesInv
<1>3. IsFiniteSet(rest)
  BY FS_RemoveElement DEF BytesInv
<1>4. \A q \in rest \cup {p} : size[q] \in Int
  BY DEF Inside, BytesInv
<1> HIDE DEF rest
<1>5. Total(size, rest) \in Int /\ Total(size, Inside) = size[p] + Total(size, rest)
  BY <1>2, <1>3, <1>4, TotalWithOneMore
<1>6. MaxBytes \in Int /\ size[p] \in Int
  BY PollingAssumption DEF BytesInv
<1>7. bytes' = MaxBytes - Total(size, rest) /\ bytes' \in Int
  BY <1>1, <1>5, <1>6 DEF BytesInv
<1> QED
  BY <1>1, <1>2, <1>3, <1>7 DEF BytesInv

LEMMA BytesStep == BytesInv /\ [Next]_vars => BytesInv'
<1> SUFFICES ASSUME BytesInv, [Next]_vars PROVE BytesInv'
  OBVIOUS
<1>1. CASE UNCHANGED budgetVars
  <2>1. UNCHANGED <<bytes, place, size, Inside>>
    BY <1>1 DEF budgetVars, Inside
  <2> QED
    BY <2>1 DEF BytesInv
<1>2. ASSUME NEW p \in Polls, NEW n \in Sizes, Budget!Acquire(p, n) PROVE BytesInv'
  <2>1. /\ n \in Nat /\ place[p] # "in" /\ size' = [size EXCEPT ![p] = n]
        /\ Budget!TryEnter(p, n)
    BY <1>2, PollingAssumption DEF Budget!Acquire
  <2> QED
    BY <2>1, GoingIn
<1>3. ASSUME NEW p \in Polls, Budget!WakeUp(p) PROVE BytesInv'
  <2>1. size' = [size EXCEPT ![p] = size[p]] /\ size[p] \in Nat
    BY <1>3 DEF Budget!WakeUp, BytesInv
  <2> QED
    BY <1>3, <2>1, GoingIn DEF Budget!WakeUp
<1>4. ASSUME NEW p \in Polls, Budget!GiveUp(p) \/ Budget!Release(p) PROVE BytesInv'
  <2>1. /\ UNCHANGED <<bytes, size>> /\ Inside' = Inside
        /\ place' \in [Polls -> {"out", "waiting", "woken", "in"}]
    BY <1>4 DEF Budget!GiveUp, Budget!Release, Inside, BytesInv
  <2> QED
    BY <2>1 DEF BytesInv
<1> QED
  BY <1>1, <1>2, <1>3, <1>4, PollingStep, GoingOut
  DEF Budget!BudgetNext, Budget!budgetVars, budgetVars

(***************************************************************************)
(* The budget is what it was less what the running polls hold, over all    *)
(* answers, errors, cancellations and waits: nothing leaks, and nothing is *)
(* given back twice (BytesSemaphore.acquire in the exit stack of a poll).  *)
(***************************************************************************)
THEOREM EveryByteIsAccountedFor == Spec => []BytesAccounted
<1>1. Init => BytesInv
  <2> SUFFICES ASSUME Init PROVE BytesInv
    OBVIOUS
  <2>1. Inside = {}
    BY DEF Init, Budget!BudgetInit, Inside
  <2>2. Total(size, {}) = 0 /\ IsFiniteSet({})
    BY TotalOfNone, FS_EmptySet
  <2> QED
    BY <2>1, <2>2, PollingAssumption DEF Init, Budget!BudgetInit, BytesInv
<1>2. BytesInv /\ [Next]_vars => BytesInv'
  BY BytesStep
<1>3. BytesInv => BytesAccounted
  BY SumOfInside DEF BytesInv
<1> QED
  BY <1>1, <1>2, <1>3, PTL DEF Spec
=============================================================================
