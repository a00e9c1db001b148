--------------------------- MODULE TelemetryProofs ---------------------------
(***************************************************************************)
(* Theorems about Telemetry, for any loggers, batches and queues and any   *)
(* number of failures: no event is lost, and none arrives before an older  *)
(* one, and no fatal call waits for a count that cannot be reached.        *)
(***************************************************************************)
EXTENDS Telemetry, FiniteSetTheorems, SequenceTheorems, TLAPS

Events == Loggers \union {SessionStart}

(* The task has a batch only while it sends it, and what _disable threw    *)
(* away is on record before the task takes the next one.                   *)
BatchIsBeingSent ==
  /\ task \in {"none", "waiting", "taking", "ended", "died"} => batch = <<>>
  /\ task \in {"sending", "backoff"} => batch # <<>>
  /\ task = "cleared" => lost

(* The events that are queued are younger than those in the batch, and      *)
(* these than all that has arrived, but for the batch itself.  What is late *)
(* is the batch, or it has arrived before.                                  *)
HasArrived(b) == \E i \in DOMAIN arrived : arrived[i] = b
QueuedInOrder ==
  /\ Increasing(queue) /\ Range(queue) \subseteq DOMAIN accepted
  /\ Increasing(batch) /\ Range(batch) \subseteq DOMAIN accepted
  /\ Before(batch, queue)
ArrivedInOrder ==
  ~lost => /\ \A i \in DOMAIN arrived :
                /\ Range(arrived[i]) \subseteq DOMAIN accepted
                /\ Before(arrived[i], queue)
                /\ arrived[i] = batch \/ Before(arrived[i], batch)
           /\ \A b \in late : b # <<>> /\ (b = batch \/ HasArrived(b))

(* What was pushed and not yet flushed is in the batch or in the queue,    *)
(* where some of it may not be counted as pushed so far: one event of each *)
(* logger that has just enqueued, and another one if it is fatal.          *)
Uncounted == {l \in Loggers : logger[l] = "enqueued"}
PushesAreCounted ==
  /\ IsFiniteSet(Uncounted)
  /\ enabled => push + Cardinality(Uncounted) + Cardinality(Uncounted \intersect Fatal)
                  = flush + Len(batch) + Len(queue)

(* A target was a count of pushes, and on the holder's loop it is taken    *)
(* while telemetry is still enabled.                                       *)
TargetsWerePushed ==
  /\ \A l \in Fatal : logger[l] = "waiting" => target[l] <= push
  /\ \A l \in Fatal \ Foreign : logger[l] = "targeting" => enabled
  /\ task \in OnLoop => ~enabled

TelemetryInv == /\ TypeOK /\ BatchIsBeingSent /\ PushesAreCounted /\ TargetsWerePushed
                /\ QueuedInOrder /\ ArrivedInOrder
                /\ NothingLostOrReordered /\ NobodyWaitsInVain

-----------------------------------------------------------------------------
(* The events of a call, and the batch that is taken. *)

LEMMA BoundsAreNat ==
  /\ MaxBatchSize \in Nat /\ 1 <= MaxBatchSize /\ MaxQueueSize \in Nat /\ 1 <= MaxQueueSize
  /\ Foreign \subseteq Fatal /\ Fatal \subseteq Loggers
  BY TelemetryAssumption DEF Loggers

LEMMA EventsOfCall ==
  ASSUME NEW l \in Loggers
  PROVE  EventsOf(l) \in Seq(Events) /\ Len(EventsOf(l)) = IF l \in Fatal THEN 2 ELSE 1
<1>1. l \in Events
  BY DEF Events
<1>2. <<l, l>> \in Seq(Events) /\ Len(<<l, l>>) = 2 /\ <<l>> \in Seq(Events) /\ Len(<<l>>) = 1
  BY <1>1
<1> QED
  BY <1>2 DEF EventsOf

LEMMA NumbersOfCall ==
  ASSUME TypeOK, NEW l \in Loggers
  PROVE  /\ Numbers(l) \in Seq(Nat) /\ Len(Numbers(l)) = IF l \in Fatal THEN 2 ELSE 1
         /\ \A i \in 1 .. Len(Numbers(l)) : Numbers(l)[i] = Len(accepted) + i
         /\ Len(EventsOf(l)) = Len(Numbers(l)) /\ Len(accepted) \in Nat
<1> DEFINE n == Len(EventsOf(l))
           f == [i \in 1 .. n |-> Len(accepted) + i]
<1>1. n \in Nat /\ (n = IF l \in Fatal THEN 2 ELSE 1)
  BY EventsOfCall
<1>2. Len(accepted) \in Nat
  BY DEF TypeOK
<1> HIDE DEF n
<1>3. f \in Seq(Nat) /\ Len(f) = n
  BY <1>1, <1>2
<1>4. \A i \in 1 .. n : f[i] = Len(accepted) + i
  OBVIOUS
<1>5. Numbers(l) = f
  BY DEF Numbers, n
<1> HIDE DEF f
<1> QED
  BY <1>1, <1>2, <1>3, <1>4, <1>5 DEF n

LEMMA BatchIsFirst ==
  ASSUME TypeOK, TakeBatch
  PROVE  /\ batch' \in Seq(Nat) /\ queue' \in Seq(Nat)
         /\ Len(batch') + Len(queue') = Len(queue)
         /\ Len(batch') <= MaxBatchSize /\ Len(queue') <= Len(queue) /\ Len(batch') >= 1
         /\ \A i \in DOMAIN batch' : i \in DOMAIN queue /\ batch'[i] = queue[i]
         /\ \A i \in DOMAIN queue' : /\ Len(batch') + i \in DOMAIN queue
                                     /\ queue'[i] = queue[Len(batch') + i]
<1> DEFINE n == IF MaxBatchSize < Len(queue) THEN MaxBatchSize ELSE Len(queue)
<1>1. /\ queue \in Seq(Nat) /\ Len(queue) \in Nat /\ queue # <<>>
      /\ n \in Nat /\ n <= Len(queue) /\ n <= MaxBatchSize
  BY BoundsAreNat DEF TypeOK, TakeBatch
<1>2. n >= 1
  <2>1. Len(queue) >= 1
    BY <1>1, EmptySeq
  <2> QED
    BY <2>1, BoundsAreNat
<1>3. batch' = SubSeq(queue, 1, n) /\ queue' = SubSeq(queue, n + 1, Len(queue))
  BY DEF TakeBatch
<1> HIDE DEF n
<1>4. \A i \in 1 .. Len(queue) : queue[i] \in Nat
  BY <1>1
<1>5. batch' \in Seq(Nat) /\ Len(batch') = n /\ \A i \in 1 .. n : batch'[i] = queue[i]
  <2>1. \A i \in 1 .. n : queue[i] \in Nat
    BY <1>1, <1>4
  <2> QED
    BY <1>1, <1>2, <1>3, <2>1, SubSeqProperties
<1>6. /\ queue' \in Seq(Nat) /\ Len(queue') = Len(queue) - n
      /\ \A i \in 1 .. Len(queue) - n : queue'[i] = queue[n + i]
  <2>1. \A i \in n + 1 .. Len(queue) : queue[i] \in Nat
    BY <1>1, <1>4
  <2>2. /\ SubSeq(queue, n + 1, Len(queue)) \in Seq(Nat)
        /\ Len(SubSeq(queue, n + 1, Len(queue)))
             = IF n + 1 <= Len(queue) THEN Len(queue) - (n + 1) + 1 ELSE 0
        /\ \A i \in 1 .. Len(queue) - (n + 1) + 1 :
             SubSeq(queue, n + 1, Len(queue))[i] = queue[n + 1 + i - 1]
    BY <1>1, <2>1, SubSeqProperties
  <2>3. \A i \in 1 .. Len(queue) - n : queue[n + 1 + i - 1] = queue[n + i]
    BY <1>1
  <2> QED
    BY <1>1, <1>3, <2>2, <2>3
<1>7. /\ DOMAIN queue = 1 .. Len(queue) /\ DOMAIN batch' = 1 .. n
      /\ DOMAIN queue' = 1 .. Len(queue) - n
  BY <1>1, <1>5, <1>6
<1>8. Len(batch') = n /\ Len(queue') = Len(queue) - n
  BY <1>5, <1>6
<1>9. /\ n + (Len(queue) - n) = Len(queue) /\ Len(queue) - n <= Len(queue)
      /\ \A i \in 1 .. n : i \in 1 .. Len(queue)
      /\ \A i \in 1 .. Len(queue) - n : n + i \in 1 .. Len(queue)
  BY <1>1, <1>2
<1>10. \A i \in DOMAIN batch' : i \in DOMAIN queue /\ batch'[i] = queue[i]
  BY <1>5, <1>7, <1>9
<1>11. \A i \in DOMAIN queue' : n + i \in DOMAIN queue /\ queue'[i] = queue[n + i]
  BY <1>6, <1>7, <1>9
<1> QED
  BY <1>1, <1>2, <1>5, <1>6, <1>8, <1>9, <1>10, <1>11

(* The steps of a logger that neither enqueue nor count. *)
QuietStep(l) ==
  CheckEnabled(l) \/ TriggerFlush(l) \/ StartWaiting(l) \/ TakeTarget(l) \/ Drained(l) \/ WaitTimesOut(l)

(* The steps of the task that leave what is queued and counted as it is. *)
IdleStep == \/ StartTask \/ WakeUp \/ QueueEmpty \/ SendFails \/ SendAgain \/ Disable
            \/ \E b \in late : ArrivesLate(b)

LEMMA EveryStep ==
  ASSUME [Next]_vars
  PROVE  \/ \E l \in Loggers : QuietStep(l) \/ Enqueue(l) \/ CountPush(l)
         \/ IdleStep \/ TakeBatch \/ SendOk \/ SendRaises \/ Stop \/ ClearQueue \/ SettleCounters
         \/ UNCHANGED vars
  BY DEF Next, LogStep, TaskStep, SendStep, QuietStep, IdleStep

-----------------------------------------------------------------------------
(* Types *)

LEMMA TelemetryTypes ==
  ASSUME TypeOK, [Next]_vars
  PROVE  TypeOK'
<1> USE DEF TypeOK
<1>1. ASSUME NEW l \in Loggers, QuietStep(l) PROVE TypeOK'
  BY <1>1 DEF QuietStep, CheckEnabled, TriggerFlush, StartWaiting, TakeTarget, Drained, WaitTimesOut,
              LoggerGoes, calls, counts, history
<1>2. ASSUME NEW l \in Loggers, Enqueue(l) PROVE TypeOK'
  <2>1. CASE /\ Len(queue) + Len(EventsOf(l)) <= MaxQueueSize
             /\ LoggerGoes(l, "checked", "enqueued")
             /\ queue' = queue \o Numbers(l) /\ accepted' = accepted \o EventsOf(l)
    <3>1. /\ queue' \in Seq(Nat) /\ Len(queue') = Len(queue) + Len(EventsOf(l))
          /\ accepted' \in Seq(Events)
      <4>1. queue \in Seq(Nat) /\ Numbers(l) \in Seq(Nat) /\ Len(EventsOf(l)) = Len(Numbers(l))
        BY NumbersOfCall
      <4>2. accepted \in Seq(Events) /\ EventsOf(l) \in Seq(Events)
        BY EventsOfCall DEF Events
      <4>3. queue \o Numbers(l) \in Seq(Nat) /\ Len(queue \o Numbers(l)) = Len(queue) + Len(Numbers(l))
        BY <4>1, ConcatProperties
      <4>4. accepted \o EventsOf(l) \in Seq(Events)
        BY <4>2, ConcatProperties
      <4> QED
        BY <2>1, <4>1, <4>3, <4>4
    <3> QED
      BY <1>2, <2>1, <3>1 DEF Enqueue, LoggerGoes, counts, history, Events
  <2>2. CASE LoggerGoes(l, "checked", "logged") /\ UNCHANGED <<queue, accepted>>
    BY <1>2, <2>2 DEF Enqueue, LoggerGoes, counts, history
  <2> QED
    BY <1>2, <2>1, <2>2 DEF Enqueue
<1>3. ASSUME NEW l \in Loggers, CountPush(l) PROVE TypeOK'
  BY <1>3, EventsOfCall DEF CountPush, LoggerGoes, history
<1>4. CASE IdleStep
  <2>1. CASE StartTask \/ WakeUp \/ QueueEmpty \/ SendAgain \/ Disable
    BY <2>1 DEF StartTask, WakeUp, QueueEmpty, SendAgain, Disable, TaskGoes, OnLoop, calls, counts, history
  <2>2. CASE SendFails
    <3>1. late' \subseteq Seq(Nat)
      BY <2>2 DEF SendFails
    <3> QED
      BY <2>2, <3>1 DEF SendFails, TaskGoes, calls, counts
  <2>3. ASSUME NEW b \in late, ArrivesLate(b) PROVE TypeOK'
    <3>1. b \in Seq(Nat)
      OBVIOUS
    <3>2. arrived' \in Seq(Seq(Nat)) /\ late' \subseteq Seq(Nat)
      BY <2>3, <3>1 DEF ArrivesLate
    <3> QED
      BY <2>3, <3>2 DEF ArrivesLate, calls, counts
  <2> QED
    BY <1>4, <2>1, <2>2, <2>3 DEF IdleStep
<1>5. CASE TakeBatch
  BY <1>5, BatchIsFirst, BoundsAreNat DEF TakeBatch, TaskGoes, Events, calls, counts, history
<1>6. CASE SendOk \/ SendRaises \/ Stop \/ SettleCounters
  <2>1. /\ flush' \in Nat /\ batch' = <<>> /\ task' \in {"taking", "died", "ended"} /\ lost' \in BOOLEAN
        /\ UNCHANGED <<enabled, queue, push, calls>> /\ flushEvent' \in BOOLEAN
    <3>1. Len(batch) \in Nat /\ flush \in Nat /\ push \in Nat /\ lost \in BOOLEAN /\ flushEvent \in BOOLEAN
      OBVIOUS
    <3>2. CASE SendOk
      BY <3>1, <3>2 DEF SendOk, CountBatch, TaskGoes, calls
    <3>5. CASE SendRaises
      BY <3>1, <3>5 DEF SendRaises, CountBatch, TaskGoes, calls
    <3>3. CASE Stop
      BY <3>1, <3>3 DEF Stop, CountBatch, calls
    <3>4. CASE SettleCounters
      BY <3>1, <3>4 DEF SettleCounters, TaskGoes, calls, history
    <3> QED
      BY <1>6, <3>2, <3>3, <3>4, <3>5
  <2>2. arrived' \in Seq(Seq(Nat)) /\ late' \subseteq Seq(Nat)
    <3>1. Append(arrived, batch) \in Seq(Seq(Nat)) /\ late \union {batch} \subseteq Seq(Nat)
      OBVIOUS
    <3> QED
      BY <1>6, <3>1 DEF SendOk, SendRaises, Stop, SettleCounters, history
  <2> QED
    BY <2>1, <2>2, BoundsAreNat DEF calls
<1>7. CASE ClearQueue
  BY <1>7, BoundsAreNat DEF ClearQueue, TaskGoes, OnLoop, calls, counts, history
<1>8. CASE UNCHANGED vars
  BY <1>8 DEF vars, calls, counts, history
<1> QED
  BY <1>1, <1>2, <1>3, <1>4, <1>5, <1>6, <1>7, <1>8, EveryStep

-----------------------------------------------------------------------------
(* Nothing is lost or reordered *)

LEMMA BatchStays ==
  ASSUME TypeOK, BatchIsBeingSent, [Next]_vars
  PROVE  BatchIsBeingSent'
<1> USE DEF BatchIsBeingSent
<1>1. ASSUME NEW l \in Loggers, QuietStep(l) \/ Enqueue(l) \/ CountPush(l) PROVE BatchIsBeingSent'
  BY <1>1 DEF QuietStep, CheckEnabled, TriggerFlush, StartWaiting, TakeTarget, Drained, WaitTimesOut,
              Enqueue, CountPush, history
<1>2. CASE IdleStep
  BY <1>2 DEF IdleStep, StartTask, WakeUp, QueueEmpty, SendFails, SendAgain, Disable, ArrivesLate, TaskGoes, history
<1>3. CASE TakeBatch \/ SendOk \/ SendRaises \/ Stop \/ ClearQueue \/ SettleCounters
  <2>1. CASE TakeBatch
    <3>1. batch' # <<>>
      <4>1. batch' \in Seq(Nat) /\ Len(batch') >= 1
        BY <2>1, BatchIsFirst
      <4> QED
        BY <4>1
    <3> QED
      BY <2>1, <3>1 DEF TakeBatch, TaskGoes
  <2>2. CASE SendOk \/ SendRaises \/ Stop \/ ClearQueue \/ SettleCounters
    BY <2>2 DEF SendOk, SendRaises, Stop, ClearQueue, SettleCounters, CountBatch, TaskGoes
  <2> QED
    BY <1>3, <2>1, <2>2
<1>4. CASE UNCHANGED vars
  BY <1>4 DEF vars, history
<1> QED
  BY <1>1, <1>2, <1>3, <1>4, EveryStep

(* Membership in a sequence, by position. *)
LEMMA RangeByPosition ==
  ASSUME NEW s
  PROVE  \A x : x \in Range(s) <=> \E i \in DOMAIN s : x = s[i]
  BY DEF Range

OrderInv == QueuedInOrder /\ ArrivedInOrder /\ NothingLostOrReordered

LEMMA OrderUntouched ==
  ASSUME OrderInv, UNCHANGED <<accepted, queue, batch, arrived>>, lost => lost',
         \A b \in late' : b \in late \/ (b = batch /\ b # <<>>)
  PROVE  OrderInv'
<1>1. QueuedInOrder'
  BY DEF OrderInv, QueuedInOrder
<1>2. ArrivedInOrder'
  BY DEF OrderInv, ArrivedInOrder, HasArrived
<1>3. NothingLostOrReordered'
  BY DEF OrderInv, NothingLostOrReordered, FirstArrival
<1> QED
  BY <1>1, <1>2, <1>3 DEF OrderInv

(* What is given up is not asked for any more. *)
LEMMA OrderGivenUp ==
  ASSUME OrderInv, lost', UNCHANGED accepted, queue' \in {queue, <<>>}, batch' \in {batch, <<>>}
  PROVE  OrderInv'
<1>1. Increasing(<<>>) /\ Range(<<>>) = {} /\ (\A s : Before(s, <<>>)) /\ (\A s : Before(<<>>, s))
  <2>1. Range(<<>>) = {}
    BY DEF Range
  <2> QED
    BY <2>1 DEF Increasing, Before
<1>2. QueuedInOrder'
  <2>1. Increasing(queue') /\ Range(queue') \subseteq DOMAIN accepted
    BY <1>1 DEF OrderInv, QueuedInOrder
  <2>2. Increasing(batch') /\ Range(batch') \subseteq DOMAIN accepted
    BY <1>1 DEF OrderInv, QueuedInOrder
  <2>3. Before(batch', queue')
    BY <1>1 DEF OrderInv, QueuedInOrder
  <2> QED
    BY <2>1, <2>2, <2>3 DEF QueuedInOrder
<1> QED
  BY <1>2 DEF OrderInv, ArrivedInOrder, NothingLostOrReordered

LEMMA OrderOfEnqueued ==
  ASSUME TypeOK, OrderInv, NEW l \in Loggers,
         queue' = queue \o Numbers(l), accepted' = accepted \o EventsOf(l),
         UNCHANGED <<batch, arrived, late, lost>>
  PROVE  OrderInv'
<1> DEFINE q == Len(queue)
           k == Len(Numbers(l))
           n == Len(accepted)
<1>1. /\ q \in Nat /\ k \in Nat /\ n \in Nat /\ queue \in Seq(Nat) /\ DOMAIN queue = 1 .. q
      /\ DOMAIN accepted = 1 .. n /\ Numbers(l) \in Seq(Nat)
      /\ \A i \in 1 .. k : Numbers(l)[i] = n + i
  BY NumbersOfCall DEF TypeOK
<1>2. DOMAIN accepted' = 1 .. n + k
  <2>1. accepted \in Seq(Events) /\ EventsOf(l) \in Seq(Events) /\ Len(EventsOf(l)) = k
    BY EventsOfCall, NumbersOfCall DEF TypeOK, Events
  <2>2. /\ accepted \o EventsOf(l) \in Seq(Events)
        /\ Len(accepted \o EventsOf(l)) = Len(accepted) + Len(EventsOf(l))
    BY <2>1, ConcatProperties
  <2>3. accepted' \in Seq(Events) /\ Len(accepted') = n + k
    BY <2>1, <2>2
  <2> QED
    BY <2>3
<1>3. /\ DOMAIN queue' = 1 .. q + k
      /\ \A i \in 1 .. q : queue'[i] = queue[i]
      /\ \A i \in q + 1 .. q + k : queue'[i] = n + (i - q)
  <2>1. /\ Len(queue') = q + k /\ queue' \in Seq(Nat)
        /\ \A i \in 1 .. q + k : queue'[i] = IF i <= q THEN queue[i] ELSE Numbers(l)[i - q]
    BY <1>1, ConcatProperties
  <2>2. \A i \in q + 1 .. q + k : i - q \in 1 .. k /\ i \in 1 .. q + k /\ ~(i <= q)
    BY <1>1
  <2>3. \A i \in 1 .. q : i \in 1 .. q + k /\ i <= q
    BY <1>1
  <2> QED
    BY <1>1, <2>1, <2>2, <2>3
<1> HIDE DEF q, k, n
<1>4. \A i \in 1 .. q : queue[i] \in 1 .. n
  BY <1>1, RangeByPosition DEF OrderInv, QueuedInOrder
<1>5. \A x \in Range(queue') : x \in Range(queue) \/ (x \in n + 1 .. n + k)
  <2> SUFFICES ASSUME NEW i \in 1 .. q + k
               PROVE  queue'[i] \in Range(queue) \/ queue'[i] \in n + 1 .. n + k
    <3>1. \A x \in Range(queue') : \E j \in DOMAIN queue' : x = queue'[j]
      BY RangeByPosition, Zenon
    <3> QED
      <4>1. DOMAIN queue' = 1 .. q + k
        BY <1>3
      <4> QED
        BY <3>1, <4>1
  <2>1. CASE i \in 1 .. q
    BY <1>1, <1>3, <2>1, RangeByPosition
  <2>2. CASE i \in q + 1 .. q + k
    <3>1. queue'[i] = n + (i - q)
      BY <1>3, <2>2
    <3>2. n + (i - q) \in n + 1 .. n + k
      BY <1>1, <2>2
    <3> QED
      BY <3>1, <3>2
  <2>3. i \in 1 .. q \/ i \in q + 1 .. q + k
    BY <1>1
  <2> QED
    BY <2>1, <2>2, <2>3
<1>6. \A x \in 1 .. n + k : x \in 1 .. n \/ x \in Range(queue')
  <2> SUFFICES ASSUME NEW x \in n + 1 .. n + k PROVE x \in Range(queue')
    BY <1>1
  <2>1. q + (x - n) \in q + 1 .. q + k /\ q + (x - n) \in 1 .. q + k /\ n + ((q + (x - n)) - q) = x
    BY <1>1
  <2>2. queue'[q + (x - n)] = x
    BY <1>3, <2>1
  <2> QED
    BY <1>3, <2>1, <2>2, RangeByPosition
<1>7. Range(queue) \subseteq Range(queue')
  <2>1. \A i \in 1 .. q : i \in 1 .. q + k
    BY <1>1
  <2>2. \A i \in DOMAIN queue : i \in DOMAIN queue' /\ queue'[i] = queue[i]
    BY <1>1, <1>3, <2>1
  <2>3. \A x \in Range(queue) : \E i \in DOMAIN queue : x = queue[i]
    BY RangeByPosition, Zenon
  <2>4. \A i \in DOMAIN queue' : queue'[i] \in Range(queue')
    BY RangeByPosition, Zenon
  <2> QED
    BY <2>2, <2>3, <2>4
<1>8. \A s : Range(s) \subseteq 1 .. n /\ Before(s, queue) => Before(s, queue')
  <2> SUFFICES ASSUME NEW s, Range(s) \subseteq 1 .. n, Before(s, queue),
                      NEW x \in Range(s), NEW y \in Range(queue')
               PROVE  x < y
    BY DEF Before
  <2>1. CASE y \in Range(queue)
    BY <2>1 DEF Before
  <2>2. CASE y \in n + 1 .. n + k
    BY <1>1, <2>2
  <2> QED
    BY <1>5, <2>1, <2>2
<1>9. 1 .. n \subseteq 1 .. n + k /\ n + 1 .. n + k \subseteq 1 .. n + k
  BY <1>1
<1>10. QueuedInOrder'
  <2>1. Increasing(queue')
    <3> SUFFICES ASSUME NEW i \in 1 .. q + k, NEW j \in 1 .. q + k, i < j
                 PROVE  queue'[i] < queue'[j]
      BY <1>3 DEF Increasing
    <3>1. CASE j \in 1 .. q
      <4>1. i \in 1 .. q
        BY <1>1, <3>1
      <4> QED
        BY <1>1, <1>3, <3>1, <4>1 DEF OrderInv, QueuedInOrder, Increasing
    <3>2. CASE i \in 1 .. q /\ j \in q + 1 .. q + k
      <4>1. queue'[i] \in 1 .. n /\ queue'[j] = n + (j - q)
        BY <1>3, <1>4, <3>2
      <4> QED
        BY <1>1, <3>2, <4>1
    <3>3. CASE i \in q + 1 .. q + k /\ j \in q + 1 .. q + k
      <4>1. queue'[i] = n + (i - q) /\ queue'[j] = n + (j - q)
        BY <1>3, <3>3
      <4> QED
        BY <1>1, <3>3, <4>1
    <3>4. j \in 1 .. q \/ (j \in q + 1 .. q + k /\ (i \in 1 .. q \/ i \in q + 1 .. q + k))
      BY <1>1
    <3> QED
      BY <3>1, <3>2, <3>3, <3>4
  <2>2. Range(queue) \subseteq 1 .. n /\ Range(batch) \subseteq 1 .. n
    BY <1>1 DEF OrderInv, QueuedInOrder
  <2>3. Range(queue') \subseteq 1 .. n + k /\ Range(batch) \subseteq 1 .. n + k
    BY <1>5, <1>9, <2>2
  <2>4. Before(batch, queue')
    BY <1>8, <2>2 DEF OrderInv, QueuedInOrder
  <2> QED
    BY <1>2, <2>1, <2>3, <2>4 DEF OrderInv, QueuedInOrder
<1>11. ArrivedInOrder'
  <2> SUFFICES ASSUME ~lost
               PROVE  /\ \A i \in DOMAIN arrived : /\ Range(arrived[i]) \subseteq 1 .. n + k
                                                   /\ Before(arrived[i], queue')
                                                   /\ arrived[i] = batch \/ Before(arrived[i], batch)
                      /\ \A b \in late : b # <<>> /\ (b = batch \/ HasArrived(b))
    BY <1>2 DEF ArrivedInOrder, HasArrived
  <2>1. \A i \in DOMAIN arrived : /\ Range(arrived[i]) \subseteq 1 .. n /\ Before(arrived[i], queue)
                                  /\ arrived[i] = batch \/ Before(arrived[i], batch)
    BY <1>1 DEF OrderInv, ArrivedInOrder
  <2> QED
    BY <1>8, <1>9, <2>1 DEF OrderInv, ArrivedInOrder
<1>12. NothingLostOrReordered'
  <2> SUFFICES ASSUME ~lost
               PROVE  /\ \A x \in 1 .. n + k :
                           \/ x \in Range(queue') \union Range(batch)
                           \/ \E i \in DOMAIN arrived : x \in Range(arrived[i])
                      /\ \A j \in DOMAIN arrived :
                           /\ Increasing(arrived[j])
                           /\ FirstArrival(j) => \A i \in 1 .. j - 1 : Before(arrived[i], arrived[j])
    BY <1>2 DEF NothingLostOrReordered, FirstArrival
  <2>1. \A x \in 1 .. n : \/ x \in Range(queue) \union Range(batch)
                          \/ \E i \in DOMAIN arrived : x \in Range(arrived[i])
    BY <1>1 DEF OrderInv, NothingLostOrReordered
  <2> QED
    BY <1>6, <1>7, <2>1 DEF OrderInv, NothingLostOrReordered
<1> QED
  BY <1>10, <1>11, <1>12 DEF OrderInv

LEMMA OrderOfTaken ==
  ASSUME TypeOK, BatchIsBeingSent, OrderInv, TakeBatch
  PROVE  OrderInv'
<1> DEFINE m == Len(batch')
<1>1. /\ m \in Nat /\ UNCHANGED <<accepted, arrived, late, lost>> /\ batch = <<>>
      /\ \A i \in DOMAIN batch' : i \in DOMAIN queue /\ batch'[i] = queue[i]
      /\ \A i \in DOMAIN queue' : m + i \in DOMAIN queue /\ queue'[i] = queue[m + i]
  BY BatchIsFirst DEF TakeBatch, TaskGoes, BatchIsBeingSent, calls, history
<1>2. /\ DOMAIN batch' = 1 .. m /\ DOMAIN queue' = 1 .. Len(queue')
      /\ DOMAIN queue = 1 .. Len(queue) /\ m + Len(queue') = Len(queue)
      /\ Len(queue') \in Nat /\ Len(queue) \in Nat
  BY BatchIsFirst DEF TypeOK
<1> HIDE DEF m
<1>3. \A i, j \in DOMAIN queue : i < j => queue[i] < queue[j]
  BY DEF OrderInv, QueuedInOrder, Increasing
<1>4. Range(batch') \subseteq Range(queue) /\ Range(queue') \subseteq Range(queue)
  BY <1>1, RangeByPosition
<1>5. Range(queue) \subseteq Range(batch') \union Range(queue')
  <2> SUFFICES ASSUME NEW i \in 1 .. Len(queue)
               PROVE  queue[i] \in Range(batch') \union Range(queue')
    BY <1>2, RangeByPosition
  <2>1. CASE i \in 1 .. m
    BY <1>1, <1>2, <2>1, RangeByPosition
  <2>2. CASE i - m \in 1 .. Len(queue')
    <3>1. m + (i - m) = i
      BY <1>1
    <3> QED
      BY <1>1, <1>2, <2>2, <3>1, RangeByPosition
  <2> QED
    BY <1>1, <1>2, <2>1, <2>2
<1>6. QueuedInOrder'
  <2>1. Increasing(batch')
    BY <1>1, <1>3 DEF Increasing
  <2>2. Increasing(queue')
    <3> SUFFICES ASSUME NEW i \in 1 .. Len(queue'), NEW j \in 1 .. Len(queue'), i < j
                 PROVE  queue[m + i] < queue[m + j]
      BY <1>1, <1>2 DEF Increasing
    <3>1. m + i < m + j
      BY <1>1
    <3> QED
      BY <1>1, <1>2, <1>3, <3>1
  <2>3. Before(batch', queue')
    <3> SUFFICES ASSUME NEW i \in 1 .. m, NEW j \in 1 .. Len(queue')
                 PROVE  batch'[i] < queue'[j]
      <4>1. /\ \A x \in Range(batch') : \E i \in 1 .. m : x = batch'[i]
            /\ \A x \in Range(queue') : \E j \in 1 .. Len(queue') : x = queue'[j]
        BY <1>2, RangeByPosition
      <4> QED
        BY <4>1 DEF Before
    <3>1. i < m + j
      BY <1>1, <1>2
    <3> QED
      BY <1>1, <1>2, <1>3, <3>1
  <2> QED
    BY <1>1, <1>4, <2>1, <2>2, <2>3 DEF OrderInv, QueuedInOrder
<1>7. \A s : Before(s, queue) => Before(s, batch') /\ Before(s, queue')
  BY <1>4 DEF Before
<1>8. ArrivedInOrder'
  BY <1>1, <1>7 DEF OrderInv, ArrivedInOrder, HasArrived
<1>9. NothingLostOrReordered'
  <2>1. Range(batch) = {}
    BY <1>1, RangeByPosition
  <2> QED
    BY <1>1, <1>5, <2>1 DEF OrderInv, NothingLostOrReordered, FirstArrival
<1> QED
  BY <1>6, <1>8, <1>9 DEF OrderInv

(* A batch that arrives is the one that is being sent, or one that the      *)
(* server has already taken.                                                *)
LEMMA OrderOfArrival ==
  ASSUME TypeOK, OrderInv, NEW b \in Seq(Nat), b = batch \/ (~lost => HasArrived(b)),
         arrived' = Append(arrived, b), UNCHANGED <<accepted, queue, lost>>, late' \subseteq late,
         batch' = batch \/ (b = batch /\ batch' = <<>>)
  PROVE  OrderInv'
<1> DEFINE n == Len(arrived)
<1>1. /\ n \in Nat /\ DOMAIN arrived = 1 .. n /\ DOMAIN arrived' = 1 .. n + 1
      /\ arrived'[n + 1] = b /\ \A i \in 1 .. n : arrived'[i] = arrived[i]
  BY DEF TypeOK
<1> HIDE DEF n
<1>2. QueuedInOrder'
  <2>1. batch' = <<>> => Increasing(batch') /\ Range(batch') = {} /\ Before(batch', queue)
    <3>1. Range(<<>>) = {}
      BY RangeByPosition
    <3> QED
      BY <3>1 DEF Increasing, Before
  <2> QED
    BY <2>1 DEF OrderInv, QueuedInOrder
<1> SUFFICES ASSUME ~lost PROVE ArrivedInOrder' /\ NothingLostOrReordered'
  BY <1>2 DEF OrderInv, ArrivedInOrder, NothingLostOrReordered
<1>3. /\ Range(b) \subseteq DOMAIN accepted /\ Before(b, queue) /\ (b = batch \/ Before(b, batch))
      /\ Increasing(b)
  <2>1. CASE b = batch
    BY <2>1 DEF OrderInv, QueuedInOrder
  <2>2. CASE HasArrived(b)
    BY <2>2 DEF OrderInv, ArrivedInOrder, NothingLostOrReordered, HasArrived
  <2> QED
    BY <2>1, <2>2
<1>4. \A s : Before(s, batch) => Before(s, batch')
  <2>1. Range(<<>>) = {}
    BY RangeByPosition
  <2> QED
    BY <2>1 DEF Before
<1>5. Range(<<>>) = {} /\ \A s : Before(s, <<>>)
  <2>1. Range(<<>>) = {}
    BY RangeByPosition
  <2> QED
    BY <2>1 DEF Before
<1>6. ArrivedInOrder'
  <2>1. ASSUME NEW i \in 1 .. n + 1
        PROVE  /\ Range(arrived'[i]) \subseteq DOMAIN accepted /\ Before(arrived'[i], queue)
               /\ arrived'[i] = batch' \/ Before(arrived'[i], batch')
    <3>1. CASE i = n + 1
      BY <1>1, <1>3, <1>4, <1>5, <3>1
    <3>2. CASE i \in 1 .. n
      <4>1. /\ Range(arrived[i]) \subseteq DOMAIN accepted /\ Before(arrived[i], queue)
            /\ arrived[i] = batch \/ Before(arrived[i], batch)
        BY <1>1, <3>2 DEF OrderInv, ArrivedInOrder
      <4> QED
        BY <1>1, <1>4, <1>5, <3>2, <4>1
    <3> QED
      BY <1>1, <3>1, <3>2
  <2>2. ASSUME NEW c \in late PROVE c # <<>> /\ (c = batch' \/ HasArrived(c)')
    <3>1. c # <<>> /\ (c = batch \/ HasArrived(c))
      BY DEF OrderInv, ArrivedInOrder
    <3>2. HasArrived(c) \/ c = b => HasArrived(c)'
      <4>1. n + 1 \in 1 .. n + 1 /\ \A i \in 1 .. n : i \in 1 .. n + 1
        BY <1>1
      <4> QED
        BY <1>1, <4>1 DEF HasArrived
    <3> QED
      BY <3>1, <3>2
  <2> QED
    BY <1>1, <2>1, <2>2 DEF ArrivedInOrder
<1>7. NothingLostOrReordered'
  <2>1. ASSUME NEW x \in DOMAIN accepted
        PROVE  \/ x \in Range(queue) \union Range(batch')
               \/ \E i \in 1 .. n + 1 : x \in Range(arrived'[i])
    <3>1. \/ x \in Range(queue) \union Range(batch)
          \/ \E i \in 1 .. n : x \in Range(arrived[i])
      BY <1>1 DEF OrderInv, NothingLostOrReordered
    <3>2. n + 1 \in 1 .. n + 1 /\ \A i \in 1 .. n : i \in 1 .. n + 1
      BY <1>1
    <3> QED
      BY <1>1, <3>1, <3>2
  <2>2. ASSUME NEW j \in 1 .. n + 1
        PROVE  /\ Increasing(arrived'[j])
               /\ FirstArrival(j)' => \A i \in 1 .. j - 1 : Before(arrived'[i], arrived'[j])
    <3>1. CASE j \in 1 .. n
      <4>1. /\ Increasing(arrived[j])
            /\ FirstArrival(j) => \A i \in 1 .. j - 1 : Before(arrived[i], arrived[j])
        BY <1>1, <3>1 DEF OrderInv, NothingLostOrReordered
      <4>2. \A i \in 1 .. j - 1 : i \in 1 .. n
        BY <1>1, <3>1
      <4>3. FirstArrival(j)' => FirstArrival(j)
        BY <1>1, <3>1, <4>2 DEF FirstArrival
      <4> QED
        BY <1>1, <3>1, <4>1, <4>2, <4>3
    <3>2. CASE j = n + 1
      <4>1. \A i \in 1 .. j - 1 : i \in 1 .. n
        BY <1>1, <3>2
      <4>2. SUFFICES ASSUME FirstArrival(j)', NEW i \in 1 .. n PROVE Before(arrived[i], b)
        BY <1>1, <1>3, <3>2, <4>1
      <4>3. \A h \in 1 .. n : arrived[h] # b
        <5>1. \A h \in 1 .. n : h \in 1 .. j - 1
          BY <1>1, <3>2
        <5> QED
          BY <1>1, <3>2, <4>2, <5>1 DEF FirstArrival
      <4>4. b = batch
        BY <1>1, <4>3 DEF HasArrived
      <4> QED
        BY <1>1, <4>3, <4>4 DEF OrderInv, ArrivedInOrder
    <3> QED
      BY <1>1, <3>1, <3>2
  <2> QED
    BY <1>1, <2>1, <2>2 DEF NothingLostOrReordered
<1> QED
  BY <1>6, <1>7

LEMMA OrderStays ==
  ASSUME TypeOK, BatchIsBeingSent, OrderInv, [Next]_vars
  PROVE  OrderInv'
<1>1. /\ batch \in Seq(Nat) /\ late \subseteq Seq(Nat) /\ lost \in BOOLEAN
  BY DEF TypeOK
<1>2. ASSUME NEW l \in Loggers, QuietStep(l) \/ CountPush(l) PROVE OrderInv'
  BY <1>2, OrderUntouched DEF QuietStep, CheckEnabled, TriggerFlush, StartWaiting, TakeTarget, Drained,
                    WaitTimesOut, CountPush, history
<1>3. ASSUME NEW l \in Loggers, Enqueue(l) PROVE OrderInv'
  BY <1>3, OrderUntouched, OrderOfEnqueued DEF Enqueue, history
<1>4. CASE StartTask \/ WakeUp \/ QueueEmpty \/ SendFails \/ SendAgain \/ Disable
  <2>1. UNCHANGED <<accepted, queue, batch, arrived, lost>>
    BY <1>4 DEF StartTask, WakeUp, QueueEmpty, SendFails, SendAgain, Disable, calls, history
  <2>2. \A b \in late' : b \in late \/ (b = batch /\ b # <<>>)
    BY <1>4 DEF StartTask, WakeUp, QueueEmpty, SendFails, SendAgain, Disable, TaskGoes,
                BatchIsBeingSent, history
  <2> QED
    BY <2>1, <2>2, OrderUntouched
<1>5. ASSUME NEW b \in late, ArrivesLate(b) PROVE OrderInv'
  <2>1. b \in Seq(Nat) /\ (b = batch \/ (~lost => HasArrived(b)))
    BY <1>1 DEF OrderInv, ArrivedInOrder
  <2> QED
    BY <1>5, <2>1, OrderOfArrival DEF ArrivesLate, calls
<1>6. CASE SendOk
  BY <1>1, <1>6, OrderOfArrival DEF SendOk, CountBatch, calls
<1>7. CASE SendRaises \/ ClearQueue
  BY <1>7, OrderGivenUp DEF SendRaises, ClearQueue, CountBatch, calls
<1>8. CASE SettleCounters
  BY <1>8, OrderGivenUp DEF SettleCounters, TaskGoes, BatchIsBeingSent, calls, history
<1>9. CASE Stop
  <2>1. UNCHANGED <<accepted, queue, arrived>> /\ batch' = <<>> /\ (lost' <=> lost \/ batch # <<>>)
    BY <1>9 DEF Stop, CountBatch, calls
  <2>2. CASE batch = <<>>
    <3>1. late' = late
      BY <1>9, <2>2 DEF Stop, BatchIsBeingSent
    <3> QED
      BY <2>1, <2>2, <3>1, OrderUntouched
  <2>3. CASE batch # <<>>
    BY <2>1, <2>3, OrderGivenUp
  <2> QED
    BY <2>2, <2>3
<1>10. CASE UNCHANGED vars
  BY <1>10, OrderUntouched DEF vars, calls, history
<1> QED
  BY <1>2, <1>3, <1>4, <1>5, <1>6, <1>7, <1>8, <1>9, <1>10, OrderOfTaken, EveryStep DEF IdleStep

-----------------------------------------------------------------------------
(* Nobody waits in vain *)

LEMMA LengthsAreNat ==
  ASSUME TypeOK
  PROVE  /\ push \in Nat /\ flush \in Nat /\ Len(batch) \in Nat /\ Len(queue) \in Nat
         /\ target \in [Loggers -> Nat] /\ Len(<<>>) = 0
  BY DEF TypeOK

LEMMA UncountedAreNat ==
  ASSUME PushesAreCounted
  PROVE  /\ Cardinality(Uncounted) \in Nat /\ IsFiniteSet(Uncounted \intersect Fatal)
         /\ Cardinality(Uncounted \intersect Fatal) \in Nat
<1>1. Uncounted \intersect Fatal \subseteq Uncounted
  OBVIOUS
<1> QED
  BY <1>1, FS_Subset, FS_CardinalityType DEF PushesAreCounted

(* A step after which as many events are under way, flushed and uncounted. *)
LEMMA CountsStay ==
  ASSUME PushesAreCounted, Uncounted' = Uncounted, UNCHANGED push, enabled' => enabled,
         enabled' => flush' + Len(batch') + Len(queue') = flush + Len(batch) + Len(queue)
  PROVE  PushesAreCounted'
  BY DEF PushesAreCounted

LEMMA MoreUncounted ==
  ASSUME TypeOK, PushesAreCounted, NEW l \in Loggers, Enqueue(l)
  PROVE  PushesAreCounted'
<1>1. /\ logger = [k \in Loggers |-> logger[k]] /\ UNCHANGED <<enabled, push, flush, batch>>
      /\ queue \in Seq(Nat)
  BY DEF TypeOK, Enqueue, counts
<1>2. CASE LoggerGoes(l, "checked", "enqueued") /\ queue' = queue \o Numbers(l)
  <2>1. Len(queue') = Len(queue) + IF l \in Fatal THEN 2 ELSE 1
    <3>1. Numbers(l) \in Seq(Nat) /\ Len(Numbers(l)) = IF l \in Fatal THEN 2 ELSE 1
      BY NumbersOfCall
    <3>2. Len(queue \o Numbers(l)) = Len(queue) + Len(Numbers(l))
      BY <1>1, <3>1, ConcatProperties
    <3> QED
      BY <1>2, <3>1, <3>2
  <2>2. l \notin Uncounted /\ Uncounted' = Uncounted \union {l}
    BY <1>1, <1>2 DEF LoggerGoes, Uncounted
  <2>3. IsFiniteSet(Uncounted') /\ Cardinality(Uncounted') = Cardinality(Uncounted) + 1
    BY <2>2, FS_AddElement DEF PushesAreCounted
  <2>4. Cardinality(Uncounted' \intersect Fatal)
          = Cardinality(Uncounted \intersect Fatal) + IF l \in Fatal THEN 1 ELSE 0
    <3>1. CASE l \in Fatal
      <4>1. Uncounted' \intersect Fatal = (Uncounted \intersect Fatal) \union {l}
        BY <2>2, <3>1
      <4> QED
        BY <2>2, <3>1, <4>1, UncountedAreNat, FS_AddElement
    <3>2. CASE l \notin Fatal
      <4>1. Uncounted' \intersect Fatal = Uncounted \intersect Fatal
        BY <2>2, <3>2
      <4> QED
        BY <3>2, <4>1, UncountedAreNat
    <3> QED
      BY <3>1, <3>2
  <2>5. enabled' => push' + Cardinality(Uncounted') + Cardinality(Uncounted' \intersect Fatal)
                      = flush' + Len(batch') + Len(queue')
    <3>1. CASE l \in Fatal
      <4>1. Len(queue') = Len(queue) + 2
            /\ Cardinality(Uncounted' \intersect Fatal) = Cardinality(Uncounted \intersect Fatal) + 1
        BY <2>1, <2>4, <3>1
      <4>2. enabled => push + Cardinality(Uncounted) + Cardinality(Uncounted \intersect Fatal)
                         = flush + Len(batch) + Len(queue)
        BY DEF PushesAreCounted
      <4>3. \A p, u, v, n, b, q \in Nat : p + u + v = n + b + q => p + (u + 1) + (v + 1) = n + b + (q + 2)
        OBVIOUS
      <4>4. enabled => push + (Cardinality(Uncounted) + 1) + (Cardinality(Uncounted \intersect Fatal) + 1)
                         = flush + Len(batch) + (Len(queue) + 2)
        BY <4>2, <4>3, UncountedAreNat, LengthsAreNat, SMTT(60)
      <4> QED
        BY <1>1, <2>3, <4>1, <4>4
    <3>2. CASE l \notin Fatal
      BY <1>1, <2>1, <2>3, <2>4, <3>2, UncountedAreNat, LengthsAreNat, SMTT(60) DEF PushesAreCounted
    <3> QED
      BY <3>1, <3>2
  <2> QED
    BY <2>3, <2>5 DEF PushesAreCounted
<1>3. CASE LoggerGoes(l, "checked", "logged") /\ UNCHANGED <<queue, accepted>>
  <2>1. Uncounted' = Uncounted
    BY <1>1, <1>3 DEF LoggerGoes, Uncounted
  <2> QED
    BY <1>1, <1>3, <2>1, CountsStay
<1> QED
  BY <1>2, <1>3 DEF Enqueue

LEMMA FewerUncounted ==
  ASSUME TypeOK, PushesAreCounted, NEW l \in Loggers, CountPush(l)
  PROVE  PushesAreCounted'
<1>1. /\ UNCHANGED <<enabled, queue, flush, batch>>
      /\ push' = push + IF l \in Fatal THEN 2 ELSE 1
  BY EventsOfCall DEF CountPush
<1>2. l \in Uncounted /\ Uncounted' = Uncounted \ {l}
  BY DEF CountPush, LoggerGoes, Uncounted, TypeOK
<1>3. IsFiniteSet(Uncounted') /\ Cardinality(Uncounted') = Cardinality(Uncounted) - 1
  BY <1>2, FS_RemoveElement DEF PushesAreCounted
<1>4. Cardinality(Uncounted' \intersect Fatal)
        = Cardinality(Uncounted \intersect Fatal) - IF l \in Fatal THEN 1 ELSE 0
  <2>1. CASE l \in Fatal
    <3>1. Uncounted' \intersect Fatal = (Uncounted \intersect Fatal) \ {l}
      BY <1>2, <2>1
    <3> QED
      BY <1>2, <2>1, <3>1, UncountedAreNat, FS_RemoveElement
  <2>2. CASE l \notin Fatal
    <3>1. Uncounted' \intersect Fatal = Uncounted \intersect Fatal
      BY <1>2, <2>2
    <3> QED
      BY <2>2, <3>1, UncountedAreNat
  <2> QED
    BY <2>1, <2>2
<1>5. enabled' => push' + Cardinality(Uncounted') + Cardinality(Uncounted' \intersect Fatal)
                    = flush' + Len(batch') + Len(queue')
  <2>1. CASE l \in Fatal
    BY <1>1, <1>3, <1>4, <2>1, UncountedAreNat, LengthsAreNat DEF PushesAreCounted
  <2>2. CASE l \notin Fatal
    BY <1>1, <1>3, <1>4, <2>2, UncountedAreNat, LengthsAreNat DEF PushesAreCounted
  <2> QED
    BY <2>1, <2>2
<1> QED
  BY <1>3, <1>5 DEF PushesAreCounted

(* A batch that is taken or flushed is still counted once. *)
LEMMA CountsMove ==
  ASSUME TypeOK, BatchIsBeingSent, TargetsWerePushed, TakeBatch \/ SendOk \/ SendRaises \/ Stop
  PROVE  flush' + Len(batch') + Len(queue') = flush + Len(batch) + Len(queue)
<1>1. CASE TakeBatch
  <2>1. batch = <<>> /\ UNCHANGED flush /\ Len(batch') + Len(queue') = Len(queue)
        /\ Len(batch') \in Nat /\ Len(queue') \in Nat
    BY <1>1, BatchIsFirst DEF TakeBatch, TaskGoes, BatchIsBeingSent, counts
  <2> QED
    BY <2>1, LengthsAreNat
<1>2. CASE SendOk \/ SendRaises \/ Stop
  <2>1. flush' = flush + Len(batch) /\ batch' = <<>> /\ UNCHANGED queue
    BY <1>2 DEF SendOk, SendRaises, Stop, CountBatch
  <2> QED
    BY <2>1, LengthsAreNat
<1> QED
  BY <1>1, <1>2

LEMMA CountsKept ==
  ASSUME TypeOK, BatchIsBeingSent, PushesAreCounted, TargetsWerePushed, [Next]_vars
  PROVE  PushesAreCounted'
<1>1. ASSUME NEW l \in Loggers, QuietStep(l) PROVE PushesAreCounted'
  <2>1. Uncounted' = Uncounted
    BY <1>1 DEF QuietStep, CheckEnabled, TriggerFlush, StartWaiting, TakeTarget, Drained, WaitTimesOut,
                LoggerGoes, Uncounted, TypeOK
  <2>2. UNCHANGED <<enabled, push, flush, batch, queue>>
    BY <1>1 DEF QuietStep, CheckEnabled, TriggerFlush, StartWaiting, TakeTarget, Drained, WaitTimesOut, counts
  <2> QED
    BY <2>1, <2>2, CountsStay
<1>2. CASE IdleStep
  <2>1. UNCHANGED <<logger, push, flush, batch, queue>> /\ (enabled' => enabled)
    BY <1>2 DEF IdleStep, StartTask, WakeUp, QueueEmpty, SendFails, SendAgain, Disable, ArrivesLate, calls, counts
  <2>2. Uncounted' = Uncounted
    BY <2>1 DEF Uncounted
  <2> QED
    BY <2>1, <2>2, CountsStay
<1>3. CASE TakeBatch \/ SendOk \/ SendRaises \/ Stop
  <2>1. UNCHANGED <<logger, push, enabled>>
    BY <1>3 DEF TakeBatch, SendOk, SendRaises, Stop, calls, counts
  <2>2. Uncounted' = Uncounted
    BY <2>1 DEF Uncounted
  <2> QED
    BY <1>3, <2>1, <2>2, CountsMove, CountsStay
<1>4. CASE ClearQueue \/ SettleCounters
  <2>1. UNCHANGED <<logger, push, enabled>> /\ ~enabled
    BY <1>4 DEF ClearQueue, SettleCounters, TaskGoes, TargetsWerePushed, OnLoop, calls, counts
  <2>2. Uncounted' = Uncounted
    BY <2>1 DEF Uncounted
  <2> QED
    BY <2>1, <2>2, CountsStay
<1>5. CASE UNCHANGED vars
  <2>1. UNCHANGED <<logger, enabled, push, flush, batch, queue>>
    BY <1>5 DEF vars, calls, counts
  <2>2. Uncounted' = Uncounted
    BY <2>1 DEF Uncounted
  <2> QED
    BY <2>1, <2>2, CountsStay
<1> QED
  BY <1>1, <1>2, <1>3, <1>4, <1>5, MoreUncounted, FewerUncounted, EveryStep

LEMMA TargetsKept ==
  ASSUME TypeOK, TargetsWerePushed, [Next]_vars
  PROVE  TargetsWerePushed'
<1> USE DEF TargetsWerePushed
<1>1. /\ push \in Nat /\ target \in [Loggers -> Nat] /\ Fatal \subseteq Loggers
      /\ DOMAIN logger = Loggers /\ logger = [l \in Loggers |-> logger[l]]
  BY BoundsAreNat DEF TypeOK
<1>2. ASSUME NEW l \in Loggers, TakeTarget(l) PROVE TargetsWerePushed'
  BY <1>1, <1>2 DEF TakeTarget, LoggerGoes, counts
<1>3. ASSUME NEW l \in Loggers, StartWaiting(l) PROVE TargetsWerePushed'
  BY <1>1, <1>3 DEF StartWaiting, LoggerGoes, counts
<1>4. ASSUME NEW l \in Loggers, CheckEnabled(l) \/ TriggerFlush(l) \/ Drained(l) \/ WaitTimesOut(l)
      PROVE  TargetsWerePushed'
  BY <1>1, <1>4 DEF CheckEnabled, TriggerFlush, Drained, WaitTimesOut, LoggerGoes, counts
<1>5. ASSUME NEW l \in Loggers, Enqueue(l) PROVE TargetsWerePushed'
  BY <1>1, <1>5 DEF Enqueue, LoggerGoes, counts
<1>6. ASSUME NEW l \in Loggers, CountPush(l) PROVE TargetsWerePushed'
  <2>1. Len(EventsOf(l)) \in Nat
    BY EventsOfCall
  <2>2. push' >= push /\ push' \in Nat /\ UNCHANGED <<enabled, task, target>>
    BY <1>1, <1>6, <2>1 DEF CountPush
  <2>3. \A f \in Fatal : logger'[f] \in {"waiting", "targeting"} => logger'[f] = logger[f]
    BY <1>1, <1>6 DEF CountPush, LoggerGoes
  <2>4. \A f \in Fatal : target[f] \in Nat
    BY <1>1
  <2> QED
    BY <1>1, <2>2, <2>3, <2>4
<1>7. CASE Disable
  BY <1>7 DEF Disable, TaskGoes, LoopFree, calls, counts
<1>8. CASE StartTask \/ WakeUp \/ QueueEmpty \/ SendFails \/ SendAgain \/ TakeBatch \/ SendOk
           \/ SendRaises \/ Stop \/ ClearQueue \/ SettleCounters
  <2>1. UNCHANGED <<enabled, logger, target, push>>
    BY <1>8 DEF StartTask, WakeUp, QueueEmpty, SendFails, SendAgain, TakeBatch, SendOk, SendRaises,
                Stop, ClearQueue, SettleCounters, calls, counts
  <2>2. task' \in OnLoop => task \in OnLoop
    BY <1>8 DEF StartTask, WakeUp, QueueEmpty, SendFails, SendAgain, TakeBatch, SendOk, SendRaises,
                Stop, ClearQueue, SettleCounters, TaskGoes, OnLoop
  <2> QED
    BY <2>1, <2>2
<1>9. CASE UNCHANGED vars
  BY <1>9 DEF vars, calls, counts
<1>10. ASSUME NEW b \in late, ArrivesLate(b) PROVE TargetsWerePushed'
  BY <1>10 DEF ArrivesLate, calls, counts
<1> QED
  BY <1>2, <1>3, <1>4, <1>5, <1>6, <1>7, <1>8, <1>9, <1>10, EveryStep DEF QuietStep, IdleStep

LEMMA WaitsKept ==
  ASSUME TelemetryInv, [Next]_vars
  PROVE  NobodyWaitsInVain'
<1> SUFFICES ASSUME NEW f \in Fatal, logger'[f] = "waiting",
                    task' \notin {"ended", "died"} \union OnLoop, ~(f \in Foreign /\ ~enabled')
             PROVE  target'[f] <= flush' + Len(batch') + Len(queue')
  BY DEF NobodyWaitsInVain
<1> USE DEF TelemetryInv
<1>1. /\ push \in Nat /\ flush \in Nat /\ Len(batch) \in Nat /\ Len(queue) \in Nat
      /\ target \in [Loggers -> Nat] /\ Len(<<>>) = 0 /\ f \in Loggers
      /\ DOMAIN logger = Loggers /\ logger = [l \in Loggers |-> logger[l]]
  BY LengthsAreNat, BoundsAreNat DEF TypeOK
<1>2. ASSUME logger[f] = "waiting", task \notin {"ended", "died"} \union OnLoop, enabled' => enabled,
             enabled => enabled' \/ f \notin Foreign, UNCHANGED target,
             flush' + Len(batch') + Len(queue') >= flush + Len(batch) + Len(queue),
             flush' + Len(batch') + Len(queue') \in Nat
      PROVE  target'[f] <= flush' + Len(batch') + Len(queue')
  <2>1. target[f] <= flush + Len(batch) + Len(queue)
    BY <1>2 DEF NobodyWaitsInVain
  <2> QED
    BY <1>1, <1>2, <2>1
<1>3. ASSUME NEW l \in Loggers, QuietStep(l)
      PROVE  target'[f] <= flush' + Len(batch') + Len(queue')
  <2>1. UNCHANGED <<enabled, flush, batch, queue, push, task>>
    BY <1>3 DEF QuietStep, CheckEnabled, TriggerFlush, StartWaiting, TakeTarget, Drained, WaitTimesOut, counts
  <2>2. CASE TakeTarget(l) /\ f = l
    <3>1. enabled /\ target'[f] = push
      BY <1>1, <2>1, <2>2 DEF TakeTarget, LoggerGoes, TargetsWerePushed
    <3>2. push <= flush + Len(batch) + Len(queue)
      BY <1>1, <3>1, UncountedAreNat DEF PushesAreCounted
    <3> QED
      BY <2>1, <3>1, <3>2
  <2>3. CASE ~(TakeTarget(l) /\ f = l)
    <3>1. logger[f] = "waiting" /\ target'[f] = target[f]
      BY <1>1, <1>3, <2>3
      DEF QuietStep, CheckEnabled, TriggerFlush, StartWaiting, TakeTarget, Drained, WaitTimesOut, LoggerGoes
    <3> QED
      BY <2>1, <3>1 DEF NobodyWaitsInVain
  <2> QED
    BY <2>2, <2>3
<1>4. ASSUME NEW l \in Loggers, Enqueue(l)
      PROVE  target'[f] <= flush' + Len(batch') + Len(queue')
  <2>1. UNCHANGED <<enabled, flush, batch, task, target>> /\ logger[f] = "waiting"
    BY <1>1, <1>4 DEF Enqueue, LoggerGoes, counts
  <2>2. Len(queue') >= Len(queue) /\ Len(queue') \in Nat
    <3>1. queue \in Seq(Nat) /\ Numbers(l) \in Seq(Nat) /\ Len(Numbers(l)) \in Nat
      BY NumbersOfCall DEF TypeOK
    <3>2. Len(queue \o Numbers(l)) = Len(queue) + Len(Numbers(l))
      BY <3>1, ConcatProperties
    <3>3. queue' = queue \o Numbers(l) \/ queue' = queue
      BY <1>4 DEF Enqueue
    <3> QED
      BY <1>1, <3>1, <3>2, <3>3
  <2> QED
    BY <1>1, <1>2, <2>1, <2>2
<1>5. ASSUME NEW l \in Loggers, CountPush(l)
      PROVE  target'[f] <= flush' + Len(batch') + Len(queue')
  BY <1>1, <1>2, <1>5 DEF CountPush, LoggerGoes
<1>6. CASE IdleStep
  <2>1. UNCHANGED <<logger, target, flush, batch, queue>> /\ (enabled' => enabled)
        /\ task \notin {"ended", "died"} \union OnLoop
    BY <1>6 DEF IdleStep, StartTask, WakeUp, QueueEmpty, SendFails, SendAgain, Disable, ArrivesLate, TaskGoes, OnLoop,
                calls, counts
  <2>2. enabled => enabled' \/ f \notin Foreign
    OBVIOUS
  <2> QED
    BY <1>1, <1>2, <2>1, <2>2
<1>7. CASE TakeBatch \/ SendOk \/ SendRaises \/ Stop
  <2>1. UNCHANGED <<logger, target, enabled>> /\ task \notin {"ended", "died"} \union OnLoop
    BY <1>7 DEF TakeBatch, SendOk, SendRaises, Stop, TaskGoes, OnLoop, calls
  <2> QED
    BY <1>1, <1>2, <1>7, <2>1, CountsMove
<1>8. CASE ClearQueue
  BY <1>8 DEF ClearQueue, TaskGoes, OnLoop
<1>9. CASE SettleCounters
  <2>1. /\ UNCHANGED <<logger, target, queue>>
        /\ flush' = push + Len(batch) /\ batch' = <<>>
    BY <1>9 DEF SettleCounters, calls
  <2>2. target[f] <= push
    BY <2>1 DEF TargetsWerePushed
  <2> QED
    BY <1>1, <2>1, <2>2
<1>10. CASE UNCHANGED vars
  BY <1>1, <1>2, <1>10 DEF vars, calls, counts
<1> QED
  BY <1>3, <1>4, <1>5, <1>6, <1>7, <1>8, <1>9, <1>10, EveryStep

-----------------------------------------------------------------------------
(* The theorems *)

LEMMA TelemetryInitially == Init => TelemetryInv
<1> SUFFICES ASSUME Init PROVE TelemetryInv
  OBVIOUS
<1>1. /\ <<SessionStart>> \in Seq(Events) /\ Len(<<SessionStart>>) = 1 /\ <<1>> \in Seq(Nat)
      /\ Len(<<1>>) = 1 /\ <<>> \in Seq(Nat) /\ Len(<<>>) = 0 /\ <<>> \in Seq(Seq(Nat))
  BY DEF Events
<1>2. TypeOK
  <2>1. /\ queue \in Seq(Nat) /\ Len(queue) <= MaxQueueSize /\ accepted \in Seq(Events)
        /\ batch \in Seq(Nat) /\ Len(batch) <= MaxBatchSize /\ arrived \in Seq(Seq(Nat))
        /\ late \subseteq Seq(Nat)
    BY <1>1, BoundsAreNat DEF Init
  <2>2. /\ logger \in [Loggers -> {"idle"}] /\ logged \in [Loggers -> BOOLEAN]
        /\ target \in [Loggers -> Nat]
    BY DEF Init
  <2> QED
    BY <2>1, <2>2 DEF Init, TypeOK, Events
<1>3. PushesAreCounted
  <2>1. Uncounted = {} /\ Uncounted \intersect Fatal = {}
    BY DEF Init, Uncounted
  <2> QED
    BY <1>1, <2>1, FS_EmptySet DEF Init, PushesAreCounted
<1>4. OrderInv
  <2>1. Range(<<>>) = {} /\ Range(<<1>>) = {1} /\ DOMAIN <<SessionStart>> = {1} /\ DOMAIN <<1>> = {1}
    <3>1. DOMAIN <<1>> = 1 .. 1 /\ DOMAIN <<SessionStart>> = 1 .. 1 /\ 1 .. 1 = {1}
      OBVIOUS
    <3>2. <<1>>[1] = 1
      OBVIOUS
    <3> QED
      BY <3>1, <3>2, RangeByPosition
  <2>2. QueuedInOrder
    BY <2>1 DEF Init, QueuedInOrder, Increasing, Before
  <2> QED
    BY <2>1, <2>2 DEF Init, OrderInv, ArrivedInOrder, NothingLostOrReordered
<1>5. \A l \in Fatal : logger[l] = "idle"
  BY BoundsAreNat DEF Init
<1> QED
  BY <1>2, <1>3, <1>4, <1>5
  DEF Init, TelemetryInv, OrderInv, BatchIsBeingSent, TargetsWerePushed, NobodyWaitsInVain, OnLoop

LEMMA TelemetryStep == TelemetryInv /\ [Next]_vars => TelemetryInv'
  BY TelemetryTypes, BatchStays, CountsKept, TargetsKept, OrderStays, WaitsKept DEF TelemetryInv, OrderInv

LEMMA TelemetryInvariance == Spec => []TelemetryInv
  BY TelemetryInitially, TelemetryStep, PTL DEF Spec

(* The types of the telemetry; the queue and the batch keep to their bounds. *)
THEOREM TelemetryTyped == Spec => []TypeOK
<1>1. TelemetryInv => TypeOK
  BY DEF TelemetryInv
<1> QED
  BY <1>1, TelemetryInvariance, PTL

(* Unless events were given up, the server gets all of them, and for the     *)
(* first time in the order in which they were enqueued, however they are cut *)
(* into batches, however often a batch is sent again and however late a      *)
(* request arrives that was given up.                                        *)
THEOREM EveryEventInOrder == Spec => []NothingLostOrReordered
<1>1. TelemetryInv => NothingLostOrReordered
  BY DEF TelemetryInv
<1> QED
  BY <1>1, TelemetryInvariance, PTL

(* The count that a fatal call waits for can be reached, whatever is pushed  *)
(* late and whatever _disable throws away meanwhile.                         *)
THEOREM TargetsAreInReach == Spec => []NobodyWaitsInVain
<1>1. TelemetryInv => NobodyWaitsInVain
  BY DEF TelemetryInv
<1> QED
  BY <1>1, TelemetryInvariance, PTL

===============================================================================
