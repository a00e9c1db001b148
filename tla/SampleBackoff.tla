---------------------------- MODULE SampleBackoff ----------------------------
(***************************************************************************)
(* What rejected samples do to the later ones: the backoff time of the     *)
(* holder and the one it shares with the other holders of its server       *)
(* (internal_client_holder.py), set by the queue states that the service   *)
(* answers and by the loop that sends a sample (sampling_client.py).       *)
(* Times are kept relative to now: what is left of a backoff, or how long  *)
(* it has been over, no further than anyone looks back.                    *)
(***************************************************************************)
EXTENDS Integers, FiniteSets

CONSTANTS Samples, Holders, Profile,   \* Profile: sample_dispatch_profile
          MaxRejections                \* bound of the model

VARIABLES loopAt,      \* "new", "loop", "asleep", "sent", "over" for each sample
          owner,       \* its holder
          heavy,       \* its payload is above 128 KiB
          factor,      \* what its bytes are multiplied with
          napLeft,     \* what is left of its sleep
          localUntil,  \* _sample_backoff_until of each holder, Never for None
          sharedUntil, \* backoff_until of the state they share
          streak,      \* backoff_streak of that state, and the time since a paused answer
          sinceAsked,
          rejections
backoffVars == <<loopAt, owner, heavy, factor, napLeft, localUntil, sharedUntil, streak, sinceAsked, rejections>>

\* Durations in ticks of half a second, rounded up.
LocalProfile == Profile \in {"auto_limited", "local_single_gpu", "workstation"}
RecentWindow == CASE Profile = "local_single_gpu" -> 20
                  [] Profile \in {"workstation", "auto_limited"} -> 12
                  [] OTHER -> 4
LongOver == 0 - RecentWindow - 1         \* nobody looks back further
Never    == LongOver - 1
StreakWindow == 10
Larger(a, b)  == IF a > b THEN a ELSE b
Smaller(a, b) == IF a < b THEN a ELSE b
Forgotten == Larger(StreakWindow, RecentWindow) + 1

BaseBackoff(state) ==
  CASE Profile = "local_single_gpu" -> IF state = "paused_capacity" THEN 5 ELSE 3
    [] Profile = "workstation"      -> IF state = "paused_capacity" THEN 3 ELSE 2
    [] Profile = "auto_limited"     -> IF state = "paused_capacity" THEN 4 ELSE 2
    [] OTHER                        -> 2
\* half a second for each of up to three repetitions, and for the samples that are out
Pressure(n) == Smaller(3, (n + 1) \div 2)
Outstanding == Cardinality({s \in Samples : loopAt[s] \in {"loop", "asleep", "sent"}})
QueueStateBackoff(state, asked) ==
  BaseBackoff(state) + (IF LocalProfile THEN (asked - 1) + Pressure(Outstanding - 1) ELSE 0)

BackoffInit ==
  /\ loopAt = [s \in Samples |-> "new"] /\ owner \in [Samples -> Holders]
  /\ heavy \in [Samples -> BOOLEAN]
  /\ factor = [s \in Samples |-> 0] /\ napLeft = [s \in Samples |-> 0]
  /\ localUntil = [h \in Holders |-> Never] /\ sharedUntil = Never
  /\ streak = 0 /\ sinceAsked = Forgotten
  /\ rejections = 0

\* once it was set, the shared time is the one that counts
Current(l, shared) == IF shared # Never THEN shared ELSE l
Backoff(h) == Current(localUntil[h], sharedUntil)
\* A change of the code: a backoff that is over is forgotten.
StillRequested(h) == Backoff(h) > 0

RequestedRecently(h) == Backoff(h) # Never /\ 0 - Backoff(h) < RecentWindow
Lasts(s) == localUntil[owner[s]] > 0

Steps(s, to) == loopAt' = [loopAt EXCEPT ![s] = to]

\* _sample_dispatch_bytes_rate_limit, then the loop of _sample_async_impl
EnterBytesLimit(s) ==
  /\ loopAt[s] = "new"
  /\ factor' = [factor EXCEPT ![s] = IF RequestedRecently(owner[s]) THEN 20 ELSE 1]
  /\ Steps(s, "loop")
  /\ UNCHANGED <<owner, heavy, napLeft, localUntil, sharedUntil, streak, sinceAsked, rejections>>

\* sample_backoff_sleep_seconds: up to a second of the current backoff, 0 if that one is over
Naps(h) == IF Backoff(h) <= 0 THEN {0}
           ELSE IF LocalProfile THEN 1..Smaller(2, Backoff(h)) ELSE {Smaller(2, Backoff(h))}
Sleep(s) ==
  /\ loopAt[s] = "loop" /\ Lasts(s)
  /\ \E d \in Naps(owner[s]) : napLeft' = [napLeft EXCEPT ![s] = d]
  /\ Steps(s, "asleep")
  /\ UNCHANGED <<owner, heavy, factor, localUntil, sharedUntil, streak, sinceAsked, rejections>>

AwakeAgain(s) ==
  /\ loopAt[s] = "asleep" /\ napLeft[s] = 0
  /\ Steps(s, "loop")
  /\ UNCHANGED <<owner, heavy, factor, napLeft, localUntil, sharedUntil, streak, sinceAsked, rejections>>

SendSample(s) ==
  /\ loopAt[s] = "loop" /\ ~Lasts(s)
  /\ Steps(s, "sent")
  /\ UNCHANGED <<owner, heavy, factor, napLeft, localUntil, sharedUntil, streak, sinceAsked, rejections>>

AcceptSample(s) ==
  /\ loopAt[s] = "sent"
  /\ Steps(s, "over") /\ factor' = [factor EXCEPT ![s] = 0]
  /\ UNCHANGED <<owner, heavy, napLeft, localUntil, sharedUntil, streak, sinceAsked, rejections>>

(* note_sampling_queue_state: the two times after it. *)
Times(l, shared) == [local |-> l, shared |-> shared]
Raise(l, shared, requested) == IF requested > Current(l, shared) THEN Times(requested, requested)
                               ELSE Times(l, shared)
\* an active queue that asks to wait; only the local profiles do
NoteActive(h, waits) == IF waits /\ LocalProfile THEN Raise(localUntil[h], sharedUntil, 1)
                        ELSE Times(localUntil[h], sharedUntil)
\* a paused queue: the streak first, which sets both times to the current one
NextStreak == Smaller((IF sinceAsked > StreakWindow THEN 0 ELSE streak) + 1, 4)
NotePaused(h, state) == Raise(Backoff(h), Backoff(h), QueueStateBackoff(state, NextStreak))

QueueStates == {"none", "active", "waiting", "paused_capacity", "paused_rate_limit"}

\* 429: the queue state if the answer has one, then the backoff of the loop, in the local time only
RejectSample(s) ==
  /\ loopAt[s] = "sent" /\ rejections < MaxRejections
  /\ rejections' = rejections + 1
  /\ \E state \in QueueStates :
       LET paused == state \in {"paused_capacity", "paused_rate_limit"}
           noted  == IF paused THEN NotePaused(owner[s], state)
                     ELSE NoteActive(owner[s], state = "waiting")
       IN  /\ streak' = IF paused THEN NextStreak ELSE streak
           /\ sinceAsked' = IF paused THEN 0 ELSE sinceAsked
           /\ sharedUntil' = noted.shared
           /\ localUntil' = [localUntil EXCEPT ![owner[s]] =
                               Larger(noted.local, IF heavy[s] THEN 10 ELSE 2)]
  /\ Steps(s, "loop")
  /\ UNCHANGED <<owner, heavy, factor, napLeft>>

Down(t) == IF t > LongOver THEN t - 1 ELSE t
BackoffTick ==
  /\ \E s \in Samples : loopAt[s] # "over"
  /\ localUntil' = [h \in Holders |-> Down(localUntil[h])] /\ sharedUntil' = Down(sharedUntil)
  /\ napLeft' = [s \in Samples |-> IF napLeft[s] > 0 THEN napLeft[s] - 1 ELSE 0]
  /\ sinceAsked' = Smaller(sinceAsked + 1, Forgotten)
  /\ UNCHANGED <<loopAt, owner, heavy, factor, streak, rejections>>

SampleStep(s) == EnterBytesLimit(s) \/ Sleep(s) \/ AwakeAgain(s) \/ SendSample(s)
SampleAnswer(s) == AcceptSample(s) \/ RejectSample(s)
BackoffNext == (\E s \in Samples : SampleStep(s) \/ SampleAnswer(s)) \/ BackoffTick
BackoffFairness == /\ WF_backoffVars(BackoffTick)
                   /\ \A s \in Samples : WF_backoffVars(SampleStep(s)) /\ WF_backoffVars(SampleAnswer(s))
BackoffSpec == BackoffInit /\ [][BackoffNext]_backoffVars /\ BackoffFairness

\* For the whole window after a paused answer, new samples of every holder pay
\* twenty times for their bytes, also when later answers name shorter times
\* (_sample_queue_state_backoff_seconds and _sample_dispatch_bytes_rate_limit).
PausedIsRemembered ==
  [][\A s \in Samples : factor[s] = 0 /\ factor'[s] = 1 => sinceAsked >= RecentWindow]_backoffVars
=============================================================================
