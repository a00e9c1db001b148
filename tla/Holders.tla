------------------------------ MODULE Holders ------------------------------
(***************************************************************************)
(* Holders, sessions and models: the background loop that all holders of a *)
(* process share, the cache of shadow holders, heartbeats, and the calls   *)
(* of a ServiceClient that create models.                                  *)
(*                                                                         *)
(* Threads call; what a holder needs from its loop it posts there and      *)
(* waits for.  In the subprocess of the sidecar the only caller is the     *)
(* loop itself, which must not wait for anything.                          *)
(***************************************************************************)
EXTENDS Naturals, Sequences, FiniteSets

CONSTANTS
  Threads,     \* threads of a program, one call each
  None,
  MaxBeats     \* bound: heartbeats of a session

VARIABLES
  place,        \* "program" or "sidecar"
  loopStarted,  \* _started
  loops,        \* event loops made
  loopLock,     \* _lifecycle_lock
  shadowLock,   \* _ShadowHolderSingleton._lock
  shadow,       \* _cache, of the one session that is shared
  holders,      \* the holders made
  request,      \* what each thread has asked for and where it is
  models        \* the models that the server has made

holderVars == <<place, loopStarted, loops, loopLock, shadowLock, shadow, holders, request, models>>

Rest == [op |-> "none", at |-> "idle", holder |-> 0, model |-> 0]

WithModel == {"create", "fromState", "fromStateWithOptimizer"}
Ended == {"returned", "raised", "timedOut"}

HoldersInit ==
  /\ place \in {"program", "sidecar"}
  /\ loopStarted = (place = "sidecar")      \* _set_loop came first
  /\ loops = IF place = "sidecar" THEN 1 ELSE 0
  /\ loopLock = None /\ shadowLock = None
  /\ shadow = 0
  /\ holders = <<>>
  /\ request = [t \in Threads |-> Rest]
  /\ models = <<>>

At(t, at) == request[t].at = at
Moves(t, to) == request' = [request EXCEPT ![t].at = to]

-----------------------------------------------------------------------------
(* The loop *)

(* ServiceClient(), or the unpickling of a client of the shared session *)
NewHolder(t) ==
  /\ At(t, "idle")
  /\ \E op \in {"service", "shadow"} :
       request' = [request EXCEPT ![t] =
         [Rest EXCEPT !.op = op, !.at = IF op = "shadow" THEN "cache" ELSE "getLoop"]]
  /\ UNCHANGED <<place, loopStarted, loops, loopLock, shadowLock, shadow, holders, models>>

(* The first look at _started, without the lock *)
GetLoop(t) ==
  /\ At(t, "getLoop")
  /\ Moves(t, IF loopStarted THEN "session" ELSE "startLoop")
  /\ UNCHANGED <<place, loopStarted, loops, loopLock, shadowLock, shadow, holders, models>>

LockLoop(t) ==
  /\ At(t, "startLoop") /\ loopLock = None
  /\ loopLock' = t
  /\ Moves(t, "startLocked")
  /\ UNCHANGED <<place, loopStarted, loops, shadowLock, shadow, holders, models>>

\* A change of the code: the second look is missing.
StartLoopAgain(t) ==
  /\ At(t, "startLocked")
  /\ loops' = loops + 1 /\ loopStarted' = TRUE /\ loopLock' = None
  /\ Moves(t, "session")
  /\ UNCHANGED <<place, shadowLock, shadow, holders, models>>

StartLoop(t) ==
  /\ At(t, "startLocked")
  /\ loops' = IF loopStarted THEN loops ELSE loops + 1
  /\ loopStarted' = TRUE
  /\ loopLock' = None
  /\ Moves(t, "session")
  /\ UNCHANGED <<place, shadowLock, shadow, holders, models>>

-----------------------------------------------------------------------------
(* A holder *)

(* A new session is waited for, which the loop cannot do; a shadow holder  *)
(* takes the session it is given.                                          *)
GetSession(t) ==
  /\ At(t, "session")
  /\ \/ /\ request[t].op = "shadow"
        /\ Moves(t, "heartbeat")
     \/ /\ request[t].op = "service"
        /\ \/ place = "sidecar" /\ Moves(t, "raised")
           \/ place = "program" /\ (Moves(t, "heartbeat") \/ Moves(t, "raised"))
  /\ UNCHANGED <<place, loopStarted, loops, loopLock, shadowLock, shadow, holders, models>>

Made(t) == [op |-> request[t].op, loop |-> loops, beats |-> 0, open |-> TRUE, counter |-> 0]

(* The task is made on the loop, and the caller waits until it is; then the *)
(* holder is done, and a shadow is entered in the cache.                    *)
StartHeartbeat(t) ==
  /\ At(t, "heartbeat")
  /\ holders' = Append(holders, Made(t))
  /\ request' = [request EXCEPT ![t].at = "returned", ![t].holder = Len(holders')]
  /\ shadow' = IF request[t].op = "shadow" THEN Len(holders') ELSE shadow
  /\ shadowLock' = IF shadowLock = t THEN None ELSE shadowLock
  /\ UNCHANGED <<place, loopStarted, loops, loopLock, models>>

(* Every ten seconds, whether the last ones were answered or not *)
Heartbeat(h) ==
  /\ holders[h].open /\ holders[h].beats < MaxBeats
  /\ holders' = [holders EXCEPT ![h].beats = @ + 1]
  /\ UNCHANGED <<place, loopStarted, loops, loopLock, shadowLock, shadow, request, models>>

-----------------------------------------------------------------------------
(* The cache of shadow holders: the lock is kept while a holder is made. *)

LookUpShadow(t) ==
  /\ At(t, "cache") /\ shadowLock = None
  /\ IF shadow # 0
     THEN /\ request' = [request EXCEPT ![t].at = "returned", ![t].holder = shadow]
          /\ UNCHANGED shadowLock
     ELSE Moves(t, "getLoop") /\ shadowLock' = t
  /\ UNCHANGED <<place, loopStarted, loops, loopLock, shadow, holders, models>>

-----------------------------------------------------------------------------
(* Models *)

(* Threads may share a client; all of the methods raise before they send   *)
(* anything if a flag, the capabilities or the checkpoint is not as it     *)
(* must be.                                                                *)
CreateModel(t) ==
  /\ At(t, "idle") \/ (At(t, "returned") /\ request[t].op = "service")
  /\ \E op \in WithModel, h \in DOMAIN holders :
       /\ holders[h].op = "service"
       /\ request' = [request EXCEPT ![t] =
            [op |-> op, at |-> IF op = "create" THEN "number" ELSE "check", holder |-> h, model |-> 0]]
  /\ UNCHANGED <<place, loopStarted, loops, loopLock, shadowLock, shadow, holders, models>>

CheckState(t) ==
  /\ At(t, "check")
  /\ Moves(t, "number") \/ Moves(t, "raised")
  /\ UNCHANGED <<place, loopStarted, loops, loopLock, shadowLock, shadow, holders, models>>

(* get_training_client_id, and the request with that number *)
PostModel(t) ==
  LET h == request[t].holder IN
  /\ At(t, "number")
  /\ holders' = [holders EXCEPT ![h].counter = @ + 1]
  /\ \/ Moves(t, "raised") /\ UNCHANGED models
     \/ /\ models' = Append(models, [holder |-> h, number |-> holders[h].counter, loaded |-> "nothing"])
        /\ request' = [request EXCEPT ![t].at = "waiting", ![t].model = Len(models')]
  /\ UNCHANGED <<place, loopStarted, loops, loopLock, shadowLock, shadow>>

(* The model is there.  The caller may have given up; a model made for it  *)
(* stays.                                                                  *)
ModelMade(t) ==
  /\ At(t, "waiting")
  /\ \/ Moves(t, IF request[t].op = "create" THEN "returned" ELSE "loading")
     \/ Moves(t, "raised")
     \/ request[t].op = "create" /\ Moves(t, "timedOut")
  /\ UNCHANGED <<place, loopStarted, loops, loopLock, shadowLock, shadow, holders, models>>

Loads(t) == IF request[t].op = "fromState" THEN "weights" ELSE "all"

(* load_state or load_state_with_optimizer, and its result *)
LoadState(t) ==
  /\ At(t, "loading")
  /\ \/ /\ models' = [models EXCEPT ![request[t].model].loaded = Loads(t)]
        /\ Moves(t, "returned") \/ Moves(t, "raised")
     \/ UNCHANGED models /\ Moves(t, "raised")
  /\ UNCHANGED <<place, loopStarted, loops, loopLock, shadowLock, shadow, holders>>

-----------------------------------------------------------------------------

(* In the sidecar one caller runs to its end before the next begins. *)
MayRun(t) ==
  place = "sidecar" =>
    \A u \in Threads \ {t} : At(u, "idle") \/ request[u].at \in Ended

Proceeds(t) ==
  /\ MayRun(t)
  /\ \/ GetLoop(t) \/ LockLoop(t) \/ StartLoop(t) \/ GetSession(t) \/ StartHeartbeat(t)
     \/ LookUpShadow(t) \/ CheckState(t) \/ PostModel(t) \/ ModelMade(t) \/ LoadState(t)

HoldersNext ==
  \/ \E t \in Threads : Proceeds(t) \/ (MayRun(t) /\ (NewHolder(t) \/ CreateModel(t)))
  \/ \E h \in DOMAIN holders : Heartbeat(h)

HoldersSpec == HoldersInit /\ [][HoldersNext]_holderVars

-----------------------------------------------------------------------------
(* Properties *)

(* However many threads make the first holder at once, one loop is started, *)
(* and all holders use it: what they share is touched by one thread.        *)
OneLoopForAll == \A h \in DOMAIN holders : holders[h].loop = 1 /\ loops = 1

(* All copies of a client of one session share one holder, and so its       *)
(* backoff and its limits (_ShadowHolderSingleton).                         *)
OneShadowPerSession ==
  Cardinality({h \in DOMAIN holders : holders[h].op = "shadow"}) <= 1

(* A training client made from a checkpoint is handed out only when its own *)
(* model has loaded what was asked for, with the optimizer or without, and  *)
(* no two models of a session have the same number (model_seq_id).          *)
ModelsAreAsAsked ==
  /\ \A t \in Threads : At(t, "returned") /\ request[t].op \in WithModel \ {"create"} =>
       models[request[t].model].loaded = Loads(t)
  /\ \A m, n \in DOMAIN models :
       m # n /\ models[m].holder = models[n].holder => models[m].number # models[n].number

=============================================================================
