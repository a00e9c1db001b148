------------------------------- MODULE Client --------------------------------
(***************************************************************************)
(* What lies between a caller of the SDK and the wire, from the outside    *)
(* in: the holders of a session (Holders), the custom losses of a training *)
(* client (CustomLoss), the calls of a sampling client (SamplingCalls),    *)
(* the backoff the service asks for (SampleBackoff), the handler that      *)
(* watches over requests (RetryHandler), the requests through the client   *)
(* pool and its two layers of repetition (Requests), the bodies of the     *)
(* responses (Responses), the events in them (SseDecoder).                 *)
(* A behaviour is about one layer and the others stay as they are: they    *)
(* share no variable, and a layer takes from the next one an answer or an  *)
(* error, which is left open.  The two layers with theorems are extended,  *)
(* so that these are about the properties checked here; the others are     *)
(* instances.                                                              *)
(***************************************************************************)
EXTENDS Integers, Requests, CustomLoss

CONSTANTS Threads, None, MaxBeats,
          Samplings, Base, MaxBase,
          Samples, Pools, Profile, MaxRejections,
          Handled, MaxConnections, Timeout, MaxDelay, MaxDoublings,
          MaxUses, MaxBody
ASSUME ClientAssumption ==
  /\ \A S \in {Threads, Samplings, Samples, Pools, Handled, Flows} : IsFiniteSet(S)
  /\ Pools # {} /\ None \notin Threads
  /\ Cardinality(Samplings) <= Base      \* ids are a billion apart
  /\ {Base, MaxBase, MaxConnections, Timeout, MaxDelay} \subseteq Nat \ {0}
  /\ {MaxBeats, MaxDoublings, MaxRejections, MaxUses, MaxBody, MaxCustom, MaxSteps} \subseteq Nat
  /\ Profile \in {"auto", "auto_limited", "local_single_gpu", "workstation", "remote_large_backend"}

VARIABLE layer

VARIABLES place, loopStarted, loops, loopLock, shadowLock, shadow, holders, request, models
holderVars == <<place, loopStarted, loops, loopLock, shadowLock, shadow, holders, request, models>>

VARIABLES counter, copied, sidecar, policy, wanted, requestId, source, verified, callbacks
callVars == <<counter, copied, sidecar, policy, wanted, requestId, source, verified, callbacks>>

VARIABLES loopAt, owner, heavy, factor, napLeft, localUntil, sharedUntil, streak, sinceAsked, rejections
backoffVars == <<loopAt, owner, heavy, factor, napLeft, localUntil, sharedUntil, streak, sinceAsked, rejections>>

VARIABLES where, idle, waitingCount, inLoopCount, failures, delay, alarm, cancelled
handlerVars == <<where, idle, waitingCount, inLoopCount, failures, delay, alarm, cancelled>>

VARIABLES mode, status, body, open, parsed, uses, scope, raised
responseVars == <<mode, status, body, open, parsed, uses, scope, raised>>

VARIABLES text, arrived, data, decoder, closed
sseVars == <<text, arrived, data, decoder, closed>>

vars == <<layer, lossVars, holderVars, callVars, backoffVars, handlerVars, requestVars, responseVars, sseVars>>

Session  == INSTANCE Holders
Sampling == INSTANCE SamplingCalls
Queue    == INSTANCE SampleBackoff WITH Holders <- Pools
Handler  == INSTANCE RetryHandler WITH Requests <- Handled
Response == INSTANCE Responses
Sse      == INSTANCE SseDecoder

One(S) == CHOOSE x \in S : TRUE

\* the layers that a behaviour is not about stay in one of their initial states
Init ==
  /\ layer \in {"holders", "custom", "calls", "backoff", "handler", "requests", "response", "events"}
  /\ Session!HoldersInit
  /\ layer # "holders" => place = "program"
  /\ LossInit
  /\ Sampling!SamplingsInit
  /\ layer # "calls" => policy = "unknown"
  /\ Queue!BackoffInit
  /\ Samples # {} => owner[One(Samples)] = One(Pools)        \* the holders are alike
  /\ layer # "backoff" => \A s \in Samples : ~heavy[s] /\ owner[s] = One(Pools)
  /\ Handler!HandlerInit
  /\ RequestsInit
  /\ layer # "requests" => \A c \in Calls : kind[c] = One(Kinds)
  /\ Response!ResponsesInit
  /\ layer # "response" => mode = "parsed" /\ status = "ok"
  /\ Sse!SseInit
  /\ layer # "events" => text = <<>>

Only(name, next) ==
  /\ layer = name /\ UNCHANGED layer
  /\ next
  /\ name # "holders"  => UNCHANGED holderVars
  /\ name # "custom"   => UNCHANGED lossVars
  /\ name # "calls"    => UNCHANGED callVars
  /\ name # "backoff"  => UNCHANGED backoffVars
  /\ name # "handler"  => UNCHANGED handlerVars
  /\ name # "requests" => UNCHANGED requestVars
  /\ name # "response" => UNCHANGED responseVars
  /\ name # "events"   => UNCHANGED sseVars

Next == \/ Only("holders", Session!HoldersNext)
        \/ Only("custom", LossNext)
        \/ Only("calls", Sampling!SamplingsNext)
        \/ Only("backoff", Queue!BackoffNext)
        \/ Only("handler", Handler!HandlerNext)
        \/ Only("requests", RequestsNext)
        \/ Only("response", Response!ResponsesNext)
        \/ Only("events", Sse!SseNext)

\* the fairness that each layer states for its own steps
Fairness ==
  /\ WF_vars(Only("custom", Dispatch))
  /\ \A f \in Flows : WF_vars(Only("custom", LossStep(f)))
  /\ \A c \in Samplings : /\ WF_vars(Only("calls", Sampling!Runs(c)))
                          /\ WF_vars(Only("calls", Sampling!Complete(c)))
  /\ WF_vars(Only("backoff", Queue!BackoffTick))
  /\ \A s \in Samples : /\ WF_vars(Only("backoff", Queue!SampleStep(s)))
                        /\ WF_vars(Only("backoff", Queue!SampleAnswer(s)))
  /\ WF_vars(Only("handler", Handler!HandlerTick))
  /\ \A r \in Handled : /\ WF_vars(Only("handler", Handler!Watch(r)))
                        /\ SF_vars(Only("handler", Handler!Proceeds(r)))
  /\ \A c \in Calls : /\ WF_vars(Only("requests", Proceed(c)))
                      /\ WF_vars(Only("requests", Answered(c)))

Spec == Init /\ [][Next]_vars /\ Fairness

\* The threads of a program share one loop, the copies of a session one holder,
\* and a client is handed out with the model it was asked for.
HoldersAreShared == /\ Session!OneLoopForAll /\ Session!OneShadowPerSession
                    /\ Session!ModelsAreAsAsked

\* A caller that asked for its noise gets it proven, and no request id is shared.
NoiseIsProven == Sampling!NoiseIsProven

\* A paused queue is remembered for the whole window.
PausedIsRemembered ==
  [][\A s \in Samples : factor[s] = 0 /\ factor'[s] = 1 => sinceAsked >= Queue!RecentWindow]_vars

\* The handler counts its requests and wakes up in time for their deadline.
HandlerAccounts == Handler!CountersMatch /\ Handler!WatchdogsAreInTime

\* No response keeps its connection, none is parsed from a part of its body, and
\* the events of a stream do not depend on how its body arrives.
ResponsesAreWhole == /\ Response!ConnectionGivenBack /\ Response!ParsedFromWholeBody
                     /\ Sse!PiecesDoNotMatter

\* Every call through the pool ends, however the two layers of repetition nest,
\* every request in the handler, although attempts may hang, every custom loss,
\* unless its function waits for the loop on which it runs, and every sample in
\* the backoff; and the two futures of a verified sample end together.
CallsEnd == <>[](/\ layer = "custom" => CallsEndOrBlock
                 /\ layer = "requests" => \A c \in Calls : Ended(c)
                 /\ layer = "handler" => \A r \in Handled : Handler!Ended(r)
                 /\ layer = "backoff" => \A s \in Samples : loopAt[s] = "over"
                 /\ layer = "calls" => \A c \in Samplings : Sampling!EndedTogether(c))
=============================================================================
