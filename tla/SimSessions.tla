----------------------------- MODULE SimSessions -----------------------------
(***************************************************************************)
(* One import, launch or render of the hosted simulation client            *)
(* (sim/client.py): a chain of requests to the control plane, each of      *)
(* which may be refused, may fail in transport before or after the         *)
(* service acted on it, or, for the requests about a session, may answer   *)
(* 502, 503 or 504 and be repeated within a budget and a deadline.         *)
(***************************************************************************)
EXTENDS Naturals

CONSTANT MaxAttempts     \* the transient backoffs, plus the first attempt

VARIABLES at,            \* the request or step the client is about to make
          call,          \* the operation and its arguments
          attempt,       \* attempts of the session request in progress
          late,          \* the deadline of wait_for_session has passed
          bundle,        \* the bundle of the asset on the local disk
          env,           \* how far the environment got at the service
          session,       \* the status of the session at the service
          stopAsked,     \* a stop of the session was sent
          launched,      \* history: launch has returned
          primary,       \* the error that render is handling
          outcome        \* how the operation ended

simVars == <<at, call, attempt, late, bundle, env, session, stopAsked, launched, primary, outcome>>

Assets   == {"reference", "rejected", "renderable", "splat", "robot"}
Terminal == {"stopped", "snapshotFailed"}
\* snapshot_failed is terminal for a wait and is no proof of a stop
StopAccepted == {"stopping", "stopped"}

Calls == [op : {"import", "launch", "render"}, asset : Assets, keepBundle : BOOLEAN,
          require : BOOLEAN, wait : BOOLEAN, keepSession : BOOLEAN, out : BOOLEAN]

SimInit == /\ call \in {c \in Calls : /\ c.op # "import" => c.require /\ ~c.keepBundle
                                      /\ c.op = "import" => ~c.wait
                                      /\ c.op # "render" => c.keepSession /\ ~c.out}
           /\ at = "import" /\ attempt = 1 /\ late = FALSE /\ bundle = "none"
           /\ env = "none" /\ session = "none" /\ stopAsked = FALSE
           /\ launched = FALSE /\ primary = "none" /\ outcome = "none"

\* a step that only moves the client on
Advances  == UNCHANGED <<call, attempt, late, bundle, env, session, stopAsked, launched, primary>>
End(o) == at' = "done" /\ outcome' = o

\* import_asset hands its result to the caller, or to launch
Imported == IF call.op = "import" THEN End("returned")
            ELSE at' = "launch" /\ UNCHANGED outcome

(* Importing: the package, then four requests; the bundle goes last. *)
ImportExisting == /\ at = "import" /\ call.asset = "reference"
                  /\ Imported
                  /\ Advances

ImportRejected == /\ at = "import"
                  /\ \/ call.asset = "rejected"
                     \/ call.require /\ call.asset \in {"splat", "robot"}
                  /\ End("error")
                  /\ Advances

ImportPackageOnly == /\ at = "import" /\ call.asset = "robot" /\ ~call.require
                     /\ bundle' = IF call.keepBundle THEN "kept" ELSE "none"
                     /\ End("returned")
                     /\ UNCHANGED <<call, attempt, late, env, session, stopAsked, launched,
                                    primary>>

Package == /\ at = "import"
           /\ call.asset = "renderable" \/ (call.asset = "splat" /\ ~call.require)
           /\ bundle' = IF call.keepBundle THEN "kept" ELSE "temporary"
           /\ at' = "environment"
           /\ UNCHANGED <<call, attempt, late, env, session, stopAsked, launched, primary, outcome>>

\* a request of the import: it succeeds, or it fails with or without its effect
ImportRequest(here, made, next) ==
  /\ at = here
  /\ \/ env' = made /\ at' = next /\ UNCHANGED outcome
     \/ env' \in {env, made} /\ End("error")
  /\ UNCHANGED <<call, attempt, late, bundle, session, stopAsked, launched, primary>>

CreateEnvironment == ImportRequest("environment", "created", "version")
CreateVersion     == ImportRequest("version", "versioned", "upload")
UploadBundle      == ImportRequest("upload", "uploaded", "finalize")
Finalize          == ImportRequest("finalize", "finalized", "cleanup")

Cleanup == /\ at = "cleanup"
           /\ bundle' = IF call.keepBundle THEN bundle ELSE "none"
           /\ Imported
           /\ UNCHANGED <<call, attempt, late, env, session, stopAsked, launched, primary>>

(* Launching: the session, then the wait for its preview. *)
Launched == /\ launched' = TRUE
            /\ IF call.op = "launch" THEN End("returned")
               ELSE at' = (IF call.wait THEN "grant" ELSE "return") /\ UNCHANGED outcome
LaunchFails == End("error") /\ UNCHANGED launched

StartSession ==
  /\ at = "launch"
  /\ \/ /\ session' = "starting"
        /\ IF call.wait THEN at' = "poll" /\ UNCHANGED <<launched, outcome>> ELSE Launched
     \/ session' \in {session, "starting"} /\ LaunchFails
  /\ UNCHANGED <<call, attempt, late, bundle, env, stopAsked, primary>>

\* a transient answer: the request is repeated while the budget and the deadline last
Transient(failed) == IF attempt = MaxAttempts \/ (at = "poll" /\ late)
                     THEN failed /\ UNCHANGED attempt
                     ELSE attempt' = attempt + 1 /\ UNCHANGED <<at, outcome>>

Poll ==
  /\ at = "poll" /\ ~(attempt > 1 /\ late)
  /\ \/ Transient(End("error")) /\ UNCHANGED launched
     \/ LaunchFails /\ UNCHANGED attempt                \* refused, or no connection
     \/ session \in Terminal /\ LaunchFails /\ UNCHANGED attempt
     \/ session = "ready" /\ Launched /\ attempt' = 1
     \/ /\ session \notin Terminal \cup {"ready"}
        /\ attempt' = 1
        /\ IF late THEN LaunchFails ELSE at' = "asleep" /\ UNCHANGED <<launched, outcome>>
  /\ UNCHANGED <<call, late, bundle, env, session, stopAsked, primary>>

PollAgain == /\ at = "asleep" /\ at' = "poll"
             /\ Advances /\ UNCHANGED outcome

RetryExpired == /\ at = "poll" /\ attempt > 1 /\ late
                /\ End("error")
                /\ Advances

(* Rendering: a grant and a login for the preview URL, again for the image. *)
PreviewStep(here, next) ==
  /\ at = here
  /\ \/ at' = next /\ UNCHANGED primary
     \/ at' = "except" /\ primary' = "error"
  /\ UNCHANGED <<call, attempt, late, bundle, env, session, stopAsked, launched, outcome>>

PreviewUrl  == \/ PreviewStep("grant", "login")
               \/ PreviewStep("login", IF call.out THEN "grantAgain" ELSE "return")
Download    == \/ PreviewStep("grantAgain", "loginAgain")
               \/ PreviewStep("loginAgain", "image")
               \/ PreviewStep("image", "return")

RenderFails == /\ at = "except"
               /\ IF call.wait /\ ~call.keepSession
                  THEN at' = "stop" /\ UNCHANGED outcome ELSE End("error")
               /\ Advances

RenderEnds == /\ at = "return"
              /\ IF call.wait /\ ~call.keepSession
                 THEN at' = "stop" /\ UNCHANGED outcome ELSE End("returned")
              /\ Advances

(* Stopping: a conflict is settled by reading the session once more.       *)
(* While an error is handled only a SimulationError of the stop is         *)
(* dropped; a transport error takes the place of the first one.            *)
StopFails(e) == End(IF primary # "none" /\ e = "error" THEN primary ELSE e)
StopReturns  == End(IF primary # "none" THEN primary ELSE "returned")

StopSession ==
  /\ at = "stop"
  /\ stopAsked' = TRUE
  /\ \/ Transient(StopFails("error")) /\ session' = session
     \/ \E e \in {"error", "broken"} :
          /\ StopFails(e)
          /\ session' \in {session, "stopping"} /\ UNCHANGED attempt
     \/ /\ StopReturns /\ UNCHANGED attempt
        /\ session' = IF session \in Terminal THEN session ELSE "stopping"
     \/ at' = "verify" /\ attempt' = 1 /\ UNCHANGED <<session, outcome>>
  /\ UNCHANGED <<call, late, bundle, env, launched, primary>>

\* A change of the code: any answer to the second question proves the stop.
VerifyStopTrusting ==
  /\ at = "verify"
  /\ \/ Transient(StopFails("error"))
     \/ \E e \in {"error", "broken"} : StopFails(e) /\ UNCHANGED attempt
     \/ StopReturns /\ UNCHANGED attempt
  /\ UNCHANGED <<call, late, bundle, env, session, stopAsked, launched, primary>>

VerifyStop ==
  /\ at = "verify"
  /\ \/ Transient(StopFails("error"))
     \/ \E e \in {"error", "broken"} : StopFails(e) /\ UNCHANGED attempt
     \/ session \in StopAccepted /\ StopReturns /\ UNCHANGED attempt
     \/ session \notin StopAccepted /\ StopFails("error") /\ UNCHANGED attempt
  /\ UNCHANGED <<call, late, bundle, env, session, stopAsked, launched, primary>>

(* The service and the clock. *)
SessionMoves ==
  /\ \/ session = "starting" /\ session' \in {"ready", "stopped", "snapshotFailed"}
     \/ session = "ready" /\ session' \in {"stopping", "snapshotFailed"}
     \/ session = "stopping" /\ session' \in {"stopped", "snapshotFailed"}
  /\ UNCHANGED <<at, call, attempt, late, bundle, env, stopAsked, launched, primary, outcome>>

DeadlinePasses == /\ at \in {"poll", "asleep"} /\ ~late
                  /\ late' = TRUE
                  /\ UNCHANGED <<at, call, attempt, bundle, env, session, stopAsked, launched,
                                  primary, outcome>>

ImportSteps  == \/ ImportExisting \/ ImportRejected \/ ImportPackageOnly \/ Package
                \/ CreateEnvironment \/ CreateVersion \/ UploadBundle \/ Finalize \/ Cleanup
LaunchSteps  == StartSession \/ Poll \/ PollAgain \/ RetryExpired
RenderSteps  == PreviewUrl \/ Download \/ RenderFails \/ RenderEnds \/ StopSession \/ VerifyStop
ClientStep   == ImportSteps \/ LaunchSteps \/ RenderSteps
SimNext      == ClientStep \/ SessionMoves \/ DeadlinePasses

\* the client is one thread, and its clock does not stop
SimFairness == WF_simVars(ClientStep) /\ WF_simVars(DeadlinePasses)
SimSpec     == SimInit /\ [][SimNext]_simVars /\ SimFairness

\* A render that waits and does not keep its session has, at its end, asked to
\* stop it exactly if its launch returned, whatever failed afterwards; it returns
\* only if the session is released, and never in the place of an error (render
\* and stop_session).  When the launch itself fails, nothing is asked: a session
\* that was started, and whose wait failed, goes on, as the launch lies outside
\* of the try; and a stop that was asked for may have failed too.
RenderReleasesItsSession ==
  at = "done" /\ call.op = "render" /\ call.wait /\ ~call.keepSession =>
    /\ stopAsked <=> launched
    /\ outcome = "returned" =>
         launched /\ primary = "none" /\ session \in {"stopping"} \cup Terminal

\* No session is started for an environment whose upload was not finalized.  An
\* operation leaves a half-made environment or a temporary bundle behind only
\* where a request of its import failed: it ends with the error, without a
\* session, and both stay, as nothing cleans up there (import_asset, launch).
NothingHalfMade ==
  /\ session # "none" => call.asset = "reference" \/ env = "finalized"
  /\ at = "done" /\ (bundle = "temporary" \/ env \notin {"none", "finalized"}) =>
       outcome = "error" /\ session = "none" /\ bundle # "none" /\ ~launched
=============================================================================
