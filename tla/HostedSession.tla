---------------------------- MODULE HostedSession ----------------------------
(***************************************************************************)
(* The adapter that runs a behaviour evaluation in a hosted simulator      *)
(* session (behavior_ci/simulators/isaac_session.py): it creates the       *)
(* session, waits for it and sets the scene up, runs trials, captures      *)
(* replays, and stops the session when the caller leaves it.  Requests are *)
(* repeated after connection errors and transient answers, the creation of *)
(* the session among them.                                                 *)
(***************************************************************************)
EXTENDS Naturals

CONSTANT MaxRetries              \* transient_retries

VARIABLES step,        \* what the adapter does next
          keep,        \* keep_session
          tries,       \* repetitions of the request in progress
          live,        \* the sessions that run at the service
          created,     \* sessions the service ever made
          mine,        \* session_id, 0 for none
          stopSent,    \* the sessions a stop was sent for
          deadlinePassed

hostedVars == <<step, keep, tries, live, created, mine, stopSent, deadlinePassed>>

HostedInit == /\ step = "idle" /\ keep \in BOOLEAN /\ tries = 0
              /\ live = {} /\ created = 0 /\ mine = 0 /\ stopSent = {}
              /\ deadlinePassed = FALSE

\* _send answers with an error or repeats; the last repetition is final
Repeat(failed) == IF tries = MaxRetries THEN step' = failed /\ tries' = 0
                  ELSE tries' = tries + 1 /\ UNCHANGED step

Go(next) == step' = next /\ tries' = 0 /\ deadlinePassed' = FALSE

(* prepare *)
CreateSession ==
  /\ step = "create"
  /\ \/ Go("ready") /\ created' = created + 1 /\ live' = live \cup {created + 1}
        /\ mine' = created + 1
     \/ /\ \/ created' = created + 1 /\ live' = live \cup {created + 1}   \* the answer is lost
           \/ UNCHANGED <<created, live>>
        /\ Repeat("failed") /\ UNCHANGED <<mine, deadlinePassed>>
     \/ Go("failed") /\ UNCHANGED <<created, live, mine>>                 \* refused
     \/ Go("failed") /\ created' = created + 1 /\ live' = live \cup {created + 1}
        /\ mine' = 0                                                      \* no id in it
  /\ UNCHANGED <<keep, stopSent>>

\* the steps of prepare after the session is there: to spawn a robot, to upload
\* a module and to set the scene up is optional, to find the camera is not
Steps == <<"robot", "module", "setup", "camera">>
AfterReady(first) == {Steps[i] : i \in first..4}

\* a loop that asks until the answer is right or the deadline has passed
AskUntilDeadline(here, fatal, next) ==
  /\ step = here
  /\ \/ Go(next)
     \/ fatal /\ Go("failed")
     \/ deadlinePassed /\ Go("failed")
     \/ ~deadlinePassed /\ UNCHANGED <<step, tries, deadlinePassed>>
  /\ UNCHANGED <<keep, live, created, mine, stopSent>>

\* a tool call: transient codes are repeated, every other error ends the run
ToolCall(here, next) ==
  /\ step = here
  /\ \/ Go(next)
     \/ Repeat("failed") /\ UNCHANGED deadlinePassed
     \/ Go("failed")
  /\ UNCHANGED <<keep, live, created, mine, stopSent>>

AwaitReady      == AskUntilDeadline("ready", TRUE, "isaac")
AwaitIsaac      == \/ \E next \in AfterReady(1) : AskUntilDeadline("isaac", FALSE, next)
                   \/ \E next \in AfterReady(2) : AskUntilDeadline("isaacAgain", FALSE, next)
SpawnRobot      == ToolCall("robot", "isaacAgain")
UploadModule    == \E next \in AfterReady(3) : ToolCall("module", next)
SetUpScene      == ToolCall("setup", "camera")
FindCamera      == AskUntilDeadline("camera", TRUE, "prepared")

(* Trials and replays are scripts and tools in the session, too. *)
RunTrial     == ToolCall("trial", "measured")
CaptureVideo == ToolCall("video", "download")
DownloadClip == ToolCall("download", "clip")
\* the motion is started again for the camera; a clip of a still scene will do
RearmMotion  == /\ step = "rearm"
                /\ \/ Go("video")
                   \/ Repeat("video") /\ UNCHANGED deadlinePassed
                /\ UNCHANGED <<keep, live, created, mine, stopSent>>

Prepare == \/ CreateSession \/ AwaitReady \/ AwaitIsaac \/ SpawnRobot
           \/ UploadModule \/ SetUpScene \/ FindCamera
Use == RunTrial \/ RearmMotion \/ CaptureVideo \/ DownloadClip

(* __exit__: the stop is sent once the adapter has a session; its failure is dropped. *)
StopOrClose ==
  /\ step = "exit"
  /\ IF mine = 0 \/ keep
     THEN Go("closed") /\ UNCHANGED <<live, stopSent>>
     ELSE /\ stopSent' = stopSent \cup {mine}
          /\ live' \in {live, live \ {mine}}
          /\ \/ Repeat("closed") /\ UNCHANGED deadlinePassed
             \/ Go("closed")
  /\ UNCHANGED <<keep, created, mine>>

\* time passes in the waiting loops
Tick == /\ step \in {"ready", "isaac", "isaacAgain", "camera"} /\ ~deadlinePassed
        /\ deadlinePassed' = TRUE
        /\ UNCHANGED <<step, keep, tries, live, created, mine, stopSent>>

\* The session that the adapter knows has been asked to stop whenever the
\* adapter is closed, after a failure in any step of prepare, a trial or a
\* capture as after a success (__exit__).
KnownSessionIsStopped == step = "closed" /\ ~keep /\ mine # 0 => mine \in stopSent
=============================================================================
