----------------------------- MODULE BehaviorRun -----------------------------
(***************************************************************************)
(* Consecutive runs of the command `behavior-ci run` into one output       *)
(* directory: loading and checking the task (behavior_ci/tasks and         *)
(* taskkit), trials and their verdict (evaluator.py), replays of the       *)
(* fixture or the hosted adapter, and the artifact bundle (artifacts.py),  *)
(* whose files are written one after the other and then validated.  The    *)
(* process may be killed between two writes.                               *)
(***************************************************************************)
EXTENDS HostedSession, Sequences, FiniteSets, SequencesExt

CONSTANTS MaxRuns, MaxTrials     \* bounds of the model

VARIABLES runNo,       \* the run in progress
          conf,        \* what this run was asked to do
          verdicts,    \* trials[i].passed, in order
          replays,     \* the clips captured, in order
          source,      \* the weakest provenance of the clips
          unwritten,   \* the files write_bundle has yet to write
          files,       \* the directory: who wrote each file, 0 for nobody
          torn,        \* the files whose writing was cut off
          verdict,     \* the line that the command prints: "PASS", "FAIL", or "none"
          exit         \* the exit status, "none" while the run goes on

runVars == <<runNo, conf, verdicts, replays, source, unwritten, files, torn, verdict, exit>>
behaviorVars == <<hostedVars, runVars>>

Base  == <<"result", "metrics", "comment", "report", "manifest", "provenance">>
Clips == {"replay-failed", "replay-passed"}
Files == ToSet(Base) \cup Clips

Confs == [pinned : BOOLEAN, hosted : BOOLEAN, trials : 1..MaxTrials,
          required : {"none", "session-video", "demo-evidence"}]

BehaviorInit == /\ HostedInit
                /\ runNo = 1 /\ conf \in Confs /\ verdicts = <<>> /\ replays = <<>>
                /\ source = "none" /\ unwritten = <<>> /\ verdict = "none" /\ exit = "none"
                /\ files = [f \in Files |-> 0] /\ torn = {}

\* the exceptions that the command turns into exit codes; any other leaves
\* main() as it is and the interpreter exits with the code of a regression
Input == "2"
Infra == "3"
Contract == "4"
Uncaught == "1"

Leave(code) == exit' = code
Failed(e)   == IF conf.hosted THEN step' = "exit" /\ exit' = e ELSE step' = "closed" /\ exit' = e

(* Before the adapter: manifest, task and lock, pins, adapter options. *)
LoadFails == /\ step = "idle" /\ exit = "none"
             /\ \/ Leave(Input)                              \* manifest, config, unknown task
                \/ Leave(Uncaught)                           \* a policy that is no JSON
                \/ conf.pinned /\ Leave(Contract)            \* a digest of the lock differs
             /\ step' = "closed"
             /\ UNCHANGED <<keep, tries, live, created, mine, stopSent, deadlinePassed,
                            runNo, conf, verdicts, replays, source, unwritten, files, torn, verdict>>

BuildAdapter ==
  /\ step = "idle" /\ exit = "none"
  /\ IF ~conf.hosted /\ conf.required = "session-video"
     THEN step' = "closed" /\ Leave(Input)
     ELSE step' = (IF conf.hosted THEN "create" ELSE "prepared") /\ UNCHANGED exit
  /\ UNCHANGED <<keep, tries, live, created, mine, stopSent, deadlinePassed,
                 runNo, conf, verdicts, replays, source, unwritten, files, torn, verdict>>

\* a connection error or a request that the session refuses leaves the adapter
SessionFails == /\ step = "failed"
                /\ Failed(Infra)
                /\ UNCHANGED <<keep, tries, live, created, mine, stopSent, deadlinePassed,
                               runNo, conf, verdicts, replays, source, unwritten, files, torn, verdict>>

(* The trials: a verdict each, or an error that leaves the adapter.  A     *)
(* pinned task measures the planned action itself, in both adapters; the   *)
(* controller of a policy runs in the session, or the fixture plays it.    *)
TrialIsNext == step = "prepared" /\ Len(verdicts) < conf.trials
EvaluateTrial ==
  \/ \E passed \in BOOLEAN : verdicts' = Append(verdicts, passed) /\ step' = "prepared" /\ UNCHANGED exit
  \/ Failed(Uncaught) /\ UNCHANGED verdicts           \* a check without its metric: KeyError

RunActionTrial == /\ TrialIsNext /\ conf.pinned /\ EvaluateTrial
                  /\ UNCHANGED <<keep, tries, live, created, mine, stopSent, deadlinePassed,
                                 runNo, conf, replays, source, unwritten, files, torn, verdict>>
PlayTrial == /\ TrialIsNext /\ ~conf.pinned /\ ~conf.hosted /\ EvaluateTrial
             /\ UNCHANGED <<keep, tries, live, created, mine, stopSent, deadlinePassed,
                            runNo, conf, replays, source, unwritten, files, torn, verdict>>
StartTrial == /\ TrialIsNext /\ ~conf.pinned /\ conf.hosted
              /\ Go("trial")
              /\ UNCHANGED <<keep, live, created, mine, stopSent, runVars>>
ParseTrial == /\ step = "measured"
              /\ EvaluateTrial \/ (Failed(Infra) /\ UNCHANGED verdicts)       \* no metrics
              /\ UNCHANGED <<keep, tries, live, created, mine, stopSent, deadlinePassed,
                             runNo, conf, replays, source, unwritten, files, torn, verdict>>

(* The replays: the first trial that failed, then the first that passed.   *)
Passed == \A i \in 1..Len(verdicts) : verdicts[i]
Wanted == (IF Passed THEN <<>> ELSE <<"replay-failed">>)
          \o (IF \E i \in 1..Len(verdicts) : verdicts[i] THEN <<"replay-passed">> ELSE <<>>)
ReplayIsNext == step = "prepared" /\ Len(verdicts) = conf.trials /\ Len(replays) < Len(Wanted)
TakeReplay   == replays' = Append(replays, Wanted[Len(replays) + 1])

StartReplay == /\ ReplayIsNext /\ conf.hosted
               /\ Go(IF conf.pinned THEN "rearm" ELSE "video")
               /\ UNCHANGED <<keep, live, created, mine, stopSent, runVars>>
CheckClip == /\ step = "clip"
             /\ \/ TakeReplay /\ step' = "prepared" /\ UNCHANGED exit
                \/ Failed(Infra) /\ UNCHANGED replays                          \* not an MP4
             /\ UNCHANGED <<keep, tries, live, created, mine, stopSent, deadlinePassed,
                            runNo, conf, verdicts, source, unwritten, files, torn, verdict>>

\* the fixture has a checked-in clip or makes one, unless the run has to show evidence
Resolve == /\ ReplayIsNext /\ ~conf.hosted
           /\ \/ TakeReplay /\ UNCHANGED <<source, step, exit>>
              \/ conf.required # "demo-evidence" /\ TakeReplay /\ source' = "generated"
                 /\ UNCHANGED <<step, exit>>
              \/ conf.required = "demo-evidence" /\ Failed(Input) /\ UNCHANGED <<replays, source>>
           /\ UNCHANGED <<keep, tries, live, created, mine, stopSent, deadlinePassed,
                          runNo, conf, verdicts, unwritten, files, torn, verdict>>

\* A change of the code: the replay of a trial that failed is optional.
CaptureReplaysLeniently ==
  /\ step = "prepared" /\ Len(verdicts) = conf.trials /\ Len(replays) <= Len(Wanted)
  /\ step' = "exit"
  /\ source' = IF source = "generated" THEN source
               ELSE IF conf.hosted THEN "session-video" ELSE "demo-evidence"
  /\ UNCHANGED <<keep, tries, live, created, mine, stopSent, deadlinePassed,
                 runNo, conf, verdicts, replays, unwritten, files, torn, verdict, exit>>

CaptureReplays ==
  /\ step = "prepared" /\ Len(verdicts) = conf.trials /\ Len(replays) = Len(Wanted)
  /\ step' = "exit"
  /\ source' = IF source = "generated" THEN source
               ELSE IF conf.hosted THEN "session-video" ELSE "demo-evidence"
  /\ UNCHANGED <<keep, tries, live, created, mine, stopSent, deadlinePassed,
                 runNo, conf, verdicts, replays, unwritten, files, torn, verdict, exit>>

(* After the adapter: provenance, the bundle, its validation. *)
EnforceProvenance ==
  /\ step = "closed" /\ exit = "none" /\ unwritten = <<>>
  /\ IF conf.required \notin {"none", source}
     THEN Leave(Contract) /\ UNCHANGED <<unwritten, step>>
     ELSE unwritten' = replays \o Base /\ step' = "writing" /\ UNCHANGED exit
  /\ UNCHANGED <<keep, tries, live, created, mine, stopSent, deadlinePassed,
                 runNo, conf, verdicts, replays, source, files, torn, verdict>>

WriteFile == /\ step = "writing" /\ unwritten # <<>>
             /\ files' = [files EXCEPT ![Head(unwritten)] = runNo]
             /\ torn' = torn \ {Head(unwritten)}
             /\ unwritten' = Tail(unwritten)
             /\ UNCHANGED <<hostedVars, runNo, conf, verdicts, replays, source, verdict, exit>>

Valid == /\ \A f \in ToSet(Base) : files[f] # 0
         /\ \E c \in Clips : files[c] # 0
         /\ Clips \cap torn = {}
         /\ ~Passed => files["replay-failed"] # 0
         /\ (\E i \in 1..Len(verdicts) : verdicts[i]) => files["replay-passed"] # 0

(* validate_bundle, then the command says the verdict and exits with it.   *)
Validate == /\ step = "writing" /\ unwritten = <<>>
            /\ \/ ~Valid /\ Leave(Contract) /\ UNCHANGED verdict
               \/ Valid /\ Passed /\ verdict' = "PASS" /\ Leave("0")
               \/ Valid /\ ~Passed /\ verdict' = "FAIL" /\ Leave("1")
               \/ Leave(Uncaught) /\ UNCHANGED verdict           \* a clip cannot be read back
            /\ step' = "closed"
            /\ UNCHANGED <<keep, tries, live, created, mine, stopSent, deadlinePassed,
                           runNo, conf, verdicts, replays, source, unwritten, files, torn>>

(* The process is killed while it writes, or a write fails and nobody      *)
(* catches it; the next run uses the same directory.                       *)
CutOff(code) == /\ step = "writing" /\ unwritten # <<>>
                /\ files' = [files EXCEPT ![Head(unwritten)] = runNo]
                /\ torn' = torn \cup {Head(unwritten)}
                /\ step' = "closed" /\ Leave(code)
                /\ UNCHANGED <<keep, tries, live, created, mine, stopSent, deadlinePassed,
                               runNo, conf, verdicts, replays, source, unwritten, verdict>>
Killed     == CutOff("killed")
WriteFails == CutOff(Uncaught)

NextRun == /\ step = "closed" /\ exit # "none" /\ runNo < MaxRuns
           /\ runNo' = runNo + 1 /\ conf' \in Confs
           /\ verdicts' = <<>> /\ replays' = <<>> /\ source' = "none" /\ unwritten' = <<>>
           /\ verdict' = "none" /\ exit' = "none" /\ step' = "idle" /\ keep' \in BOOLEAN
           /\ tries' = 0 /\ mine' = 0 /\ stopSent' = {} /\ live' = {} /\ created' = 0
           /\ deadlinePassed' = FALSE
           /\ UNCHANGED <<files, torn>>

Hosted == (Prepare \/ Use \/ StopOrClose \/ Tick) /\ UNCHANGED runVars

BehaviorNext == \/ LoadFails \/ BuildAdapter \/ SessionFails
                \/ RunActionTrial \/ PlayTrial \/ StartTrial \/ ParseTrial
                \/ StartReplay \/ CheckClip \/ Resolve \/ CaptureReplays
                \/ EnforceProvenance \/ WriteFile \/ WriteFails \/ Validate \/ Killed
                \/ NextRun \/ Hosted

BehaviorSpec == BehaviorInit /\ [][BehaviorNext]_behaviorVars

\* A run that says its verdict leaves a bundle of its own: every file of the
\* contract and the clip that shows the verdict were written whole by this run,
\* and both the line and the exit status are the verdict of its trials, whatever
\* earlier runs left in the directory; status 0 says the verdict too, and a green
\* run writes no clip of a failure (write_bundle, validate_bundle and the exit of
\* the command).  The status 1 alone is no verdict, also an error that nobody
\* catches ends in it; and a clip of a failure beside a green verdict is left by
\* an earlier run, because nothing removes it.
VerdictHasItsBundle ==
  step = "closed" =>
    /\ verdict # "none" =>
         /\ \A f \in ToSet(Base) \cup {IF Passed THEN "replay-passed" ELSE "replay-failed"} :
              files[f] = runNo /\ f \notin torn
         /\ (verdict = "PASS") = (\A i \in 1..conf.trials : verdicts[i])
         /\ exit = IF verdict = "PASS" THEN "0" ELSE "1"
    /\ exit = "0" => verdict = "PASS" /\ files["replay-failed"] # runNo
=============================================================================
