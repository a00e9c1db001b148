------------------------------ MODULE SplatJobs ------------------------------
(***************************************************************************)
(* The commands `splat ...` (cli/commands/splat.py) and the operations of  *)
(* the simulation client behind them (sim/client.py): a splat is checked,  *)
(* uploaded to a presigned URL and converted by a job that the client      *)
(* waits for.                                                              *)
(***************************************************************************)
EXTENDS Naturals

VARIABLES splat,       \* the command and the file it is given
          stage,       \* the next request
          uploaded,    \* what the storage holds: "none", "presigned", "whole"
          job,         \* the jobs of the service: "none", "queued", "succeeded", "failed"
          expired,     \* timeout_seconds have passed
          printed,     \* the fields of the payload so far
          result       \* how the command ended
splatVars == <<splat, stage, uploaded, job, expired, printed, result>>

\* "mesh" is a .ply without Gaussians, "container" .spz, .splat or .ksplat,
\* "unfit" a .ply that the hosted converter refuses
Files == {"standard", "unfit", "container", "mesh"}
SplatInit ==
  /\ splat \in [command : {"upload"}, file : Files, convert : BOOLEAN, wait : BOOLEAN]
          \cup [command : {"convert"}, file : {"standard"}, convert : {TRUE}, wait : BOOLEAN]
          \cup [command : {"status"}, file : {"standard"}, convert : {FALSE}, wait : {FALSE}]
  /\ stage = splat.command
  /\ job \in (IF splat.command = "status" THEN {"queued", "succeeded", "failed"} ELSE {"none"})
  /\ uploaded = (IF splat.command = "upload" THEN "none" ELSE "whole")
  /\ expired = FALSE /\ printed = {} /\ result = "none"

Finishes(how) == stage' = "end" /\ result' = how
Moves(next)   == stage' = next /\ UNCHANGED result
Prints(field) == printed' = printed \cup {field}

\* upload_splat: only a standard .ply is presigned
DetectFormat == /\ stage = "upload"
                /\ IF splat.file = "standard" THEN Moves("presign") ELSE Finishes("error")
                /\ UNCHANGED <<splat, uploaded, job, expired, printed>>

Presign == /\ stage = "presign"
           /\ \/ uploaded' = "presigned" /\ (Moves("put") \/ Finishes("error"))
              \/ UNCHANGED uploaded /\ Finishes("error")
           /\ UNCHANGED <<splat, job, expired, printed>>

\* the file itself, then the fields of the grant that the result needs
PutFile == /\ stage = "put"
           /\ \/ /\ uploaded' = "whole"
                 /\ \/ Prints("upload") /\ IF splat.convert THEN Moves("convert") ELSE Finishes("ok")
                    \/ UNCHANGED printed /\ Finishes("error")
              \/ UNCHANGED <<uploaded, printed>> /\ Finishes("error")
           /\ UNCHANGED <<splat, job, expired>>

CreateJob == /\ stage = "convert"
             /\ \/ /\ job' = "queued" /\ Prints("job")
                   /\ IF splat.wait THEN Moves("poll") \/ Finishes("error") ELSE Finishes("ok")
                \/ job' \in {job, "queued"} /\ UNCHANGED printed /\ Finishes("error")
             /\ UNCHANGED <<splat, uploaded, expired>>

\* A change of the code: the deadline is not looked at.
WaitForJobForEver == /\ stage = "poll"
                     /\ \/ job = "succeeded" /\ Moves("artifacts")
                        \/ job = "failed" /\ Finishes("error")
                        \/ job = "queued" /\ Moves("asleep")
                        \/ Finishes("error")
                     /\ UNCHANGED <<splat, uploaded, job, expired, printed>>

\* wait_for_job: success, failure, the deadline, in this order
WaitForJob == /\ stage = "poll"
              /\ \/ job = "succeeded" /\ Moves("artifacts")
                 \/ job = "failed" /\ Finishes("error")
                 \/ job = "queued" /\ expired /\ Finishes("error")
                 \/ job = "queued" /\ ~expired /\ Moves("asleep")
                 \/ Finishes("error")                              \* the request failed
              /\ UNCHANGED <<splat, uploaded, job, expired, printed>>

PollAgain == /\ stage = "asleep" /\ Moves("poll")
             /\ UNCHANGED <<splat, uploaded, job, expired, printed>>

JobStatus == /\ stage = "status"
             /\ \/ /\ Prints("job")
                   /\ IF job = "succeeded" THEN Moves("artifacts") ELSE Finishes("ok")
                \/ UNCHANGED printed /\ Finishes("error")
             /\ UNCHANGED <<splat, uploaded, job, expired>>

Artifacts == /\ stage = "artifacts"
             /\ \/ Prints("artifacts") /\ Finishes("ok")
                \/ UNCHANGED printed /\ Finishes("error")
             /\ UNCHANGED <<splat, uploaded, job, expired>>

JobRuns == /\ job = "queued" /\ job' \in {"succeeded", "failed"}
           /\ UNCHANGED <<splat, stage, uploaded, expired, printed, result>>
Expire  == /\ stage \in {"poll", "asleep"} /\ ~expired /\ expired' = TRUE
           /\ UNCHANGED <<splat, stage, uploaded, job, printed, result>>

SplatStep == \/ DetectFormat \/ Presign \/ PutFile \/ CreateJob
             \/ WaitForJob \/ PollAgain \/ JobStatus \/ Artifacts
SplatNext == SplatStep \/ JobRuns \/ Expire

\* the client is one thread, and its clock does not stop
SplatFairness == WF_splatVars(SplatStep) /\ WF_splatVars(Expire)
SplatSpec == SplatInit /\ [][SplatNext]_splatVars /\ SplatFairness

\* No job is made of a file that was not uploaded whole or that the hosted
\* converter does not accept; and a command that waited and reports success
\* shows the artifacts of a conversion that succeeded (upload_command).
JobsHaveTheirFile ==
  /\ job # "none" => uploaded = "whole" /\ splat.file = "standard"
  /\ result = "ok" /\ splat.wait /\ splat.convert => job = "succeeded" /\ "artifacts" \in printed
=============================================================================
