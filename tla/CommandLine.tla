----------------------------- MODULE CommandLine -----------------------------
(***************************************************************************)
(* The command `cybernetic` (cli/__main__.py): one of its groups of        *)
(* commands, which the group loads lazily by its name, or one of the       *)
(* programs of the SDK beside them (the MCP server, packaging, robotics).  *)
(* A process runs one group only; the others stay as they are.  ScopedKeys,*)
(* about which there are theorems, is extended, the others are instances.  *)
(***************************************************************************)
EXTENDS ScopedKeys

CONSTANTS MaxCheckpoints, Batch, MaxCommands, MaxOthers, Processes, MaxPolls, MaxAttempts,
          MaxRetries, MaxRuns, MaxTrials, MaxEdits, MaxLines, MaxFiles, MaxVersions,
          MaxFrames, MaxEpisodes, MaxDatasets
ASSUME CommandLineAssumption ==
  /\ IsFiniteSet(Processes) /\ IsFiniteSet(Keys)
  /\ {Batch, MaxCommands, MaxPolls, MaxAttempts, MaxTrials} \subseteq Nat \ {0}
  /\ {MaxCheckpoints, MaxOthers, MaxCloses, MaxRetries, MaxRuns, MaxEdits, MaxLines, MaxFiles,
      MaxVersions, MaxFrames, MaxEpisodes, MaxDatasets} \subseteq Nat

VARIABLES program,
          command, step, outcome, ran, fetched, total, undisturbed, deleting, reported,
          removed, directory, hub, others, service
checkpointVars == <<command, step, outcome, ran, fetched, total, undisturbed, deleting, reported,
                    removed, directory, hub, others, service>>

VARIABLES file, liveKeys, minted, runs, progress, heldKey, heldUrl, disturbed, polls, tempFile
authVars == <<file, liveKeys, minted, runs, progress, heldKey, heldUrl, disturbed, polls, tempFile>>

VARIABLES splat, stage, uploaded, job, expired, printed, result
splatVars == <<splat, stage, uploaded, job, expired, printed, result>>

VARIABLES simAt, call, attempt, late, bundle, env, session, stopAsked, launched, primary, simOutcome
simVars == <<simAt, call, attempt, late, bundle, env, session, stopAsked, launched, primary,
             simOutcome>>

VARIABLES runStep, keep, tries, live, created, mine, stopSent, deadlinePassed, runNo, conf,
          verdicts, replays, source, unwritten, files, torn, verdict, exit
behaviorVars == <<runStep, keep, tries, live, created, mine, stopSent, deadlinePassed, runNo, conf,
                  verdicts, replays, source, unwritten, files, torn, verdict, exit>>

VARIABLES asset, request, header, phase, chosen, described, archived, tempBundle, edits, overtaken
assetVars == <<asset, request, header, phase, chosen, described, archived, tempBundle, edits,
               overtaken>>

VARIABLES pack, lock, heldLock, taskCommand, taskAt, toHash, found, module, graded, touched,
          versions, code
taskVars == <<pack, lock, heldLock, taskCommand, taskAt, toHash, found, module, graded, touched,
              versions, code>>

VARIABLES folder, episode, records, datasets, policy, asked, episodes
robotVars == <<folder, episode, records, datasets, policy, asked, episodes>>

vars == <<program, checkpointVars, authVars, splatVars, simVars, keyVars, behaviorVars, assetVars,
          taskVars, robotVars>>

Checkpoint == INSTANCE CheckpointCommands
Auth       == INSTANCE Credentials WITH live <- liveKeys, stage <- progress, held <- heldKey,
                                        base <- heldUrl, temp <- tempFile
Splat      == INSTANCE SplatJobs
Sim        == INSTANCE SimSessions WITH at <- simAt, outcome <- simOutcome
Behavior   == INSTANCE BehaviorRun WITH step <- runStep
Assets     == INSTANCE Packaging WITH temp <- tempBundle
Tasks      == INSTANCE TaskKit WITH command <- taskCommand, at <- taskAt, held <- heldLock,
                                    todo <- toHash
Robots     == INSTANCE RobotArtifacts

Groups == {"checkpoint", "auth", "splat", "sim", "mcp", "behavior-ci", "assets", "tasks",
           "robotics"}

\* the programs that do not run are in one of their initial states
Init ==
  /\ program \in Groups
  /\ Checkpoint!CommandsInit
  /\ program # "checkpoint" => /\ command = [name |-> "session"] /\ directory = "none"
                               /\ hub.readme = "none"
  /\ Auth!CredentialsInit
  /\ program # "auth" => file = 0 /\ runs = [p \in Processes |-> "client"]
  /\ Splat!SplatInit
  /\ program # "splat" => splat.command = "status" /\ job = "queued"
  /\ Sim!SimInit
  /\ program # "sim" => call.op = "import" /\ call.asset = "reference" /\ call.require
                        /\ ~call.keepBundle
  /\ KeysInit
  /\ Behavior!BehaviorInit
  /\ program # "behavior-ci" => /\ ~keep /\ ~conf.hosted /\ ~conf.pinned /\ conf.trials = 1
                                /\ conf.required = "none"
  /\ Assets!PackagingInit
  /\ program # "assets" => DOMAIN asset = {"splat"} /\ header.lines = <<>> /\ ~header.blank
  /\ Tasks!TaskInit
  /\ program # "tasks" => ~lock.pinned /\ pack["grader"] = 1 /\ pack["eval"] = 1
  /\ Robots!RobotInit

Runs(name, next) ==
  /\ program = name /\ UNCHANGED program
  /\ next
  /\ name # "checkpoint"  => UNCHANGED checkpointVars
  /\ name # "auth"        => UNCHANGED authVars
  /\ name # "splat"       => UNCHANGED splatVars
  /\ name # "sim"         => UNCHANGED simVars
  /\ name # "mcp"         => UNCHANGED keyVars
  /\ name # "behavior-ci" => UNCHANGED behaviorVars
  /\ name # "assets"      => UNCHANGED assetVars
  /\ name # "tasks"       => UNCHANGED taskVars
  /\ name # "robotics"    => UNCHANGED robotVars

Next == \/ Runs("checkpoint", Checkpoint!CommandsNext)
        \/ Runs("auth", Auth!CredentialsNext)
        \/ Runs("splat", Splat!SplatNext)
        \/ Runs("sim", Sim!SimNext)
        \/ Runs("mcp", KeysNext)
        \/ Runs("behavior-ci", Behavior!BehaviorNext)
        \/ Runs("assets", Assets!PackagingNext)
        \/ Runs("tasks", Tasks!TaskNext)
        \/ Runs("robotics", Robots!RobotNext)

\* a waiting client is one thread that goes on, and its clock does not stop
Fairness == /\ WF_vars(Runs("splat", Splat!SplatStep)) /\ WF_vars(Runs("splat", Splat!Expire))
            /\ WF_vars(Runs("sim", Sim!ClientStep))    /\ WF_vars(Runs("sim", Sim!DeadlinePasses))

Spec == Init /\ [][Next]_vars /\ Fairness

\* What a command reports is true: an undisturbed listing is complete; what a
\* deletion counts as deleted it has removed, and it removes only what matches
\* its filters (a path counted as failed can be gone too, when the answer was
\* lost); and a conversion that is shown as done is done.
ReportsAreTrue == /\ Checkpoint!ListingIsComplete /\ Checkpoint!DeletionReportIsTrue
                  /\ Splat!JobsHaveTheirFile

\* The stored login survives kills and overlapping logins; a doctor that is
\* content and a client have the same login from the file, and nobody has the key
\* of one login with the base URL of another, unless the file changed meanwhile.
CredentialsAgree == Auth!CredentialFileIsWhole /\ Auth!DoctorAgreesWithClient

\* A render that waits asks for the stop of its session, whatever fails once it
\* is launched (a launch that fails leaves its session alone), and only an import
\* that fails leaves an environment or a bundle half made.
SimulationsCleanUp == Sim!RenderReleasesItsSession /\ Sim!NothingHalfMade

\* A verdict that is said comes with the bundle of its own run (an exit status of
\* 1 without the line of the verdict may be an error that nobody caught), and the
\* session of the run was asked to stop.
VerdictHasItsBundle == Behavior!VerdictHasItsBundle /\ Behavior!KnownSessionIsStopped

\* A bundle is what its manifest says, edits between hashing and packing excepted;
\* the two .ply parsers agree, unless a vertex element has a fourth token.
BundleIsAsDescribed == Assets!BundleIsAsDescribed /\ Assets!ParsersAgree

\* A loaded task is the locked one in all that the lock lists, except for edits
\* between the hashing of a file and its being read again.
LoadedAsLocked == Tasks!LoadedAsLocked

\* What is said of a robot artifact is true of what it was made from.
LineageHolds == Robots!LineageHolds

\* Every splat command and every operation on a session ends, also when the
\* service never finishes what it was asked for.
CommandsEnd == <>[](/\ program = "splat" => stage = "end"
                    /\ program = "sim" => simAt = "done")

\* The docstring of the command delete says "Delete by explicit paths".
ExplicitPathsAreDeleted == Checkpoint!ExplicitPathsAreDeleted
=============================================================================
