--------------------------- MODULE RobotArtifacts ---------------------------
(***************************************************************************)
(* The artifacts of robotics/: an episode of a task leaves files in a      *)
(* directory, datasets are made of the files that run records name or by   *)
(* a world model, a policy is trained on a dataset, and an evaluation or a *)
(* replay is asked for.  The functions are called one after the other, on  *)
(* artifacts that the callers keep; the process may be killed while an     *)
(* episode writes its files.  The hash of a task stands for the task, and  *)
(* the id of an artifact for what is hashed into it.                       *)
(***************************************************************************)
EXTENDS Naturals, Sequences, FiniteSets, FiniteSetsExt

CONSTANTS MaxFrames,     \* bound of the model: steps of an episode
          MaxEpisodes, MaxDatasets     \* bounds of the model: calls that make them

VARIABLES folder,        \* the directories of episodes: rollout.json in each, the one file that is
                         \* read; its task is history, the file names none
          episode,       \* the episode that runs: its record, its limit and the next step
          records,       \* the run records that were written
          datasets,
          policy,        \* bound of the model: one policy is trained, then
          asked,         \* one evaluation or replay asked for
          episodes       \* episodes begun so far
robotVars == <<folder, episode, records, datasets, policy, asked, episodes>>

\* a later version of a task may have another reward, or other spaces
Tasks   == [reward : {1, 2}, spaces : {1, 2}] \ {[reward |-> 2, spaces |-> 2]}
Seeds   == {0, 1}
Folders == {"A", "B"}
DATA_PROVENANCE == {"sim", "real", "synthetic", "mixed"}

\* A change of the code: the record is written first.
RecordFirst == <<"record", "rollout", "metrics">>

Order      == <<"rollout", "metrics", "record">>
Unreadable == [n |-> 0, frames |-> 0, task |-> [reward |-> 0, spaces |-> 0]]   \* absent, or torn
None       == [n |-> 0]
RunId(r)   == <<r.task, r.seed>>               \* deterministic_run_id
At(next)   == episode' = [episode EXCEPT !.at = next]

RobotInit ==
  /\ folder = [f \in Folders |-> Unreadable]
  /\ episode = [at |-> "over"]
  /\ records = {} /\ datasets = {} /\ policy = None /\ asked = None /\ episodes = 0

Idle == episode.at = "over" /\ policy = None

(* run_robot_episode: the environment, then the files.                     *)
RunEpisode ==
  /\ Idle /\ episodes < MaxEpisodes /\ episodes' = episodes + 1
  /\ \E task \in Tasks, seed \in Seeds, f \in Folders, limit \in 0..MaxFrames :
       /\ episodes = 0 => seed = 0 /\ f = "A"                    \* seeds and directories are alike
       /\ episode' = [n |-> episodes', task |-> task, seed |-> seed, folder |-> f, frames |-> 0,
                      limit |-> limit, at |-> "reset"]
  /\ UNCHANGED <<folder, records, datasets, policy, asked>>

Reset == /\ episode.at = "reset"
         /\ At("step") \/ At("close")
         /\ UNCHANGED <<folder, records, datasets, policy, asked, episodes>>

\* a step that raises is not in the rollout, those before it are
EnvStep ==
  /\ episode.at = "step"
  /\ \/ At("close")                              \* truncated at the limit, or an error
     \/ /\ episode.frames < episode.limit
        /\ \E next \in {"step", "close"} :
             episode' = [episode EXCEPT !.frames = @ + 1, !.at = next]
  /\ UNCHANGED <<folder, records, datasets, policy, asked, episodes>>

\* what close raises leaves the function before anything is written
Close == /\ episode.at = "close"
         /\ At(Order[1]) \/ episode' = [at |-> "over"]
         /\ UNCHANGED <<folder, records, datasets, policy, asked, episodes>>

WriteFile(order) ==
  \E i \in 1..3 :
    /\ episode.at = order[i]
    /\ folder' = IF order[i] # "rollout" THEN folder
                 ELSE [folder EXCEPT ![episode.folder] =
                         [n |-> episode.n, frames |-> episode.frames, task |-> episode.task]]
    /\ IF i = 3 THEN episode' = [at |-> "over"] ELSE At(order[i + 1])
    /\ records' = IF order[i] # "record" THEN records
                  ELSE records \cup {[n |-> episode.n, task |-> episode.task, seed |-> episode.seed,
                                      folder |-> episode.folder]}
    /\ UNCHANGED <<datasets, policy, asked, episodes>>

\* write_text truncates the file and fills it
Kill == /\ episode.at # "over" /\ episode' = [at |-> "over"]
        /\ \/ UNCHANGED folder
           \/ episode.at = "rollout" /\ folder' = [folder EXCEPT ![episode.folder] = Unreadable]
        /\ UNCHANGED <<records, datasets, policy, asked, episodes>>

(* create_trajectory_dataset_from_runs: the rollouts are read where the    *)
(* records say they are.                                                   *)
\* "behind" are the runs at the end of the references to source datasets,
\* each with the rollout that was read for it
TrajectoryDataset(id, task, spaces, read, frames, provenance, refs, behind) ==
  [id |-> id, task |-> task, spaces |-> spaces, runs |-> DOMAIN read, read |-> read,
   frames |-> frames, provenance |-> provenance, refs |-> refs, behind |-> behind]

Frames(read) == MapThenSumSet(LAMBDA r : read[r].frames, DOMAIN read)

\* A change of the code: each run id is listed once.
SourceRunsOnce(runs) == [i \in {RunId(r) : r \in runs} |-> 1]

\* the list of run ids, up to its order
SourceRuns(runs) == [i \in {RunId(r) : r \in runs} |-> Cardinality({r \in runs : RunId(r) = i})]

OfTask(task, runs) == \A r \in runs : r.task = task

DatasetFromRuns ==
  /\ Idle /\ Cardinality(datasets) < MaxDatasets
  /\ \E task \in Tasks, runs \in (SUBSET records) \ {{}}, provenance \in DATA_PROVENANCE :
       LET read == [r \in runs |-> folder[r.folder]] IN
       /\ OfTask(task, runs)
       /\ \A r \in runs : read[r] # Unreadable
       /\ Frames(read) > 0
       /\ datasets' = datasets \cup
            {TrajectoryDataset(<<task, SourceRuns(runs), provenance>>, task, task.spaces,
                               read, Frames(read), provenance, {},
                               {[run |-> r, rollout |-> read[r]] : r \in runs})}
  /\ UNCHANGED <<folder, episode, records, policy, asked, episodes>>

(* create_synthetic_dataset_from_world_model, for a world model that was   *)
(* trained elsewhere, on a dataset it names by its id.                     *)
WorldModels == [task : Tasks, source : {d.id : d \in datasets}]
\* A change of the code: only the ids are compared.
MatchesById(model, d) == model.source = d.id

Matches(model, d) == model.task = d.task /\ model.source = d.id

\* the artifacts that the caller refers to, by their provenance
Grounded(refs) == refs \cap {"sim", "real"} # {}
\* A change of the code: a provenance other than "mixed" is taken as it is.
PermittedAny(provenance, refs) ==
  provenance = "mixed" => "synthetic" \in refs /\ Grounded(refs)

Permitted(provenance, refs) ==
  \/ provenance = "synthetic"
  \/ provenance = "mixed" /\ "synthetic" \in refs /\ Grounded(refs)

DatasetFromWorldModel ==
  /\ Idle /\ Cardinality(datasets) < MaxDatasets
  /\ \E model \in WorldModels, d \in datasets, provenance \in DATA_PROVENANCE,
        refs \in {{}, {"synthetic"}, {"sim", "synthetic"}}, frame_count \in {1, 2} :
       /\ Matches(model, d) /\ Permitted(provenance, refs)
       /\ datasets' = datasets \cup
            {TrajectoryDataset(<<model, provenance>>, model.task, d.spaces, <<>>, frame_count,
                               provenance, refs \cup {"synthetic", d.provenance}, d.behind)}
  /\ UNCHANGED <<folder, episode, records, policy, asked, episodes>>

(* train_policy: the spaces come from the dataset, the hash from the       *)
(* caller, and neither is compared with the other.                         *)
PolicyArtifact(task, robot, d) ==
  [task |-> task, robot |-> robot, spaces |-> d.spaces, dataset |-> d]

TrainPolicy ==
  /\ Idle
  /\ \E d \in datasets, task \in Tasks, robot \in {"of the task", "another"} :
       policy' = PolicyArtifact(task, robot, d)
  /\ UNCHANGED <<folder, episode, records, datasets, asked, episodes>>

(* build_vla_eval_request and build_replay_import_request.                 *)
\* A change of the code: the schemas are not compared.
PolicyHasHash(task, p) == p.task = task

PolicyMatchesTask(task, p) == p.task = task /\ p.spaces = task.spaces

Evaluate ==
  /\ policy # None /\ asked = None
  /\ \E task \in Tasks : PolicyMatchesTask(task, policy) /\ asked' = [for |-> "eval", task |-> task]
  /\ UNCHANGED <<folder, episode, records, datasets, policy, episodes>>

Replay ==
  /\ policy # None /\ asked = None
  /\ \E task \in Tasks : /\ PolicyMatchesTask(task, policy) /\ policy.robot = "of the task"
                        /\ asked' = [for |-> "replay", task |-> task]
  /\ UNCHANGED <<folder, episode, records, datasets, policy, episodes>>

Episode   == RunEpisode \/ Reset \/ EnvStep \/ Close \/ WriteFile(Order) \/ Kill
RobotNext == \/ Episode \/ DatasetFromRuns \/ DatasetFromWorldModel
             \/ TrainPolicy \/ Evaluate \/ Replay
RobotSpec == RobotInit /\ [][RobotNext]_robotVars

\* A record stands for a rollout that was written whole: what a dataset reads
\* for a record is its own rollout or that of a later episode which used the
\* same directory (run_robot_episode, create_trajectory_dataset_from_runs).
RolloutBehindRecord == \A d \in datasets : \A r \in d.runs : d.read[r].n >= r.n

\* Two datasets with one artifact id are of one task and its spaces, and if they
\* are made of rollouts they have as many frames, unless a rollout was replaced
\* between them or two episodes had one run id.  Of generated datasets the id does
\* not tell the frames, which the caller counts (_dataset_artifact_id,
\* _generated_dataset_id).
IdsTellDatasetsApart ==
  \A d, e \in datasets :
    d.id = e.id =>
      /\ d.task = e.task /\ d.spaces = e.spaces
      /\ d.runs # {} /\ d.frames # e.frames =>
           \E r \in d.runs, s \in e.runs : RunId(r) = RunId(s) /\ d.read[r] # e.read[s]

\* A dataset that says it was recorded consists of rollouts only, and a
\* generated one that says it is mixed names something recorded.
GeneratedIsMarked ==
  \A d \in datasets : /\ d.provenance \in {"sim", "real"} => d.runs # {}
                      /\ d.runs = {} /\ d.provenance = "mixed" => Grounded(d.refs)

\* A policy is evaluated or replayed in the spaces in which the data behind it
\* was recorded, and for the task of the data unless the trainer was told another.
\* The data are the rollouts that were read; a rollout that a later episode wrote
\* over that of a record may be one of any task, nothing compares the two.
EvaluatedAsRecorded ==
  asked # None =>
    LET d == policy.dataset IN
    \A b \in d.behind :
      b.rollout.n = b.run.n =>
        /\ b.rollout.task.spaces = asked.task.spaces
        /\ policy.task = d.task => b.rollout.task = asked.task

\* What is said of a robot artifact is true of what it was made from.
LineageHolds == /\ RolloutBehindRecord /\ IdsTellDatasetsApart
                /\ GeneratedIsMarked /\ EvaluatedAsRecorded
=============================================================================
