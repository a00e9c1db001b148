-------------------------- MODULE CheckpointCommands --------------------------
(***************************************************************************)
(* The commands `checkpoint ...` and `run ...` (cli/commands/checkpoint.py *)
(* and run.py), one after the other, on a service that other users change  *)
(* meanwhile, a local directory and a repository of the Hugging Face Hub.  *)
(***************************************************************************)
EXTENDS RestClient, FiniteSets

CONSTANTS Batch,                  \* BATCH_SIZE
          MaxCommands, MaxOthers  \* bounds of the model

VARIABLES command, step, outcome, ran,
          fetched, total,      \* all_checkpoints or all_runs, and total_count
          undisturbed,         \* the list of the service when the listing began; << >> if it changed
          deleting,            \* what the pool does with each path
          reported,            \* the paths counted as deleted, and those listed as failed
          removed,             \* history: the checkpoints that the requests of this command removed
          directory,           \* the target of download: "none", "old", "partial", "new"
          hub,                 \* the repository and its README
          others               \* changes made by others
commandVars == <<service, command, step, outcome, ran, fetched, total, undisturbed, deleting,
                 reported, removed, directory, hub, others>>

Filters  == [type : {"all", "training", "sampler", "bad"}, before : {0, 2, MaxCheckpoints + 1},
             after : {0, 1}]
NoFilter == [type |-> "all", before |-> 0, after |-> 0]
Selections == {"none", "paths", "run", "both", "badPath", "badDate"}

\* what a user can type, up to the wording
Commands ==
       [name : {"list", "runs"}, limit : 0..MaxCheckpoints, columns : {"known"}]
  \cup [name : {"runs"}, limit : {0}, columns : {"unknown"}]
  \cup [name : {"info", "publish", "unpublish"}, path : {"good", "bad"}]
  \cup [name : {"set-ttl"}, path : {"good", "bad"}, ttl : BOOLEAN, remove : BOOLEAN]
  \cup [name : {"download"}, path : {"good", "bad"}, force : BOOLEAN]
  \cup [name : {"push-hf"}, path : {"good", "bad"}, patterns : BOOLEAN, card : BOOLEAN]
  \cup [name : {"delete"}, selection : Selections, filter : {NoFilter}, yes : BOOLEAN]
  \cup [name : {"delete"}, selection : {"run"}, filter : Filters, yes : {TRUE}]
  \cup [name : {"delete"}, selection : {"paths"}, filter : {[NoFilter EXCEPT !.after = 1]}, yes : {TRUE}]
  \cup [name : {"list-run", "run-info", "session"}]

Names(n) == command.name = n
\* every command that names one checkpoint names this one
Path == 1

NoReport == [deleted |-> {}, failed |-> {}]
Quiet    == UNCHANGED <<fetched, total, undisturbed, deleting, reported, removed, directory, hub>>

CommandsInit ==
  /\ service = [NoService EXCEPT !.listed = [i \in 1..MaxCheckpoints |-> i]]
  /\ command \in Commands /\ step = "check" /\ outcome = "none" /\ ran = 1
  /\ fetched = <<>> /\ total = 0 /\ undisturbed = <<>>
  /\ deleting = [c \in {} |-> ""] /\ reported = NoReport /\ removed = {}
  /\ directory \in {"none", "old"} /\ others = 0
  /\ hub \in [repo : {FALSE}, readme : {"none", "other", "unreadable"}, uploaded : {FALSE}]

End(o)     == step' = "done" /\ outcome' = o
Fails      == End("error")          \* CyberneticsCliError, from the code or handle_api_errors
Usage      == End("usage")          \* click's usage error, exit code 2
Goto(next) == step' = next /\ UNCHANGED outcome

(* The checks of the arguments, before any request. *)
BadPath == "path" \in DOMAIN command /\ command.path = "bad"
TtlUnclear == Names("set-ttl") /\ command.ttl = command.remove
DeleteUnclear == /\ Names("delete")
                 /\ \/ command.selection \in {"none", "both", "badDate", "badPath"}
                    \/ command.selection = "paths" /\ command.filter # NoFilter
\* the command named list hides the builtin: converting patterns or paths ends in click's parser
ListIsACommand == Names("push-hf") /\ command.patterns

CheckArguments ==
  /\ step = "check"
  /\ \/ /\ \/ BadPath \/ TtlUnclear \/ DeleteUnclear
           \/ Names("runs") /\ command.columns = "unknown"
           \/ Names("download") /\ directory # "none" /\ ~command.force
        /\ Fails
     \/ /\ ~BadPath /\ ListIsACommand
        /\ Usage \/ Fails
     \/ /\ ~(BadPath \/ TtlUnclear \/ DeleteUnclear \/ ListIsACommand)
        /\ Names("runs") => command.columns = "known"
        /\ Names("download") => directory = "none"
        /\ \/ Goto("connect") \/ Fails               \* create_rest_client
  /\ UNCHANGED <<service, command, ran, others>> /\ Quiet

\* download --force removes the directory before anything is asked of the service
RemoveTarget == /\ step = "check" /\ Names("download") /\ command.path = "good"
                /\ command.force /\ directory # "none"
                /\ directory' = "none"
                /\ UNCHANGED <<service, command, step, outcome, ran, fetched, total, undisturbed,
                               deleting, reported, removed, hub, others>>

Connect ==
  /\ step = "connect"
  /\ Goto(CASE command.name \in {"list", "runs"} -> "firstPage"
            [] command.name \in {"list-run", "run-info", "session"} -> "request"
            [] Names("delete") -> IF command.selection = "run" THEN "select" ELSE "paths"
            [] Names("push-hf") -> "whoami"
            [] OTHER -> "route")
  /\ UNCHANGED <<service, command, ran, others>> /\ Quiet

(* Listing in pages. *)
Limit     == command.limit
Target    == IF Limit > 0 THEN Min({Limit, total}) ELSE total
Remaining == Min({Batch, Target - Len(fetched)})
ListFirst == IF Limit > 0 THEN Min({Batch, Limit}) ELSE Batch

FirstPage ==
  /\ step = "firstPage"
  /\ \/ /\ \/ Names("list") /\ ListUserCheckpoints(TRUE, FALSE)
           \/ Names("runs") /\ ListTrainingRuns(TRUE, FALSE)
        /\ fetched' = Page(ListFirst, 0) /\ total' = Len(service.listed)
        /\ undisturbed' = service.listed
        /\ Goto("pages")
     \/ ListUserCheckpoints(FALSE, Fails) /\ UNCHANGED <<fetched, total, undisturbed>>
  /\ UNCHANGED <<command, ran, deleting, reported, removed, directory, hub, others>>

NextPage ==
  /\ step = "pages" /\ Len(fetched) < Target
  /\ LET page == Page(Remaining, Len(fetched))
         take == /\ fetched' = fetched \o page
                 /\ IF Len(page) < Remaining THEN End("ok") ELSE Goto("pages")
     IN  ListUserCheckpoints(take, Fails /\ UNCHANGED fetched)
  /\ UNCHANGED <<command, ran, total, undisturbed, deleting, reported, removed, directory, hub,
                 others>>

AllPages == /\ step = "pages" /\ Len(fetched) >= Target
            /\ End("ok")
            /\ UNCHANGED <<service, command, ran, others>> /\ Quiet

(* One request. *)
OneRequest ==
  /\ step = "request"
  /\ \/ Names("list-run") /\ ListCheckpoints(End("ok"), Fails)
     \/ command.name \in {"run-info", "info"} /\ GetTrainingRun(End("ok"), Fails)
     \/ Names("session") /\ \/ GetSession(End("ok"), Fails) \/ ListSessions(End("ok"), Fails)
                            \/ GetSampler(End("ok"), Fails)
                            \/ CancelSession("session", End("ok"), Fails)
  /\ UNCHANGED <<command, ran, others>> /\ Quiet

(* By path: the route of the checkpoint, then the request itself. *)
Route == /\ step = "route"
         /\ GetWeightsInfo(Path, Goto(IF Names("info") THEN "find" ELSE "operate"), Fails)
         /\ UNCHANGED <<command, ran, others>> /\ Quiet

Operate ==
  /\ step = "operate"
  /\ \/ Names("publish")   /\ Publish(Path, End("ok"), Fails)
     \/ Names("unpublish") /\ Unpublish(Path, End("ok"), Fails)
     \/ Names("set-ttl")   /\ SetTtl(Path, command.ttl, End("ok"), Fails)
     \/ Names("download")  /\ GetArchiveUrl(Path, Goto("download"), Fails)
     \/ Names("push-hf")   /\ GetArchiveUrl(Path, Goto("download"), Fails)
  /\ UNCHANGED <<command, ran, others>> /\ Quiet

\* info looks the checkpoint up in the list of its run, then reads the run
FindCheckpoint == /\ step = "find"
                  /\ ListCheckpoints(IF Exists(Path) THEN Goto("run") ELSE Fails, Fails)
                  /\ UNCHANGED <<command, ran, others>> /\ Quiet
ReadRun == /\ step = "run"
           /\ GetWeightsInfo(Path, Goto("request"), Fails)
           /\ UNCHANGED <<command, ran, others>> /\ Quiet

(* Deleting. *)
Matches(c, f) == /\ f.type \in {"all", TypeOf(c)}
                 /\ f.before > 0 => c < f.before
                 /\ f.after > 0 => c > f.after
Chosen(f) == {c \in ToSet(service.listed) : Matches(c, f)}

Select ==
  /\ step = "select"
  /\ ListCheckpoints(
       IF command.filter.type = "bad" THEN Fails /\ UNCHANGED deleting
       ELSE IF Chosen(command.filter) = {} THEN End("ok") /\ UNCHANGED deleting
       ELSE deleting' = [c \in Chosen(command.filter) |-> "chosen"]
            /\ IF command.yes THEN Goto("deleting") ELSE Goto("confirm"),
       Fails /\ UNCHANGED deleting)
  /\ UNCHANGED <<command, ran, fetched, total, undisturbed, reported, removed, directory, hub,
                 others>>

Confirm == /\ step = "confirm"
           /\ \/ Goto("deleting")
              \/ End("declined")
              \/ Fails                             \* the prompt is aborted
           /\ UNCHANGED <<service, command, ran, others>> /\ Quiet

\* explicit paths: list(checkpoint_paths) calls the command
SelectPaths == /\ step = "paths"
               /\ Usage
               /\ UNCHANGED <<service, command, ran, others>> /\ Quiet

Does(c, what) == deleting' = [deleting EXCEPT ![c] = what]
Says(c, part) == reported' = [reported EXCEPT ![part] = @ \cup {c}] /\ Does(c, "done")
Removes == removed' = removed \cup (ToSet(service.listed) \ ToSet(service'.listed))

DeleteRoute(c) ==
  /\ step = "deleting" /\ deleting[c] = "chosen"
  /\ GetWeightsInfo(c, Does(c, "routed") /\ UNCHANGED reported, Says(c, "failed"))
  /\ UNCHANGED <<command, step, outcome, ran, fetched, total, undisturbed, removed, directory, hub,
                 others>>

\* A change of the code: a failed request counts as a deletion.
DeleteOneHopefully(c) ==
  /\ step = "deleting" /\ deleting[c] = "routed"
  /\ DeleteCheckpoint(c, Says(c, "deleted"), Says(c, "deleted"))
  /\ Removes
  /\ UNCHANGED <<command, step, outcome, ran, fetched, total, undisturbed, directory, hub, others>>

DeleteOne(c) ==
  /\ step = "deleting" /\ deleting[c] = "routed"
  /\ DeleteCheckpoint(c, Says(c, "deleted"), Says(c, "failed"))
  /\ Removes
  /\ UNCHANGED <<command, step, outcome, ran, fetched, total, undisturbed, directory, hub, others>>

\* the summary; failures do not change the exit code
DeleteReport == /\ step = "deleting" /\ \A c \in DOMAIN deleting : deleting[c] = "done"
                /\ End("ok")
                /\ UNCHANGED <<service, command, ran, others>> /\ Quiet

(* Downloading; the archive itself lies in a temporary directory. *)
DownloadArchive == /\ step = "download"
                   /\ Goto("extract") \/ Fails
                   /\ UNCHANGED <<service, command, ran, others>> /\ Quiet

\* the members are checked first; extraction may stop in the middle
Extract ==
  /\ step = "extract"
  /\ IF Names("push-hf")
     THEN (Goto("adapter") \/ Fails) /\ UNCHANGED directory
     ELSE \/ directory' = "new" /\ End("ok")
          \/ directory' \in {directory, "partial"} /\ Fails
  /\ UNCHANGED <<service, command, ran, fetched, total, undisturbed, deleting, reported, removed,
                 hub, others>>

(* Pushing to the Hub. *)
WhoAmI == /\ step = "whoami"
          /\ Goto("route") \/ Fails
          /\ UNCHANGED <<service, command, ran, others>> /\ Quiet

\* adapter files and checkpoint_complete; the metadata and the model card are optional
CheckAdapter == /\ step = "adapter"
                /\ Goto("repo") \/ Fails
                /\ UNCHANGED <<service, command, ran, others>> /\ Quiet

CreateRepo == /\ step = "repo"
              /\ \/ hub' = [hub EXCEPT !.repo = TRUE] /\ Goto("readme")
                 \/ hub' \in {hub, [hub EXCEPT !.repo = TRUE]} /\ Fails
              /\ UNCHANGED <<service, command, ran, fetched, total, undisturbed, deleting,
                             reported, removed, directory, others>>

\* a README that names another checkpoint stops the upload, one that cannot be read does not
CheckReadme == /\ step = "readme"
               /\ IF hub.readme = "other" THEN Fails ELSE Goto("upload")
               /\ UNCHANGED <<service, command, ran, others>> /\ Quiet

\* without patterns, list(ignore_patterns) calls the command
Upload == /\ step = "upload"
          /\ Usage
          /\ UNCHANGED <<service, command, ran, others>> /\ Quiet

(* The next command, and the other users of the service. *)
NextCommand == /\ step = "done" /\ ran < MaxCommands
               /\ ran' = ran + 1 /\ command' \in Commands /\ step' = "check" /\ outcome' = "none"
               /\ fetched' = <<>> /\ total' = 0 /\ undisturbed' = <<>>
               /\ deleting' = [c \in {} |-> ""] /\ reported' = NoReport
               /\ removed' = {}
               /\ UNCHANGED <<service, directory, hub, others>>

OthersChange ==
  /\ others < MaxOthers /\ others' = others + 1
  /\ \/ \E c \in ToSet(service.listed) :
          service' = [service EXCEPT !.listed = Without(@, c), !.public = @ \ {c}]
     \/ service' = [service EXCEPT !.public = IF Path \in @ THEN @ \ {Path} ELSE @ \cup {Path}]
        /\ Exists(Path)
  /\ undisturbed' = <<>>
  /\ UNCHANGED <<command, step, outcome, ran, fetched, total, deleting, reported, removed,
                 directory, hub>>

Listing   == FirstPage \/ NextPage \/ AllPages
Deletion  == \/ Select \/ Confirm \/ SelectPaths \/ DeleteReport
             \/ \E c \in DOMAIN deleting : DeleteRoute(c) \/ DeleteOne(c)
Transfers == RemoveTarget \/ DownloadArchive \/ Extract
Pushing   == WhoAmI \/ CheckAdapter \/ CreateRepo \/ CheckReadme \/ Upload
ByPath    == Route \/ Operate \/ FindCheckpoint \/ ReadRun
CommandsNext == \/ CheckArguments \/ Connect \/ OneRequest \/ Listing \/ ByPath \/ Deletion
                \/ Transfers \/ Pushing \/ NextCommand \/ OthersChange
CommandsSpec == CommandsInit /\ [][CommandsNext]_commandVars

\* A listing that nobody disturbed shows exactly the first entries that were
\* asked for, each once, whatever the sizes of its pages (list of both modules).
ListingIsComplete ==
  step = "done" /\ outcome = "ok" /\ undisturbed # <<>> =>
    fetched = SubSeq(undisturbed, 1, IF Limit > 0 THEN Min({Limit, Len(undisturbed)})
                               ELSE Len(undisturbed))

\* The requests of a command remove checkpoints only for a delete that was
\* given a run, and neither declined nor aborted, and only those that match its
\* filters.  What its summary counts as deleted this command has removed and is
\* gone; no path is counted twice, and in the end every chosen one is counted.
\* A path that is listed as failed can be gone too: the answer was lost after
\* the service acted, or somebody else was first (_delete_one, _delete_paths).
DeletionReportIsTrue ==
  /\ removed # {} => /\ Names("delete") /\ command.selection = "run"
                     /\ step = "done" => outcome = "ok"
                     /\ \A c \in removed : Matches(c, command.filter)
  /\ reported.deleted \subseteq removed \ ToSet(service.listed)
  /\ reported.deleted \cap reported.failed = {}
  /\ step = "done" /\ Names("delete") /\ DOMAIN deleting # {} /\ outcome = "ok" =>
       reported.deleted \cup reported.failed = DOMAIN deleting

\* The docstring of delete says "Delete by explicit paths": with --yes or after
\* a confirmation, valid paths are deleted or reported as failed.
ExplicitPathsAreDeleted ==
  step = "done" /\ Names("delete") /\ command.selection = "paths" /\ command.filter = NoFilter
    => outcome \in {"ok", "declined", "error"}
=============================================================================
