------------------------------- MODULE TaskKit -------------------------------
(***************************************************************************)
(* The locks of the behaviour CI tasks: the command lock-task, which       *)
(* records the digests of a task's files, and the command verify-task,     *)
(* which loads a task from the repository or from the package: it verifies *)
(* the digests, imports the task and reads its grader (behavior_ci/taskkit *)
(* and tasks, cli/commands/behavior_ci.py).  The files may be edited       *)
(* between the commands and during them.                                   *)
(***************************************************************************)
EXTENDS Naturals, FiniteSets

CONSTANT MaxVersions             \* bound of the model: versions of the files' contents

VARIABLES pack,        \* the task's files: version of the content, 0 when absent
          lock,        \* task.lock on the disk
          held,        \* the lock that the command has read
          command,     \* "none", "lock" or "verify"
          at,          \* the next step of the command
          todo,        \* the files to be hashed
          found,       \* the versions hashed so far
          module,      \* the version of task.py that was imported, 0 for none
          graded,      \* grader_source of the loaded task, 0 for None
          touched,     \* history: the files edited after the command hashed them
                       \* and before it read them again
          versions,    \* versions made so far
          code         \* the exit code of the last command

taskVars == <<pack, lock, held, command, at, todo, found, module, graded, touched, versions, code>>

\* "copy" is the candidate's readability copy of a file of a packaged task
Judged == {"task.toml", "task.py", "grader", "eval"}
Pack   == Judged \cup {"copy"}
EXIT_OK == "0"
EXIT_UNCAUGHT == "1"
EXIT_INPUT == "2"
EXIT_CONTRACT == "4"

(* The package of the SDK comes with its lock; a task of the repository    *)
(* has none at first.                                                      *)
Lock(source, digests, signed) ==
  [source |-> source, present |-> digests # <<>>, digests |-> digests, signed |-> signed,
   valid |-> signed, pinned |-> source = "packaged"]

TaskInit ==
  /\ \E source \in {"repo", "packaged"}, grader \in {0, 1}, eval \in {0, 1} :
       /\ pack = [f \in Pack |-> CASE f = "grader" -> grader [] f = "eval" -> eval [] OTHER -> 1]
       /\ lock = Lock(source, <<>>, FALSE)
  /\ held = lock /\ command = "none" /\ at = "done" /\ code = "none"
  /\ module = 0 /\ graded = 0 /\ todo = {} /\ found = <<>> /\ touched = {} /\ versions = 1

Exit(c)    == at' = "done" /\ command' = "none" /\ code' = c
Goes(next) == at' = next /\ UNCHANGED <<command, code>>

\* every command is a process of its own, with an empty TASK_REGISTRY
Begin(name) ==
  /\ command = "none" /\ command' = name /\ (lock.pinned => name = "verify")
  /\ at' = (IF lock.pinned THEN "import" ELSE "toml") /\ code' = "none"
  /\ held' = lock /\ found' = <<>> /\ todo' = {} /\ module' = 0 /\ graded' = 0 /\ touched' = {}
  /\ UNCHANGED <<pack, lock, versions>>

(* lock-task: the files that exist, their digests, the signature.          *)
ListFiles ==
  /\ at = "toml" /\ command = "lock"
  /\ IF pack["task.toml"] = 0 THEN Exit(EXIT_UNCAUGHT) /\ UNCHANGED todo
     ELSE /\ todo' = {"task.toml", "task.py"} \cup {f \in {"grader", "eval"} : pack[f] # 0}
          /\ Goes("hash")
  /\ UNCHANGED <<pack, lock, held, found, module, graded, touched, versions>>

\* compute_digests raises for a file that is gone; verify_lock only notes it
Hash == /\ at = "hash"
        /\ \E f \in todo :
             IF command = "lock" /\ pack[f] = 0 THEN Exit(EXIT_UNCAUGHT) /\ UNCHANGED <<todo, found>>
             ELSE /\ found' = [g \in DOMAIN found \cup {f} |-> IF g = f THEN pack[f] ELSE found[g]]
                  /\ todo' = todo \ {f}
                  /\ UNCHANGED <<at, command, code>>
        /\ UNCHANGED <<pack, lock, held, module, graded, touched, versions>>

WriteLock == /\ at = "hash" /\ todo = {} /\ command = "lock"
             /\ \/ \E signed \in BOOLEAN : lock' = Lock("repo", found, signed) /\ Exit(EXIT_OK)
                \/ UNCHANGED lock /\ Exit(EXIT_INPUT)           \* --sign without --key
                \/ UNCHANGED lock /\ Exit(EXIT_UNCAUGHT)        \* not an ed25519 key
             /\ UNCHANGED <<pack, held, todo, found, module, graded, touched, versions>>

(* verify-task: RepoTaskLoader.load.                                       *)
ReadLock == /\ at = "toml" /\ command = "verify"
            /\ IF pack["task.toml"] = 0 \/ ~lock.present THEN Exit(EXIT_INPUT) /\ UNCHANGED <<held, todo>>
               ELSE held' = lock /\ todo' = DOMAIN lock.digests /\ Goes("hash")
            /\ UNCHANGED <<pack, lock, found, module, graded, touched, versions>>

\* A change of the code: a listed file that is missing is passed over.
MismatchesOfPresent(h, f) == {g \in DOMAIN h.digests : f[g] \notin {0, h.digests[g]}}

Mismatches(h, f) == {g \in DOMAIN h.digests : f[g] # h.digests[g]}
VerifyLock ==
  /\ at = "hash" /\ todo = {} /\ command = "verify"
  /\ \/ Mismatches(held, found) # {} /\ Exit(EXIT_CONTRACT)
     \/ /\ Mismatches(held, found) = {}
        /\ \/ Goes("import")                                \* unsigned, or no public key given
           \/ held.signed /\ ~held.valid /\ Exit(EXIT_CONTRACT)
  /\ UNCHANGED <<pack, lock, held, todo, found, module, graded, touched, versions>>

\* importing runs @register_task; a module that registers another id leaves get_task a KeyError
ImportTask ==
  /\ at = "import"
  /\ IF held.pinned THEN module' = 1 /\ graded' \in {0, 1} /\ Goes("pins")
     ELSE /\ UNCHANGED graded
          /\ \/ pack["task.py"] # 0 /\ module' = pack["task.py"] /\ Goes("grader")
             \/ UNCHANGED module /\ Exit(EXIT_UNCAUGHT)
  /\ UNCHANGED <<pack, lock, held, todo, found, touched, versions>>

ReadGrader == /\ at = "grader" /\ graded' = pack["grader"] /\ Goes("pins")
              /\ UNCHANGED <<pack, lock, held, todo, found, module, touched, versions>>

\* verify_candidate_copies: a copy may be absent, but not differ; a repository's lock has none
EnforcePins == /\ at = "pins"
               /\ IF held.pinned /\ pack["copy"] \notin {0, 1} THEN Exit(EXIT_CONTRACT)
                  ELSE Exit(EXIT_OK)
               /\ UNCHANGED <<pack, lock, held, todo, found, module, graded, touched, versions>>

(* The people who work on the task: they edit its files, and the lock,     *)
(* whose entries they change or drop.                                      *)
ReadLater == CASE at \in {"hash", "import"} -> {"task.py", "grader"}
               [] at = "grader"             -> {"grader"}
               [] OTHER                     -> {}
Change(f, version) == /\ pack' = [pack EXCEPT ![f] = version]
                      /\ touched' = touched \cup ({f} \cap DOMAIN found \cap ReadLater)
                      /\ UNCHANGED <<lock, held, command, at, todo, found, module, graded, code>>
EditFile   == /\ versions < MaxVersions /\ versions' = versions + 1
              /\ \E f \in Pack : Change(f, versions')
RemoveFile == /\ versions < MaxVersions /\ versions' = versions + 1
              /\ \E f \in Pack : Change(f, 0)
\* a command reads or writes the lock in one step: an edit while it runs is like
\* one before or after it
Edited(digests) == lock' = [lock EXCEPT !.digests = digests, !.valid = FALSE]
EditLock == /\ lock.present /\ command = "none"
            /\ \E f \in DOMAIN lock.digests :
                 \/ /\ lock.digests[f] # pack[f] /\ pack[f] # 0
                    /\ Edited([lock.digests EXCEPT ![f] = pack[f]])
                 \/ Edited([g \in DOMAIN lock.digests \ {f} |-> lock.digests[g]])
            /\ UNCHANGED <<pack, held, command, at, todo, found, module, graded, touched, versions,
                           code>>

Command  == \/ \E name \in {"lock", "verify"} : Begin(name)
            \/ ListFiles \/ Hash \/ WriteLock
            \/ ReadLock \/ VerifyLock \/ ImportTask \/ ReadGrader \/ EnforcePins
TaskNext == Command \/ EditFile \/ RemoveFile \/ EditLock
TaskSpec == TaskInit /\ [][TaskNext]_taskVars

\* A task of the repository is loaded from what its lock lists: every listed file
\* had its digest when it was hashed, and all of them were hashed before the module
\* was imported; the module and the grader have their digests also when they are
\* read again, unless they were edited in between (RepoTaskLoader.load does not
\* keep the bytes that it verified).  What the lock does not list is protected by
\* nothing: a lock can lack the module that is imported (verify_lock looks at the
\* entries only), but not if it still has the signature of lock-task.
LoadedAsLocked ==
  module # 0 /\ ~held.pinned =>
    LET kept == DOMAIN held.digests \ touched IN
    /\ \A f \in DOMAIN held.digests : f \in DOMAIN found /\ found[f] = held.digests[f]
    /\ "task.py" \in kept => module = held.digests["task.py"]
    /\ at = "done" /\ "grader" \in kept => graded = held.digests["grader"]
    /\ held.valid => {"task.toml", "task.py"} \subseteq DOMAIN held.digests
=============================================================================
