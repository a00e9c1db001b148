--------------------------- MODULE CommandLineProofs ---------------------------
(***************************************************************************)
(* Theorems about CommandLine and its components, for any keys, processes, *)
(* checkpoints, files and runs.  A step of the command line is a step of   *)
(* one group of commands and leaves the variables of the others alone, so  *)
(* that each invariant is proved from the next-state relation of its group.*)
(***************************************************************************)
EXTENDS CommandLine, SumTheorems, SequenceTheorems

(***************************************************************************)
(* The keys of a SimulationClient.                                         *)
(***************************************************************************)

KeysTypeOK ==
  /\ keys \in [Keys -> {"none", "live", "gone"}]
  /\ scoped \in [Keys -> {"none", "open", "closed", "revoked"}]
  /\ gateway \in [Keys -> GatewayIds \cup {0}]
  /\ heard \in [Keys -> SUBSET GatewayIds]
  /\ tracked \subseteq Keys /\ dropped \subseteq Keys /\ todo \subseteq Keys /\ pending \subseteq Keys
  /\ http \in {"open", "closed"} /\ work \in {"idle", "closing"}

(* While close() is at work, every key that it tracks and that still lives *)
(* is one that it has yet to visit or one that it could not revoke.        *)
ClosingMissesNone ==
  work = "closing" => /\ todo \cup pending \subseteq tracked
                      /\ \A k \in tracked : keys[k] = "live" => k \in todo \cup pending

(* Keys with a client and dropped ones are granted, and what is tracked are clients. *)
ClientsHaveKeys == /\ \A k \in Keys : scoped[k] # "none" => keys[k] # "none"
                   /\ \A k \in dropped : keys[k] # "none"
                   /\ \A k \in tracked : scoped[k] # "none"

(* A client has heard of no gateway session but the first. *)
HeardTheFirst == \A k \in Keys : heard[k] \subseteq {gateway[k]} /\ 0 \notin heard[k]

KeysInv ==
  KeysTypeOK /\ NoKeyForgotten /\ ClosingMissesNone /\ ClientsHaveKeys /\ HeardTheFirst

LEMMA KeysInitially == KeysInit => KeysInv
  BY DEF KeysInit, KeysInv, KeysTypeOK, NoKeyForgotten, ClosingMissesNone,
      ClientsHaveKeys, HeardTheFirst, GatewayIds

(* Revoking one key disturbs no other, and a client that is told of success *)
(* has a key that is gone.                                                  *)
LEMMA Revoking ==
  ASSUME KeysTypeOK, NoKeyForgotten, NEW k \in Keys, NEW done \in BOOLEAN,
         scoped[k] # "none", Revoke(k, done)
  PROVE  /\ keys' \in [Keys -> {"none", "live", "gone"}]
         /\ scoped' \in [Keys -> {"none", "open", "closed", "revoked"}]
         /\ \A l \in Keys \ {k} : keys'[l] = keys[l] /\ scoped'[l] = scoped[l]
         /\ keys'[k] = "live" => keys[k] = "live"
         /\ done => keys'[k] = "gone"
         /\ keys[k] # "none" => keys'[k] # "none"
         /\ scoped'[k] # "none"
         /\ scoped'[k] = "revoked" => keys'[k] = "gone"
  BY DEF KeysTypeOK, NoKeyForgotten, Revoke, Revocation

LEMMA KeysStep == KeysInv /\ [KeysNext]_keyVars => KeysInv'
<1> SUFFICES ASSUME KeysInv, [KeysNext]_keyVars PROVE KeysInv'
  OBVIOUS
<1> USE DEF KeysInv
<1>1. ASSUME NEW k \in Keys, GrantFails(k) \/ GrantMalformed(k)
      PROVE  KeysInv'
  <2>1. scoped[k] = "none" /\ work = "idle" /\ http = "open"
    BY <1>1 DEF GrantFails, GrantMalformed, ClientsHaveKeys
  <2>2. /\ keys' \in [Keys -> {"none", "live", "gone"}]
        /\ \A l \in Keys \ {k} : keys'[l] = keys[l]
    BY <1>1 DEF GrantFails, GrantMalformed, KeysTypeOK
  <2> QED
    BY <1>1, <2>1, <2>2
    DEF GrantFails, GrantMalformed, KeysTypeOK, NoKeyForgotten, ClosingMissesNone,
        ClientsHaveKeys, HeardTheFirst
<1>2. ASSUME NEW k \in Keys, Grant(k)
      PROVE  KeysInv'
  BY <1>2 DEF Grant, KeysTypeOK, NoKeyForgotten, ClosingMissesNone, ClientsHaveKeys, HeardTheFirst
<1>3. ASSUME NEW k \in Keys, CallTool(k)
      PROVE  KeysInv'
  <2>1. KeysTypeOK' /\ NoKeyForgotten' /\ ClosingMissesNone' /\ ClientsHaveKeys'
    BY <1>3 DEF CallTool, KeysTypeOK, NoKeyForgotten, ClosingMissesNone, ClientsHaveKeys,
                GatewayIds
  <2>2. HeardTheFirst'
    <3>1. PICK id \in GatewayIds \cup {0}, parses \in BOOLEAN :
            /\ gateway' = [gateway EXCEPT ![k] = IF @ = 0 THEN id ELSE @]
            /\ heard' = IF parses /\ id # 0 /\ gateway[k] \in {0, id}
                        THEN [heard EXCEPT ![k] = @ \cup {id}] ELSE heard
      BY <1>3 DEF CallTool
    <3> QED
      BY <3>1 DEF KeysTypeOK, HeardTheFirst
  <2> QED
    BY <2>1, <2>2
<1>4. ASSUME NEW k \in Keys, CloseKey(k)
      PROVE  KeysInv'
  <2>1. PICK done \in BOOLEAN : Revoke(k, done)
    BY <1>4 DEF CloseKey
  <2> QED
    BY <1>4, <2>1, Revoking
    DEF CloseKey, KeysTypeOK, NoKeyForgotten, ClosingMissesNone, ClientsHaveKeys, HeardTheFirst
<1>5. ASSUME NEW k \in Keys, CloseNext(k)
      PROVE  KeysInv'
  <2>1. PICK done \in BOOLEAN : /\ Revoke(k, done)
                                /\ pending' = IF done THEN pending ELSE pending \cup {k}
    BY <1>5 DEF CloseNext
  <2>2. scoped[k] # "none"
    BY <1>5 DEF CloseNext, ClosingMissesNone, ClientsHaveKeys
  <2>3. KeysTypeOK' /\ NoKeyForgotten' /\ ClientsHaveKeys' /\ HeardTheFirst'
    BY <1>5, <2>1, <2>2, Revoking
    DEF CloseNext, KeysTypeOK, NoKeyForgotten, ClosingMissesNone, ClientsHaveKeys, HeardTheFirst
  <2>4. ClosingMissesNone'
    <3>1. todo' \cup pending' \subseteq tracked /\ k \in Keys
      BY <1>5, <2>1 DEF CloseNext, ClosingMissesNone
    <3>2. ASSUME NEW l \in tracked, keys'[l] = "live" PROVE l \in todo' \cup pending'
      <4>1. CASE l = k
        BY <2>1, <2>2, <3>2, <4>1, Revoking
      <4>2. CASE l # k
        BY <1>5, <2>1, <2>2, <3>2, <4>2, Revoking DEF CloseNext, ClosingMissesNone, KeysTypeOK
      <4> QED
        BY <4>1, <4>2
    <3> QED
      BY <1>5, <3>1, <3>2 DEF CloseNext, ClosingMissesNone
  <2> QED
    BY <2>3, <2>4
<1>6. CASE Close
  BY <1>6 DEF Close, KeysTypeOK, NoKeyForgotten, ClosingMissesNone, ClientsHaveKeys, HeardTheFirst
<1>7. CASE CloseEnds
  BY <1>7 DEF CloseEnds, KeysTypeOK, NoKeyForgotten, ClosingMissesNone, ClientsHaveKeys,
              HeardTheFirst
<1>8. CASE UNCHANGED keyVars
  BY <1>8 DEF keyVars, KeysTypeOK, NoKeyForgotten, ClosingMissesNone, ClientsHaveKeys, HeardTheFirst
<1> QED
  BY <1>1, <1>2, <1>3, <1>4, <1>5, <1>6, <1>7, <1>8 DEF KeysNext, KeyStep

LEMMA StepOfKeys == [Next]_vars => [KeysNext]_keyVars
  BY DEF Next, Runs, vars, keyVars

(* A key that was handed out and still lives is tracked, however revocations *)
(* fail and however often close() is called (SimulationClient.close): only   *)
(* keys that had no client, whose grant was lost or could not be taken back, *)
(* live out of sight.  A client accepts the answers of one gateway session.  *)
THEOREM KeysAreInSight == Spec => []KeysStayInSight
<1>1. KeysInv => KeysStayInSight
  <2> SUFFICES ASSUME KeysInv, NEW k \in Keys PROVE Cardinality(heard[k]) <= 1
    BY DEF KeysInv, KeysStayInSight, OneGatewaySession
  <2>1. heard[k] \subseteq {gateway[k]}
    BY DEF KeysInv, HeardTheFirst
  <2>2. IsFiniteSet({gateway[k]}) /\ Cardinality({gateway[k]}) = 1
    BY FS_Singleton
  <2> QED
    BY <2>1, <2>2, FS_Subset
<1>2. Init => KeysInv
  BY KeysInitially DEF Init
<1>3. KeysInv /\ [Next]_vars => KeysInv'
  BY KeysStep, StepOfKeys
<1> QED
  BY <1>1, <1>2, <1>3, PTL DEF Spec

(***************************************************************************)
(* The locks of the behaviour CI tasks.                                    *)
(***************************************************************************)
Locked  == {"task.toml", "task.py"}
Digests == UNION {[names -> Nat] : names \in SUBSET Tasks!Judged}
Locks   == [source : {"repo", "packaged"}, present : BOOLEAN, digests : Digests,
            signed : BOOLEAN, valid : BOOLEAN, pinned : BOOLEAN]

TasksTyped == /\ pack \in [Tasks!Pack -> Nat] /\ lock \in Locks /\ heldLock \in Locks
              /\ found \in Digests /\ toHash \subseteq Tasks!Judged /\ versions \in Nat
              /\ taskAt \in {"toml", "hash", "import", "grader", "pins", "done"}
              /\ taskCommand = "none" => taskAt = "done"
              /\ lock.pinned => heldLock.pinned

(* A lock as lock-task signed it lists the two files that no task is without. *)
LocksNameTheTask == /\ lock.valid => Locked \subseteq DOMAIN lock.digests
                    /\ heldLock.valid => Locked \subseteq DOMAIN heldLock.digests
                    /\ taskAt = "hash" /\ taskCommand = "lock" =>
                         Locked \subseteq toHash \cup DOMAIN found

Hashed(f) == f \in DOMAIN found /\ found[f] = heldLock.digests[f]

(* What a command has found out so far about the files of the lock it read, *)
(* and what of it is still so for the files that it will read again.        *)
HashesAreCurrent ==
  /\ taskAt \in {"toml", "hash", "grader"} => ~heldLock.pinned
  /\ taskAt = "hash" /\ taskCommand = "verify" =>
       \A f \in DOMAIN heldLock.digests \ toHash :
         /\ f \in DOMAIN found
         /\ f \in {"task.py", "grader"} => f \in touched \/ found[f] = pack[f]
  /\ taskAt \in {"import", "grader", "pins"} /\ ~heldLock.pinned =>
       \A f \in DOMAIN heldLock.digests : Hashed(f)
  /\ taskAt = "import" /\ ~heldLock.pinned /\ "task.py" \in DOMAIN heldLock.digests =>
       "task.py" \in touched \/ pack["task.py"] = heldLock.digests["task.py"]
  /\ taskAt \in {"import", "grader"} /\ ~heldLock.pinned /\ "grader" \in DOMAIN heldLock.digests =>
       "grader" \in touched \/ pack["grader"] = heldLock.digests["grader"]

(* What was imported and read is what the lock says, or was edited meanwhile. *)
ImportedAsLocked ==
  /\ taskAt \in {"toml", "hash", "import"} => module = 0
  /\ module # 0 /\ ~heldLock.pinned =>
       /\ \A f \in DOMAIN heldLock.digests : Hashed(f)
       /\ "task.py" \in DOMAIN heldLock.digests \ touched =>
            module = heldLock.digests["task.py"]
       /\ taskAt # "grader" /\ "grader" \in DOMAIN heldLock.digests \ touched =>
            graded = heldLock.digests["grader"]

TaskInv == TasksTyped /\ LocksNameTheTask /\ HashesAreCurrent /\ ImportedAsLocked

LEMMA NoDigests == <<>> \in Digests /\ DOMAIN <<>> = {}
<1>1. <<>> \in [{} -> Nat]
  OBVIOUS
<1> QED
  BY <1>1 DEF Digests

LEMMA TasksInitially == Tasks!TaskInit => TaskInv
<1> SUFFICES ASSUME Tasks!TaskInit PROVE TaskInv
  OBVIOUS
<1>1. PICK origin \in {"repo", "packaged"}, grader \in {0, 1}, eval \in {0, 1} :
        /\ pack = [f \in Tasks!Pack |-> CASE f = "grader" -> grader [] f = "eval" -> eval
                                           [] OTHER -> 1]
        /\ lock = Tasks!Lock(origin, <<>>, FALSE)
  BY DEF Tasks!TaskInit
<1>2. pack \in [Tasks!Pack -> Nat]
  BY <1>1
<1>3. lock \in Locks /\ ~lock.present /\ ~lock.valid
  BY <1>1, NoDigests DEF Tasks!Lock, Locks
<1> QED
  BY <1>2, <1>3, NoDigests
  DEF Tasks!TaskInit, TaskInv, TasksTyped, LocksNameTheTask, HashesAreCurrent, ImportedAsLocked

LEMMA TaskStep == TaskInv /\ [Tasks!TaskNext]_(Tasks!taskVars) => TaskInv'
<1> SUFFICES ASSUME TaskInv, [Tasks!TaskNext]_(Tasks!taskVars) PROVE TaskInv'
  OBVIOUS
<1> USE DEF TaskInv
<1>1. ASSUME NEW name \in {"lock", "verify"}, Tasks!Begin(name) PROVE TaskInv'
  BY <1>1, NoDigests
  DEF Tasks!Begin, TasksTyped, LocksNameTheTask, HashesAreCurrent, ImportedAsLocked
<1>2. CASE Tasks!ListFiles
  BY <1>2 DEF Tasks!ListFiles, Tasks!Exit, Tasks!Goes, Tasks!Judged, Locked, TasksTyped,
              LocksNameTheTask, HashesAreCurrent, ImportedAsLocked
<1>3. CASE Tasks!Hash
  <2>1. PICK f \in toHash :
          \/ taskCommand = "lock" /\ Tasks!Exit(Tasks!EXIT_UNCAUGHT) /\ UNCHANGED <<toHash, found>>
          \/ /\ found' = [g \in DOMAIN found \cup {f} |-> IF g = f THEN pack[f] ELSE found[g]]
             /\ toHash' = toHash \ {f} /\ UNCHANGED <<taskAt, taskCommand, code>>
    BY <1>3 DEF Tasks!Hash
  <2>2. found' \in Digests
    <3>1. PICK names \in SUBSET Tasks!Judged : found \in [names -> Nat]
      BY DEF TasksTyped, Digests
    <3>2. CASE UNCHANGED found
      BY <3>2 DEF TasksTyped
    <3>3. CASE found' = [g \in DOMAIN found \cup {f} |-> IF g = f THEN pack[f] ELSE found[g]]
      <4>1. f \in Tasks!Judged /\ pack[f] \in Nat
        BY DEF TasksTyped, Tasks!Pack
      <4>2. found' \in [names \cup {f} -> Nat]
        BY <3>1, <3>3, <4>1
      <4> QED
        BY <4>1, <4>2 DEF Digests
    <3> QED
      BY <2>1, <3>2, <3>3
  <2>3. \A g \in Tasks!Judged : g \notin toHash' =>
          \/ g = f
          \/ g \notin toHash /\ (g \in DOMAIN found => g \in DOMAIN found' /\ found'[g] = found[g])
    BY <2>1
  <2> QED
    BY <1>3, <2>1, <2>2
    DEF Tasks!Hash, Tasks!Exit, Locked, TasksTyped, LocksNameTheTask, HashesAreCurrent,
        ImportedAsLocked, Hashed
<1>4. CASE Tasks!WriteLock
  <2>1. /\ lock' \in Locks /\ (lock'.pinned => lock.pinned)
        /\ lock'.valid => Locked \subseteq DOMAIN lock'.digests
    <3>1. ASSUME NEW signed \in BOOLEAN, lock' = Tasks!Lock("repo", found, signed)
          PROVE  lock' \in Locks /\ ~lock'.pinned /\ Locked \subseteq DOMAIN lock'.digests
      BY <1>4, <3>1 DEF Tasks!WriteLock, Tasks!Lock, Locks, TasksTyped, LocksNameTheTask
    <3> QED
      BY <1>4, <3>1 DEF Tasks!WriteLock, TasksTyped, LocksNameTheTask
  <2> QED
    BY <1>4, <2>1 DEF Tasks!WriteLock, Tasks!Exit, TasksTyped, LocksNameTheTask, HashesAreCurrent,
                      ImportedAsLocked
<1>5. CASE Tasks!ReadLock
  <2>1. DOMAIN lock.digests \subseteq Tasks!Judged
    BY DEF TasksTyped, Locks, Digests
  <2> QED
    BY <1>5, <2>1 DEF Tasks!ReadLock, Tasks!Exit, Tasks!Goes, TasksTyped, LocksNameTheTask,
                      HashesAreCurrent, ImportedAsLocked
<1>6. CASE Tasks!VerifyLock
  BY <1>6 DEF Tasks!VerifyLock, Tasks!Exit, Tasks!Goes, Tasks!Mismatches, TasksTyped,
              LocksNameTheTask, HashesAreCurrent, ImportedAsLocked, Hashed
<1>7. CASE Tasks!ImportTask
  BY <1>7 DEF Tasks!ImportTask, Tasks!Exit, Tasks!Goes, Locked, TasksTyped,
              LocksNameTheTask, HashesAreCurrent, ImportedAsLocked, Hashed
<1>8. CASE Tasks!ReadGrader
  BY <1>8 DEF Tasks!ReadGrader, Tasks!Goes, TasksTyped,
              LocksNameTheTask, HashesAreCurrent, ImportedAsLocked, Hashed
<1>9. CASE Tasks!EnforcePins
  BY <1>9 DEF Tasks!EnforcePins, Tasks!Exit, TasksTyped,
              LocksNameTheTask, HashesAreCurrent, ImportedAsLocked, Hashed
<1>10. CASE Tasks!EditFile \/ Tasks!RemoveFile
  <2>1. PICK f \in Tasks!Pack, version \in Nat : Tasks!Change(f, version)
    BY <1>10 DEF Tasks!EditFile, Tasks!RemoveFile, TasksTyped
  <2>2. \A g \in {"task.py", "grader"} : pack'[g] = pack[g] \/ g \in touched'
                                       \/ g \notin DOMAIN found \cap Tasks!ReadLater
    BY <2>1 DEF Tasks!Change, TasksTyped, Tasks!Pack, Tasks!Judged
  <2>3. /\ pack' \in [Tasks!Pack -> Nat] /\ versions' \in Nat /\ touched \subseteq touched'
        /\ UNCHANGED <<lock, heldLock, taskCommand, taskAt, toHash, found, module, graded>>
    BY <1>10, <2>1 DEF Tasks!EditFile, Tasks!RemoveFile, Tasks!Change, TasksTyped
  <2> QED
    BY <2>2, <2>3 DEF Tasks!ReadLater, TasksTyped, LocksNameTheTask, HashesAreCurrent,
                      ImportedAsLocked, Hashed
<1>11. CASE Tasks!EditLock
  <2>1. PICK f \in DOMAIN lock.digests :
          \/ Tasks!Edited([lock.digests EXCEPT ![f] = pack[f]])
          \/ Tasks!Edited([g \in DOMAIN lock.digests \ {f} |-> lock.digests[g]])
    BY <1>11 DEF Tasks!EditLock
  <2>2. PICK names \in SUBSET Tasks!Judged : lock.digests \in [names -> Nat]
    BY DEF TasksTyped, Locks, Digests
  <2>3. /\ [lock.digests EXCEPT ![f] = pack[f]] \in [names -> Nat]
        /\ [g \in DOMAIN lock.digests \ {f} |-> lock.digests[g]] \in [names \ {f} -> Nat]
    BY <2>1, <2>2 DEF TasksTyped, Tasks!Pack
  <2>4. PICK digests \in Digests : lock' = [lock EXCEPT !.digests = digests, !.valid = FALSE]
    <3>1. names \ {f} \in SUBSET Tasks!Judged
      BY <2>2
    <3> QED
      BY <2>1, <2>3, <2>2, <3>1 DEF Tasks!Edited, Digests
  <2>5. lock' \in Locks /\ ~lock'.valid /\ lock'.pinned = lock.pinned
    BY <2>4, ZenonT(60) DEF TasksTyped, Locks
  <2> QED
    BY <1>11, <2>5 DEF Tasks!EditLock, TasksTyped, LocksNameTheTask, HashesAreCurrent,
                       ImportedAsLocked, Hashed
<1>12. CASE UNCHANGED Tasks!taskVars
  BY <1>12 DEF Tasks!taskVars, TasksTyped, LocksNameTheTask, HashesAreCurrent, ImportedAsLocked,
               Hashed
<1> QED
  BY <1>1, <1>2, <1>3, <1>4, <1>5, <1>6, <1>7, <1>8, <1>9, <1>10, <1>11, <1>12
  DEF Tasks!TaskNext, Tasks!Command

LEMMA StepOfTasks == [Next]_vars => [Tasks!TaskNext]_(Tasks!taskVars)
  BY DEF Next, Runs, vars, taskVars, Tasks!taskVars

(* However the files and the lock are edited, entries dropped from it or    *)
(* not: every file that the lock lists had its digest before the module was *)
(* imported, and the module and the grader, if it lists them, have it when  *)
(* they are read again, except for an edit in between; a lock that has the  *)
(* signature of lock-task lists the module (RepoTaskLoader.load).           *)
THEOREM TasksAreTheLockedOnes == Spec => []LoadedAsLocked
<1>1. Init => TaskInv
  BY TasksInitially DEF Init
<1>2. TaskInv /\ [Next]_vars => TaskInv'
  BY TaskStep, StepOfTasks
<1>3. TaskInv => LoadedAsLocked
  BY DEF TaskInv, TasksTyped, LocksNameTheTask, HashesAreCurrent, ImportedAsLocked, Hashed,
         LoadedAsLocked, Tasks!LoadedAsLocked, Locked
<1> QED
  BY <1>1, <1>2, <1>3, PTL DEF Spec

(***************************************************************************)
(* The hosted simulation client.                                           *)
(***************************************************************************)
Importing == {"import", "environment", "version", "upload", "finalize", "cleanup"}
Starting  == {"launch", "poll", "asleep"}
Previews  == {"grant", "login", "grantAgain", "loginAgain", "image", "return"}
Stopping  == {"except", "stop", "verify"}
Releases  == call.op = "render" /\ call.wait /\ ~call.keepSession

SimTyped == /\ simAt \in Importing \cup Starting \cup Previews \cup Stopping \cup {"done"}
            /\ call \in Sim!Calls /\ (call.op # "import" => call.require)
            /\ primary \in {"none", "error"}

(* How far the environment and the bundle are when a request is made. *)
ImportInOrder ==
  /\ simAt \in Importing => session = "none" /\ simOutcome = "none"
  /\ simAt \in {"import", "environment"} => env = "none"
  /\ simAt = "import" => bundle = "none"
  /\ simAt \in Importing \ {"import"} => bundle # "none"
  /\ simAt = "version" => env = "created"
  /\ simAt = "upload" => env = "versioned"
  /\ simAt = "finalize" => env = "uploaded"
  /\ simAt = "cleanup" => env = "finalized"
  /\ simAt \in Starting \cup Previews \cup Stopping =>
       /\ env = "finalized" \/ (env = "none" /\ call.asset = "reference")
       /\ bundle # "temporary" /\ simOutcome = "none"
  /\ bundle = "temporary" => ~call.keepBundle

(* Past its launch a render that releases its session passes the stop. *)
StopOnTheWay ==
  /\ simAt \in Starting => call.op # "import"
  /\ simAt \in Previews \cup Stopping => call.op = "render"
  /\ simAt \in {"stop", "verify"} => Releases
  /\ primary # "none" => simAt \in Stopping \cup {"done"}
  /\ simAt = "except" => primary # "none"
  /\ simAt = "verify" => stopAsked
  /\ simAt \notin {"stop", "verify", "done"} => ~stopAsked
  /\ simAt \in Importing \cup Starting => ~launched
  /\ simAt \in Previews \cup Stopping => launched

SimInv == /\ SimTyped /\ ImportInOrder /\ StopOnTheWay
          /\ Sim!RenderReleasesItsSession /\ Sim!NothingHalfMade

LEMMA SimInitially == Sim!SimInit => SimInv
  BY DEF Sim!SimInit, SimInv, SimTyped, ImportInOrder, StopOnTheWay, Importing, Starting, Previews,
         Stopping, Sim!RenderReleasesItsSession, Sim!NothingHalfMade

LEMMA SimStep == SimInv /\ [Sim!SimNext]_(Sim!simVars) => SimInv'
<1> SUFFICES ASSUME SimInv, [Sim!SimNext]_(Sim!simVars) PROVE SimInv'
  OBVIOUS
<1> USE DEF SimInv, SimTyped, ImportInOrder, StopOnTheWay, Importing, Starting, Previews, Stopping,
            Releases, Sim!RenderReleasesItsSession, Sim!NothingHalfMade, Sim!End, Sim!Terminal,
            Sim!Advances, Sim!LaunchFails
<1>1. CASE Sim!ImportSteps
  <2>1. CASE Sim!ImportExisting
    BY <2>1 DEF Sim!ImportExisting, Sim!Imported, Sim!Calls
  <2>2. CASE Sim!ImportRejected
    BY <2>2 DEF Sim!ImportRejected
  <2>3. CASE Sim!ImportPackageOnly
    BY <2>3 DEF Sim!ImportPackageOnly, Sim!Calls
  <2>4. CASE Sim!Package
    BY <2>4 DEF Sim!Package, Sim!Calls
  <2>5. CASE Sim!CreateEnvironment
    BY <2>5 DEF Sim!CreateEnvironment, Sim!ImportRequest
  <2>6. CASE Sim!CreateVersion
    BY <2>6 DEF Sim!CreateVersion, Sim!ImportRequest
  <2>7. CASE Sim!UploadBundle
    BY <2>7 DEF Sim!UploadBundle, Sim!ImportRequest
  <2>8. CASE Sim!Finalize
    BY <2>8 DEF Sim!Finalize, Sim!ImportRequest
  <2>9. CASE Sim!Cleanup
    <3>1. bundle' # "temporary"
      BY <2>9 DEF Sim!Cleanup
    <3>2. CASE call.op = "import"
      BY <2>9, <3>1, <3>2 DEF Sim!Cleanup, Sim!Imported
    <3>3. CASE call.op # "import"
      BY <2>9, <3>1, <3>3 DEF Sim!Cleanup, Sim!Imported
    <3> QED
      BY <3>2, <3>3
  <2> QED
    BY <1>1, <2>1, <2>2, <2>3, <2>4, <2>5, <2>6, <2>7, <2>8, <2>9 DEF Sim!ImportSteps
<1>2. CASE Sim!LaunchSteps
  <2>1. CASE Sim!StartSession
    BY <2>1 DEF Sim!StartSession, Sim!Launched, Sim!Calls
  <2>2. CASE Sim!Poll
    BY <2>2 DEF Sim!Poll, Sim!Transient, Sim!Launched, Sim!Calls
  <2>3. CASE Sim!PollAgain
    BY <2>3 DEF Sim!PollAgain
  <2>4. CASE Sim!RetryExpired
    BY <2>4 DEF Sim!RetryExpired
  <2> QED
    BY <1>2, <2>1, <2>2, <2>3, <2>4 DEF Sim!LaunchSteps
<1>3. CASE Sim!RenderSteps
  <2>1. ASSUME NEW here \in Previews, NEW next \in Previews, here # "return",
               Sim!PreviewStep(here, next)
        PROVE  SimInv'
    BY <2>1 DEF Sim!PreviewStep
  <2>2. CASE Sim!PreviewUrl \/ Sim!Download
    BY <2>1, <2>2 DEF Sim!PreviewUrl, Sim!Download
  <2>3. CASE Sim!RenderFails
    BY <2>3 DEF Sim!RenderFails
  <2>4. CASE Sim!RenderEnds
    BY <2>4 DEF Sim!RenderEnds
  <2>5. CASE Sim!StopSession
    BY <2>5 DEF Sim!StopSession, Sim!Transient, Sim!StopFails, Sim!StopReturns
  <2>6. CASE Sim!VerifyStop
    BY <2>6 DEF Sim!VerifyStop, Sim!Transient, Sim!StopFails, Sim!StopReturns, Sim!StopAccepted
  <2> QED
    BY <1>3, <2>2, <2>3, <2>4, <2>5, <2>6 DEF Sim!RenderSteps
<1>4. CASE Sim!SessionMoves
  BY <1>4 DEF Sim!SessionMoves
<1>5. CASE Sim!DeadlinePasses
  BY <1>5 DEF Sim!DeadlinePasses
<1>6. CASE UNCHANGED Sim!simVars
  BY <1>6 DEF Sim!simVars
<1> QED
  BY <1>1, <1>2, <1>3, <1>4, <1>5, <1>6 DEF Sim!SimNext, Sim!ClientStep

LEMMA StepOfSim == [Next]_vars => [Sim!SimNext]_(Sim!simVars)
  BY DEF Next, Runs, vars, simVars, Sim!simVars

(* Whatever request fails, before or after the service acted on it, a render *)
(* that waits asks for the stop of its session exactly if its launch has     *)
(* returned, it returns only with its session released and without an error, *)
(* and only a failed import leaves something half made, without a session    *)
(* (render, stop_session, import_asset).                                     *)
THEOREM SimulationsTidyUp == Spec => []SimulationsCleanUp
<1>1. Init => SimInv
  BY SimInitially DEF Init
<1>2. SimInv /\ [Next]_vars => SimInv'
  BY SimStep, StepOfSim
<1>3. SimInv => SimulationsCleanUp
  BY DEF SimInv, SimulationsCleanUp
<1> QED
  BY <1>1, <1>2, <1>3, PTL DEF Spec

(***************************************************************************)
(* The commands of splats.                                                 *)
(***************************************************************************)
SplatTyped == /\ splat.command \in {"upload", "convert", "status"}
              /\ splat.convert \in BOOLEAN /\ splat.wait \in BOOLEAN
              /\ splat.command = "status" => ~splat.convert /\ ~splat.wait
              /\ job \in {"none", "queued", "succeeded", "failed"}
              /\ stage \in {"upload", "presign", "put", "convert", "poll", "asleep", "status",
                            "artifacts", "end"}

(* What is known of the file and of the job where the next request is made. *)
RequestsInOrder ==
  /\ stage \in {"upload", "presign", "put"} => job = "none"
  /\ stage \in {"presign", "put", "convert", "poll", "asleep"} => splat.file = "standard"
  /\ stage \in {"convert", "poll", "asleep", "artifacts"} => uploaded = "whole"
  /\ stage = "status" => splat.command = "status"
  /\ stage = "artifacts" => job = "succeeded"
  /\ result = "ok" => stage = "end"

SplatInv == SplatTyped /\ RequestsInOrder /\ Splat!JobsHaveTheirFile

LEMMA SplatInitially == Splat!SplatInit => SplatInv
  BY DEF Splat!SplatInit, SplatInv, SplatTyped, RequestsInOrder, Splat!JobsHaveTheirFile

LEMMA SplatStepKeeps == SplatInv /\ [Splat!SplatNext]_(Splat!splatVars) => SplatInv'
<1> SUFFICES ASSUME SplatInv, [Splat!SplatNext]_(Splat!splatVars) PROVE SplatInv'
  OBVIOUS
<1> USE DEF SplatInv, SplatTyped, RequestsInOrder, Splat!JobsHaveTheirFile, Splat!Finishes,
            Splat!Moves, Splat!Prints
<1>1. CASE Splat!DetectFormat
  BY <1>1 DEF Splat!DetectFormat
<1>2. CASE Splat!Presign
  BY <1>2 DEF Splat!Presign
<1>3. CASE Splat!PutFile
  BY <1>3 DEF Splat!PutFile
<1>4. CASE Splat!CreateJob
  BY <1>4 DEF Splat!CreateJob
<1>5. CASE Splat!WaitForJob
  BY <1>5 DEF Splat!WaitForJob
<1>6. CASE Splat!PollAgain
  BY <1>6 DEF Splat!PollAgain
<1>7. CASE Splat!JobStatus
  BY <1>7 DEF Splat!JobStatus
<1>8. CASE Splat!Artifacts
  BY <1>8 DEF Splat!Artifacts
<1>9. CASE Splat!JobRuns
  BY <1>9 DEF Splat!JobRuns
<1>10. CASE Splat!Expire
  BY <1>10 DEF Splat!Expire
<1>11. CASE UNCHANGED Splat!splatVars
  BY <1>11 DEF Splat!splatVars
<1> QED
  BY <1>1, <1>2, <1>3, <1>4, <1>5, <1>6, <1>7, <1>8, <1>9, <1>10, <1>11
  DEF Splat!SplatNext, Splat!SplatStep

LEMMA StepOfSplat == [Next]_vars => [Splat!SplatNext]_(Splat!splatVars)
  BY DEF Next, Runs, vars, splatVars, Splat!splatVars

LEMMA SplatStepsKeep ==
  /\ Init => SplatInv
  /\ SplatInv /\ [Next]_vars => SplatInv'
BY SplatInitially, SplatStepKeeps, StepOfSplat DEF Init

(***************************************************************************)
(* Robot artifacts.                                                        *)
(***************************************************************************)
Episodes == [n : Nat, task : Robots!Tasks, seed : Robots!Seeds, folder : Robots!Folders,
             frames : Nat, limit : Nat,
             at : {"reset", "step", "close", "rollout", "metrics", "record"}]

Rollouts == [n : Nat, frames : Nat, task : Robots!Tasks \cup {Robots!Unreadable.task}]

RobotTyped == /\ episodes \in Nat
              /\ folder \in [Robots!Folders -> Rollouts]
              /\ \A r \in records : r.n \in Nat /\ r.n > 0 /\ r.folder \in Robots!Folders
              /\ \/ episode = [at |-> "over"]
                 \/ episode \in Episodes /\ episode.n = episodes /\ episodes > 0

(* A directory holds the rollout of the latest episode that was written    *)
(* there, which is of the task of its record.                              *)
LatestRollout ==
  /\ \A f \in Robots!Folders : folder[f].n <= episodes
  /\ episode.at \in {"metrics", "record"} => /\ folder[episode.folder].n = episode.n
                                            /\ folder[episode.folder].task = episode.task
  /\ episode.at # "over" => \A r \in records : r.n < episode.n
  /\ \A r \in records : \/ folder[r.folder] = Robots!Unreadable
                        \/ folder[r.folder].n >= r.n
  /\ \A r \in records : folder[r.folder].n = r.n => folder[r.folder].task = r.task
  /\ \A r \in records : r.n <= episodes

(* What a dataset says of the runs behind it. *)
DatasetsTellTheirTask ==
  /\ \A d \in datasets :
       /\ d.spaces = d.task.spaces
       /\ \A b \in d.behind : b.rollout.n = b.run.n => b.rollout.task = d.task
  /\ policy # Robots!None => policy.dataset \in datasets /\ policy.spaces = policy.dataset.spaces
  /\ asked # Robots!None => /\ policy # Robots!None
                            /\ Robots!PolicyMatchesTask(asked.task, policy)

(* A dataset of runs lists their ids and has the frames of their rollouts; *)
(* one that a world model generated has no runs and an id of its own kind. *)
DatasetsAddUp ==
  /\ IsFiniteSet(records)
  /\ \A d \in datasets :
       \/ d.runs = {} /\ DOMAIN d.id = {1, 2} /\ d.id[1].task = d.task
       \/ /\ IsFiniteSet(d.runs) /\ DOMAIN d.read = d.runs
          /\ \A r \in d.runs : d.read[r].frames \in Nat
          /\ d.frames = Robots!Frames(d.read)
          /\ DOMAIN d.id = {1, 2, 3} /\ d.id[1] = d.task /\ d.id[2] = Robots!SourceRuns(d.runs)

RobotInv == /\ RobotTyped /\ LatestRollout /\ DatasetsTellTheirTask
            /\ Robots!RolloutBehindRecord /\ Robots!GeneratedIsMarked

LEMMA NoRollout == Robots!Unreadable \in Rollouts /\ Robots!Unreadable.n = 0
  BY DEF Robots!Unreadable, Rollouts

LEMMA RobotsInitially == Robots!RobotInit => RobotInv
<1> SUFFICES ASSUME Robots!RobotInit PROVE RobotInv
  OBVIOUS
<1>1. folder \in [Robots!Folders -> Rollouts] /\ \A f \in Robots!Folders : folder[f].n = 0
  BY NoRollout DEF Robots!RobotInit
<1> QED
  BY <1>1 DEF Robots!RobotInit, RobotInv, RobotTyped, LatestRollout, DatasetsTellTheirTask,
     Robots!RolloutBehindRecord, Robots!GeneratedIsMarked

(* An episode touches no dataset and no policy. *)
LEMMA EpisodeStep ==
  ASSUME RobotInv, Robots!Episode
  PROVE  RobotTyped' /\ LatestRollout' /\ UNCHANGED <<datasets, policy, asked>>
<1> USE DEF RobotInv, RobotTyped, LatestRollout, Episodes
<1>1. CASE Robots!RunEpisode
  <2>1. PICK t \in Robots!Tasks, seed \in Robots!Seeds, f \in Robots!Folders, limit \in 0..MaxFrames :
          episode' = [n |-> episodes', task |-> t, seed |-> seed, folder |-> f, frames |-> 0,
                      limit |-> limit, at |-> "reset"]
    BY <1>1 DEF Robots!RunEpisode
  <2>2. limit \in Nat
    BY <2>1
  <2>3. episodes' = episodes + 1 /\ UNCHANGED <<folder, records, datasets, policy, asked>>
    BY <1>1 DEF Robots!RunEpisode
  <2>4. episode' \in Episodes /\ episode'.n = episodes' /\ episode'.at = "reset" /\ episodes' > 0
        /\ episodes' \in Nat
    BY <2>1, <2>2, <2>3
  <2>5. \A r \in records : r.n < episodes'
    <3>1. \A r \in records : r.n \in Nat /\ r.n <= episodes
      OBVIOUS
    <3> QED
      BY <2>3, <3>1
  <2>6. \A g \in Robots!Folders : folder[g].n <= episodes'
    <3>1. \A g \in Robots!Folders : folder[g].n \in Nat /\ folder[g].n <= episodes
      BY DEF Rollouts
    <3> QED
      BY <2>3, <3>1
  <2>7. \A r \in records : r.n <= episodes'
    BY <2>4, <2>5
  <2>8. RobotTyped'
    BY <2>3, <2>4
  <2>9. LatestRollout'
    <3> HIDE DEF Episodes
    <3> QED
      BY <2>3, <2>4, <2>5, <2>6, <2>7
  <2> QED
    BY <2>3, <2>8, <2>9
<1>2. CASE Robots!Reset
  BY <1>2 DEF Robots!Reset, Robots!At
<1>3. CASE Robots!EnvStep
  <2>1. CASE Robots!At("close")
    BY <1>3, <2>1 DEF Robots!EnvStep, Robots!At
  <2>2. ASSUME NEW next \in {"step", "close"},
               episode' = [episode EXCEPT !.frames = @ + 1, !.at = next]
        PROVE  episode' \in Episodes /\ episode'.n = episode.n /\ episode'.at = next
    <3>1. episode \in Episodes /\ episode.frames + 1 \in Nat
      BY <1>3 DEF Robots!EnvStep
    <3> QED
      BY <2>2, <3>1
  <2> QED
    BY <1>3, <2>1, <2>2 DEF Robots!EnvStep
<1>4. CASE Robots!Close
  BY <1>4 DEF Robots!Close, Robots!At, Robots!Order
<1>5. CASE Robots!WriteFile(Robots!Order)
  <2>1. CASE episode.at = "rollout"
    <3>1. /\ episode' = [episode EXCEPT !.at = "metrics"]
          /\ folder' = [folder EXCEPT ![episode.folder] = [n |-> episode.n, frames |-> episode.frames,
                                                           task |-> episode.task]]
          /\ UNCHANGED <<records, datasets, policy, asked, episodes>>
      BY <1>5, <2>1 DEF Robots!WriteFile, Robots!At, Robots!Order
    <3>2. episode \in Episodes /\ episode.n = episodes /\ episodes > 0
      BY <2>1
    <3>3. [n |-> episode.n, frames |-> episode.frames, task |-> episode.task] \in Rollouts
      BY <3>2 DEF Rollouts
    <3>4. /\ folder' \in [Robots!Folders -> Rollouts]
          /\ folder'[episode.folder].n = episode.n /\ folder'[episode.folder].task = episode.task
          /\ \A f \in Robots!Folders : f # episode.folder => folder'[f] = folder[f]
      BY <3>1, <3>2, <3>3
    <3>5. episode' \in Episodes /\ episode'.n = episode.n /\ episode'.at = "metrics"
          /\ episode'.folder = episode.folder /\ episode'.task = episode.task
      BY <3>1, <3>2
    <3>6. \A r \in records : r.n \in Nat /\ r.n < episode.n /\ r.n <= episodes
      BY <2>1
    <3>7. \A f \in Robots!Folders : folder'[f].n <= episodes
      BY <3>2, <3>4
    <3>8. RobotTyped'
      BY <3>1, <3>2, <3>4, <3>5
    <3>9. \A r \in records : /\ folder'[r.folder] = Robots!Unreadable \/ folder'[r.folder].n >= r.n
                             /\ folder'[r.folder].n = r.n => folder'[r.folder].task = r.task
      BY <3>2, <3>4, <3>6
    <3>10. LatestRollout'
      BY <3>1, <3>4, <3>5, <3>6, <3>7, <3>9
    <3> QED
      BY <3>1, <3>8, <3>10
  <2>2. CASE episode.at = "metrics"
    BY <1>5, <2>2 DEF Robots!WriteFile, Robots!At, Robots!Order
  <2>3. CASE episode.at = "record"
    BY <1>5, <2>3 DEF Robots!WriteFile, Robots!At, Robots!Order
  <2> QED
    BY <1>5, <2>1, <2>2, <2>3 DEF Robots!WriteFile, Robots!Order
<1>6. CASE Robots!Kill
  <2>1. /\ episode' = [at |-> "over"] /\ UNCHANGED <<records, datasets, policy, asked, episodes>>
        /\ \/ UNCHANGED folder
           \/ \E g \in Robots!Folders : folder' = [folder EXCEPT ![g] = Robots!Unreadable]
    BY <1>6 DEF Robots!Kill
  <2>2. CASE UNCHANGED folder
    BY <2>1, <2>2
  <2>3. ASSUME NEW g \in Robots!Folders, folder' = [folder EXCEPT ![g] = Robots!Unreadable]
        PROVE  RobotTyped' /\ LatestRollout'
    <3>1. /\ folder' \in [Robots!Folders -> Rollouts] /\ folder'[g] = Robots!Unreadable
          /\ \A f \in Robots!Folders : f # g => folder'[f] = folder[f]
      BY <2>3, NoRollout
    <3>2. \A r \in records : /\ folder'[r.folder] = Robots!Unreadable \/ folder'[r.folder].n >= r.n
                             /\ folder'[r.folder].n = r.n => folder'[r.folder].task = r.task
      BY <3>1, NoRollout
    <3>3. \A f \in Robots!Folders : folder'[f].n <= episodes
      BY <3>1, NoRollout
    <3> QED
      BY <2>1, <3>1, <3>2, <3>3
  <2> QED
    BY <2>1, <2>2, <2>3
<1> QED
  BY <1>1, <1>2, <1>3, <1>4, <1>5, <1>6 DEF Robots!Episode

LEMMA RobotStep == RobotInv /\ [Robots!RobotNext]_(Robots!robotVars) => RobotInv'
<1> SUFFICES ASSUME RobotInv, [Robots!RobotNext]_(Robots!robotVars) PROVE RobotInv'
  OBVIOUS
<1> USE DEF RobotInv, DatasetsTellTheirTask, Robots!RolloutBehindRecord, Robots!GeneratedIsMarked
<1>1. CASE Robots!Episode
  BY <1>1, EpisodeStep
<1>2. CASE Robots!DatasetFromRuns
  <2>1. PICK t \in Robots!Tasks, chosenRuns \in (SUBSET records) \ {{}},
             provenance \in Robots!DATA_PROVENANCE :
          LET read == [r \in chosenRuns |-> folder[r.folder]] IN
          /\ Robots!OfTask(t, chosenRuns)
          /\ \A r \in chosenRuns : read[r] # Robots!Unreadable
          /\ datasets' = datasets \cup
               {Robots!TrajectoryDataset(<<t, Robots!SourceRuns(chosenRuns), provenance>>, t, t.spaces,
                                         read, Robots!Frames(read), provenance, {},
                                         {[run |-> r, rollout |-> read[r]] : r \in chosenRuns})}
    BY <1>2 DEF Robots!DatasetFromRuns
  <2> DEFINE read == [r \in chosenRuns |-> folder[r.folder]]
             new == Robots!TrajectoryDataset(<<t, Robots!SourceRuns(chosenRuns), provenance>>, t,
                      t.spaces, read, Robots!Frames(read), provenance, {},
                      {[run |-> r, rollout |-> read[r]] : r \in chosenRuns})
  <2>2. /\ new.task = t /\ new.spaces = t.spaces /\ new.runs = chosenRuns /\ new.read = read
        /\ new.provenance = provenance
        /\ new.behind = {[run |-> r, rollout |-> read[r]] : r \in chosenRuns}
    BY DEF Robots!TrajectoryDataset
  <2>3. datasets' = datasets \cup {new}
    BY <2>1, Zenon
  <2>4. chosenRuns # {} /\ chosenRuns \subseteq records
    OBVIOUS
  <2>5. \A r \in chosenRuns : read[r].n >= r.n /\ (read[r].n = r.n => read[r].task = t)
    BY <2>1 DEF Robots!OfTask, RobotTyped, LatestRollout
  <2>10. \A b \in new.behind : b.rollout.n = b.run.n => b.rollout.task = t
    <3> HIDE DEF new, read
    <3> QED
      BY <2>2, <2>5
  <2>6. UNCHANGED <<folder, episode, records, policy, asked, episodes>>
    BY <1>2 DEF Robots!DatasetFromRuns
  <2> HIDE DEF new, read
  <2>7. RobotTyped' /\ LatestRollout'
    BY <2>6 DEF RobotTyped, LatestRollout
  <2>8. DatasetsTellTheirTask'
    BY <2>2, <2>3, <2>10, <2>6 DEF Robots!PolicyMatchesTask
  <2>9. Robots!RolloutBehindRecord' /\ Robots!GeneratedIsMarked'
    BY <2>2, <2>3, <2>4, <2>5
  <2> QED
    BY <2>7, <2>8, <2>9
<1>3. CASE Robots!DatasetFromWorldModel
  <2>1. PICK model \in Robots!WorldModels, d \in datasets, provenance \in Robots!DATA_PROVENANCE,
             refs \in {{}, {"synthetic"}, {"sim", "synthetic"}}, frame_count \in {1, 2} :
          /\ Robots!Matches(model, d) /\ Robots!Permitted(provenance, refs)
          /\ datasets' = datasets \cup
               {Robots!TrajectoryDataset(<<model, provenance>>, model.task, d.spaces, <<>>, frame_count,
                                         provenance, refs \cup {"synthetic", d.provenance}, d.behind)}
    BY <1>3, Zenon DEF Robots!DatasetFromWorldModel
  <2> DEFINE new == Robots!TrajectoryDataset(<<model, provenance>>, model.task, d.spaces, <<>>, frame_count,
                                  provenance, refs \cup {"synthetic", d.provenance}, d.behind)
  <2>2. /\ new.task = d.task /\ new.spaces = d.spaces /\ new.runs = {} /\ new.behind = d.behind
        /\ new.provenance = provenance /\ refs \subseteq new.refs
    BY <2>1 DEF Robots!TrajectoryDataset, Robots!Matches
  <2>3. datasets' = datasets \cup {new}
    BY <2>1
  <2>4. UNCHANGED <<folder, episode, records, policy, asked, episodes>>
    BY <1>3 DEF Robots!DatasetFromWorldModel
  <2> HIDE DEF new
  <2>5. /\ provenance \notin {"sim", "real"}
        /\ provenance = "mixed" => Robots!Grounded(new.refs)
    BY <2>1, <2>2 DEF Robots!Permitted, Robots!Grounded
  <2>6. RobotTyped' /\ LatestRollout'
    BY <2>4 DEF RobotTyped, LatestRollout
  <2>7. DatasetsTellTheirTask'
    BY <2>2, <2>3, <2>4 DEF Robots!PolicyMatchesTask
  <2>8. Robots!RolloutBehindRecord' /\ Robots!GeneratedIsMarked'
    BY <2>2, <2>3, <2>5
  <2> QED
    BY <2>6, <2>7, <2>8
<1>4. CASE Robots!TrainPolicy
  <2>1. asked = Robots!None /\ UNCHANGED <<folder, episode, records, datasets, asked, episodes>>
    BY <1>4 DEF Robots!TrainPolicy, Robots!Idle
  <2>2. PICK d \in datasets, t \in Robots!Tasks, robot \in {"of the task", "another"} :
          policy' = Robots!PolicyArtifact(t, robot, d)
    BY <1>4, Zenon DEF Robots!TrainPolicy
  <2>3. policy'.dataset \in datasets /\ policy'.spaces = policy'.dataset.spaces
    BY <2>2 DEF Robots!PolicyArtifact
  <2> QED
    BY <2>1, <2>3 DEF RobotTyped, LatestRollout, Robots!None
<1>5. CASE Robots!Evaluate \/ Robots!Replay
  <2>1. /\ policy # Robots!None
        /\ UNCHANGED <<folder, episode, records, datasets, policy, episodes>>
    BY <1>5 DEF Robots!Evaluate, Robots!Replay
  <2>2. PICK t \in Robots!Tasks : Robots!PolicyMatchesTask(t, policy) /\ asked'.task = t
    <3>1. CASE Robots!Evaluate
      BY <3>1 DEF Robots!Evaluate
    <3>2. CASE Robots!Replay
      <4>1. PICK t \in Robots!Tasks : /\ Robots!PolicyMatchesTask(t, policy)
                                      /\ asked' = [for |-> "replay", task |-> t]
        BY <3>2 DEF Robots!Replay
      <4> QED
        BY <4>1
    <3> QED
      BY <1>5, <3>1, <3>2
  <2> QED
    BY <2>1, <2>2 DEF RobotTyped, LatestRollout, Robots!PolicyMatchesTask, Robots!None
<1>6. CASE UNCHANGED Robots!robotVars
  BY <1>6 DEF Robots!robotVars, RobotTyped, LatestRollout, Robots!PolicyMatchesTask
<1> QED
  BY <1>1, <1>2, <1>3, <1>4, <1>5, <1>6 DEF Robots!RobotNext

LEMMA RobotsCardinality ==
  ASSUME NEW S
  PROVE  Robots!Cardinality(S) = Cardinality(S)
  BY DEF Robots!Cardinality, Cardinality

(* An episode and the training of a policy make no dataset. *)
LEMMA AddUpKept ==
  ASSUME DatasetsAddUp, Robots!Episode \/ UNCHANGED <<datasets, records>>
  PROVE  DatasetsAddUp'
<1>1. CASE Robots!WriteFile(Robots!Order)
  <2>1. UNCHANGED datasets /\ \E r : records' \in {records, records \cup {r}}
    BY <1>1 DEF Robots!WriteFile
  <2>2. IsFiniteSet(records')
    BY <2>1, FS_AddElement DEF DatasetsAddUp
  <2> QED
    BY <2>1, <2>2 DEF DatasetsAddUp
<1>2. CASE ~Robots!WriteFile(Robots!Order)
  <2>1. UNCHANGED <<datasets, records>>
    BY <1>2 DEF Robots!Episode, Robots!RunEpisode, Robots!Reset, Robots!EnvStep, Robots!Close,
       Robots!Kill
  <2> QED
    BY <2>1 DEF DatasetsAddUp
<1> QED
  BY <1>1, <1>2

LEMMA AddUpFromRuns ==
  ASSUME DatasetsAddUp, RobotTyped, Robots!DatasetFromRuns
  PROVE  DatasetsAddUp'
<1>1. PICK t \in Robots!Tasks, chosenRuns \in (SUBSET records) \ {{}},
           provenance \in Robots!DATA_PROVENANCE :
        LET read == [r \in chosenRuns |-> folder[r.folder]] IN
        /\ datasets' = datasets \cup
             {Robots!TrajectoryDataset(<<t, Robots!SourceRuns(chosenRuns), provenance>>, t, t.spaces,
                                       read, Robots!Frames(read), provenance, {},
                                       {[run |-> r, rollout |-> read[r]] : r \in chosenRuns})}
  BY DEF Robots!DatasetFromRuns
<1> DEFINE read == [r \in chosenRuns |-> folder[r.folder]]
           id == <<t, Robots!SourceRuns(chosenRuns), provenance>>
           new == Robots!TrajectoryDataset(id, t, t.spaces, read, Robots!Frames(read), provenance,
                                           {}, {[run |-> r, rollout |-> read[r]] : r \in chosenRuns})
<1>2. datasets' = datasets \cup {new} /\ records' = records
  BY <1>1, Zenon DEF Robots!DatasetFromRuns
<1>3. DOMAIN id = {1, 2, 3} /\ id[1] = t /\ id[2] = Robots!SourceRuns(chosenRuns)
  <2> DEFINE s == Robots!SourceRuns(chosenRuns)
  <2> HIDE DEF s
  <2>1. /\ DOMAIN <<t, s, provenance>> = {1, 2, 3}
        /\ <<t, s, provenance>>[1] = t /\ <<t, s, provenance>>[2] = s
    OBVIOUS
  <2> QED
    BY <2>1 DEF s
<1>4. DOMAIN read = chosenRuns /\ \A r \in chosenRuns : read[r].frames \in Nat
  BY DEF RobotTyped, Rollouts
<1>5. IsFiniteSet(chosenRuns)
  BY FS_Subset DEF DatasetsAddUp
<1> HIDE DEF id, read
<1>6. /\ new.id = id /\ new.runs = chosenRuns /\ new.read = read
      /\ new.frames = Robots!Frames(read) /\ new.task = t
  BY <1>4 DEF Robots!TrajectoryDataset
<1> HIDE DEF new
<1> QED
  BY <1>2, <1>3, <1>4, <1>5, <1>6 DEF DatasetsAddUp

LEMMA AddUpFromWorldModel ==
  ASSUME DatasetsAddUp, Robots!DatasetFromWorldModel
  PROVE  DatasetsAddUp'
<1>1. PICK model \in Robots!WorldModels, d \in datasets, provenance \in Robots!DATA_PROVENANCE,
           refs \in {{}, {"synthetic"}, {"sim", "synthetic"}}, frame_count \in {1, 2} :
        datasets' = datasets \cup
          {Robots!TrajectoryDataset(<<model, provenance>>, model.task, d.spaces, <<>>, frame_count,
                                    provenance, refs \cup {"synthetic", d.provenance}, d.behind)}
  BY ZenonT(60) DEF Robots!DatasetFromWorldModel
<1> DEFINE new == Robots!TrajectoryDataset(<<model, provenance>>, model.task, d.spaces, <<>>, frame_count,
                                  provenance, refs \cup {"synthetic", d.provenance}, d.behind)
<1>2. datasets' = datasets \cup {new} /\ records' = records
  BY <1>1, Zenon DEF Robots!DatasetFromWorldModel
<1>3. DOMAIN <<model, provenance>> = {1, 2} /\ <<model, provenance>>[1] = model
  OBVIOUS
<1>4. new.id = <<model, provenance>> /\ new.runs = {} /\ new.task = model.task
  BY DEF Robots!TrajectoryDataset
<1> HIDE DEF new
<1> QED
  BY <1>2, <1>3, <1>4 DEF DatasetsAddUp

LEMMA FramesAreTotal ==
  ASSUME NEW read, IsFiniteSet(DOMAIN read)
  PROVE  Robots!Frames(read) = Total([r \in DOMAIN read |-> read[r].frames], DOMAIN read)
<1> DEFINE S == DOMAIN read
           f == [r \in S |-> read[r].frames]
           Adds(g) == g = [s \in SUBSET S |-> IF s = {} THEN 0
                             ELSE read[Some(s)].frames + g[s \ {Some(s)}]]
           h == CHOOSE g : Adds(g)
<1>1. Robots!Frames(read) = h[S]
  BY DEF Robots!Frames, Robots!MapThenSumSet, Robots!MapThenFoldSet, Some
<1>2. \A s \in SUBSET S : s # {} => f[Some(s)] = read[Some(s)].frames
  BY SomeIsIn
<1>3. ASSUME NEW g PROVE Adds(g) <=> Sums(g, f, S)
  BY <1>2 DEF Sums
<1>4. Sums(h, f, S)
  <2>1. PICK g : Sums(g, f, S)
    <3> HIDE DEF f, S
    <3> QED
      BY SumsExist DEF S
  <2>2. Adds(g)
    BY <1>3, <2>1
  <2>3. Adds(h)
    <3> HIDE DEF Adds
    <3> QED
      BY <2>2
  <2> QED
    BY <1>3, <2>3
<1>5. S \in SUBSET S /\ IsFiniteSet(S)
  OBVIOUS
<1> HIDE DEF h, f, S, Adds
<1>6. Total(f, S) = h[S]
  BY <1>4, <1>5, TotalFromSums
<1> QED
  BY <1>1, <1>6 DEF f, S

(* Equal lists of run ids hold each id equally often. *)
LEMMA SameRunsSameCounts ==
  ASSUME NEW R, NEW S, Robots!SourceRuns(R) = Robots!SourceRuns(S), NEW i
  PROVE  Count([r \in R |-> Robots!RunId(r)], R, i) = Count([s \in S |-> Robots!RunId(s)], S, i)
<1> DEFINE idsOf(T) == {Robots!RunId(r) : r \in T}
           under(T) == {r \in T : Robots!RunId(r) = i}
<1>1. /\ DOMAIN Robots!SourceRuns(R) = idsOf(R) /\ DOMAIN Robots!SourceRuns(S) = idsOf(S)
      /\ i \in idsOf(R) => Robots!SourceRuns(R)[i] = Cardinality(under(R))
      /\ i \in idsOf(S) => Robots!SourceRuns(S)[i] = Cardinality(under(S))
  BY RobotsCardinality DEF Robots!SourceRuns
<1>2. idsOf(R) = idsOf(S)
  BY <1>1, Zenon
<1>3. Cardinality(under(R)) = Cardinality(under(S))
  <2>1. CASE i \in idsOf(R)
    <3> HIDE DEF idsOf, under
    <3> QED
      BY <1>1, <1>2, <2>1, Zenon
  <2>2. CASE i \notin idsOf(R)
    <3>1. under(R) = {} /\ under(S) = {}
      BY <1>2, <2>2
    <3> QED
      BY <3>1
  <2> QED
    BY <2>1, <2>2
<1>4. /\ {r \in R : [x \in R |-> Robots!RunId(x)][r] = i} = under(R)
      /\ {s \in S : [x \in S |-> Robots!RunId(x)][s] = i} = under(S)
  OBVIOUS
<1> QED
  BY <1>3, <1>4 DEF Count

LEMMA KindsOfIds == {1, 2} # {1, 2, 3}
<1>1. 3 \in {1, 2, 3} /\ 3 \notin {1, 2}
  OBVIOUS
<1> QED
  BY <1>1

LEMMA IdsTellTasks ==
  ASSUME DatasetsAddUp, DatasetsTellTheirTask, NEW d \in datasets, NEW e \in datasets, d.id = e.id
  PROVE  d.task = e.task /\ d.spaces = e.spaces
<1>1. d.task = e.task
  BY KindsOfIds, Zenon DEF DatasetsAddUp
<1> QED
  BY <1>1 DEF DatasetsTellTheirTask

LEMMA IdsTell == RobotInv /\ DatasetsAddUp => Robots!IdsTellDatasetsApart
<1> SUFFICES ASSUME RobotInv, DatasetsAddUp, NEW d \in datasets, NEW e \in datasets, d.id = e.id,
                    d.runs # {},
                    \A r \in d.runs, s \in e.runs :
                      Robots!RunId(r) = Robots!RunId(s) => d.read[r] = e.read[s]
             PROVE  d.frames = e.frames
  BY IdsTellTasks DEF RobotInv, Robots!IdsTellDatasetsApart
<1>1. CASE DOMAIN d.id = {1, 2}
  BY <1>1, KindsOfIds DEF DatasetsAddUp
<1>2. CASE DOMAIN d.id # {1, 2}
  <2> DEFINE R == d.runs
             S == e.runs
             k == [r \in R |-> Robots!RunId(r)]
             l == [s \in S |-> Robots!RunId(s)]
             f == [r \in R |-> d.read[r].frames]
             h == [s \in S |-> e.read[s].frames]
  <2>1. /\ IsFiniteSet(R) /\ DOMAIN d.read = R /\ \A r \in R : d.read[r].frames \in Nat
        /\ d.frames = Robots!Frames(d.read) /\ d.id[2] = Robots!SourceRuns(R)
    BY <1>2 DEF DatasetsAddUp
  <2>2. /\ IsFiniteSet(S) /\ DOMAIN e.read = S /\ \A s \in S : e.read[s].frames \in Nat
        /\ e.frames = Robots!Frames(e.read) /\ e.id[2] = Robots!SourceRuns(S)
    BY <1>2 DEF DatasetsAddUp
  <2>3. d.frames = Total(f, R) /\ e.frames = Total(h, S)
    BY <2>1, <2>2, FramesAreTotal
  <2>4. \A i : Count(k, R, i) = Count(l, S, i)
    BY <2>1, <2>2, SameRunsSameCounts
  <2>5. (\A r \in R : f[r] \in Int) /\ (\A s \in S : h[s] \in Int)
    BY <2>1, <2>2
  <2>6. \A r \in R, s \in S : k[r] = l[s] => f[r] = h[s]
    OBVIOUS
  <2> HIDE DEF R, S, k, l, f, h
  <2>7. Match(R, S, k, l, f, h)
    BY <2>4, <2>5, <2>6 DEF Match
  <2>8. Total(f, R) = Total(h, S)
    BY <2>1, <2>2, <2>7, SameKeysSameSum
  <2> QED
    BY <2>3, <2>8
<1> QED
  BY <1>1, <1>2

LEMMA AddUpStep == RobotInv /\ DatasetsAddUp /\ [Robots!RobotNext]_(Robots!robotVars) => DatasetsAddUp'
<1>1. ASSUME Robots!TrainPolicy \/ Robots!Evaluate \/ Robots!Replay \/ UNCHANGED Robots!robotVars
      PROVE  UNCHANGED <<datasets, records>>
  BY <1>1 DEF Robots!robotVars, Robots!TrainPolicy, Robots!Evaluate, Robots!Replay
<1> QED
  BY <1>1, AddUpKept, AddUpFromRuns, AddUpFromWorldModel DEF RobotInv, Robots!RobotNext

LEMMA StepOfRobots == [Next]_vars => [Robots!RobotNext]_(Robots!robotVars)
  BY DEF Next, Runs, vars, robotVars, Robots!robotVars

(* What is said of a robot artifact is true of the runs behind it: a record *)
(* stands for a rollout that was written whole, equal ids mean the same     *)
(* task and, of datasets made of runs, equally many frames unless a rollout *)
(* was replaced or two runs had one id, what was generated is marked, and a *)
(* policy is asked for in the spaces and for the task of the rollouts that  *)
(* were read, replaced ones excepted, for any number of episodes, datasets  *)
(* and directories that are used again (run_robot_episode,                  *)
(* create_trajectory_dataset_from_runs, train_policy).                      *)
THEOREM LineageIsTold == Spec => []LineageHolds
<1>1. Init => RobotInv /\ DatasetsAddUp
  <2>1. IsFiniteSet({})
    BY FS_EmptySet
  <2> QED
    BY <2>1, RobotsInitially DEF Init, Robots!RobotInit, DatasetsAddUp
<1>2. RobotInv /\ DatasetsAddUp /\ [Next]_vars => RobotInv' /\ DatasetsAddUp'
  BY RobotStep, AddUpStep, StepOfRobots
<1>3. RobotInv /\ DatasetsAddUp => LineageHolds
  BY IdsTell
  DEF RobotInv, DatasetsTellTheirTask, Robots!EvaluatedAsRecorded, Robots!PolicyMatchesTask,
      LineageHolds, Robots!LineageHolds
<1> QED
  BY <1>1, <1>2, <1>3, PTL DEF Spec


(***************************************************************************)
(* The stored login.                                                       *)
(***************************************************************************)
\* the keys that logins have made, the first one excepted
Minted == 2..minted

Past == {"poll", "whoami", "save", "replace", "revoke", "delete", "health", "capabilities"}
          \cup Auth!Over

AuthTyped == /\ minted \in Nat /\ minted >= 1
             /\ heldKey \in [Processes -> Nat] /\ heldUrl \in [Processes -> Nat]
             /\ disturbed \in [Processes -> {"no", "between", "after"}]
             /\ progress \in [Processes -> {"start"} \cup Auth!Reading \cup Past]
             /\ tempFile \in [Processes -> Int] /\ polls \in [Processes -> Nat]
             /\ runs \in [Processes -> Auth!Programs]

(* What a login has in its hands and in its temporary file. *)
LoginHoldsItsKey ==
  \A p \in Processes : runs[p] = "login" =>
    /\ progress[p] \in {"whoami", "save", "replace"} => heldKey[p] \in Minted
    /\ progress[p] \in {"start", "poll", "whoami"} => tempFile[p] = 0
    /\ progress[p] = "save" => tempFile[p] \in {0, Auth!Torn}
    /\ progress[p] = "replace" => tempFile[p] = heldKey[p]

FileIsSomebodys == file \in {0, 1, Auth!Malformed}
                   \/ \E p \in Processes : Auth!At(p, "login", "ok") /\ heldKey[p] = file

\* whose login it was, its key is one
SavedKeys == \A p \in Processes : Auth!At(p, "login", "ok") => heldKey[p] \in Minted

(* What a reader took from the file is there, until somebody disturbs it.  *)
Readers == {"client", "doctor", "status"}
ReadsAgree ==
  \A p \in Processes :
    /\ runs[p] \notin Readers => heldUrl[p] = 0
    /\ progress[p] = "start" => heldKey[p] = 0 /\ heldUrl[p] = 0 /\ disturbed[p] = "no"
    /\ progress[p] \in Auth!Reading => disturbed[p] # "after"
    /\ runs[p] \in Readers /\ disturbed[p] = "no" =>
         heldKey[p] \in {0, Auth!SafeLoad} /\ heldUrl[p] \in {0, Auth!SafeLoad}
    /\ disturbed[p] # "between" /\ heldKey[p] # 0 /\ heldUrl[p] # 0 => heldKey[p] = heldUrl[p]

AuthInv == AuthTyped /\ LoginHoldsItsKey /\ FileIsSomebodys /\ SavedKeys /\ ReadsAgree

LEMMA AuthInitially == Auth!CredentialsInit => AuthInv
  BY DEF Auth!CredentialsInit, AuthInv, AuthTyped, LoginHoldsItsKey, FileIsSomebodys, SavedKeys,
         ReadsAgree, Auth!At, Auth!Over, Auth!Reading, Past, Minted

(* A step of one process in which it makes no key, reads nothing and the   *)
(* file stays.                                                             *)
LEMMA QuietProcess ==
  ASSUME AuthTyped, LoginHoldsItsKey, FileIsSomebodys, SavedKeys, NEW p \in Processes, NEW next \in Past,
         progress' = [progress EXCEPT ![p] = next], progress[p] \notin Auth!Over,
         runs[p] = "login" => \/ next \in {"poll", "error", "killed"}
                              \/ progress[p] = "whoami" /\ next = "save",
         next = "poll" => progress[p] = "start",
         UNCHANGED <<file, minted, runs, heldKey, heldUrl, disturbed, polls, tempFile>>
  PROVE  (AuthTyped /\ LoginHoldsItsKey /\ FileIsSomebodys /\ SavedKeys)'
  BY ZenonT(60)
  DEF AuthTyped, LoginHoldsItsKey, FileIsSomebodys, SavedKeys, Auth!At, Auth!Over, Past, Minted

FileInv == AuthTyped /\ LoginHoldsItsKey /\ FileIsSomebodys /\ SavedKeys

LEMMA FileStep == FileInv /\ [Auth!CredentialsNext]_(Auth!credentialVars) => FileInv'
<1> SUFFICES ASSUME FileInv, [Auth!CredentialsNext]_(Auth!credentialVars) PROVE FileInv'
  OBVIOUS
<1>1. ASSUME NEW p \in Processes, Auth!Login(p) PROVE FileInv'
  <2> USE DEF Auth!Enters, Auth!Holds, Auth!Works, Auth!Keeps, Auth!Undisturbed, Auth!At, Auth!Over,
              Auth!Reading, Past
  <2>1. CASE Auth!RequestDeviceCode(p)
    BY <2>1, QuietProcess DEF Auth!RequestDeviceCode, FileInv, AuthTyped
  <2>2. CASE Auth!PollForToken(p)
    <3>1. CASE minted' = minted
      BY <2>2, <3>1 DEF Auth!PollForToken, FileInv, AuthTyped, LoginHoldsItsKey, FileIsSomebodys,
                        SavedKeys, Minted
    <3>2. CASE minted' = minted + 1
      BY <2>2, <3>2 DEF Auth!PollForToken, FileInv, AuthTyped, LoginHoldsItsKey, FileIsSomebodys,
                        SavedKeys, Minted
    <3> QED
      BY <2>2, <3>1, <3>2 DEF Auth!PollForToken
  <2>3. CASE Auth!WriteTemp(p)
    BY <2>3 DEF Auth!WriteTemp, FileInv, AuthTyped, LoginHoldsItsKey, FileIsSomebodys,
                SavedKeys, Minted, Auth!Torn
  <2>4. CASE Auth!WriteFails(p)
    BY <2>4 DEF Auth!WriteFails, FileInv, AuthTyped, LoginHoldsItsKey, FileIsSomebodys,
                SavedKeys, Minted
  <2>5. CASE Auth!Replace(p)
    <3>1. heldKey[p] \in Minted /\ file' = heldKey[p]
      BY <2>5 DEF Auth!Replace, FileInv, LoginHoldsItsKey
    <3>2. disturbed' \in [Processes -> {"no", "between", "after"}] /\ UNCHANGED heldUrl
      BY <2>5 DEF Auth!Replace, Auth!Disturbs, Auth!Disturbance, FileInv, AuthTyped
    <3>3. /\ progress' = [progress EXCEPT ![p] = "ok"] /\ tempFile' = [tempFile EXCEPT ![p] = 0]
          /\ runs[p] = "login" /\ progress[p] = "replace"
          /\ UNCHANGED <<minted, heldKey, runs, polls>>
      BY <2>5 DEF Auth!Replace
    <3>4. AuthTyped'
      BY <3>2, <3>3 DEF FileInv, AuthTyped
    <3> QED
      BY <3>1, <3>3, <3>4 DEF FileInv, AuthTyped, LoginHoldsItsKey, FileIsSomebodys, SavedKeys,
                              Minted
  <2>6. CASE runs[p] = "login" /\ Auth!AskWhoAmI(p, "save")
    BY <2>6 DEF Auth!AskWhoAmI, FileInv, AuthTyped, LoginHoldsItsKey, FileIsSomebodys,
                SavedKeys, Minted
  <2> QED
    BY <1>1, <2>1, <2>2, <2>3, <2>4, <2>5, <2>6 DEF Auth!Login
<1>2. ASSUME NEW p \in Processes, Auth!Logout(p) PROVE FileInv'
  <2> USE DEF Auth!Enters, Auth!Holds, Auth!Works, Auth!Keeps, Auth!Undisturbed, Auth!At, Auth!Over,
              Auth!Reading, Past
  <2>1. CASE Auth!LoadForLogout(p)
    BY <2>1 DEF Auth!LoadForLogout, Auth!Load, FileInv, AuthTyped, LoginHoldsItsKey, FileIsSomebodys,
                SavedKeys, Minted
  <2>2. CASE Auth!RevokeKey(p)
    BY <2>2, QuietProcess DEF Auth!RevokeKey, FileInv, AuthTyped
  <2>3. CASE Auth!DeleteFile(p)
    <3>1. disturbed' \in [Processes -> {"no", "between", "after"}] /\ UNCHANGED heldUrl
      BY <2>3 DEF Auth!DeleteFile, Auth!Disturbs, Auth!Disturbance, FileInv, AuthTyped
    <3> QED
      BY <2>3, <3>1 DEF Auth!DeleteFile, FileInv, AuthTyped, LoginHoldsItsKey, FileIsSomebodys,
                        SavedKeys, Minted
  <2> QED
    BY <1>2, <2>1, <2>2, <2>3 DEF Auth!Logout
<1>3. ASSUME NEW p \in Processes, Auth!Asks(p) \/ Auth!Kill(p) PROVE FileInv'
  <2> USE DEF Auth!Enters, Auth!Holds, Auth!Works, Auth!Keeps, Auth!Undisturbed, Auth!At, Auth!Over,
              Auth!Reading, Past
  <2>0. Auth!SafeLoad \in Nat /\ (Auth!Load = "ok" => file \in Nat)
    BY DEF Auth!SafeLoad, Auth!Load, FileInv, AuthTyped, FileIsSomebodys
  <2>1. CASE Auth!ResolveKey(p)
    <3>1. /\ progress' = [progress EXCEPT ![p] = progress'[p]]
          /\ progress'[p] \in {"url", "load", "health", "ok", "error"}
      BY <2>1 DEF Auth!ResolveKey, Auth!AfterKey, FileInv, AuthTyped
    <3>2. heldKey' \in [Processes -> Nat] /\ \A q \in Processes \ {p} : heldKey'[q] = heldKey[q]
      BY <2>0, <2>1 DEF Auth!ResolveKey, FileInv, AuthTyped
    <3>3. /\ UNCHANGED <<file, minted, runs, heldUrl, disturbed, tempFile, polls>>
          /\ runs[p] # "login" /\ progress[p] # "ok"
      BY <2>1 DEF Auth!ResolveKey
    <3>4. \A q \in Processes \ {p} : progress'[q] = progress[q] /\ heldKey'[q] = heldKey[q]
      BY <3>1, <3>2 DEF FileInv, AuthTyped
    <3>5. AuthTyped'
      <4>1. progress' \in [Processes -> {"start"} \cup Auth!Reading \cup Past]
        BY <3>1 DEF FileInv, AuthTyped
      <4> QED
        BY <3>2, <3>3, <4>1 DEF FileInv, AuthTyped
    <3> QED
      BY <3>3, <3>4, <3>5 DEF FileInv, LoginHoldsItsKey, FileIsSomebodys, SavedKeys, Minted
  <2>2. CASE Auth!LoadForStatus(p) \/ Auth!ResolveUrl(p)
    <3>1. heldUrl' \in [Processes -> Nat]
      BY <2>0, <2>2 DEF Auth!LoadForStatus, Auth!ResolveUrl, FileInv, AuthTyped
    <3> QED
      BY <2>2, <3>1 DEF Auth!LoadForStatus, Auth!ResolveUrl, FileInv, AuthTyped, LoginHoldsItsKey,
                        FileIsSomebodys, SavedKeys, Minted
  <2>3. CASE Auth!Health(p)
    BY <2>3, QuietProcess DEF Auth!Health, FileInv, AuthTyped
  <2>4. CASE Auth!FetchCapabilities(p)
    BY <2>4, QuietProcess DEF Auth!FetchCapabilities, FileInv, AuthTyped
  <2>5. CASE runs[p] = "status" /\ Auth!AskWhoAmI(p, "ok")
    BY <2>5, QuietProcess DEF Auth!AskWhoAmI, FileInv, AuthTyped
  <2>6. CASE Auth!Kill(p)
    BY <2>6, QuietProcess DEF Auth!Kill, FileInv, AuthTyped
  <2> QED
    BY <1>3, <2>1, <2>2, <2>3, <2>4, <2>5, <2>6 DEF Auth!Asks
<1>4. CASE UNCHANGED Auth!credentialVars
  BY <1>4 DEF Auth!credentialVars, FileInv, AuthTyped, LoginHoldsItsKey, FileIsSomebodys, SavedKeys,
              Auth!At, Minted
<1> QED
  BY <1>1, <1>2, <1>3, <1>4 DEF Auth!CredentialsNext

(* A step in which nobody reads and the file stays, and one that changes it. *)
LEMMA NobodyReads ==
  ASSUME AuthTyped, ReadsAgree, NEW p \in Processes, NEW next \in Past,
         progress' = [progress EXCEPT ![p] = next], UNCHANGED <<file, runs, heldUrl, disturbed>>,
         heldKey' \in [Processes -> Nat], \A q \in Processes \ {p} : heldKey'[q] = heldKey[q],
         runs[p] \in Readers => heldKey'[p] = heldKey[p]
  PROVE  ReadsAgree'
<1>1. Auth!SafeLoad' = Auth!SafeLoad
  BY DEF Auth!SafeLoad, Auth!Load
<1> QED
  BY <1>1 DEF AuthTyped, ReadsAgree, Past, Auth!Reading, Auth!Over

LEMMA FileChanges ==
  ASSUME AuthTyped, ReadsAgree, NEW p \in Processes, NEW next \in Past,
         progress' = [progress EXCEPT ![p] = next], progress[p] \notin {"start"} \cup Auth!Reading,
         UNCHANGED <<runs, heldKey>>, Auth!Disturbs
  PROVE  ReadsAgree'
<1>1. /\ UNCHANGED heldUrl
      /\ \A q \in Processes : disturbed'[q] = Auth!Disturbance(q)
  BY DEF Auth!Disturbs
<1> QED
  BY <1>1 DEF AuthTyped, ReadsAgree, Past, Auth!Disturbance, Auth!Reading, Auth!Over

LEMMA ReadsStep == AuthInv /\ [Auth!CredentialsNext]_(Auth!credentialVars) => ReadsAgree'
<1> SUFFICES ASSUME AuthInv, [Auth!CredentialsNext]_(Auth!credentialVars) PROVE ReadsAgree'
  OBVIOUS
<1>0. /\ AuthTyped /\ ReadsAgree /\ Auth!SafeLoad \in Nat
      /\ Auth!Load = "ok" => Auth!SafeLoad = file
  BY DEF Auth!SafeLoad, Auth!Load, AuthInv, AuthTyped, FileIsSomebodys
<1>1. ASSUME NEW p \in Processes, Auth!Login(p) \/ Auth!Logout(p) PROVE ReadsAgree'
  <2> USE DEF Auth!Enters, Auth!Holds, Auth!Keeps, Auth!Undisturbed, Auth!At, Auth!Over, Past
  <2>1. CASE Auth!Replace(p) \/ (Auth!DeleteFile(p) /\ Auth!Disturbs)
    BY <1>0, <2>1, FileChanges DEF Auth!Replace, Auth!DeleteFile, Auth!Reading
  <2>2. CASE Auth!RequestDeviceCode(p) \/ Auth!WriteTemp(p) \/ Auth!WriteFails(p)
             \/ (runs[p] = "login" /\ Auth!AskWhoAmI(p, "save")) \/ Auth!RevokeKey(p)
             \/ (Auth!DeleteFile(p) /\ Auth!Undisturbed /\ UNCHANGED file)
    <3>1. PICK next \in Past : progress' = [progress EXCEPT ![p] = next]
      BY <2>2 DEF Auth!RequestDeviceCode, Auth!WriteTemp, Auth!WriteFails, Auth!AskWhoAmI,
                  Auth!RevokeKey, Auth!DeleteFile
    <3>2. UNCHANGED <<file, runs, heldKey, heldUrl, disturbed>>
      BY <2>2 DEF Auth!RequestDeviceCode, Auth!WriteTemp, Auth!WriteFails, Auth!AskWhoAmI,
                  Auth!RevokeKey, Auth!DeleteFile
    <3> QED
      BY <1>0, <3>1, <3>2, NobodyReads DEF AuthTyped
  <2>3. CASE Auth!PollForToken(p)
    <3>1. /\ UNCHANGED <<file, runs, heldUrl, disturbed>> /\ runs[p] = "login" /\ progress[p] = "poll"
          /\ UNCHANGED heldKey \/ heldKey' = [heldKey EXCEPT ![p] = minted + 1]
          /\ UNCHANGED progress \/ \E next \in Past : progress' = [progress EXCEPT ![p] = next]
      BY <2>3 DEF Auth!PollForToken
    <3>2. /\ heldKey' \in [Processes -> Nat]
          /\ \A q \in Processes \ {p} : heldKey'[q] = heldKey[q]
      BY <1>0, <3>1 DEF AuthTyped
    <3>3. \E next \in Past : progress' = [progress EXCEPT ![p] = next]
      <4>1. CASE UNCHANGED progress
        <5>1. progress' = [progress EXCEPT ![p] = "poll"]
          BY <1>0, <3>1, <4>1 DEF AuthTyped
        <5> QED
          BY <5>1
      <4> QED
        BY <3>1, <4>1
    <3>4. runs[p] \notin Readers
      BY <3>1 DEF Readers
    <3> QED
      BY <1>0, <3>1, <3>2, <3>3, <3>4, NobodyReads
  <2>4. CASE Auth!LoadForLogout(p)
    <3>1. PICK next \in Past : progress' = [progress EXCEPT ![p] = next]
      BY <2>4 DEF Auth!LoadForLogout
    <3>2. /\ UNCHANGED <<file, runs, heldUrl, disturbed>> /\ runs[p] = "logout"
          /\ UNCHANGED heldKey \/ heldKey' = [heldKey EXCEPT ![p] = Auth!SafeLoad]
      BY <1>0, <2>4 DEF Auth!LoadForLogout
    <3>3. /\ heldKey' \in [Processes -> Nat]
          /\ \A q \in Processes \ {p} : heldKey'[q] = heldKey[q]
      BY <1>0, <3>2 DEF AuthTyped
    <3>4. runs[p] \notin Readers
      BY <3>2 DEF Readers
    <3> QED
      BY <1>0, <3>1, <3>2, <3>3, <3>4, NobodyReads
  <2> QED
    BY <1>1, <2>1, <2>2, <2>3, <2>4 DEF Auth!Login, Auth!Logout, Auth!DeleteFile
<1>2. ASSUME NEW p \in Processes, Auth!Asks(p) \/ Auth!Kill(p) PROVE ReadsAgree'
  <2> USE DEF Auth!Enters, Auth!Holds, Auth!Works, Auth!Keeps, Auth!Undisturbed, Auth!At, Auth!Over
  <2>1. CASE Auth!Health(p) \/ Auth!FetchCapabilities(p) \/ Auth!Kill(p)
             \/ (runs[p] = "status" /\ Auth!AskWhoAmI(p, "ok"))
    <3>1. PICK next \in Past : progress' = [progress EXCEPT ![p] = next]
      BY <2>1 DEF Auth!Health, Auth!FetchCapabilities, Auth!Kill, Auth!AskWhoAmI, Past
    <3>2. UNCHANGED <<file, runs, heldKey, heldUrl, disturbed>>
      BY <2>1 DEF Auth!Health, Auth!FetchCapabilities, Auth!Kill, Auth!AskWhoAmI
    <3> QED
      BY <1>0, <3>1, <3>2, NobodyReads DEF AuthTyped
  <2>2. ASSUME UNCHANGED file PROVE Auth!SafeLoad' = Auth!SafeLoad
    BY <2>2 DEF Auth!SafeLoad, Auth!Load
  <2>3. CASE Auth!ResolveKey(p)
    <3>1. /\ UNCHANGED <<file, runs, heldUrl, disturbed>>
          /\ progress[p] \in {"start", "key"}
          /\ UNCHANGED heldKey \/ heldKey' = [heldKey EXCEPT ![p] = Auth!SafeLoad]
          /\ \A q \in Processes : progress'[q] = IF q = p THEN progress'[p] ELSE progress[q]
          /\ progress'[p] # "start"
      BY <1>0, <2>3 DEF Auth!ResolveKey, Auth!AfterKey, AuthTyped
    <3> QED
      BY <1>0, <2>2, <3>1 DEF AuthTyped, ReadsAgree, Auth!Reading
  <2>4. CASE Auth!ResolveUrl(p) \/ Auth!LoadForStatus(p)
    <3>1. /\ UNCHANGED <<file, runs, heldKey, disturbed>>
          /\ progress[p] \in {"start", "url", "load"} /\ runs[p] \in Readers
          /\ UNCHANGED heldUrl \/ heldUrl' = [heldUrl EXCEPT ![p] = Auth!SafeLoad]
          /\ \A q \in Processes : progress'[q] = IF q = p THEN progress'[p] ELSE progress[q]
          /\ progress'[p] # "start"
      BY <1>0, <2>4 DEF Auth!ResolveUrl, Auth!LoadForStatus, AuthTyped, Readers
    <3> QED
      BY <1>0, <2>2, <3>1 DEF AuthTyped, ReadsAgree, Auth!Reading
  <2> QED
    BY <1>2, <2>1, <2>3, <2>4 DEF Auth!Asks
<1>3. CASE UNCHANGED Auth!credentialVars
  BY <1>0, <1>3 DEF Auth!credentialVars, ReadsAgree, Auth!SafeLoad, Auth!Load
<1> QED
  BY <1>1, <1>2, <1>3 DEF Auth!CredentialsNext

LEMMA AuthStep == AuthInv /\ [Auth!CredentialsNext]_(Auth!credentialVars) => AuthInv'
  BY FileStep, ReadsStep DEF AuthInv, FileInv

LEMMA StepOfAuth == [Next]_vars => [Auth!CredentialsNext]_(Auth!credentialVars)
  BY DEF Next, Runs, vars, authVars, Auth!credentialVars

(* The two implementations of the precedence are one, whatever is configured *)
(* (resolve_api_key, resolve_base_url and the checks of doctor).             *)
LEMMA SamePrecedence ==
  ASSUME NEW s \in Auth!Settings
  PROVE  /\ Auth!DoctorApiKey(s, Auth!SafeLoad) = Auth!ResolveApiKey(s, Auth!SafeLoad)
         /\ Auth!DoctorBaseUrl(s, Auth!SafeLoad) = Auth!ResolveBaseUrl(s, Auth!SafeLoad)
<1> DEFINE Sources == {"explicit", "current", "cp", "legacy", "stored"}
<1>1. ASSUME NEW a \in Seq(Sources), NEW b \in Seq(Sources)
      PROVE  /\ a \o b \in Seq(Sources)
             /\ a \o b = <<>> <=> a = <<>> /\ b = <<>>
             /\ Auth!First(a \o b) = IF a = <<>> THEN Auth!First(b) ELSE Auth!First(a)
  <2>1. CASE a = <<>>
    BY <2>1 DEF Auth!First
  <2>2. CASE a # <<>>
    <3>1. Len(a) > 0 /\ a \o b \in Seq(Sources) /\ Len(a \o b) = Len(a) + Len(b)
      BY <2>2
    <3>2. (a \o b)[1] = a[1]
      BY <3>1
    <3>3. a \o b # <<>>
      BY <3>1
    <3> QED
      BY <2>2, <3>1, <3>2, <3>3 DEF Auth!First
  <2> QED
    BY <2>1, <2>2
<1>2. ASSUME NEW x \in Sources
      PROVE  <<x>> \in Seq(Sources) /\ <<x>> # <<>> /\ Auth!First(<<x>>) = x
  <2>1. <<x>> # <<>> /\ <<x>>[1] = x
    OBVIOUS
  <2>2. <<x>> \in Seq(Sources)
    OBVIOUS
  <2> QED
    BY <2>1, <2>2, Zenon DEF Auth!First
<1> DEFINE a == Auth!When(s.explicit, "explicit")
           b == Auth!When(s.current, "current")
           c == Auth!When(s.cp, "cp")
           l == Auth!When(s.legacy, "legacy")
           d == Auth!When(Auth!SafeLoad # 0, "stored")
<1>3. /\ {a, b, c, l, d} \subseteq Seq(Sources)
      /\ a = <<>> <=> ~s.explicit
      /\ b = <<>> <=> ~s.current
      /\ c = <<>> <=> ~s.cp
      /\ l = <<>> <=> ~s.legacy
      /\ d = <<>> <=> Auth!SafeLoad = 0
      /\ s.explicit => Auth!First(a) = "explicit"
      /\ s.current => Auth!First(b) = "current"
      /\ s.cp => Auth!First(c) = "cp"
      /\ s.legacy => Auth!First(l) = "legacy"
      /\ Auth!SafeLoad # 0 => Auth!First(d) = "stored"
  <2>1. /\ a = IF s.explicit THEN <<"explicit">> ELSE <<>>
        /\ b = IF s.current THEN <<"current">> ELSE <<>>
        /\ c = IF s.cp THEN <<"cp">> ELSE <<>>
        /\ l = IF s.legacy THEN <<"legacy">> ELSE <<>>
        /\ d = IF Auth!SafeLoad # 0 THEN <<"stored">> ELSE <<>>
    BY Zenon DEF Auth!When
  <2> HIDE DEF a, b, c, l, d
  <2>2. <<>> \in Seq(Sources)
    OBVIOUS
  <2>3. a \in Seq(Sources) /\ (a = <<>> <=> ~s.explicit) /\ (s.explicit => Auth!First(a) = "explicit")
    BY <1>2, <2>1, <2>2
  <2>4. b \in Seq(Sources) /\ (b = <<>> <=> ~s.current) /\ (s.current => Auth!First(b) = "current")
    BY <1>2, <2>1, <2>2
  <2>5. c \in Seq(Sources) /\ (c = <<>> <=> ~s.cp) /\ (s.cp => Auth!First(c) = "cp")
    BY <1>2, <2>1, <2>2
  <2>6. l \in Seq(Sources) /\ (l = <<>> <=> ~s.legacy) /\ (s.legacy => Auth!First(l) = "legacy")
    BY <1>2, <2>1, <2>2
  <2>7. /\ d \in Seq(Sources) /\ (d = <<>> <=> Auth!SafeLoad = 0)
        /\ Auth!SafeLoad # 0 => Auth!First(d) = "stored"
    BY <1>2, <2>1, <2>2
  <2> QED
    BY <2>3, <2>4, <2>5, <2>6, <2>7
<1>4. Auth!First(<<>>) = "none"
  BY DEF Auth!First
<1>5. /\ Auth!DoctorApiKey(s, Auth!SafeLoad) = Auth!First(a \o b \o c \o l \o d)
      /\ Auth!DoctorBaseUrl(s, Auth!SafeLoad) = Auth!First(a \o b \o c \o d)
  BY DEF Auth!DoctorApiKey, Auth!DoctorBaseUrl
<1> HIDE DEF a, b, c, l, d
<1>6. /\ a \o b \in Seq(Sources) /\ a \o b \o c \in Seq(Sources) /\ a \o b \o c \o l \in Seq(Sources)
      /\ a \o b = <<>> <=> a = <<>> /\ b = <<>>
      /\ a \o b \o c = <<>> <=> a \o b = <<>> /\ c = <<>>
      /\ a \o b \o c \o l = <<>> <=> a \o b \o c = <<>> /\ l = <<>>
  BY <1>1, <1>3
<1>7. /\ Auth!First(a \o b) = IF a = <<>> THEN Auth!First(b) ELSE Auth!First(a)
      /\ Auth!First(a \o b \o c) = IF a \o b = <<>> THEN Auth!First(c) ELSE Auth!First(a \o b)
      /\ Auth!First(a \o b \o c \o l) =
           IF a \o b \o c = <<>> THEN Auth!First(l) ELSE Auth!First(a \o b \o c)
      /\ Auth!First(a \o b \o c \o d) =
           IF a \o b \o c = <<>> THEN Auth!First(d) ELSE Auth!First(a \o b \o c)
      /\ Auth!First(a \o b \o c \o l \o d) =
           IF a \o b \o c \o l = <<>> THEN Auth!First(d) ELSE Auth!First(a \o b \o c \o l)
  BY <1>1, <1>3, <1>6, ZenonT(60)
<1>8. s.explicit \in BOOLEAN /\ s.current \in BOOLEAN /\ s.cp \in BOOLEAN /\ s.legacy \in BOOLEAN
  BY DEF Auth!Settings
<1>9. d = <<>> => Auth!First(d) = "none"
  BY <1>4
<1> QED
  BY <1>3, <1>5, <1>6, <1>7, <1>8, <1>9 DEF Auth!ResolveApiKey, Auth!ResolveBaseUrl

LEMMA DoctorAgrees == AuthInv => Auth!DoctorAgreesWithClient
<1> SUFFICES ASSUME AuthInv PROVE Auth!DoctorAgreesWithClient
  OBVIOUS
<1>1. ASSUME NEW d \in Auth!Settled("doctor"), NEW c \in Auth!Settled("client")
      PROVE  /\ heldKey[d] # 0 /\ heldKey[c] # 0 => heldKey[d] = heldKey[c]
             /\ heldUrl[d] # 0 /\ heldUrl[c] # 0 => heldUrl[d] = heldUrl[c]
  BY DEF Auth!Settled, Auth!At, AuthInv, ReadsAgree, Readers
<1> QED
  BY <1>1, SamePrecedence DEF Auth!DoctorAgreesWithClient, AuthInv, ReadsAgree

(* Whatever process is killed wherever, and however logins and logouts       *)
(* overlap, the stored login is a whole one; a doctor looks where a client   *)
(* does; and what a process takes from the file is of one login, the same    *)
(* for a doctor and a client, unless the file changes while they read        *)
(* (save_credentials, doctor, resolve_api_key and resolve_base_url).         *)
THEOREM LoginsAreWhole == Spec => []CredentialsAgree
<1>1. Init => AuthInv
  BY AuthInitially DEF Init
<1>2. AuthInv /\ [Next]_vars => AuthInv'
  BY AuthStep, StepOfAuth
<1>3. AuthInv => CredentialsAgree
  BY DoctorAgrees DEF AuthInv, AuthTyped, FileIsSomebodys, CredentialsAgree,
     Auth!CredentialFileIsWhole, Auth!Malformed, Auth!Torn, Auth!At
<1> QED
  BY <1>1, <1>2, <1>3, PTL DEF Spec


(***************************************************************************)
(* Runs of the behaviour CI.                                               *)
(***************************************************************************)
Preparing == {"create", "ready", "isaac", "isaacAgain", "robot", "module", "setup", "camera"}
Trying    == {"trial", "measured"}
Filming   == {"rearm", "video", "download", "clip"}
Hosting   == Preparing \cup Trying \cup Filming \cup {"failed"}

RunTyped == /\ runStep \in {"idle", "prepared", "exit", "closed", "writing"} \cup Hosting
            /\ conf \in Behavior!Confs /\ runNo \in Nat
            /\ verdicts \in Seq(BOOLEAN) /\ replays \in Seq(Behavior!Clips)
            /\ unwritten \in Seq(Behavior!Files) /\ files \in [Behavior!Files -> Nat]
            /\ verdict \in {"none", "PASS", "FAIL"}

(* Only a hosted run has a session, and past its adapter it was asked to stop. *)
SessionOfTheRun == /\ runStep \in Hosting => conf.hosted
                   /\ ~conf.hosted \/ runStep = "idle" => mine = 0
                   /\ runStep \in {"closed", "writing"} /\ ~keep /\ mine # 0 => mine \in stopSent

(* All trials, then the clips that are wanted of them, then the bundle. *)
TrialsThenReplays ==
  /\ runStep \notin {"exit", "closed"} => exit = "none"
  /\ exit = "0" => runStep = "closed"
  /\ Len(verdicts) <= conf.trials
  /\ runStep \in Trying => Len(verdicts) < conf.trials
  /\ Len(verdicts) < conf.trials => replays = <<>>
  /\ runStep \in Filming => Len(verdicts) = conf.trials /\ Len(replays) < Len(Behavior!Wanted)
  /\ \A i \in 1..Len(replays) : i <= Len(Behavior!Wanted) /\ replays[i] = Behavior!Wanted[i]
  /\ exit = "none" /\ runStep \in {"exit", "closed", "writing"} =>
       Len(verdicts) = conf.trials /\ Len(replays) = Len(Behavior!Wanted)

VerdictClip == IF Behavior!Passed THEN "replay-passed" ELSE "replay-failed"
BaseFiles   == Behavior!ToSet(Behavior!Base)

(* While a run writes, a file that it has to write is whole or to come.    *)
WrittenOrToCome ==
  runStep = "writing" =>
    \A f \in BaseFiles \cup {VerdictClip} :
      (files[f] = runNo /\ f \notin torn) \/ \E i \in 1..Len(unwritten) : unwritten[i] = f

(* No file is newer than the run, and a green run writes no failed clip.   *)
FilesOfTheRun ==
  /\ \A f \in Behavior!Files : files[f] <= runNo
  /\ runStep # "writing" /\ exit = "none" => \A f \in Behavior!Files : files[f] < runNo
  /\ runStep = "writing" /\ Behavior!Passed =>
       /\ files["replay-failed"] < runNo
       /\ \A i \in 1..Len(unwritten) : unwritten[i] # "replay-failed"

(* The verdict is said at the end, with the exit status that belongs to it. *)
SaidAtTheEnd == /\ verdict # "none" => runStep = "closed" /\ exit \in {"0", "1"}
                /\ exit = "0" => verdict # "none"

RunInv == /\ RunTyped /\ SessionOfTheRun /\ TrialsThenReplays /\ WrittenOrToCome
          /\ FilesOfTheRun /\ SaidAtTheEnd /\ Behavior!VerdictHasItsBundle

LEMMA RunsInitially == Behavior!BehaviorInit => RunInv
<1> SUFFICES ASSUME Behavior!BehaviorInit PROVE RunInv
  OBVIOUS
<1> USE DEF Behavior!BehaviorInit, Behavior!HostedInit
<1>1. RunTyped
  BY DEF RunTyped
<1>2. conf.trials \in Nat /\ conf.trials >= 1
  BY CommandLineAssumption, SMTT(60) DEF Behavior!Confs
<1> QED
  BY <1>1, <1>2 DEF RunInv, SessionOfTheRun, TrialsThenReplays, WrittenOrToCome, FilesOfTheRun,
      SaidAtTheEnd,
     Behavior!VerdictHasItsBundle, Hosting, Preparing, Trying, Filming

LEMMA BundleFiles == /\ BaseFiles = {"result", "metrics", "comment", "report", "manifest", "provenance"}
                     /\ Behavior!Files = BaseFiles \cup Behavior!Clips
                     /\ Len(Behavior!Base) = 6 /\ Behavior!Base \in Seq(Behavior!Files)
                     /\ VerdictClip \in Behavior!Clips
<1>1. BaseFiles = {"result", "metrics", "comment", "report", "manifest", "provenance"}
  BY DEF BaseFiles, Behavior!ToSet, Behavior!Base
<1> QED
  BY <1>1 DEF BaseFiles, Behavior!Files, Behavior!Base, Behavior!Clips, VerdictClip

(* The first clip that is wanted shows the verdict. *)
LEMMA FirstClip ==
  ASSUME verdicts \in Seq(BOOLEAN), Len(verdicts) >= 1
  PROVE  /\ Behavior!Wanted \in Seq(Behavior!Clips)
         /\ Len(Behavior!Wanted) >= 1 /\ Behavior!Wanted[1] = VerdictClip
         /\ Behavior!Passed =>
              \A i \in 1..Len(Behavior!Wanted) : Behavior!Wanted[i] # "replay-failed"
<1>1. CASE Behavior!Passed
  <2>1. \E i \in 1..Len(verdicts) : verdicts[i]
    BY <1>1 DEF Behavior!Passed
  <2>2. Behavior!Wanted = <<>> \o <<"replay-passed">>
    BY <1>1, <2>1 DEF Behavior!Wanted
  <2> QED
    BY <1>1, <2>2 DEF VerdictClip, Behavior!Clips
<1>2. CASE ~Behavior!Passed
  <2>1. /\ <<"replay-failed">> \in Seq(Behavior!Clips) /\ <<"replay-passed">> \in Seq(Behavior!Clips)
        /\ <<>> \in Seq(Behavior!Clips)
    BY DEF Behavior!Clips
  <2>2. PICK t \in Seq(Behavior!Clips) : Behavior!Wanted = <<"replay-failed">> \o t
    BY <1>2, <2>1 DEF Behavior!Wanted
  <2>3. ASSUME NEW s \in Seq(Behavior!Clips), Len(s) = 1
        PROVE  s \o t \in Seq(Behavior!Clips) /\ Len(s \o t) >= 1 /\ (s \o t)[1] = s[1]
    <3>1. Len(t) \in Nat /\ 1 \in 1..(Len(s) + Len(t))
      BY <2>3
    <3> QED
      BY <2>3, <3>1, ConcatProperties
  <2> QED
    BY <1>2, <2>1, <2>2, <2>3 DEF VerdictClip
<1> QED
  BY <1>1, <1>2

(* A step of the hosted adapter moves the run within one of its parts. *)
LEMMA HostedStep ==
  ASSUME Behavior!Prepare \/ Behavior!Use \/ Behavior!Tick
  PROVE  /\ runStep \in Hosting /\ runStep' \in Hosting \cup {"prepared"}
         /\ runStep' \in Trying => runStep \in Trying
         /\ runStep' \in Filming => runStep \in Filming
         /\ UNCHANGED <<keep, stopSent>>
<1> USE DEF Hosting, Preparing, Trying, Filming, Behavior!Go, Behavior!Repeat
<1>1. ASSUME NEW first \in 1..4
      PROVE  Behavior!AfterReady(first) \subseteq {"robot", "module", "setup", "camera"}
  <2>1. \A i \in 1..4 : Behavior!Steps[i] \in {"robot", "module", "setup", "camera"}
    BY DEF Behavior!Steps
  <2> QED
    BY <2>1 DEF Behavior!AfterReady
<1>2. CASE Behavior!CreateSession
  BY <1>2 DEF Behavior!CreateSession
<1>3. CASE Behavior!AwaitReady \/ Behavior!FindCamera
  BY <1>3 DEF Behavior!AwaitReady, Behavior!FindCamera, Behavior!AskUntilDeadline
<1>4. CASE Behavior!AwaitIsaac
  <2>1. /\ Behavior!AfterReady(1) \subseteq {"robot", "module", "setup", "camera"}
        /\ Behavior!AfterReady(2) \subseteq {"robot", "module", "setup", "camera"}
    BY <1>1
  <2>2. PICK next \in {"robot", "module", "setup", "camera"} :
          \/ Behavior!AskUntilDeadline("isaac", FALSE, next)
          \/ Behavior!AskUntilDeadline("isaacAgain", FALSE, next)
    BY <1>4, <2>1 DEF Behavior!AwaitIsaac
  <2> QED
    BY <2>2 DEF Behavior!AskUntilDeadline
<1>5. CASE Behavior!SpawnRobot \/ Behavior!SetUpScene
  BY <1>5 DEF Behavior!SpawnRobot, Behavior!SetUpScene, Behavior!ToolCall
<1>6. CASE Behavior!UploadModule
  <2>1. PICK next \in {"robot", "module", "setup", "camera"} : Behavior!ToolCall("module", next)
    BY <1>1, <1>6 DEF Behavior!UploadModule
  <2> QED
    BY <2>1 DEF Behavior!ToolCall
<1>7. CASE Behavior!RunTrial \/ Behavior!CaptureVideo \/ Behavior!DownloadClip
  BY <1>7 DEF Behavior!RunTrial, Behavior!CaptureVideo, Behavior!DownloadClip, Behavior!ToolCall
<1>8. CASE Behavior!RearmMotion
  BY <1>8 DEF Behavior!RearmMotion
<1>9. CASE Behavior!Tick
  BY <1>9 DEF Behavior!Tick
<1> QED
  BY <1>2, <1>3, <1>4, <1>5, <1>6, <1>7, <1>8, <1>9 DEF Behavior!Prepare, Behavior!Use

LEMMA RunStep == RunInv /\ [Behavior!BehaviorNext]_(Behavior!behaviorVars) => RunInv'
<1> SUFFICES ASSUME RunInv, [Behavior!BehaviorNext]_(Behavior!behaviorVars) PROVE RunInv'
  OBVIOUS
<1> USE DEF RunInv
<1>1. conf.trials \in Nat /\ conf.trials >= 1 /\ conf.hosted \in BOOLEAN
  <2>1. conf \in Behavior!Confs /\ MaxTrials \in Nat
    BY CommandLineAssumption DEF RunTyped
  <2> QED
    BY <2>1 DEF Behavior!Confs
<1>2. CASE Behavior!LoadFails
  BY <1>2 DEF Behavior!LoadFails, Behavior!Leave, Behavior!Input, Behavior!Contract, Behavior!Uncaught,
     RunTyped, SessionOfTheRun, TrialsThenReplays, WrittenOrToCome, FilesOfTheRun, SaidAtTheEnd,
     Behavior!VerdictHasItsBundle,
     Behavior!Wanted, Behavior!Passed, Hosting, Preparing, Trying, Filming
<1>3. CASE Behavior!BuildAdapter
  BY <1>3 DEF Behavior!BuildAdapter, Behavior!Leave, Behavior!Input,
     RunTyped, SessionOfTheRun, TrialsThenReplays, WrittenOrToCome, FilesOfTheRun, SaidAtTheEnd,
     Behavior!VerdictHasItsBundle,
     Behavior!Wanted, Behavior!Passed, Hosting, Preparing, Trying, Filming
<1>4. CASE Behavior!SessionFails
  BY <1>4 DEF Behavior!SessionFails, Behavior!Failed, Behavior!Infra,
     RunTyped, SessionOfTheRun, TrialsThenReplays, WrittenOrToCome, FilesOfTheRun, SaidAtTheEnd,
     Behavior!VerdictHasItsBundle,
     Behavior!Wanted, Behavior!Passed, Hosting, Preparing, Trying, Filming
<1>5. CASE Behavior!RunActionTrial \/ Behavior!PlayTrial \/ Behavior!ParseTrial
  <2>1. /\ Len(verdicts) < conf.trials /\ replays = <<>>
        /\ UNCHANGED <<keep, mine, stopSent, runNo, conf, replays, unwritten, files, torn, verdict>>
        /\ runStep \in {"prepared", "measured"} /\ exit = "none"
    BY <1>5 DEF Behavior!RunActionTrial, Behavior!PlayTrial, Behavior!ParseTrial,
       Behavior!TrialIsNext, TrialsThenReplays, Trying
  <2>2. CASE \E passed \in BOOLEAN : /\ verdicts' = Append(verdicts, passed)
                                     /\ runStep' = "prepared" /\ UNCHANGED exit
    <3>1. verdicts' \in Seq(BOOLEAN) /\ Len(verdicts') = Len(verdicts) + 1
      BY <2>2 DEF RunTyped
    <3> QED
      BY <1>1, <2>1, <2>2, <3>1
      DEF RunTyped, SessionOfTheRun, TrialsThenReplays, WrittenOrToCome, FilesOfTheRun,
          SaidAtTheEnd,
          Behavior!VerdictHasItsBundle, Hosting, Preparing, Trying, Filming
  <2>3. CASE (Behavior!Failed(Behavior!Uncaught) \/ Behavior!Failed(Behavior!Infra))
             /\ UNCHANGED verdicts
    <3>1. UNCHANGED <<Behavior!Wanted, Behavior!Passed>>
      BY <2>3 DEF Behavior!Wanted, Behavior!Passed
    <3>2. /\ runStep' \in {"exit", "closed"} /\ exit' \in {"1", "3"} /\ UNCHANGED verdicts
          /\ ~conf.hosted => runStep' = "closed"
          /\ conf.hosted => runStep' = "exit"
      BY <1>1, <2>3 DEF Behavior!Failed, Behavior!Infra, Behavior!Uncaught
    <3>3. RunTyped' /\ SessionOfTheRun'
      BY <1>1, <2>1, <3>2 DEF RunTyped, SessionOfTheRun, Hosting, Preparing, Trying, Filming
    <3>4. TrialsThenReplays'
      BY <1>1, <2>1, <3>1, <3>2 DEF TrialsThenReplays, Trying, Filming
    <3>5. FilesOfTheRun' /\ WrittenOrToCome'
      BY <2>1, <3>1, <3>2 DEF FilesOfTheRun, WrittenOrToCome
    <3>6. SaidAtTheEnd' /\ Behavior!VerdictHasItsBundle'
      BY <2>1, <3>2 DEF SaidAtTheEnd, Behavior!VerdictHasItsBundle
    <3> QED
      BY <3>3, <3>4, <3>5, <3>6
  <2> QED
    BY <1>5, <2>2, <2>3
    DEF Behavior!RunActionTrial, Behavior!PlayTrial, Behavior!ParseTrial, Behavior!EvaluateTrial
<1>6. CASE Behavior!StartTrial \/ Behavior!StartReplay
  BY <1>6 DEF Behavior!StartTrial, Behavior!StartReplay, Behavior!TrialIsNext, Behavior!ReplayIsNext,
     Behavior!Go, Behavior!runVars,
     RunTyped, SessionOfTheRun, TrialsThenReplays, WrittenOrToCome, FilesOfTheRun, SaidAtTheEnd,
     Behavior!VerdictHasItsBundle,
     Behavior!Wanted, Behavior!Passed, Hosting, Preparing, Trying, Filming

<1>7. CASE Behavior!CheckClip \/ Behavior!Resolve
  <2>1. /\ Len(verdicts) = conf.trials /\ Len(replays) < Len(Behavior!Wanted)
        /\ runStep \in {"clip", "prepared"} /\ exit = "none"
        /\ UNCHANGED <<keep, mine, stopSent, runNo, conf, verdicts, unwritten, files, torn,
                       verdict>>
    BY <1>7 DEF Behavior!CheckClip, Behavior!Resolve, Behavior!ReplayIsNext,
       TrialsThenReplays, Filming
  <2>2. UNCHANGED Behavior!Wanted
    BY <2>1 DEF Behavior!Wanted, Behavior!Passed
  <2>3. CASE Behavior!TakeReplay /\ runStep' = "prepared" /\ exit' = exit
    <3>1. Behavior!Wanted \in Seq(Behavior!Clips)
      BY <1>1, <2>1, FirstClip DEF RunTyped
    <3>2. Behavior!Wanted[Len(replays) + 1] \in Behavior!Clips
      BY <2>1, <3>1 DEF RunTyped
    <3>3. /\ replays' \in Seq(Behavior!Clips) /\ Len(replays') = Len(replays) + 1
          /\ \A i \in 1..Len(replays) : replays'[i] = replays[i]
          /\ replays'[Len(replays) + 1] = Behavior!Wanted[Len(replays) + 1]
      BY <2>3, <3>2 DEF RunTyped, Behavior!TakeReplay
    <3>4. Len(replays) \in Nat /\ Len(Behavior!Wanted) \in Nat
      BY <3>1 DEF RunTyped
    <3>5. \A i \in 1..Len(replays') :
            i <= Len(Behavior!Wanted) /\ replays'[i] = Behavior!Wanted[i]
      BY <2>1, <3>3, <3>4 DEF TrialsThenReplays
    <3> QED
      BY <1>1, <2>1, <2>2, <2>3, <3>3, <3>5
      DEF RunTyped, SessionOfTheRun, TrialsThenReplays, WrittenOrToCome, FilesOfTheRun,
          SaidAtTheEnd,
          Behavior!VerdictHasItsBundle, Hosting, Preparing, Trying, Filming
  <2>4. CASE (Behavior!Failed(Behavior!Infra) \/ Behavior!Failed(Behavior!Input)) /\ UNCHANGED replays
    BY <1>1, <2>1, <2>2, <2>4
    DEF Behavior!Failed, Behavior!Infra, Behavior!Input, RunTyped, SessionOfTheRun,
        TrialsThenReplays, WrittenOrToCome, FilesOfTheRun, SaidAtTheEnd,
        Behavior!VerdictHasItsBundle,
        Hosting, Preparing, Trying, Filming
  <2> QED
    BY <1>7, <2>1, <2>3, <2>4
    DEF Behavior!CheckClip, Behavior!Resolve, Behavior!ReplayIsNext
<1>8. CASE Behavior!CaptureReplays
  BY <1>8 DEF Behavior!CaptureReplays,
     RunTyped, SessionOfTheRun, TrialsThenReplays, WrittenOrToCome, FilesOfTheRun, SaidAtTheEnd,
     Behavior!VerdictHasItsBundle,
     Behavior!Wanted, Behavior!Passed, Hosting, Preparing, Trying, Filming
<1>9. CASE Behavior!EnforceProvenance
  <2>1. /\ Len(verdicts) = conf.trials /\ Len(replays) = Len(Behavior!Wanted)
        /\ UNCHANGED <<keep, mine, stopSent, runNo, conf, verdicts, replays, files, torn, verdict>>
        /\ runStep = "closed" /\ exit = "none"
    BY <1>9 DEF Behavior!EnforceProvenance, TrialsThenReplays
  <2>2. UNCHANGED <<Behavior!Wanted, VerdictClip, Behavior!Passed>>
    BY <2>1 DEF Behavior!Wanted, Behavior!Passed, VerdictClip
  <2>3. CASE Behavior!Leave(Behavior!Contract) /\ UNCHANGED <<unwritten, runStep>>
    BY <2>1, <2>2, <2>3 DEF Behavior!Leave, Behavior!Contract,
       RunTyped, SessionOfTheRun, TrialsThenReplays, WrittenOrToCome, FilesOfTheRun, SaidAtTheEnd,
       Behavior!VerdictHasItsBundle
  <2>4. CASE unwritten' = replays \o Behavior!Base /\ runStep' = "writing" /\ UNCHANGED exit
    <3>1. Len(replays) >= 1 /\ replays[1] = VerdictClip
      BY <1>1, <2>1, FirstClip DEF RunTyped, TrialsThenReplays
    <3>2. /\ unwritten' \in Seq(Behavior!Files)
          /\ Len(unwritten') = Len(replays) + 6
          /\ \A i \in 1..Len(replays) : unwritten'[i] = replays[i]
          /\ \A i \in 1..6 : unwritten'[Len(replays) + i] = Behavior!Base[i]
      <4>1. replays \in Seq(Behavior!Files)
        BY BundleFiles DEF RunTyped
      <4>2. Len(replays) \in Nat
        BY <4>1
      <4>3. /\ unwritten' \in Seq(Behavior!Files)
            /\ Len(unwritten') = Len(replays) + Len(Behavior!Base)
            /\ \A i \in 1..(Len(replays) + Len(Behavior!Base)) :
                 unwritten'[i] = IF i <= Len(replays) THEN replays[i]
                                 ELSE Behavior!Base[i - Len(replays)]
        BY <2>4, <4>1, BundleFiles, ConcatProperties
      <4>4. Len(Behavior!Base) = 6
        BY BundleFiles
      <4>5. ASSUME NEW i \in 1..Len(replays) PROVE unwritten'[i] = replays[i]
        <5>1. i \in 1..(Len(replays) + Len(Behavior!Base)) /\ i <= Len(replays)
          BY <4>2, <4>4
        <5> QED
          BY <4>3, <5>1
      <4>6. ASSUME NEW i \in 1..6 PROVE unwritten'[Len(replays) + i] = Behavior!Base[i]
        <5>1. /\ Len(replays) + i \in 1..(Len(replays) + Len(Behavior!Base))
              /\ ~(Len(replays) + i <= Len(replays)) /\ Len(replays) + i - Len(replays) = i
          BY <4>2, <4>4
        <5> QED
          BY <4>3, <5>1
      <4> QED
        BY <4>3, <4>4, <4>5, <4>6
    <3>3. \A f \in BaseFiles : \E i \in 1..6 : Behavior!Base[i] = f
      BY BundleFiles DEF BaseFiles, Behavior!ToSet
    <3>4. Len(replays) \in Nat
      BY DEF RunTyped
    <3>5. \A f \in BaseFiles \cup {VerdictClip} :
            \E i \in 1..Len(unwritten') : unwritten'[i] = f
      <4>1. ASSUME NEW f \in BaseFiles
            PROVE  \E i \in 1..Len(unwritten') : unwritten'[i] = f
        <5>1. PICK i \in 1..6 : Behavior!Base[i] = f
          BY <3>3
        <5>2. Len(replays) + i \in 1..Len(unwritten')
          BY <3>2, <3>4
        <5> QED
          BY <3>2, <5>1, <5>2
      <4>2. 1 \in 1..Len(unwritten') /\ unwritten'[1] = VerdictClip
        BY <3>1, <3>2, <3>4
      <4> QED
        BY <4>1, <4>2
    <3>6. ASSUME Behavior!Passed, NEW i \in 1..Len(unwritten') PROVE unwritten'[i] # "replay-failed"
      <4>1. CASE i \in 1..Len(replays)
        <5>1. i \in 1..Len(Behavior!Wanted) /\ unwritten'[i] = Behavior!Wanted[i]
          BY <2>1, <3>2, <4>1 DEF TrialsThenReplays
        <5>2. \A j \in 1..Len(Behavior!Wanted) : Behavior!Wanted[j] # "replay-failed"
          BY <1>1, <2>1, <3>6, FirstClip DEF RunTyped
        <5> QED
          BY <5>1, <5>2
      <4>2. CASE i \notin 1..Len(replays)
        <5>1. PICK j \in 1..6 : i = Len(replays) + j
          <6>1. i - Len(replays) \in 1..6 /\ i = Len(replays) + (i - Len(replays))
            BY <3>2, <3>4, <4>2
          <6> QED
            BY <6>1
        <5>2. \A k \in 1..6 : Behavior!Base[k] # "replay-failed"
          BY DEF Behavior!Base
        <5> QED
          BY <3>2, <5>1, <5>2
      <4> QED
        BY <4>1, <4>2
    <3>7. \A f \in Behavior!Files : files[f] < runNo
      BY <2>1 DEF FilesOfTheRun
    <3>8. FilesOfTheRun'
      <4>1. "replay-failed" \in Behavior!Files
        BY BundleFiles DEF Behavior!Clips
      <4>2. \A f \in Behavior!Files : files[f] <= runNo
        BY DEF FilesOfTheRun
      <4> HIDE DEF Behavior!Passed
      <4> QED
        BY <2>1, <2>2, <2>4, <3>6, <3>7, <4>1, <4>2 DEF FilesOfTheRun
    <3> QED
      BY <2>1, <2>2, <2>4, <3>2, <3>5, <3>8
      DEF RunTyped, SessionOfTheRun, TrialsThenReplays, WrittenOrToCome, SaidAtTheEnd, BaseFiles,
          Behavior!VerdictHasItsBundle, Hosting, Preparing, Trying, Filming
  <2> QED
    BY <1>9, <2>3, <2>4 DEF Behavior!EnforceProvenance
<1>10. CASE Behavior!WriteFile
  <2>1. /\ runStep = "writing" /\ unwritten # <<>> /\ unwritten' = Tail(unwritten)
        /\ files' = [files EXCEPT ![Head(unwritten)] = runNo]
        /\ torn' = torn \ {Head(unwritten)}
        /\ UNCHANGED <<runStep, keep, mine, stopSent, runNo, conf, verdicts, replays, verdict, exit>>
    BY <1>10 DEF Behavior!WriteFile, Behavior!hostedVars
  <2>2. UNCHANGED <<Behavior!Wanted, VerdictClip, Behavior!Passed>>
    BY <2>1 DEF Behavior!Wanted, Behavior!Passed, VerdictClip
  <2>3. /\ Len(unwritten) \in Nat /\ Len(unwritten) >= 1
        /\ Head(unwritten) = unwritten[1] /\ Head(unwritten) \in Behavior!Files
        /\ unwritten' \in Seq(Behavior!Files) /\ Len(unwritten') = Len(unwritten) - 1
        /\ \A i \in 2..Len(unwritten) : unwritten'[i - 1] = unwritten[i]
        /\ \A i \in 1..Len(unwritten') : unwritten'[i] = unwritten[i + 1]
    BY <2>1 DEF RunTyped
  <2>4. ASSUME NEW f \in BaseFiles \cup {VerdictClip}
        PROVE  (files'[f] = runNo /\ f \notin torn') \/ \E i \in 1..Len(unwritten') : unwritten'[i] = f
    <3>1. f \in Behavior!Files
      BY BundleFiles
    <3>2. CASE f = Head(unwritten)
      BY <2>1, <3>1, <3>2 DEF RunTyped
    <3>3. CASE f # Head(unwritten) /\ files[f] = runNo /\ f \notin torn
      BY <2>1, <3>1, <3>3 DEF RunTyped
    <3>4. CASE f # Head(unwritten) /\ ~(files[f] = runNo /\ f \notin torn)
      <4>1. PICK i \in 1..Len(unwritten) : unwritten[i] = f
        BY <2>1, <3>4 DEF WrittenOrToCome
      <4>2. i \in 2..Len(unwritten) /\ i - 1 \in 1..Len(unwritten')
        BY <2>3, <3>4, <4>1
      <4> QED
        BY <2>3, <4>1, <4>2
    <3> QED
      BY <3>2, <3>3, <3>4
  <2>5. files' \in [Behavior!Files -> Nat]
        /\ \A f \in Behavior!Files : files'[f] = IF f = Head(unwritten) THEN runNo ELSE files[f]
    BY <2>1, <2>3 DEF RunTyped
  <2>6. FilesOfTheRun'
    <3>1. \A f \in Behavior!Files : files'[f] <= runNo
      <4>1. runNo \in Nat /\ \A f \in Behavior!Files : files[f] <= runNo
        BY DEF RunTyped, FilesOfTheRun
      <4> QED
        BY <2>5, <4>1
    <3>2. ASSUME Behavior!Passed
          PROVE  /\ files'["replay-failed"] < runNo
                 /\ \A i \in 1..Len(unwritten') : unwritten'[i] # "replay-failed"
      <4>1. /\ files["replay-failed"] < runNo
            /\ \A i \in 1..Len(unwritten) : unwritten[i] # "replay-failed"
        BY <2>1, <3>2 DEF FilesOfTheRun
      <4>2. "replay-failed" \in Behavior!Files /\ Head(unwritten) # "replay-failed"
        BY <2>3, <4>1, BundleFiles DEF Behavior!Clips
      <4>3. \A i \in 1..Len(unwritten') : i + 1 \in 1..Len(unwritten)
        BY <2>3
      <4> QED
        BY <2>3, <2>5, <4>1, <4>2, <4>3
    <3> HIDE DEF Behavior!Passed
    <3> QED
      BY <2>1, <2>2, <3>1, <3>2 DEF FilesOfTheRun
  <2> QED
    BY <2>1, <2>2, <2>3, <2>4, <2>5, <2>6
    DEF RunTyped, SessionOfTheRun, TrialsThenReplays, WrittenOrToCome, SaidAtTheEnd, BaseFiles,
        Behavior!VerdictHasItsBundle, Hosting, Preparing, Trying, Filming
<1>11. CASE Behavior!Validate
  <2>1. /\ runStep = "writing" /\ unwritten = <<>> /\ runStep' = "closed"
        /\ UNCHANGED <<keep, mine, stopSent, runNo, conf, verdicts, replays, unwritten, files, torn>>
        /\ \/ exit' \in {Behavior!Contract, Behavior!Uncaught} /\ verdict' = verdict
           \/ Behavior!Passed /\ verdict' = "PASS" /\ exit' = "0"
           \/ ~Behavior!Passed /\ verdict' = "FAIL" /\ exit' = "1"
    BY <1>11 DEF Behavior!Validate, Behavior!Leave
  <2>2. UNCHANGED <<Behavior!Wanted, VerdictClip, Behavior!Passed>>
    BY <2>1 DEF Behavior!Wanted, Behavior!Passed, VerdictClip
  <2>3. exit = "none" /\ Len(verdicts) = conf.trials /\ verdict = "none"
    BY <2>1 DEF TrialsThenReplays, SaidAtTheEnd
  <2>4. \A f \in BaseFiles \cup {VerdictClip} : files[f] = runNo /\ f \notin torn
    BY <2>1 DEF WrittenOrToCome
  <2>5. Behavior!VerdictHasItsBundle'
    <3>1. (\A i \in 1..conf.trials : verdicts[i]) <=> Behavior!Passed
      BY <2>3 DEF Behavior!Passed
    <3>2. \A f \in Behavior!ToSet(Behavior!Base)
              \cup {IF Behavior!Passed THEN "replay-passed" ELSE "replay-failed"} :
            files[f] = runNo /\ f \notin torn
      BY <2>4 DEF BaseFiles, VerdictClip
    <3>3. Behavior!Passed => files["replay-failed"] < runNo
      BY <2>1 DEF FilesOfTheRun
    <3>4. Behavior!Passed => files["replay-failed"] # runNo
      BY <3>3, BundleFiles DEF RunTyped, Behavior!Clips
    <3> HIDE DEF Behavior!Passed
    <3> QED
      BY <2>1, <2>2, <2>3, <3>1, <3>2, <3>4 DEF Behavior!VerdictHasItsBundle, Behavior!Contract,
         Behavior!Uncaught
  <2>6. FilesOfTheRun'
    BY <2>1 DEF FilesOfTheRun, Behavior!Contract, Behavior!Uncaught
  <2> QED
    BY <2>1, <2>2, <2>3, <2>5, <2>6 DEF Behavior!Contract, Behavior!Uncaught, SaidAtTheEnd,
       RunTyped, SessionOfTheRun, TrialsThenReplays, WrittenOrToCome, Hosting, Preparing, Trying,
       Filming
<1>12. CASE Behavior!Killed \/ Behavior!WriteFails
  <2>1. PICK status \in {"killed", Behavior!Uncaught} : Behavior!CutOff(status)
    BY <1>12 DEF Behavior!Killed, Behavior!WriteFails
  <2>2. /\ runStep = "writing" /\ unwritten # <<>> /\ runStep' = "closed" /\ exit' = status
        /\ files' = [files EXCEPT ![Head(unwritten)] = runNo]
        /\ UNCHANGED <<keep, mine, stopSent, runNo, conf, verdicts, replays, unwritten, verdict>>
    BY <2>1 DEF Behavior!CutOff, Behavior!Leave
  <2>3. Head(unwritten) \in Behavior!Files
    BY <2>2 DEF RunTyped
  <2>4. /\ files' \in [Behavior!Files -> Nat]
        /\ \A f \in Behavior!Files : files'[f] = IF f = Head(unwritten) THEN runNo ELSE files[f]
    BY <2>2, <2>3 DEF RunTyped
  <2>5. UNCHANGED Behavior!Wanted /\ exit = "none" /\ verdict = "none"
    BY <2>2 DEF Behavior!Wanted, Behavior!Passed, TrialsThenReplays, SaidAtTheEnd
  <2>6. FilesOfTheRun'
    <3>1. runNo \in Nat /\ \A f \in Behavior!Files : files[f] <= runNo
      BY DEF RunTyped, FilesOfTheRun
    <3> QED
      BY <2>2, <2>4, <3>1 DEF FilesOfTheRun, Behavior!Uncaught
  <2> QED
    BY <2>2, <2>4, <2>5, <2>6 DEF Behavior!Uncaught, SaidAtTheEnd,
       RunTyped, SessionOfTheRun, TrialsThenReplays, WrittenOrToCome,
       Behavior!VerdictHasItsBundle, Hosting, Preparing, Trying, Filming
<1>13. CASE Behavior!NextRun
  <2>1. /\ conf' \in Behavior!Confs /\ conf'.trials \in Nat /\ conf'.trials >= 1
        /\ verdicts' = <<>> /\ replays' = <<>> /\ unwritten' = <<>> /\ exit' = "none"
        /\ runStep' = "idle" /\ mine' = 0 /\ runNo' = runNo + 1 /\ UNCHANGED files
        /\ verdict' = "none"
    BY <1>13, CommandLineAssumption, SMTT(60) DEF Behavior!NextRun, Behavior!Confs
  <2>2. FilesOfTheRun'
    <3>1. runNo \in Nat /\ \A f \in Behavior!Files : files[f] <= runNo /\ files[f] \in Nat
      BY DEF RunTyped, FilesOfTheRun
    <3> QED
      BY <2>1, <3>1 DEF FilesOfTheRun
  <2> QED
    BY <2>1, <2>2 DEF RunTyped, SessionOfTheRun, TrialsThenReplays, WrittenOrToCome, SaidAtTheEnd,
       Behavior!VerdictHasItsBundle, Hosting, Preparing, Trying, Filming
<1>14. CASE Behavior!Hosted
  <2>1. UNCHANGED <<runNo, conf, verdicts, replays, unwritten, files, torn, verdict, exit>>
    BY <1>14 DEF Behavior!Hosted, Behavior!runVars
  <2>2. UNCHANGED <<Behavior!Wanted, Behavior!Passed>>
    BY <2>1 DEF Behavior!Wanted, Behavior!Passed
  <2>3. CASE Behavior!StopOrClose
    BY <1>1, <2>1, <2>2, <2>3 DEF Behavior!StopOrClose, Behavior!Go, Behavior!Repeat,
       RunTyped, SessionOfTheRun, TrialsThenReplays, WrittenOrToCome, FilesOfTheRun, SaidAtTheEnd,
       Behavior!VerdictHasItsBundle, Hosting, Preparing, Trying, Filming
  <2>4. CASE Behavior!Prepare \/ Behavior!Use \/ Behavior!Tick
    BY <1>1, <2>1, <2>2, <2>4, HostedStep
    DEF RunTyped, SessionOfTheRun, TrialsThenReplays, WrittenOrToCome, FilesOfTheRun, SaidAtTheEnd,
        Behavior!VerdictHasItsBundle, Hosting, Preparing, Trying, Filming
  <2> QED
    BY <1>14, <2>3, <2>4 DEF Behavior!Hosted
<1>15. CASE UNCHANGED Behavior!behaviorVars
  BY <1>15, ZenonT(60) DEF Behavior!behaviorVars, Behavior!hostedVars, Behavior!runVars,
     RunTyped, SessionOfTheRun, TrialsThenReplays, WrittenOrToCome, FilesOfTheRun, SaidAtTheEnd,
     Behavior!VerdictHasItsBundle,
     Behavior!Wanted, Behavior!Passed, VerdictClip
<1> QED
  BY <1>2, <1>3, <1>4, <1>5, <1>6, <1>7, <1>8, <1>9, <1>10, <1>11, <1>12, <1>13, <1>14, <1>15
  DEF Behavior!BehaviorNext

LEMMA StepOfBehavior == [Next]_vars => [Behavior!BehaviorNext]_(Behavior!behaviorVars)
  BY DEF Next, Runs, vars, behaviorVars, Behavior!behaviorVars, Behavior!hostedVars,
         Behavior!runVars

(* Whatever earlier runs left in the directory, a verdict is said with      *)
(* every file of its own run written whole, the exit status 0 says one, and *)
(* the session of the run was asked to stop; the exit status 1 alone says   *)
(* none, an error that nobody catches ends in it, too (write_bundle,        *)
(* validate_bundle, cmd_behavior_ci, IsaacSessionAdapter.__exit__).         *)
THEOREM VerdictsHaveTheirBundle == Spec => []VerdictHasItsBundle
<1>1. Init => RunInv
  BY RunsInitially DEF Init
<1>2. RunInv /\ [Next]_vars => RunInv'
  BY RunStep, StepOfBehavior
<1>3. RunInv => VerdictHasItsBundle
  BY DEF RunInv, SessionOfTheRun, VerdictHasItsBundle, Behavior!KnownSessionIsStopped
<1> QED
  BY <1>1, <1>2, <1>3, PTL DEF Spec


(***************************************************************************)
(* Packaging of assets.                                                    *)
(***************************************************************************)
Collecting == {"root", "describe", "archive"}

AssetsTyped == /\ asset \in [DOMAIN asset -> Nat] /\ described \in [DOMAIN described -> Nat]
               /\ archived \in [DOMAIN archived -> Nat]
               /\ header.blank \in BOOLEAN /\ header.lines \in Seq(Assets!Lines)

(* A file that was hashed is as it was hashed until it is packed, unless   *)
(* somebody edited it; and the manifest is packed last.                    *)
ManifestHolds ==
  /\ request.output \notin DOMAIN described
  /\ phase \in {"output", "collect", "root", "describe"} => archived = <<>>
  /\ phase \in Collecting => /\ DOMAIN described \subseteq DOMAIN asset
                            /\ DOMAIN archived \subseteq DOMAIN described
  /\ phase \in Collecting =>
       \A n \in DOMAIN described \ DOMAIN archived :
         described[n] \in {0, asset[n]} \/ n \in overtaken
  /\ phase = "archive" =>
       /\ \A n \in DOMAIN described : described[n] # 0
       /\ \A n \in DOMAIN archived : archived[n] = described[n] \/ n \in overtaken
  /\ phase = "returned" =>
       /\ DOMAIN archived = DOMAIN described \cup {Assets!MANIFEST_NAME}
       /\ archived[Assets!MANIFEST_NAME] = Assets!OwnManifest
       /\ \A n \in DOMAIN described \ {Assets!MANIFEST_NAME} :
            archived[n] = described[n] \/ n \in overtaken

(* A root is a file of the manifest, or the caller named one that is never *)
(* collected: the output, or a file in a skipped directory.                *)
RootIsListed ==
  /\ request.output \in {Assets!Temporary, "bundle"}
  /\ phase \in {"output", "collect", "root"} => chosen = Assets!Auto
  /\ phase = "root" =>
       Assets!Present \subseteq DOMAIN described \cup {"skipped.usd", request.output}
  /\ phase # "raised" =>
       \/ chosen \in {Assets!Auto, request.output} \cup DOMAIN described
       \/ chosen = "skipped.usd" /\ request.root = chosen

PackInv == AssetsTyped /\ ManifestHolds /\ RootIsListed

LEMMA PackInitially == Assets!PackagingInit => PackInv
<1> SUFFICES ASSUME Assets!PackagingInit PROVE PackInv
  OBVIOUS
<1>1. header.blank \in BOOLEAN /\ header.lines \in Seq(Assets!Lines)
  <2>1. CASE header = [blank |-> FALSE, lines |-> <<"vertex 2", "required">>]
    <3>1. "vertex 2" \in Assets!Lines /\ "required" \in Assets!Lines
      BY DEF Assets!Lines
    <3>2. ASSUME NEW L, NEW a \in L, NEW b \in L
          PROVE  <<a, b>> \in Seq(L)
      OBVIOUS
    <3>3. <<"vertex 2", "required">> \in Seq(Assets!Lines)
      BY <3>1, <3>2
    <3> QED
      BY <2>1, <3>3
  <2>2. CASE header \in Assets!Headers
    <3>1. PICK n \in 0..MaxLines : header.lines \in [1..n -> Assets!Lines]
      BY <2>2 DEF Assets!Headers
    <3>2. n \in Nat
      BY <3>1, CommandLineAssumption
    <3>3. header.lines \in Seq(Assets!Lines)
      BY <3>1, <3>2
    <3> QED
      BY <2>2, <3>3 DEF Assets!Headers
  <2> QED
    BY <2>1, <2>2 DEF Assets!PackagingInit
<1>2. asset \in [DOMAIN asset -> Nat]
  <2>1. \E names : asset = [n \in names |-> 1]
    BY Zenon DEF Assets!PackagingInit
  <2> QED
    BY <2>1
<1>3. /\ described = <<>> /\ archived = <<>> /\ DOMAIN described = {} /\ DOMAIN archived = {}
      /\ phase = "output" /\ chosen = Assets!Auto
  BY NoDigests, Zenon DEF Assets!PackagingInit
<1>5. request.output \in {Assets!Temporary, "bundle"}
  <2>1. ASSUME NEW R, request \in [root : R, output : {Assets!Temporary, "bundle"}]
        PROVE  request.output \in {Assets!Temporary, "bundle"}
    BY <2>1
  <2>2. CASE request = [root |-> Assets!Auto, output |-> Assets!Temporary]
    BY <2>2
  <2> QED
    BY <2>1, <2>2, Zenon DEF Assets!PackagingInit
<1>4. <<>> \in [{} -> Nat]
  OBVIOUS
<1> QED
  BY <1>1, <1>2, <1>3, <1>4, <1>5
  DEF PackInv, AssetsTyped, ManifestHolds, RootIsListed, Collecting

LEMMA PackStep == PackInv /\ [Assets!PackagingNext]_(Assets!packVars) => PackInv'
<1> SUFFICES ASSUME PackInv, [Assets!PackagingNext]_(Assets!packVars) PROVE PackInv'
  OBVIOUS
<1> USE DEF PackInv
<1>1. CASE Assets!ResolveOutput
  BY <1>1 DEF Assets!ResolveOutput, AssetsTyped, ManifestHolds, RootIsListed, Collecting
<1>2. CASE Assets!CollectFiles
  <2>1. /\ phase = "collect" /\ phase' \in {"root", "raised"}
        /\ DOMAIN described' \subseteq DOMAIN asset /\ request.output \notin DOMAIN described'
        /\ described' \in [DOMAIN described' -> Nat] /\ \A n \in DOMAIN described' : described'[n] = 0
        /\ phase' = "root" =>
             Assets!Present \subseteq DOMAIN described' \cup {"skipped.usd", request.output}
        /\ UNCHANGED <<asset, request, header, chosen, archived, overtaken>>
    BY <1>2 DEF Assets!CollectFiles, Assets!Raise, Assets!Collected, Assets!Present
  <2>2. archived = <<>> /\ DOMAIN archived = {} /\ chosen = Assets!Auto
    BY <2>1, NoDigests DEF ManifestHolds, RootIsListed
  <2>3. AssetsTyped'
    BY <2>1 DEF AssetsTyped
  <2>4. ManifestHolds'
    BY <2>1, <2>2 DEF ManifestHolds, Collecting
  <2>5. RootIsListed'
    BY <2>1, <2>2 DEF RootIsListed, Assets!Present
  <2> QED
    BY <2>3, <2>4, <2>5
<1>3. CASE Assets!ResolveRoot
  <2>1. Assets!Preferred \in {Assets!Auto} \cup DOMAIN described
    <3> DEFINE ranked == <<"stage.usd", "deep.usd", "robot.urdf", "splat">>
               fit == {i \in 1..4 : /\ ranked[i] \in DOMAIN described
                                    /\ ranked[i] = "splat" => Assets!SplatCount(header) > 0}
    <3>1. Assets!Preferred = IF fit = {} THEN Assets!Auto ELSE ranked[Assets!Min(fit)]
      BY DEF Assets!Preferred
    <3>2. CASE fit = {}
      BY <3>1, <3>2
    <3>3. CASE fit # {}
      <4>1. \E x \in fit : \A y \in fit : x <= y
        BY <3>3, LeastOf
      <4>2. Assets!Min(fit) \in fit
        BY <4>1 DEF Assets!Min
      <4> QED
        BY <3>1, <3>3, <4>2
    <3> QED
      BY <3>2, <3>3
  <2>2. /\ phase = "root" /\ phase' \in {"describe", "raised"}
        /\ phase' = "describe" => (\/ chosen' = Assets!Preferred
                                   \/ chosen' = request.root /\ request.root \in Assets!Present)
        /\ UNCHANGED <<asset, request, header, described, archived, overtaken>>
    BY <1>3 DEF Assets!ResolveRoot, Assets!Raise
  <2>3. AssetsTyped' /\ ManifestHolds'
    BY <2>2 DEF AssetsTyped, ManifestHolds, Collecting
  <2>4. RootIsListed'
    BY <2>1, <2>2 DEF RootIsListed
  <2> QED
    BY <2>3, <2>4
<1>4. CASE Assets!Describe
  <2>1. /\ phase = "describe" /\ UNCHANGED <<asset, request, header, chosen, archived, overtaken>>
        /\ \/ phase' = "raised" /\ UNCHANGED described
           \/ /\ UNCHANGED phase
              /\ \E n \in DOMAIN described : n \in Assets!Present
                                             /\ described' = [described EXCEPT ![n] = asset[n]]
    BY <1>4 DEF Assets!Describe, Assets!Raise
  <2>2. CASE phase' = "raised" /\ UNCHANGED described
    BY <2>1, <2>2 DEF AssetsTyped, ManifestHolds, RootIsListed, Collecting
  <2>3. CASE UNCHANGED phase /\ \E n \in DOMAIN described :
                n \in Assets!Present /\ described' = [described EXCEPT ![n] = asset[n]]
    <3>1. PICK n \in DOMAIN described : /\ n \in Assets!Present
                                        /\ described' = [described EXCEPT ![n] = asset[n]]
      BY <2>3
    <3>2. asset[n] \in Nat
      BY <3>1 DEF Assets!Present, AssetsTyped
    <3>3. /\ DOMAIN described' = DOMAIN described /\ described' \in [DOMAIN described' -> Nat]
          /\ \A m \in DOMAIN described : described'[m] = described[m] \/ described'[m] = asset[m]
      BY <3>1, <3>2 DEF AssetsTyped
    <3>4. archived = <<>> /\ DOMAIN archived = {}
      BY <2>1, NoDigests DEF ManifestHolds
    <3>5. AssetsTyped'
      BY <2>1, <3>3 DEF AssetsTyped
    <3>6. ManifestHolds'
      BY <2>1, <2>3, <3>3, <3>4 DEF ManifestHolds, Collecting
    <3>7. RootIsListed'
      BY <2>1, <2>3, <3>3 DEF RootIsListed, Assets!Present
    <3> QED
      BY <3>5, <3>6, <3>7
  <2> QED
    BY <2>1, <2>2, <2>3
<1>5. CASE Assets!OpenBundle
  <2>1. /\ phase = "describe" /\ phase' = "archive" /\ \A n \in DOMAIN described : described[n] > 0
        /\ UNCHANGED <<request, header, chosen, described, archived, overtaken>>
    BY <1>5 DEF Assets!OpenBundle
  <2>2. /\ DOMAIN asset' = DOMAIN asset /\ asset' \in [DOMAIN asset' -> Nat]
        /\ \A n \in DOMAIN described : asset'[n] = asset[n]
    BY <1>5, <2>1 DEF Assets!OpenBundle, AssetsTyped, ManifestHolds, Collecting
  <2>3. archived = <<>> /\ DOMAIN archived = {}
    BY <2>1, NoDigests DEF ManifestHolds
  <2>4. \A n \in DOMAIN described : described[n] # 0
    BY <2>1 DEF AssetsTyped
  <2>5. AssetsTyped' /\ RootIsListed'
    BY <2>1, <2>2 DEF AssetsTyped, RootIsListed
  <2>6. ManifestHolds'
    BY <2>1, <2>2, <2>3, <2>4 DEF ManifestHolds, Collecting
  <2> QED
    BY <2>5, <2>6
<1>6. CASE Assets!Archive
  <2>1. /\ phase = "archive" /\ UNCHANGED <<asset, request, header, chosen, described, overtaken>>
        /\ \/ phase' = "raised" /\ UNCHANGED archived
           \/ /\ UNCHANGED phase
              /\ \E n \in DOMAIN described \ DOMAIN archived :
                   archived' = Assets!Put(archived, n, asset[n])
    BY <1>6 DEF Assets!Archive, Assets!Raise
  <2>2. CASE phase' = "raised" /\ UNCHANGED archived
    BY <2>1, <2>2 DEF AssetsTyped, ManifestHolds, RootIsListed, Collecting
  <2>3. CASE UNCHANGED phase /\ \E n \in DOMAIN described \ DOMAIN archived :
                                  archived' = Assets!Put(archived, n, asset[n])
    <3>1. PICK n \in DOMAIN described \ DOMAIN archived :
            archived' = Assets!Put(archived, n, asset[n])
      BY <2>3
    <3>2. asset[n] \in Nat
      BY <2>1 DEF ManifestHolds, AssetsTyped, Collecting
    <3>3. /\ DOMAIN archived' = DOMAIN archived \cup {n} /\ archived' \in [DOMAIN archived' -> Nat]
          /\ \A m \in DOMAIN archived' : archived'[m] = IF m = n THEN asset[n] ELSE archived[m]
      BY <3>1, <3>2 DEF AssetsTyped, Assets!Put
    <3>4. AssetsTyped' /\ RootIsListed'
      BY <2>1, <2>3, <3>3 DEF AssetsTyped, RootIsListed
    <3>5. described[n] = asset[n] \/ n \in overtaken
      BY <2>1, <3>1 DEF ManifestHolds, Collecting
    <3>6. ManifestHolds'
      BY <2>1, <2>3, <3>1, <3>3, <3>5 DEF ManifestHolds, Collecting
    <3> QED
      BY <3>4, <3>6
  <2> QED
    BY <2>1, <2>2, <2>3
<1>7. CASE Assets!WriteManifest
  <2>1. /\ phase = "archive" /\ DOMAIN archived = DOMAIN described /\ phase' = "returned"
        /\ archived' = Assets!Put(archived, Assets!MANIFEST_NAME, Assets!OwnManifest)
        /\ UNCHANGED <<asset, request, header, chosen, described, overtaken>>
    BY <1>7 DEF Assets!WriteManifest
  <2>2. Assets!OwnManifest \in Nat
    BY DEF Assets!OwnManifest
  <2>3. /\ DOMAIN archived' = DOMAIN archived \cup {Assets!MANIFEST_NAME}
        /\ archived' \in [DOMAIN archived' -> Nat]
        /\ \A m \in DOMAIN archived' :
             archived'[m] = IF m = Assets!MANIFEST_NAME THEN Assets!OwnManifest ELSE archived[m]
    BY <2>1, <2>2 DEF AssetsTyped, Assets!Put
  <2>4. AssetsTyped' /\ RootIsListed'
    BY <2>1, <2>3 DEF AssetsTyped, RootIsListed
  <2>5. ManifestHolds'
    BY <2>1, <2>3 DEF ManifestHolds, Collecting
  <2> QED
    BY <2>4, <2>5
<1>8. CASE Assets!Cleanup
  BY <1>8 DEF Assets!Cleanup, AssetsTyped, ManifestHolds, RootIsListed, Collecting
<1>9. CASE Assets!Edit
  <2>1. PICK n \in Assets!Present :
          /\ asset' = [asset EXCEPT ![n] = IF @ = 1 THEN 3 ELSE 0]
          /\ overtaken' = IF n \in DOMAIN described \ DOMAIN archived /\ described[n] # 0
                          THEN overtaken \cup {n} ELSE overtaken
    BY <1>9 DEF Assets!Edit
  <2>2. /\ DOMAIN asset' = DOMAIN asset /\ asset' \in [DOMAIN asset' -> Nat]
        /\ \A m \in DOMAIN asset : m # n => asset'[m] = asset[m]
    BY <2>1 DEF AssetsTyped
  <2>3. /\ phase \in Collecting
        /\ UNCHANGED <<request, header, phase, chosen, described, archived>>
    BY <1>9 DEF Assets!Edit, Collecting
  <2>4. Assets!Present' \subseteq Assets!Present
    BY <2>1, <2>2 DEF Assets!Present
  <2>5. AssetsTyped'
    BY <2>2, <2>3 DEF AssetsTyped
  <2>6. \A m \in DOMAIN described \ DOMAIN archived :
          described[m] \in {0, asset'[m]} \/ m \in overtaken'
    BY <2>1, <2>2, <2>3 DEF ManifestHolds
  <2>7. overtaken \subseteq overtaken'
    BY <2>1
  <2>8. ManifestHolds'
    BY <2>2, <2>3, <2>6, <2>7 DEF ManifestHolds, Collecting
  <2>9. RootIsListed'
    <3> HIDE DEF Assets!Present
    <3> QED
      BY <2>3, <2>4 DEF RootIsListed
  <2> QED
    BY <2>5, <2>8, <2>9
<1>10. CASE UNCHANGED Assets!packVars
  BY <1>10 DEF Assets!packVars, AssetsTyped, ManifestHolds, RootIsListed, Collecting, Assets!Present
<1> QED
  BY <1>1, <1>2, <1>3, <1>4, <1>5, <1>6, <1>7, <1>8, <1>9, <1>10
  DEF Assets!PackagingNext, Assets!PackageStep

LEMMA StepOfAssets == [Next]_vars => [Assets!PackagingNext]_(Assets!packVars)
  BY DEF Next, Runs, vars, assetVars, Assets!packVars

LEMMA BundleHolds == PackInv => Assets!BundleIsAsDescribed
<1> SUFFICES ASSUME PackInv, phase = "returned"
             PROVE  Assets!BundleIsAsDescribed
  BY DEF Assets!BundleIsAsDescribed
<1>1. Assets!Compatibility = "ready_to_render" =>
        chosen \notin {Assets!Auto, Assets!Temporary, "bundle"}
  BY DEF Assets!Compatibility, Assets!Auto, Assets!Temporary
<1>2. Assets!Compatibility = "ready_to_render" =>
        chosen \in DOMAIN described \/ (chosen = "skipped.usd" /\ request.root = chosen)
  BY <1>1 DEF PackInv, RootIsListed
<1> HIDE DEF Assets!Compatibility
<1> QED
  BY <1>2 DEF PackInv, ManifestHolds, Assets!BundleIsAsDescribed

LEMMA AssetsCardinality ==
  ASSUME NEW S
  PROVE  Assets!Cardinality(S) = Cardinality(S)
  BY DEF Assets!Cardinality, Cardinality

(* What the two parsers count is the same for a header read as far. *)
LEMMA SingleMember ==
  ASSUME NEW n \in Nat, NEW S, S \subseteq 1..n, Assets!Cardinality(S) = 1
  PROVE  \E x \in 1..n : S = {x}
<1>1. IsFiniteSet(S)
  BY FS_Interval, FS_Subset, 1 \in Int, n \in Int
<1>2. Cardinality(S) = 1
  BY AssetsCardinality
<1>3. PICK x : S = {x}
  BY <1>1, <1>2, FS_Singleton
<1> QED
  BY <1>3

\* _parse_ply_header sees the lines up to the first that quotes the end of the header.
LEMMA SeenIsAPrefix ==
  ASSUME NEW h, h.lines \in Seq(Assets!Lines)
  PROVE  \E k \in 0..Len(h.lines) :
           /\ Assets!Seen(h) \in Seq(Assets!Lines) /\ Len(Assets!Seen(h)) = k
           /\ \A i \in 1..k : Assets!Seen(h)[i] = h.lines[i]
<1> DEFINE quoted == {i \in 1..Len(h.lines) : h.lines[i] = "comment"}
           first == CHOOSE i \in quoted : \A j \in quoted : i <= j
<1>1. Assets!Seen(h) = IF quoted = {} THEN h.lines ELSE SubSeq(h.lines, 1, first - 1)
  BY DEF Assets!Seen
<1>2. CASE quoted = {}
  BY <1>1, <1>2
<1>3. CASE quoted # {}
  <2>1. \E i \in quoted : \A j \in quoted : i <= j
    <3>1. quoted \subseteq Nat
      OBVIOUS
    <3> HIDE DEF quoted
    <3> QED
      BY <1>3, <3>1, LeastOf
  <2>2. first \in 1..Len(h.lines)
    BY <2>1
  <2> HIDE DEF first
  <2>3. 1 \in Int /\ first - 1 \in Int /\ \A i \in 1..first - 1 : h.lines[i] \in Assets!Lines
    BY <2>2
  <2>4. /\ SubSeq(h.lines, 1, first - 1) \in Seq(Assets!Lines)
        /\ Len(SubSeq(h.lines, 1, first - 1)) = IF 1 <= first - 1 THEN first - 1 - 1 + 1 ELSE 0
        /\ \A i \in 1..first - 1 - 1 + 1 : SubSeq(h.lines, 1, first - 1)[i] = h.lines[1 + i - 1]
    BY <2>3, SubSeqProperties
  <2>5. first - 1 \in 0..Len(h.lines) /\ Len(SubSeq(h.lines, 1, first - 1)) = first - 1
    BY <2>2, <2>4
  <2>6. \A i \in 1..first - 1 : SubSeq(h.lines, 1, first - 1)[i] = h.lines[i]
    BY <2>2, <2>4
  <2> QED
    BY <1>1, <1>3, <2>4, <2>5, <2>6
<1> QED
  BY <1>2, <1>3

LEMMA ParsersCountAlike ==
  ASSUME NEW h, h.lines \in Seq(Assets!Lines), Assets!Admitted(h)
  PROVE  /\ \/ Assets!SplatCount(h) \in {0, Assets!AdmittedCount(h)}
            \/ \E i \in 1..Len(h.lines) : h.lines[i] \in Assets!AnyVertex \ Assets!ThreeTokens
         /\ ~h.blank /\ Assets!Seen(h) = h.lines => Assets!SplatCount(h) > 0
<1> DEFINE ls == h.lines
           seen == Assets!Seen(h)
           strict(s) == {i \in 1..Len(s) : s[i] \in Assets!ThreeTokens}
           vertices(s) == {i \in 1..Len(s) : s[i] \in Assets!AnyVertex}
           last(s) == CHOOSE i \in vertices(s) : \A j \in vertices(s) : j <= i
           recognised == ~h.blank /\ \E i \in 1..Len(seen) :
                           seen[i] = "required" /\ Assets!InVertices(seen, i, Assets!AnyVertex)
<1>1. Assets!SplatCount(h) = IF recognised THEN Assets!SniffedCount(seen) ELSE 0
  BY DEF Assets!SplatCount
<1>2. Len(ls) \in Nat
  OBVIOUS
<1>3. PICK v \in 1..Len(ls) : strict(ls) = {v}
  BY <1>2, SingleMember DEF Assets!Admitted
<1>4. Assets!AdmittedCount(h) = Assets!Count(ls[v])
  <2>1. \A i \in 1..Len(ls) : ls[i] \in Assets!ThreeTokens <=> i = v
    BY <1>3
  <2> QED
    BY <2>1 DEF Assets!AdmittedCount
<1>5. PICK k \in 0..Len(ls) : /\ seen \in Seq(Assets!Lines) /\ Len(seen) = k
                              /\ \A i \in 1..k : seen[i] = ls[i]
  BY SeenIsAPrefix
<1>6. recognised => vertices(seen) # {}
  BY <1>5 DEF Assets!InVertices
<1>7. Assets!SniffedCount(seen) = IF vertices(seen) = {} THEN 0 ELSE Assets!Count(seen[last(seen)])
  BY DEF Assets!SniffedCount
<1>8. ASSUME \A i \in 1..Len(ls) : ls[i] \notin Assets!AnyVertex \ Assets!ThreeTokens
      PROVE  Assets!SplatCount(h) \in {0, Assets!AdmittedCount(h)}
  <2>1. \A e \in vertices(seen) : e = v /\ seen[e] = ls[e]
    BY <1>2, <1>3, <1>5, <1>8
  <2>2. vertices(seen) # {} => vertices(seen) = {v} /\ seen[v] = ls[v]
    BY <2>1
  <2>3. vertices(seen) = {v} => last(seen) = v
    <3> HIDE DEF vertices
    <3> SUFFICES ASSUME NEW V, V = {v}
                 PROVE  (CHOOSE i \in V : \A j \in V : j <= i) = v
      OBVIOUS
    <3> QED
      OBVIOUS
  <2> HIDE DEF vertices, last, recognised, seen
  <2> QED
    BY <1>1, <1>4, <1>6, <1>7, <2>2, <2>3, Zenon
<1>9. ASSUME ~h.blank, seen = ls PROVE Assets!SplatCount(h) > 0
  <2> DEFINE owned == {i \in 1..Len(ls) : /\ ~Assets!IsElement(ls[i])
                                          /\ Assets!InVertices(ls, i, Assets!ThreeTokens)}
  <2>1. Assets!Cardinality({i \in owned : ls[i] = "required"}) = 1
    BY DEF Assets!Admitted
  <2>2. PICK r \in 1..Len(ls) : {i \in owned : ls[i] = "required"} = {r}
    BY <1>2, <2>1, SingleMember, ZenonT(60)
  <2>3. ls[r] = "required" /\ Assets!InVertices(ls, r, Assets!AnyVertex)
    <3>1. ls[r] = "required" /\ Assets!InVertices(ls, r, Assets!ThreeTokens)
      BY <2>2
    <3> QED
      BY <3>1 DEF Assets!InVertices, Assets!AnyVertex
  <2>4. recognised
    BY <1>9, <2>3
  <2>5. \A l : Assets!Count(l) > 0
    BY DEF Assets!Count
  <2> HIDE DEF vertices, last, recognised, seen
  <2> QED
    BY <1>1, <1>6, <1>7, <2>4, <2>5
<1> QED
  BY <1>8, <1>9

(***************************************************************************)
(* The bundle of a package that was returned holds the manifest and the    *)
(* files that it lists, each with its digest unless it was edited between  *)
(* the two readings or has the name of the manifest, and the root of a     *)
(* package that is ready to render unless the caller named one in a        *)
(* skipped directory; and a splat that the hosted converter admits is not  *)
(* described with another number of Gaussians unless an element of         *)
(* vertices has a fourth token (package_local_asset,                       *)
(* validate_hosted_splat_ply, _parse_ply_header).                          *)
(***************************************************************************)
THEOREM BundlesAreAsDescribed == Spec => []BundleIsAsDescribed
<1>1. Init => PackInv
  BY PackInitially DEF Init
<1>2. PackInv /\ [Next]_vars => PackInv'
  BY PackStep, StepOfAssets
<1>3. PackInv => BundleIsAsDescribed
  BY BundleHolds, ParsersCountAlike DEF PackInv, AssetsTyped, BundleIsAsDescribed, Assets!ParsersAgree
<1> QED
  BY <1>1, <1>2, <1>3, PTL DEF Spec


(***************************************************************************)
(* The commands `checkpoint ...` and `run ...`.                            *)
(***************************************************************************)
Ids == Checkpoint!Checkpoints
Progress == {"chosen", "routed", "done"}
NamesOnce(s) == \A i, j \in DOMAIN s : s[i] = s[j] => i = j

ServiceTyped == /\ service \in [listed : Seq(Ids), public : SUBSET Ids, expiring : SUBSET Ids,
                                cancelled : SUBSET Checkpoint!Sessions]
                /\ NamesOnce(service.listed)

CommandTyped == command.name \in {"list", "runs"} => command.limit \in Nat

(* While nobody disturbs a listing, what has been fetched is a prefix of   *)
(* what the service lists, no longer than what was asked for.              *)
ListingGoesOn ==
  undisturbed # <<>> =>
    /\ step \in {"pages", "done"} /\ command.name \in {"list", "runs"}
    /\ service.listed = undisturbed /\ total = Len(undisturbed)
    /\ fetched \in Seq(Ids) /\ Len(fetched) <= Checkpoint!Target
    /\ \A i \in 1..Len(fetched) : fetched[i] = undisturbed[i]
    /\ step = "done" /\ outcome = "ok" => Len(fetched) = Checkpoint!Target

(* The paths that are done are those that are reported, each in one part.  *)
DeletionGoesOn ==
  /\ deleting \in [DOMAIN deleting -> Progress] /\ DOMAIN deleting \subseteq Ids
  /\ reported \in [deleted : SUBSET Ids, failed : SUBSET Ids]
  /\ DOMAIN deleting # {} => Checkpoint!Names("delete") /\ step \in {"confirm", "deleting", "done"}
  /\ step = "select" => Checkpoint!Names("delete")
  /\ {c \in DOMAIN deleting : deleting[c] = "done"} = reported.deleted \cup reported.failed
  /\ reported.deleted \cap reported.failed = {}
  /\ reported.deleted \cap Checkpoint!ToSet(service.listed) = {}
  /\ step = "done" /\ outcome = "ok" => \A c \in DOMAIN deleting : deleting[c] = "done"

ReportInv == ServiceTyped /\ CommandTyped /\ ListingGoesOn /\ DeletionGoesOn

(* What has been removed is among the chosen ones, and these match.        *)
RemovalsMatch ==
  /\ step = "select" \/ DOMAIN deleting # {} => command.selection = "run"
  /\ \A c \in DOMAIN deleting : Checkpoint!Matches(c, command.filter)
  /\ reported.deleted \subseteq removed /\ removed \subseteq DOMAIN deleting
  /\ removed # {} => step = "deleting" \/ (step = "done" /\ outcome = "ok")

LEMMA MinOfTwo ==
  ASSUME NEW a \in Int, NEW b \in Int
  PROVE  Checkpoint!Min({a, b}) = IF a <= b THEN a ELSE b
<1>1. \A x \in {a, b} : (\A y \in {a, b} : x <= y) => x = IF a <= b THEN a ELSE b
  OBVIOUS
<1>2. \E x \in {a, b} : \A y \in {a, b} : x <= y
  OBVIOUS
<1> QED
  BY <1>1, <1>2 DEF Checkpoint!Min

\* A list without one of its names.
LEMMA WithoutOne ==
  ASSUME NEW S, NEW s \in Seq(S), NamesOnce(s), NEW c \in Checkpoint!ToSet(s)
  PROVE  /\ Checkpoint!Without(s, c) \in Seq(S) /\ NamesOnce(Checkpoint!Without(s, c))
         /\ Checkpoint!ToSet(Checkpoint!Without(s, c)) = Checkpoint!ToSet(s) \ {c}
<1> DEFINE at == CHOOSE i \in DOMAIN s : s[i] = c
           before == SubSeq(s, 1, at - 1)
           after == SubSeq(s, at + 1, Len(s))
<1>1. at \in 1..Len(s) /\ s[at] = c
  BY DEF Checkpoint!ToSet
<1>2. Checkpoint!Without(s, c) = before \o after
  BY DEF Checkpoint!Without, Checkpoint!RemoveAt
<1> HIDE DEF at
<1>3. /\ before \in Seq(S) /\ Len(before) = at - 1
      /\ \A i \in 1..at - 1 : before[i] = s[i]
  <2>1. /\ 1 \in Int /\ at - 1 \in Int
        /\ \A i \in 1..at - 1 : s[i] \in S
    BY <1>1
  <2>2. /\ before \in Seq(S) /\ Len(before) = IF 1 <= at - 1 THEN at - 1 - 1 + 1 ELSE 0
        /\ \A i \in 1..at - 1 - 1 + 1 : before[i] = s[1 + i - 1]
    BY <2>1, SubSeqProperties
  <2> QED
    BY <1>1, <2>2
<1>4. /\ after \in Seq(S) /\ Len(after) = Len(s) - at
      /\ \A i \in 1..Len(s) - at : after[i] = s[at + i]
  <2>1. /\ at + 1 \in Int /\ Len(s) \in Int
        /\ \A i \in at + 1..Len(s) : s[i] \in S
    BY <1>1
  <2>2. /\ after \in Seq(S) /\ Len(after) = IF at + 1 <= Len(s) THEN Len(s) - (at + 1) + 1 ELSE 0
        /\ \A i \in 1..Len(s) - (at + 1) + 1 : after[i] = s[at + 1 + i - 1]
    BY <2>1, SubSeqProperties
  <2> QED
    BY <1>1, <2>2
<1> HIDE DEF before, after
<1> DEFINE rest == before \o after
<1>5. /\ rest \in Seq(S) /\ Len(rest) = Len(s) - 1
      /\ \A i \in 1..Len(rest) : rest[i] = s[IF i < at THEN i ELSE i + 1]
  <2>1. /\ rest \in Seq(S) /\ Len(rest) = Len(before) + Len(after)
        /\ \A i \in 1..Len(before) + Len(after) :
             rest[i] = IF i <= Len(before) THEN before[i] ELSE after[i - Len(before)]
    BY <1>3, <1>4, ConcatProperties
  <2>2. Len(rest) = Len(s) - 1 /\ at \in Nat \ {0} /\ Len(s) \in Nat
    BY <1>1, <1>3, <1>4, <2>1, SMTT(60)
  <2>3. ASSUME NEW i \in 1..Len(s) - 1, i < at
        PROVE  rest[i] = s[i]
    BY <1>1, <1>3, <1>4, <2>1, <2>2, <2>3
  <2>4. ASSUME NEW i \in 1..Len(s) - 1, i >= at
        PROVE  rest[i] = s[i + 1]
    <3>1. i - Len(before) \in 1..Len(s) - at
      BY <1>3, <2>2, <2>4
    <3>2. rest[i] = after[i - Len(before)]
      BY <1>3, <1>4, <2>1, <2>2, <2>4
    <3>3. at + (i - Len(before)) = i + 1
      BY <1>3, <2>2, <2>4
    <3> QED
      BY <1>4, <3>1, <3>2, <3>3
  <2> HIDE DEF rest
  <2>5. ASSUME NEW i \in 1..Len(rest)
        PROVE  rest[i] = s[IF i < at THEN i ELSE i + 1]
    <3>1. CASE i < at
      BY <2>2, <2>3, <3>1
    <3>2. CASE ~(i < at)
      BY <2>2, <2>4, <3>2
    <3> QED
      BY <3>1, <3>2
  <2> QED
    BY <2>1, <2>2, <2>5
<1> HIDE DEF rest
<1>6. DOMAIN rest = 1..Len(rest) /\ DOMAIN s = 1..Len(s)
  BY <1>5
<1> DEFINE old(i) == IF i < at THEN i ELSE i + 1
<1>7. \A i \in 1..Len(rest) : old(i) \in DOMAIN s /\ old(i) # at /\ rest[i] = s[old(i)]
  BY <1>1, <1>5, <1>6
<1>8. NamesOnce(rest)
  <2> SUFFICES ASSUME NEW i \in 1..Len(rest), NEW j \in 1..Len(rest), rest[i] = rest[j] PROVE i = j
    BY <1>6 DEF NamesOnce
  <2>1. old(i) = old(j)
    BY <1>7, Zenon DEF NamesOnce
  <2> QED
    BY <1>1, <2>1
<1>9. \A i \in 1..Len(rest) : rest[i] \in Checkpoint!ToSet(s) /\ rest[i] # c
  <2> SUFFICES ASSUME NEW i \in 1..Len(rest)
               PROVE  rest[i] \in Checkpoint!ToSet(s) /\ rest[i] # c
    OBVIOUS
  <2> HIDE DEF old
  <2> QED
    BY <1>1, <1>6, <1>7 DEF NamesOnce, Checkpoint!ToSet
<1>10. \A j \in DOMAIN s : s[j] # c => \E i \in 1..Len(rest) : rest[i] = s[j]
  <2> SUFFICES ASSUME NEW j \in 1..Len(s), s[j] # c
               PROVE  \E i \in 1..Len(rest) : rest[i] = s[j]
    BY <1>6
  <2>1. CASE j < at
    BY <1>1, <1>5, <2>1
  <2>2. CASE j > at
    <3>1. j - 1 \in 1..Len(rest) /\ ~(j - 1 < at) /\ (j - 1) + 1 = j
      BY <1>1, <1>5, <2>2
    <3> QED
      BY <1>5, <3>1
  <2> QED
    BY <1>1, <2>1, <2>2
<1>11. {rest[i] : i \in 1..Len(rest)} = Checkpoint!ToSet(s) \ {c}
  BY <1>6, <1>9, <1>10 DEF Checkpoint!ToSet
<1> QED
  BY <1>2, <1>5, <1>6, <1>8, <1>11 DEF rest, Checkpoint!ToSet

\* One page of a listing.
LEMMA PageIs ==
  ASSUME service.listed \in Seq(Ids), NEW n \in Nat, NEW from \in 0..Len(service.listed)
  PROVE  /\ Checkpoint!Page(n, from) \in Seq(Ids)
         /\ Len(Checkpoint!Page(n, from)) =
              IF from + n <= Len(service.listed) THEN n ELSE Len(service.listed) - from
         /\ \A i \in 1..Len(Checkpoint!Page(n, from)) :
              Checkpoint!Page(n, from)[i] = service.listed[from + i]
<1> DEFINE last == IF from + n <= Len(service.listed) THEN from + n ELSE Len(service.listed)
           page == SubSeq(service.listed, from + 1, last)
<1>1. Checkpoint!Page(n, from) = page
  <2>1. from + n \in Int /\ Len(service.listed) \in Int
    OBVIOUS
  <2> QED
    BY <2>1, MinOfTwo DEF Checkpoint!Page
<1>2. /\ from + 1 \in Int /\ last \in Int
      /\ \A i \in from + 1..last : service.listed[i] \in Ids
  OBVIOUS
<1>3. /\ page \in Seq(Ids) /\ Len(page) = IF from + 1 <= last THEN last - (from + 1) + 1 ELSE 0
      /\ \A i \in 1..last - (from + 1) + 1 : page[i] = service.listed[from + 1 + i - 1]
  BY <1>2, SubSeqProperties
<1> QED
  BY <1>1, <1>3

LEMMA ListsHaveLimits ==
  ASSUME NEW c \in Checkpoint!Commands, c.name \in {"list", "runs"}
  PROVE  c.limit \in Nat
<1>1. \/ c \in [name : {"list", "runs"}, limit : 0..MaxCheckpoints, columns : {"known"}]
      \/ c \in [name : {"runs"}, limit : {0}, columns : {"unknown"}]
      \/ c.name \in {"info", "publish", "unpublish", "set-ttl", "download", "push-hf", "delete",
                     "list-run", "run-info", "session"}
  BY Zenon DEF Checkpoint!Commands
<1>2. c.name \notin {"info", "publish", "unpublish", "set-ttl", "download", "push-hf", "delete",
                    "list-run", "run-info", "session"}
  OBVIOUS
<1>3. MaxCheckpoints \in Nat
  BY CommandLineAssumption
<1> QED
  BY <1>1, <1>2, <1>3

LEMMA ReportsInitially == Checkpoint!CommandsInit => ReportInv
<1> SUFFICES ASSUME Checkpoint!CommandsInit PROVE ReportInv
  OBVIOUS
<1>1. MaxCheckpoints \in Nat
  BY CommandLineAssumption
<1>2. [i \in 1..MaxCheckpoints |-> i] \in Seq(Ids) /\ NamesOnce([i \in 1..MaxCheckpoints |-> i])
  BY <1>1 DEF Ids, Checkpoint!Checkpoints, NamesOnce
<1>3. ServiceTyped
  BY <1>2 DEF Checkpoint!CommandsInit, Checkpoint!NoService, ServiceTyped
<1>4. command.name \in {"list", "runs"} => command.limit \in Nat
  BY ListsHaveLimits DEF Checkpoint!CommandsInit
<1>5. DeletionGoesOn
  BY DEF Checkpoint!CommandsInit, Checkpoint!NoReport, DeletionGoesOn
<1>6. ListingGoesOn
  BY DEF Checkpoint!CommandsInit, ListingGoesOn
<1> QED
  BY <1>3, <1>4, <1>5, <1>6 DEF ReportInv, CommandTyped

(* A step of a command that neither lists nor deletes. *)
LEMMA QuietCommand ==
  ASSUME ReportInv, ServiceTyped', service'.listed = service.listed,
         UNCHANGED <<command, fetched, total, undisturbed, deleting, reported>>,
         step \notin {"pages", "done", "confirm", "deleting"},
         step' = "select" => command.name = "delete"
  PROVE  ReportInv'
<1>1. undisturbed = <<>> /\ DOMAIN deleting = {}
  BY DEF ReportInv, ListingGoesOn, DeletionGoesOn
<1>2. ListingGoesOn' /\ CommandTyped'
  BY <1>1 DEF ReportInv, ListingGoesOn, CommandTyped
<1>3. DeletionGoesOn'
  BY <1>1 DEF ReportInv, DeletionGoesOn, Checkpoint!Names
<1> QED
  BY <1>2, <1>3 DEF ReportInv

LEMMA OperateKeeps ==
  ASSUME ReportInv, Checkpoint!Operate \/ Checkpoint!OneRequest
  PROVE  ServiceTyped' /\ service'.listed = service.listed
<1>1. ServiceTyped
  BY DEF ReportInv
<1>2. Checkpoint!Exists(Checkpoint!Path) => Checkpoint!Path \in Ids
  BY <1>1 DEF ServiceTyped, Checkpoint!Exists, Checkpoint!ToSet
<1>3. \/ UNCHANGED service
      \/ \E p \in SUBSET Ids : service' = [service EXCEPT !.public = p]
      \/ \E e \in SUBSET Ids : service' = [service EXCEPT !.expiring = e]
      \/ \E c \in SUBSET Checkpoint!Sessions : service' = [service EXCEPT !.cancelled = c]
  <2>1. CASE Checkpoint!Names("publish") /\ Checkpoint!Operate
    BY <1>1, <1>2, <2>1
    DEF Checkpoint!Operate, Checkpoint!Names, Checkpoint!Publish, Checkpoint!Changes, ServiceTyped
  <2>2. CASE Checkpoint!Names("unpublish") /\ Checkpoint!Operate
    BY <1>1, <1>2, <2>2
    DEF Checkpoint!Operate, Checkpoint!Names, Checkpoint!Unpublish, Checkpoint!Changes, ServiceTyped
  <2>3. CASE Checkpoint!Names("set-ttl") /\ Checkpoint!Operate
    BY <1>1, <1>2, <2>3
    DEF Checkpoint!Operate, Checkpoint!Names, Checkpoint!SetTtl, Checkpoint!Changes, ServiceTyped
  <2>4. CASE ~(command.name \in {"publish", "unpublish", "set-ttl"}) /\ Checkpoint!Operate
    BY <2>4 DEF Checkpoint!Operate, Checkpoint!Names, Checkpoint!GetArchiveUrl, Checkpoint!Reads
  <2>5. CASE Checkpoint!OneRequest
    BY <1>1, <2>5 DEF Checkpoint!OneRequest, Checkpoint!ListCheckpoints, Checkpoint!GetTrainingRun,
      Checkpoint!GetSession, Checkpoint!ListSessions, Checkpoint!GetSampler,
      Checkpoint!CancelSession, Checkpoint!Reads, Checkpoint!Changes, Checkpoint!Sessions, ServiceTyped
  <2> QED
    BY <2>1, <2>2, <2>3, <2>4, <2>5 DEF Checkpoint!Names
<1> QED
  BY <1>1, <1>3 DEF ServiceTyped

LEMMA UndisturbedTarget ==
  ASSUME ReportInv, undisturbed # <<>>
  PROVE  /\ Checkpoint!Target \in Nat /\ Checkpoint!Target <= Len(service.listed)
         /\ Checkpoint!Target = IF command.limit > 0
                                THEN IF command.limit <= Len(undisturbed) THEN command.limit
                                     ELSE Len(undisturbed)
                                ELSE Len(undisturbed)
         /\ Len(fetched) \in Nat
<1>1. /\ command.limit \in Nat /\ total = Len(service.listed) /\ service.listed \in Seq(Ids)
      /\ service.listed = undisturbed /\ fetched \in Seq(Ids)
  BY DEF ReportInv, ServiceTyped, CommandTyped, ListingGoesOn
<1> QED
  BY <1>1, MinOfTwo DEF Checkpoint!Target, Checkpoint!Limit

(* The pages of a listing. *)
LEMMA ListingStep ==
  ASSUME ReportInv, Checkpoint!Listing
  PROVE  ReportInv'
<1> USE DEF ReportInv
<1>0. /\ UNCHANGED <<service, command, deleting, reported>> /\ step \in {"firstPage", "pages"}
      /\ DOMAIN deleting = {} /\ step' \in {"pages", "done"}
  BY DEF Checkpoint!Listing, Checkpoint!FirstPage, Checkpoint!NextPage, Checkpoint!AllPages,
         Checkpoint!ListUserCheckpoints, Checkpoint!ListTrainingRuns, Checkpoint!Reads,
         Checkpoint!Quiet, Checkpoint!Goto, Checkpoint!End, Checkpoint!Fails, DeletionGoesOn
<1>1. ServiceTyped' /\ CommandTyped' /\ DeletionGoesOn'
  BY <1>0 DEF ServiceTyped, CommandTyped, DeletionGoesOn, Checkpoint!Names
<1>2. Batch \in Nat \ {0}
  BY CommandLineAssumption
<1>3. service.listed \in Seq(Ids)
  BY DEF ServiceTyped
<1>4. CASE Checkpoint!FirstPage
  <2>1. \/ /\ fetched' = Checkpoint!Page(Checkpoint!ListFirst, 0) /\ total' = Len(service.listed)
           /\ undisturbed' = service.listed /\ step' = "pages" /\ UNCHANGED <<service, command>>
           /\ command.name \in {"list", "runs"}
        \/ UNCHANGED undisturbed
    BY <1>4 DEF Checkpoint!FirstPage, Checkpoint!ListUserCheckpoints, Checkpoint!ListTrainingRuns,
                Checkpoint!Reads, Checkpoint!Goto, Checkpoint!Names
  <2>2. undisturbed = <<>>
    BY <1>4 DEF Checkpoint!FirstPage, ListingGoesOn
  <2>3. CASE UNCHANGED undisturbed
    BY <1>1, <2>2, <2>3 DEF ListingGoesOn
  <2>4. CASE /\ fetched' = Checkpoint!Page(Checkpoint!ListFirst, 0) /\ total' = Len(service.listed)
             /\ undisturbed' = service.listed /\ step' = "pages" /\ UNCHANGED <<service, command>>
             /\ command.name \in {"list", "runs"}
    <3>1. command.limit \in Nat
      BY <2>4 DEF CommandTyped
    <3>2. Checkpoint!ListFirst \in Nat /\ (command.limit > 0 => Checkpoint!ListFirst <= command.limit)
      BY <1>2, <3>1, MinOfTwo DEF Checkpoint!ListFirst, Checkpoint!Limit
    <3>3. 0 \in 0..Len(service.listed)
      BY <1>3
    <3>4. /\ fetched' \in Seq(Ids) /\ Len(fetched') <= Len(service.listed)
          /\ Len(fetched') <= Checkpoint!ListFirst
          /\ \A i \in 1..Len(fetched') : fetched'[i] = service.listed[0 + i]
      <4> DEFINE page == Checkpoint!Page(Checkpoint!ListFirst, 0)
      <4>1. /\ page \in Seq(Ids)
            /\ Len(page) = IF 0 + Checkpoint!ListFirst <= Len(service.listed)
                           THEN Checkpoint!ListFirst ELSE Len(service.listed) - 0
            /\ \A i \in 1..Len(page) : page[i] = service.listed[0 + i]
        BY <1>3, <3>2, <3>3, PageIs
      <4> HIDE DEF page
      <4>2. Len(page) <= Len(service.listed) /\ Len(page) <= Checkpoint!ListFirst
        BY <1>3, <3>2, <4>1
      <4> QED
        BY <2>4, <4>1, <4>2 DEF page
    <3>5. Checkpoint!Target' = IF command.limit > 0
                               THEN IF command.limit <= Len(service.listed) THEN command.limit
                                    ELSE Len(service.listed)
                               ELSE Len(service.listed)
      BY <1>3, <2>4, <3>1, MinOfTwo DEF Checkpoint!Target, Checkpoint!Limit
    <3>6. Len(fetched') <= Checkpoint!Target'
      BY <1>3, <3>1, <3>2, <3>4, <3>5
    <3> QED
      BY <1>1, <1>3, <2>4, <3>4, <3>6 DEF ListingGoesOn
  <2> QED
    BY <2>1, <2>3, <2>4
<1>5. CASE Checkpoint!NextPage
  <2>1. CASE undisturbed = <<>>
    BY <1>1, <1>5, <2>1 DEF Checkpoint!NextPage, ListingGoesOn
  <2>2. CASE undisturbed # <<>>
    <3> DEFINE page == Checkpoint!Page(Checkpoint!Remaining, Len(fetched))
    <3>1. /\ UNCHANGED <<service, command, total, undisturbed>>
          /\ Len(fetched) < Checkpoint!Target
          /\ \/ /\ fetched' = fetched \o page
                /\ IF Len(page) < Checkpoint!Remaining THEN Checkpoint!End("ok")
                   ELSE Checkpoint!Goto("pages")
             \/ UNCHANGED fetched /\ step' = "done" /\ outcome' = "error"
      BY <1>5 DEF Checkpoint!NextPage, Checkpoint!ListUserCheckpoints, Checkpoint!Reads,
                  Checkpoint!Fails, Checkpoint!End
    <3>2. /\ Checkpoint!Target \in Nat /\ Checkpoint!Target <= Len(service.listed)
          /\ Len(fetched) \in Nat
      BY <2>2, UndisturbedTarget
    <3>3. Checkpoint!Remaining \in Nat /\ Len(fetched) + Checkpoint!Remaining <= Checkpoint!Target
      BY <1>2, <3>1, <3>2, MinOfTwo DEF Checkpoint!Remaining
    <3>4. /\ page \in Seq(Ids) /\ Len(page) = Checkpoint!Remaining
          /\ \A i \in 1..Len(page) : page[i] = service.listed[Len(fetched) + i]
      <4>1. Len(fetched) \in 0..Len(service.listed)
        BY <1>3, <3>1, <3>2
      <4>2. /\ page \in Seq(Ids)
            /\ Len(page) = IF Len(fetched) + Checkpoint!Remaining <= Len(service.listed)
                           THEN Checkpoint!Remaining ELSE Len(service.listed) - Len(fetched)
            /\ \A i \in 1..Len(page) : page[i] = service.listed[Len(fetched) + i]
        BY <1>3, <3>3, <4>1, PageIs
      <4>3. Len(fetched) + Checkpoint!Remaining <= Len(service.listed)
        BY <1>3, <3>2, <3>3
      <4> QED
        BY <4>2, <4>3
    <3>5. /\ service.listed = undisturbed /\ fetched \in Seq(Ids)
          /\ \A i \in 1..Len(fetched) : fetched[i] = undisturbed[i]
      BY <2>2 DEF ListingGoesOn
    <3> HIDE DEF page
    <3>6. /\ fetched \o page \in Seq(Ids) /\ Len(fetched \o page) = Len(fetched) + Len(page)
          /\ \A i \in 1..Len(fetched) + Len(page) :
               (fetched \o page)[i] = IF i <= Len(fetched) THEN fetched[i] ELSE page[i - Len(fetched)]
      BY <3>4, <3>5, ConcatProperties
    <3>7. \A i \in 1..Len(fetched \o page) : (fetched \o page)[i] = undisturbed[i]
      <4> SUFFICES ASSUME NEW i \in 1..Len(fetched) + Len(page)
                   PROVE  (fetched \o page)[i] = undisturbed[i]
        BY <3>6
      <4>1. CASE i <= Len(fetched)
        BY <3>2, <3>5, <3>6, <4>1
      <4>2. CASE i > Len(fetched)
        <5>1. /\ i - Len(fetched) \in 1..Len(page) /\ Len(fetched) + (i - Len(fetched)) = i
              /\ ~(i <= Len(fetched))
          BY <3>2, <3>3, <3>4, <4>2
        <5> QED
          BY <3>4, <3>5, <3>6, <5>1
      <4> QED
        BY <3>2, <4>1, <4>2
    <3>8. UNCHANGED Checkpoint!Target
      BY <3>1 DEF Checkpoint!Target, Checkpoint!Limit
    <3>9. CASE UNCHANGED fetched /\ step' = "done" /\ outcome' = "error"
      BY <1>1, <2>2, <3>1, <3>8, <3>9 DEF ListingGoesOn
    <3>10. CASE fetched' = fetched \o page /\ step' = "pages"
      <4>1. Len(fetched') <= Checkpoint!Target
        BY <3>2, <3>3, <3>4, <3>6, <3>10
      <4> QED
        BY <1>1, <2>2, <3>1, <3>6, <3>7, <3>8, <3>10, <4>1 DEF ListingGoesOn
    <3> QED
      BY <3>1, <3>3, <3>4, <3>9, <3>10 DEF Checkpoint!Goto
  <2> QED
    BY <2>1, <2>2
<1>6. CASE Checkpoint!AllPages
  <2>1. UNCHANGED <<fetched, total, undisturbed>> /\ Len(fetched) >= Checkpoint!Target /\ step' = "done"
    BY <1>6 DEF Checkpoint!AllPages, Checkpoint!Quiet, Checkpoint!End
  <2>2. undisturbed # <<>> => Len(fetched) = Checkpoint!Target
    BY <2>1, UndisturbedTarget DEF ListingGoesOn
  <2> QED
    BY <1>0, <1>1, <2>1, <2>2 DEF ListingGoesOn, Checkpoint!Target, Checkpoint!Limit
<1> QED
  BY <1>4, <1>5, <1>6 DEF Checkpoint!Listing

LEMMA OneFewer ==
  ASSUME ServiceTyped, NEW c \in Checkpoint!ToSet(service.listed),
         service' = [service EXCEPT !.listed = Checkpoint!Without(@, c), !.public = @ \ {c},
                                    !.expiring = @ \ {c}]
  PROVE  /\ ServiceTyped'
         /\ Checkpoint!ToSet(service'.listed) \subseteq Checkpoint!ToSet(service.listed) \ {c}
<1>1. service'.listed = Checkpoint!Without(service.listed, c)
  BY DEF ServiceTyped
<1>2. /\ service'.listed \in Seq(Ids) /\ NamesOnce(service'.listed)
      /\ Checkpoint!ToSet(service'.listed) \subseteq Checkpoint!ToSet(service.listed) \ {c}
  BY <1>1, WithoutOne DEF ServiceTyped
<1> QED
  BY <1>2 DEF ServiceTyped, NamesOnce

(* What is reported of the paths, one after the other. *)
LEMMA DeletionStep ==
  ASSUME ReportInv, Checkpoint!Deletion
  PROVE  ReportInv'
<1> USE DEF ReportInv
<1>1. /\ step \in {"select", "confirm", "paths", "deleting"} /\ undisturbed = <<>>
      /\ UNCHANGED <<command, undisturbed>>
  BY DEF Checkpoint!Deletion, Checkpoint!Select, Checkpoint!Confirm, Checkpoint!SelectPaths,
         Checkpoint!DeleteReport, Checkpoint!DeleteRoute, Checkpoint!DeleteOne, Checkpoint!Quiet,
         ListingGoesOn
<1>2. ListingGoesOn' /\ CommandTyped'
  BY <1>1 DEF ListingGoesOn, CommandTyped
<1>3. CASE Checkpoint!Select
  <2>1. /\ UNCHANGED <<service, reported>> /\ step = "select"
        /\ \/ UNCHANGED deleting
           \/ /\ deleting' = [c \in Checkpoint!Chosen(command.filter) |-> "chosen"]
              /\ step' \in {"deleting", "confirm"}
    BY <1>3 DEF Checkpoint!Select, Checkpoint!ListCheckpoints, Checkpoint!Reads, Checkpoint!Goto
  <2>2. DOMAIN deleting = {} /\ reported.deleted \cup reported.failed = {}
    BY <2>1 DEF DeletionGoesOn
  <2>3. ServiceTyped'
    BY <2>1 DEF ServiceTyped
  <2>4. CASE UNCHANGED deleting
    BY <1>1, <1>2, <2>1, <2>2, <2>3, <2>4 DEF DeletionGoesOn, Checkpoint!Names
  <2>5. CASE /\ deleting' = [c \in Checkpoint!Chosen(command.filter) |-> "chosen"]
             /\ step' \in {"deleting", "confirm"}
    <3>1. Checkpoint!Chosen(command.filter) \subseteq Ids
      BY DEF Checkpoint!Chosen, Checkpoint!ToSet, ServiceTyped
    <3>2. Checkpoint!Names("delete")'
      BY <1>1, <2>1 DEF Checkpoint!Names, DeletionGoesOn
    <3>3. DeletionGoesOn'
      <4>1. /\ deleting' \in [DOMAIN deleting' -> Progress] /\ DOMAIN deleting' \subseteq Ids
            /\ {c \in DOMAIN deleting' : deleting'[c] = "done"} = {}
        BY <2>5, <3>1 DEF Progress
      <4> QED
        BY <2>1, <2>2, <2>5, <3>2, <4>1 DEF DeletionGoesOn
    <3> QED
      BY <1>2, <2>3, <3>3
  <2> QED
    BY <2>1, <2>4, <2>5
<1>4. CASE Checkpoint!Confirm \/ Checkpoint!SelectPaths \/ Checkpoint!DeleteReport
  <2>1. /\ UNCHANGED <<service, reported, deleting>> /\ step' \in {"deleting", "done"}
        /\ step' = "done" /\ outcome' = "ok" => \A c \in DOMAIN deleting : deleting[c] = "done"
    BY <1>4 DEF Checkpoint!Confirm, Checkpoint!SelectPaths, Checkpoint!DeleteReport, Checkpoint!Quiet,
                Checkpoint!Goto, Checkpoint!End, Checkpoint!Fails, Checkpoint!Usage
  <2> QED
    BY <1>1, <1>2, <2>1 DEF ServiceTyped, DeletionGoesOn, Checkpoint!Names
<1>5. ASSUME NEW c \in DOMAIN deleting, Checkpoint!DeleteRoute(c) \/ Checkpoint!DeleteOne(c)
      PROVE  ReportInv'
  <2>1. /\ step = "deleting" /\ step' = "deleting" /\ deleting[c] \in {"chosen", "routed"}
        /\ \/ UNCHANGED service
           \/ /\ c \in Checkpoint!ToSet(service.listed)
              /\ service' = [service EXCEPT !.listed = Checkpoint!Without(@, c), !.public = @ \ {c},
                                            !.expiring = @ \ {c}]
        /\ \/ UNCHANGED reported /\ deleting' = [deleting EXCEPT ![c] = "routed"]
           \/ /\ deleting' = [deleting EXCEPT ![c] = "done"]
              /\ reported' = [reported EXCEPT !.failed = @ \cup {c}]
           \/ /\ deleting' = [deleting EXCEPT ![c] = "done"]
              /\ reported' = [reported EXCEPT !.deleted = @ \cup {c}]
              /\ c \in Checkpoint!ToSet(service.listed)
              /\ service' = [service EXCEPT !.listed = Checkpoint!Without(@, c), !.public = @ \ {c},
                                            !.expiring = @ \ {c}]
    BY <1>5 DEF Checkpoint!DeleteRoute, Checkpoint!DeleteOne, Checkpoint!GetWeightsInfo,
      Checkpoint!DeleteCheckpoint, Checkpoint!Exists, Checkpoint!Reads, Checkpoint!Changes,
      Checkpoint!Does, Checkpoint!Says
  <2>2. /\ ServiceTyped' /\ Checkpoint!ToSet(service'.listed) \subseteq Checkpoint!ToSet(service.listed)
        /\ UNCHANGED service \/ c \notin Checkpoint!ToSet(service'.listed)
    <3>1. CASE UNCHANGED service
      BY <3>1 DEF ServiceTyped
    <3>2. CASE /\ c \in Checkpoint!ToSet(service.listed)
               /\ service' = [service EXCEPT !.listed = Checkpoint!Without(@, c), !.public = @ \ {c},
                                             !.expiring = @ \ {c}]
      BY <3>2, OneFewer
    <3> QED
      BY <2>1, <3>1, <3>2
  <2>3. c \notin reported.deleted \cup reported.failed /\ c \in Ids
    BY <2>1 DEF DeletionGoesOn
  <2>7. ASSUME deleting' \in [DOMAIN deleting -> Progress],
               reported' \in [deleted : SUBSET Ids, failed : SUBSET Ids],
               reported'.deleted \cap reported'.failed = {},
               reported'.deleted \cap Checkpoint!ToSet(service'.listed) = {},
               {d \in DOMAIN deleting : deleting'[d] = "done"}
                 = reported'.deleted \cup reported'.failed
        PROVE  DeletionGoesOn'
    BY <1>1, <2>1, <2>7 DEF DeletionGoesOn, Checkpoint!Names
  <2>8. ASSUME NEW what \in Progress, deleting' = [deleting EXCEPT ![c] = what]
        PROVE  /\ deleting' \in [DOMAIN deleting -> Progress]
               /\ \A d \in DOMAIN deleting : deleting'[d] = IF d = c THEN what ELSE deleting[d]
    BY <2>8 DEF DeletionGoesOn
  <2>4. CASE UNCHANGED reported /\ deleting' = [deleting EXCEPT ![c] = "routed"]
    <3>1. DeletionGoesOn'
      <4>1. /\ deleting' \in [DOMAIN deleting -> Progress]
            /\ \A d \in DOMAIN deleting : deleting'[d] = IF d = c THEN "routed" ELSE deleting[d]
        BY <2>4, <2>8 DEF Progress
      <4>2. {d \in DOMAIN deleting : deleting'[d] = "done"} = reported.deleted \cup reported.failed
        BY <2>1, <4>1 DEF DeletionGoesOn
      <4> QED
        BY <2>2, <2>4, <2>7, <4>1, <4>2 DEF DeletionGoesOn
    <3> QED
      BY <1>1, <1>2, <2>2, <3>1
  <2>5. CASE /\ deleting' = [deleting EXCEPT ![c] = "done"]
             /\ reported' = [reported EXCEPT !.failed = @ \cup {c}]
    <3>1. /\ reported'.deleted = reported.deleted /\ reported'.failed = reported.failed \cup {c}
          /\ reported' \in [deleted : SUBSET Ids, failed : SUBSET Ids]
      BY <2>3, <2>5 DEF DeletionGoesOn
    <3>2. DeletionGoesOn'
      <4>1. /\ deleting' \in [DOMAIN deleting -> Progress]
            /\ \A d \in DOMAIN deleting : deleting'[d] = IF d = c THEN "done" ELSE deleting[d]
        BY <2>5, <2>8 DEF Progress
      <4>2. {d \in DOMAIN deleting : deleting'[d] = "done"} = reported.deleted \cup reported.failed \cup {c}
        BY <2>1, <4>1 DEF DeletionGoesOn
      <4> QED
        BY <2>2, <2>3, <2>5, <2>7, <3>1, <4>1, <4>2 DEF DeletionGoesOn
    <3> QED
      BY <1>2, <2>2, <3>2
  <2>6. CASE /\ deleting' = [deleting EXCEPT ![c] = "done"]
             /\ reported' = [reported EXCEPT !.deleted = @ \cup {c}]
             /\ c \in Checkpoint!ToSet(service.listed)
             /\ service' = [service EXCEPT !.listed = Checkpoint!Without(@, c), !.public = @ \ {c},
                                           !.expiring = @ \ {c}]
    <3>1. /\ reported'.failed = reported.failed /\ reported'.deleted = reported.deleted \cup {c}
          /\ reported' \in [deleted : SUBSET Ids, failed : SUBSET Ids]
      BY <2>3, <2>6 DEF DeletionGoesOn
    <3>2. c \notin Checkpoint!ToSet(service'.listed)
      BY <2>6, OneFewer
    <3>3. DeletionGoesOn'
      <4>1. /\ deleting' \in [DOMAIN deleting -> Progress]
            /\ \A d \in DOMAIN deleting : deleting'[d] = IF d = c THEN "done" ELSE deleting[d]
        BY <2>6, <2>8 DEF Progress
      <4>2. {d \in DOMAIN deleting : deleting'[d] = "done"} = reported.deleted \cup reported.failed \cup {c}
        BY <2>1, <4>1 DEF DeletionGoesOn
      <4> QED
        BY <2>2, <2>3, <2>6, <2>7, <3>1, <3>2, <4>1, <4>2 DEF DeletionGoesOn
    <3> QED
      BY <1>2, <2>2, <3>3
  <2> QED
    BY <2>1, <2>4, <2>5, <2>6
<1> QED
  BY <1>3, <1>4, <1>5 DEF Checkpoint!Deletion

LEMMA ReportsStep == ReportInv /\ [Checkpoint!CommandsNext]_(Checkpoint!commandVars) => ReportInv'
<1> SUFFICES ASSUME ReportInv, [Checkpoint!CommandsNext]_(Checkpoint!commandVars) PROVE ReportInv'
  OBVIOUS
<1>1. CASE \/ Checkpoint!CheckArguments \/ Checkpoint!Connect \/ Checkpoint!OneRequest
           \/ Checkpoint!ByPath \/ Checkpoint!Pushing \/ Checkpoint!Transfers
  <2>1. /\ UNCHANGED <<command, fetched, total, undisturbed, deleting, reported>>
        /\ step' = "select" => command.name = "delete"
        /\ step \notin {"pages", "done", "confirm", "deleting"}
        /\ \/ UNCHANGED service
           \/ Checkpoint!OneRequest \/ Checkpoint!Operate
    <3>1. CASE Checkpoint!CheckArguments
      BY <3>1 DEF Checkpoint!CheckArguments, Checkpoint!Quiet, Checkpoint!Goto, Checkpoint!End,
        Checkpoint!Fails, Checkpoint!Usage
    <3>5. CASE Checkpoint!Connect
      <4>1. UNCHANGED service /\ step = "connect" /\ (step' = "select" => command.name = "delete")
        BY <3>5 DEF Checkpoint!Connect, Checkpoint!Goto, Checkpoint!Names
      <4> QED
        BY <3>5, <4>1 DEF Checkpoint!Connect, Checkpoint!Quiet
    <3>6. CASE Checkpoint!OneRequest
      BY <3>6 DEF Checkpoint!OneRequest, Checkpoint!Quiet, Checkpoint!Goto, Checkpoint!End,
        Checkpoint!Fails, Checkpoint!ListCheckpoints, Checkpoint!GetTrainingRun, Checkpoint!GetSession,
        Checkpoint!ListSessions, Checkpoint!GetSampler, Checkpoint!CancelSession, Checkpoint!Reads,
        Checkpoint!Changes
    <3>2. CASE Checkpoint!ByPath
      BY <3>2 DEF Checkpoint!ByPath, Checkpoint!Route, Checkpoint!Operate, Checkpoint!FindCheckpoint,
        Checkpoint!ReadRun, Checkpoint!GetWeightsInfo, Checkpoint!ListCheckpoints, Checkpoint!Reads,
        Checkpoint!Quiet, Checkpoint!Goto, Checkpoint!End, Checkpoint!Fails, Checkpoint!Names,
        Checkpoint!Publish, Checkpoint!Unpublish, Checkpoint!SetTtl, Checkpoint!GetArchiveUrl, Checkpoint!Changes
    <3>3. CASE Checkpoint!Pushing
      BY <3>3 DEF Checkpoint!Pushing, Checkpoint!WhoAmI, Checkpoint!CheckAdapter, Checkpoint!CreateRepo,
        Checkpoint!CheckReadme, Checkpoint!Upload, Checkpoint!Quiet,
        Checkpoint!Goto, Checkpoint!End, Checkpoint!Fails, Checkpoint!Usage
    <3>4. CASE Checkpoint!Transfers
      BY <3>4 DEF Checkpoint!Transfers, Checkpoint!RemoveTarget, Checkpoint!DownloadArchive,
        Checkpoint!Extract, Checkpoint!Quiet, Checkpoint!Goto, Checkpoint!End, Checkpoint!Fails
    <3> QED
      BY <1>1, <3>1, <3>2, <3>3, <3>4, <3>5, <3>6
  <2>2. UNCHANGED service => ServiceTyped' /\ service'.listed = service.listed
    BY DEF ReportInv, ServiceTyped
  <2> QED
    BY <2>1, <2>2, OperateKeeps, QuietCommand
<1>2. CASE Checkpoint!NextCommand
  <2>1. /\ UNCHANGED service /\ command' \in Checkpoint!Commands /\ undisturbed' = <<>>
        /\ step' = "check" /\ deleting' = [c \in {} |-> ""] /\ reported' = Checkpoint!NoReport
    BY <1>2 DEF Checkpoint!NextCommand
  <2>2. ServiceTyped' /\ ListingGoesOn' /\ CommandTyped'
    BY <2>1, ListsHaveLimits DEF ReportInv, ServiceTyped, ListingGoesOn, CommandTyped
  <2>3. DeletionGoesOn'
    BY <2>1 DEF DeletionGoesOn, Checkpoint!NoReport
  <2> QED
    BY <2>2, <2>3 DEF ReportInv
<1>3. CASE Checkpoint!OthersChange
  <2>1. /\ undisturbed' = <<>> /\ UNCHANGED <<command, step, outcome, deleting, reported>>
    BY <1>3 DEF Checkpoint!OthersChange
  <2>2. ServiceTyped' /\ Checkpoint!ToSet(service'.listed) \subseteq Checkpoint!ToSet(service.listed)
    <3>1. CASE \E c \in Checkpoint!ToSet(service.listed) :
                 service' = [service EXCEPT !.listed = Checkpoint!Without(@, c), !.public = @ \ {c}]
      <4>1. PICK c \in Checkpoint!ToSet(service.listed) :
                   service' = [service EXCEPT !.listed = Checkpoint!Without(@, c), !.public = @ \ {c}]
        BY <3>1
      <4>2. service'.listed = Checkpoint!Without(service.listed, c)
        BY <4>1 DEF ReportInv, ServiceTyped
      <4>3. /\ service'.listed \in Seq(Ids) /\ NamesOnce(service'.listed)
            /\ Checkpoint!ToSet(service'.listed) \subseteq Checkpoint!ToSet(service.listed) \ {c}
        BY <4>1, <4>2, WithoutOne DEF ReportInv, ServiceTyped
      <4> QED
        BY <4>1, <4>3 DEF ReportInv, ServiceTyped, NamesOnce
    <3>2. CASE /\ service' = [service EXCEPT !.public = IF Checkpoint!Path \in @ THEN @ \ {Checkpoint!Path}
                                                      ELSE @ \cup {Checkpoint!Path}]
               /\ Checkpoint!Exists(Checkpoint!Path)
      <4>1. Checkpoint!Path \in Ids
        BY <3>2 DEF ReportInv, ServiceTyped, Checkpoint!Exists, Checkpoint!ToSet
      <4> QED
        BY <3>2, <4>1 DEF ReportInv, ServiceTyped, NamesOnce
    <3> QED
      BY <1>3, <3>1, <3>2 DEF Checkpoint!OthersChange
  <2>3. ListingGoesOn' /\ CommandTyped' /\ DeletionGoesOn'
    BY <2>1, <2>2 DEF ReportInv, ListingGoesOn, CommandTyped, DeletionGoesOn, Checkpoint!Names
  <2> QED
    BY <2>2, <2>3 DEF ReportInv
<1>4. CASE UNCHANGED Checkpoint!commandVars
  BY <1>4 DEF Checkpoint!commandVars, ReportInv, ServiceTyped, CommandTyped, ListingGoesOn,
              DeletionGoesOn, Checkpoint!Names, Checkpoint!Target, Checkpoint!Limit
<1> QED
  BY <1>1, <1>2, <1>3, <1>4, ListingStep, DeletionStep DEF Checkpoint!CommandsNext

(* Only what was chosen is removed, and what is counted as deleted is.     *)
LEMMA RemovalsStep ==
  ReportInv /\ RemovalsMatch /\ [Checkpoint!CommandsNext]_(Checkpoint!commandVars) => RemovalsMatch'
<1> SUFFICES ASSUME ReportInv, RemovalsMatch, [Checkpoint!CommandsNext]_(Checkpoint!commandVars)
             PROVE  RemovalsMatch'
  OBVIOUS
<1>0. /\ DOMAIN deleting # {} => step \in {"confirm", "deleting", "done"}
      /\ reported \in [deleted : SUBSET Ids, failed : SUBSET Ids]
  BY DEF ReportInv, DeletionGoesOn
<1>1. ASSUME UNCHANGED <<command, deleting, reported, removed>>,
             step \notin {"confirm", "deleting", "done"},
             step' = "select" => command.selection = "run"
      PROVE  RemovalsMatch'
  <2>1. DOMAIN deleting = {} /\ removed = {}
    BY <1>0, <1>1 DEF RemovalsMatch
  <2> QED
    BY <1>1, <2>1 DEF RemovalsMatch
<1>2. CASE \/ Checkpoint!CheckArguments \/ Checkpoint!OneRequest \/ Checkpoint!ByPath
           \/ Checkpoint!Pushing \/ Checkpoint!Transfers \/ Checkpoint!Listing
  <2>1. /\ UNCHANGED <<command, deleting, reported, removed>>
        /\ step \notin {"confirm", "deleting", "done"} /\ step' # "select"
    <3>1. CASE Checkpoint!CheckArguments \/ Checkpoint!OneRequest
      BY <3>1 DEF Checkpoint!CheckArguments, Checkpoint!OneRequest, Checkpoint!Quiet,
        Checkpoint!Goto, Checkpoint!End, Checkpoint!Fails, Checkpoint!Usage,
        Checkpoint!ListCheckpoints, Checkpoint!GetTrainingRun, Checkpoint!GetSession,
        Checkpoint!ListSessions, Checkpoint!GetSampler, Checkpoint!CancelSession,
        Checkpoint!Reads, Checkpoint!Changes
    <3>2. CASE Checkpoint!ByPath
      BY <3>2 DEF Checkpoint!ByPath, Checkpoint!Route, Checkpoint!Operate,
        Checkpoint!FindCheckpoint, Checkpoint!ReadRun, Checkpoint!GetWeightsInfo,
        Checkpoint!ListCheckpoints, Checkpoint!Reads, Checkpoint!Quiet, Checkpoint!Goto,
        Checkpoint!End, Checkpoint!Fails, Checkpoint!Names, Checkpoint!Publish,
        Checkpoint!Unpublish, Checkpoint!SetTtl, Checkpoint!GetArchiveUrl, Checkpoint!Changes
    <3>3. CASE Checkpoint!Pushing \/ Checkpoint!Transfers
      BY <3>3 DEF Checkpoint!Pushing, Checkpoint!WhoAmI, Checkpoint!CheckAdapter,
        Checkpoint!CreateRepo, Checkpoint!CheckReadme, Checkpoint!Upload, Checkpoint!Transfers,
        Checkpoint!RemoveTarget, Checkpoint!DownloadArchive, Checkpoint!Extract,
        Checkpoint!Quiet, Checkpoint!Goto, Checkpoint!End, Checkpoint!Fails, Checkpoint!Usage
    <3>4. CASE Checkpoint!Listing
      BY <3>4 DEF Checkpoint!Listing, Checkpoint!FirstPage, Checkpoint!NextPage,
        Checkpoint!AllPages, Checkpoint!ListUserCheckpoints, Checkpoint!ListTrainingRuns,
        Checkpoint!Reads, Checkpoint!Quiet, Checkpoint!Goto, Checkpoint!End, Checkpoint!Fails
    <3> QED
      BY <1>2, <3>1, <3>2, <3>3, <3>4
  <2> QED
    BY <1>1, <2>1
<1>3. CASE Checkpoint!Connect
  <2>1. /\ UNCHANGED <<command, deleting, reported, removed>> /\ step = "connect"
        /\ step' = "select" => command.selection = "run"
    BY <1>3 DEF Checkpoint!Connect, Checkpoint!Quiet, Checkpoint!Goto, Checkpoint!Names
  <2> QED
    BY <1>1, <2>1
<1>4. CASE Checkpoint!Select
  <2>1. /\ UNCHANGED <<command, reported, removed>> /\ step = "select" /\ step' # "select"
        /\ \/ UNCHANGED deleting
           \/ deleting' = [c \in Checkpoint!Chosen(command.filter) |-> "chosen"]
    BY <1>4 DEF Checkpoint!Select, Checkpoint!ListCheckpoints, Checkpoint!Reads, Checkpoint!Goto,
                Checkpoint!End, Checkpoint!Fails
  <2>2. DOMAIN deleting = {} /\ removed = {}
    BY <1>0, <2>1 DEF RemovalsMatch
  <2>3. \A c \in DOMAIN deleting' : Checkpoint!Matches(c, command.filter)
    BY <2>1, <2>2 DEF Checkpoint!Chosen
  <2> QED
    BY <2>1, <2>2, <2>3 DEF RemovalsMatch, Checkpoint!Matches
<1>5. CASE Checkpoint!Confirm \/ Checkpoint!SelectPaths \/ Checkpoint!DeleteReport
  <2>1. /\ UNCHANGED <<command, deleting, reported, removed>> /\ step' # "select"
        /\ removed # {} => step' = "done" /\ outcome' = "ok"
    BY <1>5 DEF Checkpoint!Confirm, Checkpoint!SelectPaths, Checkpoint!DeleteReport,
      Checkpoint!Quiet, Checkpoint!Goto, Checkpoint!End, Checkpoint!Fails, Checkpoint!Usage,
      RemovalsMatch
  <2> QED
    BY <2>1 DEF RemovalsMatch, Checkpoint!Matches
<1>6. ASSUME NEW c \in DOMAIN deleting, Checkpoint!DeleteRoute(c) \/ Checkpoint!DeleteOne(c)
      PROVE  RemovalsMatch'
  <2>1. /\ UNCHANGED <<command, step, outcome>> /\ step = "deleting"
        /\ DOMAIN deleting' = DOMAIN deleting
        /\ \/ UNCHANGED removed /\ reported'.deleted = reported.deleted
           \/ /\ removed' = removed \cup (Checkpoint!ToSet(service.listed)
                                          \ Checkpoint!ToSet(service'.listed))
              /\ UNCHANGED service \/ (/\ c \in Checkpoint!ToSet(service.listed)
                                      /\ service'.listed = Checkpoint!Without(service.listed, c))
              /\ \/ reported'.deleted = reported.deleted
                 \/ /\ c \in Checkpoint!ToSet(service.listed)
                    /\ service'.listed = Checkpoint!Without(service.listed, c)
                    /\ reported'.deleted = reported.deleted \cup {c}
    <3>1. ASSUME NEW new, new = [service EXCEPT !.listed = Checkpoint!Without(@, c),
                                                !.public = @ \ {c}, !.expiring = @ \ {c}]
          PROVE  new.listed = Checkpoint!Without(service.listed, c)
      BY <3>1 DEF ReportInv, ServiceTyped
    <3>2. CASE Checkpoint!DeleteRoute(c)
      BY <1>0, <3>2 DEF Checkpoint!DeleteRoute, Checkpoint!GetWeightsInfo, Checkpoint!Reads,
        Checkpoint!Does, Checkpoint!Says
    <3>3. CASE Checkpoint!DeleteOne(c)
      BY <1>0, <3>1, <3>3 DEF Checkpoint!DeleteOne, Checkpoint!DeleteCheckpoint, Checkpoint!Exists,
        Checkpoint!Changes, Checkpoint!Removes, Checkpoint!Does, Checkpoint!Says
    <3> QED
      BY <1>6, <3>2, <3>3
  <2>2. ASSUME c \in Checkpoint!ToSet(service.listed),
               service'.listed = Checkpoint!Without(service.listed, c)
        PROVE  /\ c \notin Checkpoint!ToSet(service'.listed)
               /\ Checkpoint!ToSet(service.listed) \ Checkpoint!ToSet(service'.listed) = {c}
    BY <2>2, WithoutOne DEF ReportInv, ServiceTyped
  <2>3. removed' \subseteq removed \cup {c} /\ removed \subseteq removed'
    BY <2>1, <2>2
  <2>4. reported'.deleted \subseteq removed'
    BY <2>1, <2>2, <2>3 DEF RemovalsMatch
  <2> QED
    BY <2>1, <2>3, <2>4 DEF RemovalsMatch, Checkpoint!Matches
<1>7. CASE Checkpoint!NextCommand
  <2>1. /\ step' = "check" /\ deleting' = [c \in {} |-> ""] /\ reported' = Checkpoint!NoReport
        /\ removed' = {}
    BY <1>7 DEF Checkpoint!NextCommand
  <2>2. DOMAIN deleting' = {} /\ reported'.deleted = {}
    BY <2>1 DEF Checkpoint!NoReport
  <2> QED
    BY <2>1, <2>2 DEF RemovalsMatch
<1>8. CASE Checkpoint!OthersChange \/ UNCHANGED Checkpoint!commandVars
  <2>1. UNCHANGED <<command, step, outcome, deleting, reported, removed>>
    BY <1>8 DEF Checkpoint!OthersChange, Checkpoint!commandVars
  <2> QED
    BY <2>1 DEF RemovalsMatch, Checkpoint!Matches
<1> QED
  BY <1>2, <1>3, <1>4, <1>5, <1>6, <1>7, <1>8 DEF Checkpoint!CommandsNext, Checkpoint!Deletion

LEMMA StepOfCheckpoint == [Next]_vars => [Checkpoint!CommandsNext]_(Checkpoint!commandVars)
  BY DEF Next, Runs, vars, checkpointVars, Checkpoint!commandVars

LEMMA ListingsComplete == ReportInv => Checkpoint!ListingIsComplete
<1> SUFFICES ASSUME ReportInv, step = "done", outcome = "ok", undisturbed # <<>>
             PROVE  fetched = SubSeq(undisturbed, 1,
                                IF command.limit > 0 THEN Checkpoint!Min({command.limit, Len(undisturbed)})
                                ELSE Len(undisturbed))
  BY DEF Checkpoint!ListingIsComplete, Checkpoint!Limit
<1> DEFINE last == Checkpoint!Target
           shown == SubSeq(undisturbed, 1, last)
<1>1. /\ undisturbed \in Seq(Ids) /\ fetched \in Seq(Ids) /\ Len(fetched) = last
      /\ \A i \in 1..Len(fetched) : fetched[i] = undisturbed[i]
      /\ command.limit \in Nat /\ total = Len(undisturbed)
  BY DEF ReportInv, ListingGoesOn, ServiceTyped, CommandTyped
<1>2. last \in 0..Len(undisturbed)
  BY <1>1, UndisturbedTarget DEF ReportInv, ListingGoesOn
<1>3. 1 \in Int /\ last \in Int /\ \A i \in 1..last : undisturbed[i] \in Ids
  BY <1>1, <1>2
<1>4. /\ shown \in Seq(Ids) /\ Len(shown) = IF 1 <= last THEN last - 1 + 1 ELSE 0
      /\ \A i \in 1..last - 1 + 1 : shown[i] = undisturbed[1 + i - 1]
  BY <1>3, SubSeqProperties
<1> HIDE DEF shown
<1>5. fetched = shown
  <2>1. Len(shown) = last /\ \A i \in 1..last : shown[i] = undisturbed[i]
    BY <1>2, <1>4
  <2> QED
    BY <1>1, <1>4, <2>1, SeqEqual
<1>6. last = IF command.limit > 0 THEN Checkpoint!Min({command.limit, Len(undisturbed)})
             ELSE Len(undisturbed)
  BY <1>1 DEF Checkpoint!Target, Checkpoint!Limit
<1> QED
  BY <1>5, <1>6 DEF shown

(***************************************************************************)
(* What a command reports is true.  A listing that nobody disturbed shows  *)
(* the first entries that were asked for, whatever the sizes of its pages; *)
(* a deletion removes only what matches its filters, every chosen path is  *)
(* counted once, and what is counted as deleted it has removed and is      *)
(* gone, although answers are lost and others delete too (what is counted  *)
(* as failed can be gone as well); a conversion shown as done is done      *)
(* (checkpoint.py, run.py, splat.py).                                      *)
(***************************************************************************)
THEOREM ReportsStayTrue == Spec => []ReportsAreTrue
<1>1. Init => ReportInv /\ RemovalsMatch
  <2>1. Checkpoint!CommandsInit => RemovalsMatch
    BY DEF Checkpoint!CommandsInit, Checkpoint!NoReport, RemovalsMatch
  <2> QED
    BY <2>1, ReportsInitially DEF Init
<1>2. ReportInv /\ RemovalsMatch /\ [Next]_vars => (ReportInv /\ RemovalsMatch)'
  BY ReportsStep, RemovalsStep, StepOfCheckpoint
<1>3. ReportInv /\ RemovalsMatch => Checkpoint!ListingIsComplete /\ Checkpoint!DeletionReportIsTrue
  <2>1. ReportInv /\ RemovalsMatch => Checkpoint!DeletionReportIsTrue
    BY DEF ReportInv, DeletionGoesOn, RemovalsMatch, Checkpoint!DeletionReportIsTrue
  <2> QED
    BY <2>1, ListingsComplete
<1>4. SplatInv => Splat!JobsHaveTheirFile
  BY DEF SplatInv
<1> QED
  BY <1>1, <1>2, <1>3, <1>4, SplatStepsKeep, PTL DEF Spec, ReportsAreTrue
================================================================================
