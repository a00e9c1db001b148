----------------------------- MODULE Credentials -----------------------------
(***************************************************************************)
(* The stored login (lib/credentials.py) and the processes that share it:  *)
(* the commands of cli/commands/auth.py and doctor.py, and clients of the  *)
(* SDK.  A process may be killed between any two steps.                    *)
(***************************************************************************)
EXTENDS Integers, Sequences, FiniteSets

CONSTANTS Processes,
          MaxPolls              \* bound of the model: polls that fit into expires_in

VARIABLES file,        \* auth.json: 0 absent, a key number, or one of the two below
          live,        \* the keys that the control plane accepts
          minted,      \* keys made so far
          runs,        \* the command of each process
          stage,       \* where it is
          held,        \* whose key it works with: the number of the login, 0 if not from the file
          base,        \* whose base URL it works with, alike
          disturbed,   \* history: whether the file changed between its reads, or after them
          polls,       \* polls of the token endpoint
          temp         \* what its temporary file holds: 0 nothing
credentialVars == <<file, live, minted, runs, stage, held, base, disturbed, polls, temp>>

\* the numbers that are not keys: a file that does not parse, and one cut off in the middle
Malformed == -1
Torn == -2
Programs == {"login", "logout", "status", "token", "doctor", "client"}
Over == {"ok", "error", "killed"}
\* between the two reads of a client, a doctor or the command status
Reading == {"key", "url", "load"}

CredentialsInit ==
  /\ file \in {0, 1, Malformed} /\ live = {1} /\ minted = 1
  /\ runs \in [Processes -> Programs] /\ stage = [p \in Processes |-> "start"]
  /\ held = [p \in Processes |-> 0] /\ base = [p \in Processes |-> 0]
  /\ disturbed = [p \in Processes |-> "no"] /\ polls = [p \in Processes |-> 0]
  /\ temp = [p \in Processes |-> 0]

Enters(p, s) == stage' = [stage EXCEPT ![p] = s]
Holds(p, k) == held' = [held EXCEPT ![p] = k]
Works(p, l) == base' = [base EXCEPT ![p] = l]
Undisturbed == UNCHANGED <<base, disturbed>>
Keeps == UNCHANGED <<runs, polls, temp>> /\ Undisturbed
At(p, command, s) == runs[p] = command /\ stage[p] = s
\* the file is replaced or removed
Disturbance(p) == IF disturbed[p] # "no" \/ stage[p] = "start" THEN disturbed[p]
                  ELSE IF stage[p] \in Reading THEN "between" ELSE "after"
Disturbs == disturbed' = [p \in Processes |-> Disturbance(p)] /\ UNCHANGED base

(* Reading. *)
Load == IF file = Malformed \/ file = Torn THEN "CredentialsError" ELSE "ok"
SafeLoad == IF Load = "ok" THEN file ELSE 0

\* Where a key or a base URL comes from: the options and the environment first.
Settings == [explicit : BOOLEAN, current : BOOLEAN, cp : BOOLEAN, legacy : BOOLEAN]
ResolveApiKey(s, stored) ==
  IF s.explicit THEN "explicit" ELSE IF s.current THEN "current"
  ELSE IF s.cp THEN "cp" ELSE IF s.legacy THEN "legacy"
  ELSE IF stored # 0 THEN "stored" ELSE "none"
ResolveBaseUrl(s, stored) ==
  IF s.explicit THEN "explicit" ELSE IF s.current THEN "current"
  ELSE IF s.cp THEN "cp" ELSE IF stored # 0 THEN "stored" ELSE "none"

\* the same questions as doctor asks them, on its own
First(sources) == IF sources = <<>> THEN "none" ELSE sources[1]
When(condition, source) == IF condition THEN <<source>> ELSE <<>>
DoctorApiKey(s, stored) ==
  First(When(s.explicit, "explicit") \o When(s.current, "current") \o When(s.cp, "cp")
        \o When(s.legacy, "legacy") \o When(stored # 0, "stored"))
DoctorBaseUrl(s, stored) ==
  First(When(s.explicit, "explicit") \o When(s.current, "current") \o When(s.cp, "cp")
        \o When(stored # 0, "stored"))

(* login *)
RequestDeviceCode(p) == /\ At(p, "login", "start")
                        /\ (Enters(p, "poll") \/ Enters(p, "error"))
                        /\ UNCHANGED <<file, live, minted, held>> /\ Keeps

\* pending and slow_down are asked again until the code expires; approval mints a key
PollForToken(p) ==
  /\ At(p, "login", "poll")
  /\ \/ /\ polls[p] < MaxPolls /\ polls' = [polls EXCEPT ![p] = @ + 1]
        /\ \/ UNCHANGED <<live, minted, stage, held>>
           \/ Enters(p, "error") /\ UNCHANGED <<live, minted, held>>
           \/ /\ minted' = minted + 1 /\ live' = live \cup {minted + 1}
              /\ \/ Holds(p, minted + 1) /\ Enters(p, "whoami")
                 \/ Enters(p, "error") /\ UNCHANGED held              \* the answer is lost
     \/ polls[p] = MaxPolls /\ Enters(p, "error") /\ UNCHANGED <<live, minted, held, polls>>
  /\ UNCHANGED <<file, runs, temp>> /\ Undisturbed

AskWhoAmI(p, next) == /\ stage[p] = "whoami"
                    /\ (Enters(p, next) \/ Enters(p, "error"))
                    /\ UNCHANGED <<file, live, minted, held>> /\ Keeps

\* A change of the code: the file is written in place.
WriteInPlace(p) == /\ At(p, "login", "save")
                   /\ file' = IF temp[p] = 0 THEN Torn ELSE held[p]
                   /\ temp' = [temp EXCEPT ![p] = IF @ = 0 THEN Torn ELSE held[p]]
                   /\ Enters(p, IF temp[p] = 0 THEN "save" ELSE "replace")
                   /\ UNCHANGED <<live, minted, held, runs, polls>> /\ Disturbs

\* save_credentials: a temporary file, written in pieces, then the rename
WriteTemp(p) == /\ At(p, "login", "save")
                /\ temp' = [temp EXCEPT ![p] = IF @ = 0 THEN Torn ELSE held[p]]
                /\ Enters(p, IF temp[p] = 0 THEN "save" ELSE "replace")
                /\ UNCHANGED <<file, live, minted, held, runs, polls>> /\ Undisturbed
WriteFails(p) == /\ runs[p] = "login" /\ stage[p] \in {"save", "replace"}
                 /\ temp' = [temp EXCEPT ![p] = 0] /\ Enters(p, "error")
                 /\ UNCHANGED <<file, live, minted, held, runs, polls>> /\ Undisturbed
Replace(p) == /\ At(p, "login", "replace")
              /\ file' = temp[p] /\ temp' = [temp EXCEPT ![p] = 0]
              /\ Enters(p, "ok")
              /\ UNCHANGED <<live, minted, held, runs, polls>> /\ Disturbs

(* logout *)
LoadForLogout(p) ==
  /\ At(p, "logout", "start")
  /\ IF Load # "ok" THEN Enters(p, "error") /\ UNCHANGED held
     ELSE IF file = 0 THEN Enters(p, "ok") /\ UNCHANGED held
     ELSE Holds(p, file) /\ Enters(p, "revoke")
  /\ UNCHANGED <<file, live, minted>> /\ Keeps
\* best effort: whatever the answer, the file goes
RevokeKey(p) == /\ At(p, "logout", "revoke")
                /\ live' \in {live, live \ {held[p]}}
                /\ Enters(p, "delete")
                /\ UNCHANGED <<file, minted, held>> /\ Keeps
DeleteFile(p) == /\ At(p, "logout", "delete")
                 /\ \/ file' = 0 /\ Enters(p, "ok") /\ Disturbs
                    \/ file # 0 /\ UNCHANGED file /\ Enters(p, "error") /\ Undisturbed
                 /\ UNCHANGED <<live, minted, held, runs, polls, temp>>

(* A client reads the key and then the base URL, doctor the base URL and     *)
(* then the key, status the key and then the whole login; token reads a key. *)
AfterKey(command) == CASE command = "client" -> "url" [] command = "status" -> "load"
                       [] command = "doctor" -> "health" [] command = "token" -> "ok"
ResolveKey(p) ==
  /\ \/ runs[p] \in {"status", "token", "client"} /\ stage[p] = "start"
     \/ At(p, "doctor", "key")
  /\ \/ Holds(p, SafeLoad) /\ Enters(p, IF SafeLoad = 0 THEN "error" ELSE AfterKey(runs[p]))
     \/ UNCHANGED held /\ Enters(p, AfterKey(runs[p]))       \* not from the file
  /\ UNCHANGED <<file, live, minted>> /\ Keeps
ResolveUrl(p) ==
  /\ \/ At(p, "client", "url") /\ Enters(p, "ok")
     \/ At(p, "doctor", "start") /\ Enters(p, "key")
  /\ Works(p, SafeLoad) \/ UNCHANGED base               \* or not from the file
  /\ UNCHANGED <<file, live, minted, held, runs, polls, temp, disturbed>>
\* status loads the file once more, without the net, and prefers its base URL
LoadForStatus(p) ==
  /\ At(p, "status", "load")
  /\ IF Load = "ok" THEN Works(p, file) /\ Enters(p, "whoami")
                    ELSE UNCHANGED base /\ Enters(p, "error")
  /\ UNCHANGED <<file, live, minted, held, runs, polls, temp, disturbed>>
\* the health check tries two paths and never fails; the capabilities must be there
Health(p) == /\ At(p, "doctor", "health")
             /\ Enters(p, "capabilities")
             /\ UNCHANGED <<file, live, minted, held>> /\ Keeps
FetchCapabilities(p) == /\ At(p, "doctor", "capabilities")
                        /\ \/ Enters(p, "error")
                           \/ held[p] \in live \cup {0} /\ Enters(p, "ok")
                        /\ UNCHANGED <<file, live, minted, held>> /\ Keeps

Kill(p) == /\ stage[p] \notin Over
           /\ Enters(p, "killed")
           /\ UNCHANGED <<file, live, minted, held>> /\ Keeps

Login(p)  == \/ RequestDeviceCode(p) \/ PollForToken(p)
             \/ runs[p] = "login" /\ AskWhoAmI(p, "save")
             \/ WriteTemp(p) \/ WriteFails(p) \/ Replace(p)
Logout(p) == LoadForLogout(p) \/ RevokeKey(p) \/ DeleteFile(p)
Asks(p)   == \/ ResolveKey(p) \/ ResolveUrl(p) \/ LoadForStatus(p)
             \/ runs[p] = "status" /\ AskWhoAmI(p, "ok")
             \/ Health(p) \/ FetchCapabilities(p)
CredentialsNext == \E p \in Processes : Login(p) \/ Logout(p) \/ Asks(p) \/ Kill(p)
CredentialsSpec == CredentialsInit /\ [][CredentialsNext]_credentialVars

\* Whatever process is killed wherever, and however logins and logouts overlap,
\* the file is absent, as it was, or the whole credential of one login; and a
\* login that reports success has written its own (save_credentials).
CredentialFileIsWhole ==
  /\ file # Torn
  /\ file \in 1..minted => \/ file = 1
                           \/ \E p \in Processes : At(p, "login", "ok") /\ held[p] = file

Settled(command) == {p \in Processes : At(p, command, "ok") /\ disturbed[p] = "no"}

\* Doctor looks for its key and its base URL where a client does, as far as one
\* is configured (where nothing is, their defaults differ).  Of what they find in
\* the file, a client that is ready and a doctor that is content have the same,
\* unless the file changed since one of them began to read (a login or a logout
\* in between can separate them); and no process that nobody disturbed between
\* its reads works with the key of one login on the base URL of another.
DoctorAgreesWithClient ==
  /\ \A s \in Settings : /\ DoctorApiKey(s, SafeLoad) = ResolveApiKey(s, SafeLoad)
                         /\ DoctorBaseUrl(s, SafeLoad) = ResolveBaseUrl(s, SafeLoad)
  /\ \A d \in Settled("doctor"), c \in Settled("client") :
       /\ held[d] # 0 /\ held[c] # 0 => held[d] = held[c]
       /\ base[d] # 0 /\ base[c] # 0 => base[d] = base[c]
  /\ \A p \in Processes :
       disturbed[p] # "between" /\ held[p] # 0 /\ base[p] # 0 => held[p] = base[p]
=============================================================================
