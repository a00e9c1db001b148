----------------------------- MODULE RestClient -----------------------------
(***************************************************************************)
(* The operations of RestClient (lib/public_interfaces/rest_client.py) on  *)
(* the service they talk to, for callers to use in their steps: each takes *)
(* what the caller does with the answer and what it does with an error.    *)
(* Every request is wrapped in execute_with_retries, so that an error can  *)
(* also mean that the service acted and only the answers were lost.        *)
(***************************************************************************)
EXTENDS Naturals, Sequences, FiniteSetsExt, SequencesExt

CONSTANT MaxCheckpoints

VARIABLE service     \* checkpoints in the order of the lists, the public ones, those that expire
                     \* and the cancelled sessions

Checkpoints == 1..MaxCheckpoints
Sessions    == {"session"}
NoService   == [listed |-> <<>>, public |-> {}, expiring |-> {}, cancelled |-> {}]
Exists(c)   == c \in ToSet(service.listed)
\* a list names a checkpoint once
Without(listed, c) == RemoveAt(listed, CHOOSE i \in DOMAIN listed : listed[i] = c)
\* a checkpoint's number stands for its time, and for its type
TypeOf(c)   == IF c % 2 = 1 THEN "training" ELSE "sampler"

Reads(answered, ok, failed) == UNCHANGED service /\ ((answered /\ ok) \/ failed)
\* a request that changes the service to "new" where it is allowed
Changes(allowed, new, ok, failed) ==
  \/ allowed /\ service' = new /\ ok
  \/ service' \in {service} \cup (IF allowed THEN {new} ELSE {}) /\ failed

(* Reading. *)
GetTrainingRun(ok, failed)   == Reads(TRUE, ok, failed)
GetWeightsInfo(c, ok, failed) == Reads(Exists(c), ok, failed)
ListCheckpoints(ok, failed)  == Reads(TRUE, ok, failed)
GetArchiveUrl(c, ok, failed) == Reads(Exists(c), ok, failed)
GetSession(ok, failed)       == Reads(TRUE, ok, failed)
ListSessions(ok, failed)     == Reads(TRUE, ok, failed)
GetSampler(ok, failed)       == Reads(TRUE, ok, failed)

\* one page of the checkpoints of all runs, or of the runs
Page(limit, offset) == SubSeq(service.listed, offset + 1, Min({offset + limit, Len(service.listed)}))
ListUserCheckpoints(ok, failed) == Reads(TRUE, ok, failed)
ListTrainingRuns(ok, failed)    == Reads(TRUE, ok, failed)

(* Changing. *)
DeleteCheckpoint(c, ok, failed) ==
  Changes(Exists(c), [service EXCEPT !.listed = Without(@, c), !.public = @ \ {c},
                                     !.expiring = @ \ {c}], ok, failed)
\* publishing what is public, or the reverse, is refused with a conflict
Publish(c, ok, failed) ==
  Changes(Exists(c) /\ c \notin service.public,
          [service EXCEPT !.public = @ \cup {c}], ok, failed)
Unpublish(c, ok, failed) ==
  Changes(c \in service.public, [service EXCEPT !.public = @ \ {c}], ok, failed)
SetTtl(c, expires, ok, failed) ==
  Changes(Exists(c), [service EXCEPT !.expiring = IF expires THEN @ \cup {c} ELSE @ \ {c}],
          ok, failed)
CancelSession(s, ok, failed) ==
  Changes(TRUE, [service EXCEPT !.cancelled = @ \cup {s}], ok, failed)
=============================================================================
