------------------------------- MODULE Requests -------------------------------
(***************************************************************************)
(* HTTP requests of one holder: the repetitions of the client              *)
(* (_base_client.py), under one idempotency key; the pool from which the   *)
(* client is taken, with its reference counts and its budget of connection *)
(* retries (ClientConnectionPool); the repetitions of execute_with_retries *)
(* around both; and the loop of get_checkpoint_archive_url in between.     *)
(*                                                                         *)
(* A request may reach the service and its answer be lost.  The service    *)
(* acts once on each idempotency key.                                      *)
(***************************************************************************)
EXTENDS Naturals, Sequences, FiniteSets, Endpoints

CONSTANTS Calls,
          MaxRetries,        \* max_retries of the client
          MaxAttempts,       \* bound of the model: attempts that fit into MAX_WAIT_TIME
          ArchiveTries,      \* max_retries of get_checkpoint_archive_url
          PerClient,         \* max_requests_per_client
          RetryBudget        \* MAX_CONNECTION_ERROR_RETRIES
ASSUME RequestsAssumption ==
  /\ IsFiniteSet(Calls)
  /\ {MaxRetries, RetryBudget} \subseteq Nat
  /\ {MaxAttempts, ArchiveTries, PerClient} \subseteq Nat \ {0}

VARIABLES kind,        \* what each call calls
          pc,          \* where it is
          attempt,     \* attempts of execute_with_retries
          loop,        \* rounds of the archive loop
          retries,     \* retries_taken of the client
          slot,        \* client_idx, 0 outside the pool
          client,      \* the client it got from the pool
          key,         \* the idempotency key it sends, 0 for none
          clients,     \* _clients, as the serial numbers of the clients
          refcount,    \* _client_active_refcount
          remaining,   \* _connection_error_retries_remaining
          made,        \* clients made so far
          keys,        \* idempotency keys made so far
          done,        \* the keys on which the service has acted
          effects      \* how often the service acted for each call
poolVars == <<clients, refcount, remaining, made>>
requestVars == <<kind, pc, attempt, loop, retries, slot, client, key, poolVars, keys, done, effects>>

RequestsInit ==
  /\ kind \in [Calls -> Kinds]
  /\ pc = [c \in Calls |-> "start"] /\ attempt = [c \in Calls |-> 0]
  /\ loop = [c \in Calls |-> 0] /\ retries = [c \in Calls |-> 0]
  /\ slot = [c \in Calls |-> 0] /\ client = [c \in Calls |-> 0] /\ key = [c \in Calls |-> 0]
  /\ clients = <<>> /\ refcount = <<>> /\ remaining = RetryBudget /\ made = 0
  /\ keys = 0 /\ done = {} /\ effects = [c \in Calls |-> 0]

(* The pool: the first client with room, or a new one. *)
HasRoom(i) == refcount[i] < PerClient
EnterPool(c) ==
  \/ \E i \in DOMAIN clients :
       /\ HasRoom(i) /\ \A k \in 1..(i - 1) : ~HasRoom(k)
       /\ slot' = [slot EXCEPT ![c] = i] /\ client' = [client EXCEPT ![c] = clients[i]]
       /\ refcount' = [refcount EXCEPT ![i] = @ + 1]
       /\ UNCHANGED <<clients, made>>
  \/ /\ \A i \in DOMAIN clients : ~HasRoom(i)
     /\ clients' = Append(clients, made + 1) /\ made' = made + 1
     /\ refcount' = Append(refcount, 1)
     /\ slot' = [slot EXCEPT ![c] = Len(clients) + 1]
     /\ client' = [client EXCEPT ![c] = made + 1]

\* the finally of aclient
LeavePool(c) == /\ refcount' = [refcount EXCEPT ![slot[c]] = @ - 1]
                /\ slot' = [slot EXCEPT ![c] = 0] /\ client' = [client EXCEPT ![c] = 0]

PoolSucceeds == remaining' = IF remaining < RetryBudget THEN remaining + 1 ELSE remaining

\* a 400 without content: the client is replaced, and the error is retryable while the budget lasts
PoolReplaces(c) == /\ clients' = [clients EXCEPT ![slot[c]] = made + 1] /\ made' = made + 1
                   /\ remaining' = IF remaining > 0 THEN remaining - 1 ELSE 0

(* The client: one key for all repetitions of a request. *)
NewKey(c) == IF kind[c].changes
             THEN key' = [key EXCEPT ![c] = keys + 1] /\ keys' = keys + 1
             ELSE UNCHANGED <<key, keys>>
SameKey(c) == UNCHANGED <<key, keys>>

Limit(c) == IF kind[c].repetitions = "none" THEN 0 ELSE MaxRetries

\* _should_retry: the header decides, then the status
ShouldRetry(status, header) ==
  header = "true" \/ (header # "false" /\ status \in {"busy", "unavailable"})

Sends(c) == pc' = [pc EXCEPT ![c] = "sent"]
Ends(c, how) == pc' = [pc EXCEPT ![c] = how]

Start(c) ==
  /\ pc[c] = "start"
  /\ EnterPool(c) /\ NewKey(c) /\ Sends(c)
  /\ attempt' = [attempt EXCEPT ![c] = @ + 1] /\ retries' = [retries EXCEPT ![c] = 0]
  /\ loop' = [loop EXCEPT ![c] = 1]
  /\ UNCHANGED <<kind, remaining, done, effects>>

\* The request arrives, and the service acts on it.
ServiceActs(c) ==
  /\ pc[c] = "sent" /\ kind[c].changes /\ key[c] \notin done
  /\ done' = done \cup {key[c]} /\ effects' = [effects EXCEPT ![c] = @ + 1]
  /\ UNCHANGED <<kind, pc, attempt, loop, retries, slot, client, key, poolVars, keys>>

\* A retryable failure of one sending; "reraise" continues in the layers above.
SendAgainOr(c, reraise) ==
  IF retries[c] < Limit(c)
  THEN /\ retries' = [retries EXCEPT ![c] = @ + 1]
       /\ pc' = [pc EXCEPT ![c] = "backoff"]
       /\ UNCHANGED <<attempt, loop, slot, client, poolVars>>
  ELSE reraise /\ UNCHANGED retries

\* A change of the code: the key is made inside the loop.
BackoffWithNewKey(c) ==
  /\ pc[c] = "backoff" /\ NewKey(c) /\ Sends(c)
  /\ UNCHANGED <<kind, attempt, loop, retries, slot, client, poolVars, done, effects>>

Backoff(c) ==
  /\ pc[c] = "backoff" /\ SameKey(c) /\ Sends(c)
  /\ UNCHANGED <<kind, attempt, loop, retries, slot, client, poolVars, done, effects>>

(* The layers above the client. *)
\* execute_with_retries after an error, retryable or not
OutOfPool(c, retryable) ==
  /\ LeavePool(c)
  /\ IF retryable /\ kind[c].wrapped /\ attempt[c] < MaxAttempts
     THEN pc' = [pc EXCEPT ![c] = "waiting"] ELSE Ends(c, "failed")
  /\ UNCHANGED <<attempt, loop>>
Reraise(c, retryable) == OutOfPool(c, retryable) /\ UNCHANGED <<clients, made, remaining>>

\* the loop of get_checkpoint_archive_url after an answer without redirect
ArchiveRound(c, raise) ==
  IF loop[c] < ArchiveTries
  THEN /\ loop' = [loop EXCEPT ![c] = @ + 1] /\ pc' = [pc EXCEPT ![c] = "archiveWait"]
       /\ UNCHANGED <<attempt, slot, client, poolVars>>
  ELSE raise

ArchiveAgain(c) ==
  /\ pc[c] = "archiveWait" /\ NewKey(c) /\ Sends(c)
  /\ retries' = [retries EXCEPT ![c] = 0]
  /\ UNCHANGED <<kind, attempt, loop, slot, client, poolVars, done, effects>>

ConnectionFails(c) ==
  /\ pc[c] = "sent"
  /\ SendAgainOr(c, Reraise(c, TRUE))
  /\ UNCHANGED <<kind, key, keys, done, effects>>

\* 408, 409, 429 and 5xx are "busy", 503 is "unavailable", the rest "refused" or "empty400"
ErrorAnswer(c) ==
  /\ pc[c] = "sent"
  /\ \E status \in {"busy", "unavailable", "refused", "empty400"},
        header \in {"none", "true", "false"} :
       LET raise == IF kind[c].archive /\ status = "unavailable"
                    THEN ArchiveRound(c, Reraise(c, TRUE))
                    ELSE IF status = "empty400"
                    THEN PoolReplaces(c) /\ OutOfPool(c, remaining > 0)
                    ELSE Reraise(c, status # "refused")
       IN  IF ShouldRetry(status, header) THEN SendAgainOr(c, raise)
           ELSE raise /\ UNCHANGED retries
  /\ UNCHANGED <<kind, key, keys, done, effects>>

Answer(c) ==
  /\ pc[c] = "sent" /\ (kind[c].changes => key[c] \in done)
  /\ \/ /\ PoolSucceeds /\ LeavePool(c) /\ Ends(c, "returned")     \* of an archive: the 302
        /\ UNCHANGED <<attempt, loop, clients, made>>
     \/ kind[c].archive /\ ArchiveRound(c, Reraise(c, FALSE))     \* not a redirect
     \/ Reraise(c, FALSE)                                         \* it cannot be parsed
  /\ UNCHANGED <<kind, retries, key, keys, done, effects>>

TryAgain(c) == /\ pc[c] = "waiting"
               /\ \/ pc' = [pc EXCEPT ![c] = "start"]
                  \/ Ends(c, "failed")                      \* MAX_WAIT_TIME has passed
               /\ UNCHANGED <<kind, attempt, loop, retries, slot, client, key, poolVars,
                              keys, done, effects>>

\* A change of the code: the place is given back by the handlers of errors only.
CancelKeepingPlace(c) ==
  /\ pc[c] \in {"sent", "backoff", "archiveWait", "waiting"}
  /\ Ends(c, "cancelled")
  /\ slot' = [slot EXCEPT ![c] = 0] /\ client' = [client EXCEPT ![c] = 0]
  /\ UNCHANGED <<kind, attempt, loop, retries, key, poolVars, keys, done, effects>>

\* The task is cancelled at an await: no handler of an Exception sees it.
Cancel(c) ==
  /\ pc[c] \in {"sent", "backoff", "archiveWait", "waiting"}
  /\ Ends(c, "cancelled")
  /\ IF slot[c] # 0 THEN LeavePool(c) ELSE UNCHANGED <<slot, client, refcount>>
  /\ UNCHANGED <<kind, attempt, loop, retries, key, clients, remaining, made, keys, done, effects>>

Ended(c)    == pc[c] \in {"returned", "failed", "cancelled"}
Proceed(c)  == Start(c) \/ Backoff(c) \/ ArchiveAgain(c) \/ TryAgain(c)
Answered(c) == ConnectionFails(c) \/ ErrorAnswer(c) \/ Answer(c)
RequestsNext == \E c \in Calls : Proceed(c) \/ Answered(c) \/ ServiceActs(c) \/ Cancel(c)

\* Sleeps end, and every request is answered or times out.
RequestsFairness == \A c \in Calls : WF_requestVars(Proceed(c)) /\ WF_requestVars(Answered(c))
RequestsSpec == RequestsInit /\ [][RequestsNext]_requestVars /\ RequestsFairness

\* A client serves at most max_requests_per_client calls, also one that was
\* replaced in the pool under calls that still use it, and a place in the pool
\* is taken exactly as long as a call is inside (aclient).
ClientsNotOverloaded ==
  /\ \A i \in DOMAIN refcount : refcount[i] = Cardinality({c \in Calls : slot[c] = i})
  /\ \A n \in 1..made : Cardinality({c \in Calls : client[c] = n}) <= PerClient

\* However often the client repeats a request, answers are lost or the call is
\* cancelled, the service acts at most once for each attempt of
\* execute_with_retries (the key is made before the loop of request).
AtMostOneEffect == \A c \in Calls : effects[c] <= attempt[c]

\* A call that returned has had its effect, and its place in the pool is free.
ReturnedIsDone == \A c \in Calls : /\ pc[c] = "returned" /\ kind[c].changes => effects[c] > 0
                                   /\ Ended(c) => slot[c] = 0

\* The two together: an error may hide an effect, but no effect is repeated
\* within an attempt and no success is without one (request, aclient).
OneEffectPerAttempt == AtMostOneEffect /\ ReturnedIsDone
==============================================================================
