---------------------------- MODULE SamplingCalls ----------------------------
(***************************************************************************)
(* The calls of a SamplingClient and of a copy of it that was pickled for  *)
(* another process, or for its sidecar (public_interfaces/                 *)
(* sampling_client.py): the checks of their arguments, the request ids,    *)
(* and the dependent future that proves that the policy applied the        *)
(* requested noise.  Whoever completes a future runs its callbacks         *)
(* afterwards, and a caller may cancel its future at any time.             *)
(***************************************************************************)
EXTENDS Naturals, FiniteSets

CONSTANTS Samplings,
          Base,              \* the distance between the ids of the original and of a copy
          MaxBase            \* bound of the model on the random factor of a copy's base

VARIABLES counter,     \* _request_id_counter of the original and of the copy
          copied,      \* the copy exists
          sidecar,     \* the original hands its calls to the copy (subprocess sampling)
          policy,      \* the base model that the original knows of; a copy knows none
          wanted,      \* what each call asks for
          requestId,   \* the ids given, one set for each call
          source,      \* the future of the sample
          verified,    \* the future that depends on it
          callbacks    \* the callbacks that are to run
samplingVars == <<counter, copied, sidecar, policy, wanted, requestId, source, verified, callbacks>>

Clients  == {"original", "copy"}
Policies == {"unknown", "pi0-droid", "other"}
\* odd: options that pi0-droid does not support; both: two kinds of observation
Want(kind, noise, both, odd) == [kind : {kind}, noise : noise, both : both, odd : odd]
Wants == Want("sample", BOOLEAN, BOOLEAN, {FALSE}) \cup Want("droid", BOOLEAN, {FALSE}, BOOLEAN)
         \cup Want("logprobs", {FALSE}, {FALSE}, {FALSE})
Nothing == [kind |-> "none", noise |-> FALSE, both |-> FALSE, odd |-> FALSE]

SamplingsInit ==
  /\ counter = [c \in Clients |-> 0] /\ copied = FALSE /\ sidecar = FALSE
  /\ policy \in Policies
  /\ wanted = [c \in Samplings |-> Nothing] /\ requestId = [c \in Samplings |-> {}]
  /\ source = [c \in Samplings |-> "none"] /\ verified = [c \in Samplings |-> "none"]
  /\ callbacks = {}

\* A change of the code: the copy counts from nothing, as the original does.
CopyFromZero(forSidecar) ==
  /\ ~copied /\ (forSidecar => \A c \in Samplings : source[c] = "none")
  /\ copied' = TRUE /\ sidecar' = forSidecar
  /\ UNCHANGED <<counter, policy, wanted, requestId, source, verified, callbacks>>

\* __reduce__ and _unpickle_sampling_client, for a worker, or in the constructor for the sidecar
Copy(forSidecar) ==
  /\ ~copied /\ (forSidecar => \A c \in Samplings : source[c] = "none")
  /\ copied' = TRUE /\ sidecar' = forSidecar
  /\ \E n \in 1..MaxBase : counter' = [counter EXCEPT !["copy"] = Base * n]
  /\ UNCHANGED <<policy, wanted, requestId, source, verified, callbacks>>

\* sample and sample_droid
Refused(client, w) ==
  LET known == IF client = "original" THEN policy ELSE "unknown"
  IN  \/ w.both
      \/ w.noise /\ known = "other"
      \/ w.kind = "droid" /\ (known = "pi0-droid" \/ w.noise) /\ w.odd

\* only sample_droid proves what it asked for
Proves(c) == wanted[c].kind = "droid" /\ wanted[c].noise

\* the id is taken by the client that sends, and every retry uses it again
Submit(c, client) ==
  /\ source[c] = "none" /\ (client = "copy" => copied)
  /\ \E w \in Wants :
       /\ wanted' = [wanted EXCEPT ![c] = w]
       /\ IF Refused(client, w)
          THEN /\ source' = [source EXCEPT ![c] = "refused"]
               /\ UNCHANGED <<counter, requestId, verified>>
          ELSE LET sender == IF sidecar THEN "copy" ELSE client
               IN  /\ requestId' = [requestId EXCEPT ![c] = {counter[sender]}]
                   /\ counter' = [counter EXCEPT ![sender] = @ + 1]
                   /\ source' = [source EXCEPT ![c] = "pending"]
                   /\ verified' = [verified EXCEPT ![c] =
                                     IF w.kind = "droid" /\ w.noise THEN "pending" ELSE @]
  /\ UNCHANGED <<copied, sidecar, policy, callbacks>>

Settles(c, how) == /\ source' = [source EXCEPT ![c] = how]
                   /\ callbacks' = callbacks \cup (IF Proves(c) THEN {<<"verify", c>>} ELSE {})

\* the sample comes back, with or without the proof in its metadata, or it fails
Complete(c) == /\ source[c] = "pending"
               /\ \E how \in {"proven", "unproven", "error"} : Settles(c, how)
               /\ UNCHANGED <<counter, copied, sidecar, policy, wanted, requestId, verified>>

(* _require_pi0_dsrl_ack *)
CancelVerified(c) ==
  IF verified[c] = "pending"
  THEN /\ verified' = [verified EXCEPT ![c] = "cancelled"]
       /\ callbacks' = (callbacks \ {<<"verify", c>>}) \cup {<<"cancel", c>>}
  ELSE UNCHANGED verified /\ callbacks' = callbacks \ {<<"verify", c>>}

Verify(c) ==
  /\ <<"verify", c>> \in callbacks
  /\ IF source[c] = "cancelled" THEN CancelVerified(c)
     ELSE /\ callbacks' = callbacks \ {<<"verify", c>>}
          /\ verified' = [verified EXCEPT ![c] = IF @ = "pending" THEN "running" ELSE @]
  /\ UNCHANGED <<counter, copied, sidecar, policy, wanted, requestId, source>>

CheckAck(c) == /\ verified[c] = "running"
               /\ verified' = [verified EXCEPT ![c] = IF source[c] = "proven" THEN "result" ELSE "exception"]
               /\ UNCHANGED <<counter, copied, sidecar, policy, wanted, requestId, source, callbacks>>

CancelSourceIfNeeded(c) ==
  /\ <<"cancel", c>> \in callbacks
  /\ source' = [source EXCEPT ![c] = IF @ = "pending" THEN "cancelled" ELSE @]
  /\ callbacks' = (callbacks \ {<<"cancel", c>>})
                  \cup (IF source[c] = "pending" THEN {<<"verify", c>>} ELSE {})
  /\ UNCHANGED <<counter, copied, sidecar, policy, wanted, requestId, verified>>

\* the caller cancels the future that it got
CallerCancels(c) ==
  /\ IF Proves(c)
     THEN /\ verified[c] = "pending"
          /\ verified' = [verified EXCEPT ![c] = "cancelled"]
          /\ callbacks' = callbacks \cup {<<"cancel", c>>} /\ UNCHANGED source
     ELSE source[c] = "pending" /\ Settles(c, "cancelled") /\ UNCHANGED verified
  /\ UNCHANGED <<counter, copied, sidecar, policy, wanted, requestId>>

Runs(c) == Verify(c) \/ CheckAck(c) \/ CancelSourceIfNeeded(c)
SamplingsNext == \/ \E forSidecar \in BOOLEAN : Copy(forSidecar)
                 \/ \E c \in Samplings : \/ Complete(c) \/ Runs(c) \/ CallerCancels(c)
                                         \/ \E client \in Clients : Submit(c, client)
\* callbacks run, and every sample ends (its retry handler sees to it)
SamplingsFairness == \A c \in Samplings : WF_samplingVars(Runs(c)) /\ WF_samplingVars(Complete(c))
SamplingsSpec == SamplingsInit /\ [][SamplingsNext]_samplingVars /\ SamplingsFairness

\* A caller that asked for its noise gets a response only with the proof that it
\* was applied, and no request id is used by two calls of the original, of its
\* copy or of the two together (sample_droid and __init__).
NoiseIsProven ==
  /\ \A c \in Samplings : verified[c] = "result" => source[c] = "proven"
  /\ \A c, d \in Samplings : c # d => requestId[c] \cap requestId[d] = {}

\* The two futures end together: the caller always gets an answer, and a call that
\* its caller cancelled in time leaves no request behind (_require_pi0_dsrl_ack).
EndedTogether(c) == verified[c] # "none" => /\ verified[c] \in {"result", "exception", "cancelled"}
                                            /\ source[c] # "pending"
=============================================================================
