------------------------------ MODULE Endpoints ------------------------------
(***************************************************************************)
(* The endpoints that the SDK calls (resources/): for each, whether it     *)
(* changes the service (every method but GET), the HTTP client's own       *)
(* repetitions that its caller asks for, and whether the caller wraps it   *)
(* in execute_with_retries (internal_client_holder.py).                    *)
(***************************************************************************)

\* repetitions: "default" of the client, or "none" (max_retries=0)
Endpoint(name, changes, repetitions, wrapped) ==
  [name |-> name, changes |-> changes, repetitions |-> repetitions, wrapped |-> wrapped]

Posts(names, repetitions, wrapped) ==
  {Endpoint(n, TRUE, repetitions, wrapped) : n \in names}
Gets(names, wrapped) == {Endpoint(n, FALSE, "default", wrapped) : n \in names}

TrainingResource  == Posts({"forward", "forward_backward", "optim_step"}, "default", TRUE)
ModelsCreate      == Posts({"create"}, "default", FALSE)
ModelsGetInfo     == Posts({"get_info"}, "default", TRUE)
WeightsOrdered    == Posts({"load", "save", "save_for_sampler"}, "default", TRUE)
WeightsList       == Gets({"list"}, TRUE)
\* a GET whose answer is a redirect; it has a loop of its own around the client's
WeightsArchiveUrl == {Endpoint("archive", FALSE, "default", FALSE)}
SamplingResource  == Posts({"asample"}, "none", FALSE)
FuturesResource   == Posts({"retrieve_future"}, "none", FALSE)
TelemetryResource == Posts({"telemetry"}, "default", FALSE)
ServiceReads      == Gets({"get_scheduler_state", "get_server_capabilities"}, TRUE)
CreateSession     == Posts({"create_session"}, "default", FALSE)
SessionHeartbeat  == Posts({"session_heartbeat"}, "none", FALSE)
SamplingSession   == Posts({"create_sampling_session"}, "default", FALSE)
\* what RestClient sends with get, post, put and delete of the client
RestReads         == Gets({"training_run", "session", "sampler", "sessions"}, TRUE)
RestChanges       == Posts({"weights_info", "cancel_session", "publish", "unpublish",
                            "ttl", "delete"}, "default", TRUE)

Endpoints == UNION {TrainingResource, ModelsCreate, ModelsGetInfo, WeightsOrdered, WeightsList,
                    WeightsArchiveUrl, SamplingResource, FuturesResource, TelemetryResource,
                    ServiceReads, CreateSession, SessionHeartbeat, SamplingSession,
                    RestReads, RestChanges}

\* all that the transport can tell of an endpoint
Kind(e) == [changes |-> e.changes, repetitions |-> e.repetitions, wrapped |-> e.wrapped,
            archive |-> e.name = "archive"]
Kinds   == {Kind(e) : e \in Endpoints}
=============================================================================
