------------------------------ MODULE Responses ------------------------------
(***************************************************************************)
(* The response of one request in the hands of its consumer (_response.py  *)
(* and _streaming.py): read at once, handed out raw, streamed inside a     *)
(* context manager, or iterated as server-sent events.  The body can be    *)
(* read once; reading it to the end, or closing the response, gives the    *)
(* connection back.                                                        *)
(***************************************************************************)
EXTENDS Naturals

CONSTANT MaxUses                 \* bound of the model on the uses of one response

VARIABLES mode,        \* how the response was asked for
          status,      \* what the service answered
          body,        \* "none", "unread", "partial", "content" (read), "gone"
          open,        \* the connection is held
          parsed,      \* _parsed_by_type: a type, and how much of the body it was made from
          uses,        \* uses so far
          scope,       \* "request", "using", "left"
          raised       \* the errors that the consumer saw
responseVars == <<mode, status, body, open, parsed, uses, scope, raised>>

Modes   == {"parsed", "raw", "streamed", "sse"}
CastTo  == {"model", "text"}
Streams == {"streamed", "sse"}

ResponsesInit == /\ mode \in Modes /\ status \in {"ok", "error"}
                 /\ body = "none" /\ open = FALSE /\ parsed = [t \in CastTo |-> "no"]
                 /\ uses = 0 /\ scope = "request" /\ raised = {}

\* The content of the body, read to its end when that is still possible.
ReadBody == IF body \in {"unread", "content"}
            THEN body' = "content" /\ open' = FALSE /\ UNCHANGED raised
            ELSE raised' = raised \cup {"StreamAlreadyConsumed"} /\ UNCHANGED <<body, open>>

\* A change of the code: the error of a stream is raised without reading it.
ReceiveResponseUnread ==
  /\ scope = "request" /\ body = "none"
  /\ IF mode \notin Streams
     THEN body' = "content" /\ open' = FALSE
     ELSE body' = "unread" /\ open' = TRUE
  /\ IF status = "error" THEN scope' = "left" /\ raised' = raised \cup {"APIStatusError"}
     ELSE scope' = "using" /\ UNCHANGED raised
  /\ UNCHANGED <<mode, status, parsed, uses>>

\* request and _process_response: a stream is left unread unless it is an error
ReceiveResponse ==
  /\ scope = "request" /\ body = "none"
  /\ IF status = "error" \/ mode \notin Streams
     THEN body' = "content" /\ open' = FALSE
     ELSE body' = "unread" /\ open' = TRUE
  /\ IF status = "error" THEN scope' = "left" /\ raised' = raised \cup {"APIStatusError"}
     ELSE scope' = "using" /\ UNCHANGED raised
  /\ UNCHANGED <<mode, status, parsed, uses>>

Use == scope = "using" /\ uses < MaxUses /\ uses' = uses + 1

\* parse: what was parsed before is returned again; otherwise the body is read first
Parse(t) ==
  /\ Use /\ mode # "sse"
  /\ IF parsed[t] # "no" THEN UNCHANGED <<body, open, parsed, raised>>
     ELSE /\ ReadBody
          /\ parsed' = IF body \in {"unread", "content"} THEN [parsed EXCEPT ![t] = "whole"] ELSE parsed
  /\ UNCHANGED <<mode, status, scope>>

Read == /\ Use /\ mode # "sse" /\ ReadBody
        /\ UNCHANGED <<mode, status, parsed, scope>>

\* iter_bytes, iter_text, iter_lines and stream_to_file: to the end or only a part
Iterate(toTheEnd) ==
  /\ Use /\ mode # "sse"
  /\ CASE body = "content" -> UNCHANGED <<body, open, raised>>
       [] body = "unread"  -> /\ body' = IF toTheEnd THEN "gone" ELSE "partial"
                              /\ open' = ~toTheEnd /\ UNCHANGED raised
       [] OTHER            -> /\ raised' = raised \cup {"StreamConsumed"}
                              /\ UNCHANGED <<body, open>>
  /\ UNCHANGED <<mode, status, parsed, scope>>

\* AsyncStream.__stream__: the events to their end, or until the consumer stops or an event is not JSON
IterateEvents ==
  /\ Use /\ mode = "sse" /\ body \in {"unread", "partial"}
  /\ \/ body' = "gone" /\ open' = FALSE
     \/ body' = "partial" /\ UNCHANGED open
  /\ UNCHANGED <<mode, status, parsed, scope, raised>>

CloseResponse == /\ Use
                 /\ open' = FALSE /\ body' = IF body = "content" THEN body ELSE "gone"
                 /\ UNCHANGED <<mode, status, parsed, scope, raised>>

\* the end of the context manager; a response that was read needs none
LeaveContext == /\ scope = "using"
                /\ scope' = "left" /\ open' = FALSE
                /\ UNCHANGED <<mode, status, body, parsed, uses, raised>>

ResponsesNext == \/ ReceiveResponse \/ (\E t \in CastTo : Parse(t)) \/ Read \/ IterateEvents
                 \/ (\E toTheEnd \in BOOLEAN : Iterate(toTheEnd)) \/ CloseResponse \/ LeaveContext

\* A connection is held only inside the scope of its consumer: an error is read
\* to its end before it is raised, and the context manager closes what is left.
ConnectionGivenBack == scope \in {"left"} \/ mode \in {"parsed", "raw"} => ~open

\* What a response was parsed into was made from its whole body, however it was
\* read, iterated in part or closed before.
ParsedFromWholeBody == \A t \in CastTo : parsed[t] # "no" => parsed[t] = "whole" /\ body # "partial"
=============================================================================
