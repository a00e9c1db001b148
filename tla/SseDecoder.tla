------------------------------ MODULE SseDecoder ------------------------------
(***************************************************************************)
(* Decoding server-sent events from a body that arrives in pieces          *)
(* (SSEDecoder of _streaming.py).  A body is a sequence of line contents   *)
(* and of the bytes CR and LF; a piece may end between any two of them.    *)
(***************************************************************************)
EXTENDS Naturals, Sequences, FiniteSets, SequencesExt

CONSTANT MaxBody                 \* bound of the model on the length of a body

VARIABLES text,        \* the whole body
          arrived,     \* how much of it has arrived
          data,        \* the bytes of _aiter_chunks that were not yet handed on
          decoder,     \* _data and _last_event_id of the decoder, and the events handed out
          closed       \* the end of the body was seen
sseVars == <<text, arrived, data, decoder, closed>>

CR == "cr"
LF == "lf"
Contents == {"data", "id", ":"}
\* bodies whose line ends are all of one kind, as servers send them
Bodies == {b \in UNION {[1..n -> Contents \cup {CR, LF}] : n \in 0..MaxBody} :
             \/ \A i \in DOMAIN b : b[i] # CR
             \/ \A i \in DOMAIN b : b[i] # LF
             \/ \A i \in DOMAIN b : (b[i] = CR) = (i < Len(b) /\ b[i + 1] = LF)}

\* splitlines(keepends=True)
LineEnds(s) == {i \in DOMAIN s : \/ s[i] = LF \/ i = Len(s)
                                 \/ s[i] = CR /\ s[i + 1] # LF}

\* A change of the code: a chunk ends with any line.
EndsLine(s) == IsSuffix(<<CR>>, s) \/ IsSuffix(<<LF>>, s)

EndsEvent(s) == \/ IsSuffix(<<CR, CR>>, s) \/ IsSuffix(<<LF, LF>>, s)
                \/ IsSuffix(<<CR, LF, CR, LF>>, s)

\* decode: an empty line hands the event out, if there is anything to hand out
DecodeLine(st, line) ==
  CASE line = <<>> /\ st.data = <<>> /\ ~st.id -> st
    [] line = <<>> /\ (st.data # <<>> \/ st.id) -> [st EXCEPT !.data = <<>>, !.out = Append(@, st.data)]
    [] line # <<>> /\ line[1] = "data" -> [st EXCEPT !.data = Append(@, line)]
    [] line # <<>> /\ line[1] = "id"   -> [st EXCEPT !.id = TRUE]
    [] OTHER -> st                                        \* a comment

\* splitlines() and decode: after i bytes, what the lines that have ended
\* made of the decoder, and the contents of the line that has not
Decoding(st, s) ==
  LET after[i \in 0..Len(s)] ==
        IF i = 0 THEN [decoder |-> st, line |-> <<>>]
        ELSE LET so   == after[i - 1]
                 line == so.line \o (IF s[i] \in {CR, LF} THEN <<>> ELSE <<s[i]>>)
             IN  IF i \in LineEnds(s) THEN [decoder |-> DecodeLine(so.decoder, line), line |-> <<>>]
                                      ELSE [decoder |-> so.decoder, line |-> line]
  IN  after
DecodeChunk(st, s) == Decoding(st, s)[Len(s)].decoder

\* _aiter_chunks and aiter_bytes, after i bytes of a piece of the body: what was
\* collected is decoded when a line of the piece ends an event
Taking(st, piece) ==
  LET after[i \in 0..Len(piece)] ==
        IF i = 0 THEN st
        ELSE LET so        == after[i - 1]
                 collected == Append(so.data, piece[i])
             IN  IF i \in LineEnds(piece) /\ EndsEvent(collected)
                 THEN [decoder |-> DecodeChunk(so.decoder, collected), data |-> <<>>]
                 ELSE [decoder |-> so.decoder, data |-> collected]
  IN  after
TakePiece(st, piece) == Taking(st, piece)[Len(piece)]
TakeEnd(st) == IF st.data = <<>> THEN st
               ELSE [decoder |-> DecodeChunk(st.decoder, st.data), data |-> <<>>]

Fresh == [data |-> <<>>, id |-> FALSE, out |-> <<>>]
State == [decoder |-> decoder, data |-> data]
Becomes(st) == decoder' = st.decoder /\ data' = st.data

SseInit == /\ text \in Bodies /\ arrived = 0 /\ data = <<>>
           /\ decoder = Fresh /\ closed = FALSE

PieceArrives == /\ arrived < Len(text)
                /\ \E n \in 1..(Len(text) - arrived) :
                     /\ arrived' = arrived + n
                     /\ Becomes(TakePiece(State, SubSeq(text, arrived + 1, arrived + n)))
                /\ UNCHANGED <<text, closed>>

BodyEnds == /\ arrived = Len(text) /\ ~closed
            /\ closed' = TRUE /\ Becomes(TakeEnd(State))
            /\ UNCHANGED <<text, arrived>>

SseNext == PieceArrives \/ BodyEnds
SseSpec == SseInit /\ [][SseNext]_sseVars

\* The events do not depend on where the body was cut into pieces, also when the
\* cut is inside a line, an event or a CRLF (_aiter_chunks).
PiecesDoNotMatter == closed => decoder.out = DecodeChunk(Fresh, text).out
=============================================================================
