----------------------------- MODULE HttpClient -----------------------------
(***************************************************************************)
(* The HTTP side of the client libraries: a request, whose status decides  *)
(* whether there is a body; a body that arrives in chunks which know       *)
(* nothing of its lines, and is read as a stream of NDJSON messages, of    *)
(* server-sent events, or whole; and the wait for a service to become      *)
(* healthy.                                                                *)
(*                                                                         *)
(* A behaviour is one call of one library.  A body is a sequence of bytes: *)
(* "o" and "c" are the two halves of a JSON document, "w" is white space,  *)
(* "d" is the prefix "data: ", "n" is the newline.                         *)
(***************************************************************************)
EXTENDS Naturals, Sequences, SequencesExt

CONSTANTS
    MaxLines         \* bound: the lines of a body

VARIABLES
    call,            \* which function of which library is called
    answer,          \* how the service answers a request
    lines,           \* the lines of the body
    terminated,      \* the last of them ends in a newline
    arriving,        \* what of the body has not been received
    buffer,          \* LineBuffer
    yielded,         \* what the stream has yielded
    stage,           \* "idle", "sending", "reading", "sleeping", "over"
    outcome          \* how the call ended

httpClientVars ==
    <<call, answer, lines, terminated, arriving, buffer, yielded, stage, outcome>>

Document == <<"o", "c">>

\* The calls: get_json and put_json of the management client, its streams of
\* snapshots, the streams of messages that a posted request is answered with, and
\* the wait for the service.
Management == {"rust_get", "rust_put", "rust_sse"}
PostStreaming == {"rust_ndjson", "python_ndjson", "javascript_ndjson"}
Call == Management \cup PostStreaming \cup {"python_sse", "health"}
Rust(which) == which \in Management \cup {"rust_ndjson", "health"}
Sse(which) == which \in {"rust_sse", "python_sse"}

\* The lines the balancer writes for a stream of each format, a line that is
\* cut short, and one that carries nothing.
LinesOf(which) ==
    IF Sse(which) THEN {<<"d">> \o Document, <<"d", "o">>, <<>>}
    ELSE {Document, <<"w">> \o Document, <<"o">>, <<"w">>}

\* The calls whose answer has a body that is looked at.
Bodied(which) == which \notin {"rust_put", "health"}

\* What a call may end in: Ok, an Error of the Rust library, or what the others raise.
Outcome == {"complete", "cancelled", "failed", "Connect", "ServiceUnavailable",
            "UnexpectedResponseStatus", "ErrorBodyUnreadable", "RequestCancelled", "Http"}

Bytes(sequence, closed) ==
    FlattenSeq([i \in DOMAIN sequence |->
        IF i < Len(sequence) \/ closed THEN Append(sequence[i], "n") ELSE sequence[i]])

HttpTypeOK ==
    /\ call \in Call
    /\ answer \in {"unreachable", "unavailable", "refused", "ok"}
    /\ Range(yielded) \subseteq {"document", "invalid", "transport"}
    /\ stage \in {"idle", "sending", "reading", "sleeping", "over"}
    /\ outcome \in Outcome \cup {"none"}

HttpInit ==
    /\ call \in Call
    /\ answer \in {"unreachable", "unavailable", "refused", "ok"}
    /\ lines \in IF ~Bodied(call) THEN {<<>>} ELSE BoundedSeq(LinesOf(call), MaxLines)
    /\ terminated \in BOOLEAN
    /\ arriving = Bytes(lines, terminated)
    /\ buffer = <<>>
    /\ yielded = <<>>
    /\ stage = "idle"
    /\ outcome = "none"

End(how) == stage' = "over" /\ outcome' = how

(***************************************************************************)
(* Requests.                                                               *)
(***************************************************************************)
HttpRequest ==
    /\ stage = "idle"
    /\ stage' = "sending"
    /\ UNCHANGED <<call, answer, lines, terminated, arriving, buffer, yielded, outcome>>

\* An answer that is not a success, with its text; the connection may fail under it.
ReadErrorBody ==
    IF answer = "ok" THEN {}
    ELSE IF answer = "unreachable" THEN {"Connect"}
    ELSE {"ErrorBodyUnreadable",
          IF answer = "unavailable" THEN "ServiceUnavailable" ELSE "UnexpectedResponseStatus"}

\* Sending may fail otherwise than by connecting.  The status is checked before the body: only a success has a stream, and
\* the wait for health goes on after an answer that a service may still give
\* while it starts.
SendCheckedRequest ==
    /\ stage = "sending"
    /\ \/ answer = "ok" /\ Bodied(call) /\ stage' = "reading" /\ UNCHANGED outcome
       \/ answer = "ok" /\ ~Bodied(call) /\ End("complete")
       \/ \E error \in {"Http"} \cup ReadErrorBody :
             IF call = "health" /\ error \in {"Connect", "ServiceUnavailable"}
             THEN stage' = "sleeping" /\ UNCHANGED outcome
             ELSE End(IF Rust(call) THEN error ELSE "failed")
    /\ UNCHANGED <<call, answer, lines, terminated, arriving, buffer, yielded>>

\* wait_until_healthy probes again after its interval.
ProbeAgain ==
    /\ stage = "sleeping"
    /\ stage' = "sending"
    /\ UNCHANGED <<call, answer, lines, terminated, arriving, buffer, yielded, outcome>>

\* The service starts: it is reached, then it is ready.
ServiceStarts ==
    /\ call = "health"
    /\ answer \in {"unreachable", "unavailable"}
    /\ answer' = IF answer = "unreachable" THEN "unavailable" ELSE "ok"
    /\ UNCHANGED <<call, lines, terminated, arriving, buffer, yielded, stage, outcome>>

\* The caller cancels.  A request is given up; a stream ends where the next chunk,
\* or in Rust the next item, is awaited; a body that is read whole is read to its end.
CancelCall ==
    /\ \/ stage = "sending" /\ End(IF Rust(call) THEN "RequestCancelled" ELSE "cancelled")
       \/ /\ stage = "reading" /\ call # "rust_get"
          /\ Rust(call) \/ ~Contains(buffer, "n")
          /\ End("cancelled")
    /\ UNCHANGED <<call, answer, lines, terminated, arriving, buffer, yielded>>

(***************************************************************************)
(* Streams.                                                                *)
(***************************************************************************)
\* What a line means: nothing, a document, or an error.
NdjsonItem(line) ==
    LET trimmed == SelectSeq(line, LAMBDA byte : byte # "w")
    IN  IF trimmed = <<>> THEN <<>>
        ELSE IF trimmed = Document THEN <<"document">> ELSE <<"invalid">>

SseItem(line) ==
    IF line # <<>> /\ Head(line) = "d"
    THEN IF Tail(line) = Document THEN <<"document">> ELSE <<"invalid">>
    ELSE <<>>

ParseLine(line) == IF Sse(call) THEN SseItem(line) ELSE NdjsonItem(line)

\* An item is yielded; outside the Rust client a line that does not parse
\* raises, and that is the end of the stream.
Yield(item) ==
    /\ yielded' = yielded \o item
    /\ IF ~Rust(call) /\ item = <<"invalid">>
       THEN End("failed")
       ELSE UNCHANGED <<stage, outcome>>

NewlinePosition == SelectInSeq(buffer, LAMBDA byte : byte = "n")

\* take_line: the buffer up to its first newline, which is dropped.
TakeLine ==
    /\ stage = "reading" /\ call # "rust_get"
    /\ NewlinePosition > 0
    /\ Yield(ParseLine(SubSeq(buffer, 1, NewlinePosition - 1)))
    /\ buffer' = SubSeq(buffer, NewlinePosition + 1, Len(buffer))
    /\ UNCHANGED <<call, answer, lines, terminated, arriving>>

\* Faulty variant: the chunk replaces what the buffer held.
PushChunkAlone ==
    /\ stage = "reading"
    /\ NewlinePosition = 0 \/ call = "rust_get"
    /\ \E n \in 1 .. Len(arriving) :
          /\ buffer' = SubSeq(arriving, 1, n)
          /\ arriving' = SubSeq(arriving, n + 1, Len(arriving))
    /\ UNCHANGED <<call, answer, lines, terminated, yielded, stage, outcome>>

\* The next chunk, of any size, once the buffer holds no whole line.
PushChunk ==
    /\ stage = "reading"
    /\ NewlinePosition = 0 \/ call = "rust_get"
    /\ \E n \in 1 .. Len(arriving) :
          /\ buffer' = buffer \o SubSeq(arriving, 1, n)
          /\ arriving' = SubSeq(arriving, n + 1, Len(arriving))
    /\ UNCHANGED <<call, answer, lines, terminated, yielded, stage, outcome>>

\* The body is over: what is left is a line that lacks its newline, and the
\* Rust event stream leaves it out.
TakeRemainder ==
    /\ stage = "reading" /\ call # "rust_get"
    /\ NewlinePosition = 0
    /\ arriving = <<>>
    /\ LET item == IF call = "rust_sse" THEN <<>> ELSE ParseLine(buffer)
       IN  /\ yielded' = yielded \o item
           /\ End(IF ~Rust(call) /\ item = <<"invalid">>
                  THEN "failed" ELSE "complete")
    /\ buffer' = <<>>
    /\ UNCHANGED <<call, answer, lines, terminated, arriving>>

\* A body that is read whole is one document, or the call fails.
JsonItem(bytes) ==
    IF SelectSeq(bytes, LAMBDA byte : byte \notin {"w", "n"}) = Document
    THEN <<"document">> ELSE <<"invalid">>

ReadJson ==
    /\ stage = "reading" /\ call = "rust_get"
    /\ arriving = <<>>
    /\ yielded' = JsonItem(buffer)
    /\ End(IF JsonItem(buffer) = <<"document">> THEN "complete" ELSE "Http")
    /\ UNCHANGED <<call, answer, lines, terminated, arriving, buffer>>

\* The connection fails: the stream yields the error and terminates.
TransportFails ==
    /\ stage = "reading"
    /\ NewlinePosition = 0 \/ call = "rust_get"
    /\ yielded' = IF call = "rust_get" THEN yielded ELSE Append(yielded, "transport")
    /\ End(IF Rust(call) THEN "Http" ELSE "failed")
    /\ UNCHANGED <<call, answer, lines, terminated, arriving, buffer>>

HttpNext ==
    \/ HttpRequest \/ SendCheckedRequest \/ ProbeAgain \/ ServiceStarts \/ CancelCall
    \/ TakeLine \/ PushChunk \/ TakeRemainder \/ ReadJson \/ TransportFails

HttpFairness ==
    /\ WF_answer(ServiceStarts)
    /\ WF_<<stage, buffer>>(\/ HttpRequest \/ SendCheckedRequest \/ ProbeAgain
                            \/ TakeLine \/ PushChunk \/ TakeRemainder \/ ReadJson)

(***************************************************************************)
(* Properties.                                                             *)
(***************************************************************************)
\* What the lines of the body mean, one after the other; a library that
\* raises stops at the first that does not parse.
Meaning ==
    LET kept == IF call = "rust_sse" /\ ~terminated /\ lines # <<>> THEN Front(lines) ELSE lines
        all == FlattenSeq([i \in DOMAIN kept |-> ParseLine(kept[i])])
        bad == SelectInSeq(all, LAMBDA item : item = "invalid")
    IN  CASE call = "rust_get" -> JsonItem(FlattenSeq(lines))
          [] call # "rust_get" /\ (Rust(call) \/ bad = 0) -> all
          [] OTHER -> SubSeq(all, 1, bad)

\* However the body was cut into chunks, the stream yields what its lines
\* mean, in order: all of it when it ends by itself, a beginning of it when it
\* is cancelled, and a beginning and the error when the connection fails.
ChunkingIsInvisible ==
    LET items == SelectSeq(yielded, LAMBDA item : item # "transport")
    IN  /\ IsPrefix(items, Meaning)
        /\ IsPrefix(items, yielded)
        /\ outcome = "complete" /\ Bodied(call) => yielded = Meaning

\* What the library says of a call that did not succeed is so: a request that was
\* cancelled "before the server responded" has had no byte of an answer, one that
\* is refused neither, and a body that was read whole is never half a document.
ErrorIsTrue ==
    /\ outcome \in Outcome \ {"complete", "cancelled", "failed", "Http"} =>
           buffer = <<>> /\ yielded = <<>> /\ arriving = Bytes(lines, terminated)
    /\ call = "rust_get" /\ outcome \in {"complete", "Http"} =>
           \/ outcome = "complete" /\ arriving = <<>> /\ yielded = <<"document">>
           \/ outcome = "Http" /\ yielded # <<"document">>
    /\ call = "health" /\ outcome = "complete" => answer = "ok"

\* Waiting for a service to become healthy ends when it is, and no stream is
\* left unread.
CallEnded == stage = "over"

=============================================================================
