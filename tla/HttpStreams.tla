---------------------------- MODULE HttpStreams ----------------------------
(***************************************************************************)
(* The balancer's HTTP endpoints that answer with what agents generate.    *)
(* A handler hands its request to request_from_agent, in a task of its     *)
(* own, and the messages that come back pass through a transformer into a  *)
(* channel that the response body is read from.  A client that leaves      *)
(* drops the body; dropping it cancels the request.  An embedding request  *)
(* is several such requests on one channel.                                *)
(*                                                                         *)
(* What request_from_agent hands to its session is taken from its abstract *)
(* specification, ResponseStream, which Forwarding implements.             *)
(***************************************************************************)
EXTENDS OpenAITransformers, EmbeddingBatches, FiniteSets, TLC

CONSTANTS
    MaxMessages,     \* bound: the messages an agent sends before the last one
    MaxDocuments,    \* bound: the documents of an embedding request
    EmbeddingRequests, \* the embedding requests, with their documents' lengths
    NBatch,          \* the agents' n_batch
    MaxDivided       \* bound: how large the requests are that DocumentsDivided divides

ASSUME HttpStreamsAssumption ==
    /\ MaxDocuments \in Nat \ {0}
    /\ \A batch \in EmbeddingRequests :
          batch.documents \in 0 .. MaxDocuments /\ batch.agents \in Nat /\ batch.cap \in Nat

VARIABLES
    endpoint,        \* the endpoint that was called
    request,         \* what the request asks for
    parts,           \* the documents of each part of an embedding request
    status,          \* the HTTP status; 0 while there is none
    phase,           \* per part: its request_from_agent, as ResponseStream has it
    sent,            \* per part, the messages its session was given
    withdrawn,       \* the parts whose connection_close is cancelled
    transformer,     \* the transformer's state
    chunks,          \* the channel of the response body
    body,            \* what the client has received
    senders,         \* who holds a sender of the channel: parts, Handler, Final
    client           \* "idle", "reading", "ended" or "gone"

httpStreamsVars == <<endpoint, request, parts, status, phase, sent, withdrawn, transformer, chunks, body,
          senders, client>>
askedVars == <<endpoint, request, parts>>
sourceVars == <<phase, sent, withdrawn>>

Part == 1 .. MaxDocuments
Handler == 0                     \* the embedding handler itself
Final == MaxDocuments + 1        \* its task that joins the parts
Collected == {"chat_collected", "responses_collected"}
Streaming == {"generate", "chat", "responses", "embeddings"}
Generating == {"generate", "chat", "responses"} \cup Collected

\* Whether tools make the agent parse tool calls: an unsupported tool is skipped.
Tools == {"none", "unsupported", "function", "invalid"}

Source == INSTANCE ResponseStream WITH
    Attempt <- Part,
    phase <- phase,
    tokens <- [p \in Part |-> Cardinality({i \in DOMAIN sent[p] : sent[p][i].type \notin Terminals
                                                \cup {"embeddingsDone", "noEmbeddings"}})],
    withdrawals <- withdrawn

\* A request for tokens is one part.
Parts == IF endpoint = "embeddings" THEN DOMAIN parts ELSE {1}

Ended(p) == phase[p] \in {"answered", "withdrawn"}

HttpStreamsTypeOK ==
    /\ endpoint \in Generating \cup {"none", "embeddings"}
    /\ status \in {0, 200, 400, 500, 501, 503}
    /\ status = 0 <=> endpoint = "none" \/ (endpoint \in Collected /\ client # "ended")
    /\ phase \in [Part -> {"unsent", "open", "answered", "withdrawn"}]
    /\ withdrawn \in SUBSET Part
    /\ senders \in SUBSET (Part \cup {Handler, Final})
    /\ client \in {"idle", "reading", "ended", "gone"}

HttpStreamsInit ==
    /\ endpoint = "none"
    /\ request = <<>>
    /\ parts = <<>>
    /\ status = 0
    /\ sent = [p \in Part |-> <<>>]
    /\ Source!Init
    /\ transformer = <<>>
    /\ chunks = <<>>
    /\ body = <<>>
    /\ senders = {}
    /\ client = "idle"

(***************************************************************************)
(* The handlers.                                                           *)
(***************************************************************************)
\* A request that is turned away gets a status and nothing else.
Refuse(code) ==
    /\ status' = code
    /\ client' = "ended"
    /\ UNCHANGED <<sourceVars, transformer, chunks, body, senders>>

\* Faulty variant: the status of a collected response is committed before it is known.
AcceptCommitted(state) ==
    /\ sent' = sent
    /\ Source!Open(1)
    /\ senders' = {1}
    /\ transformer' = state
    /\ client' = "reading"
    /\ status' = 200
    /\ UNCHANGED <<chunks, body>>

\* unbounded_stream_from_agent: the request runs in a task of its own.
Accept(state) ==
    /\ sent' = sent
    /\ Source!Open(1)
    /\ senders' = {1}
    /\ transformer' = state
    /\ client' = "reading"
    /\ status' = IF endpoint' \in Collected THEN 0 ELSE 200
    /\ UNCHANGED <<chunks, body>>

\* What the applicable state, if there is one, says of embeddings.
Holder == {"unset", "disabled", "enabled"}
TokenGenerationEnabled(keeper) == keeper # "enabled"

\* The tools that are not supported are skipped, the others validated.
ParseToolCalls(tools) == tools = "function"

\* A cluster that is set up for embeddings refuses to generate; tools that do not
\* validate are refused.
PostGenerate(called, tools, keeper, usage, state) ==
    /\ endpoint = "none"
    /\ endpoint' = called
    /\ request' = [parse_tool_calls |-> ParseToolCalls(tools), include_usage |-> usage]
    /\ parts' = <<>>
    /\ CASE ~TokenGenerationEnabled(keeper)                       -> Refuse(501)
         [] TokenGenerationEnabled(keeper) /\ tools = "invalid"   -> Refuse(400)
         [] OTHER                                                 -> Accept(state)

PostContinue(tools, keeper) ==
    PostGenerate("generate", tools, keeper, FALSE, <<>>)

PostChatCompletions(tools, keeper, usage) ==
    PostGenerate("chat", tools, keeper, usage, OpenAIStreamingState)

PostChatCompletionsCollected(tools, keeper) ==
    PostGenerate("chat_collected", tools, keeper, FALSE, NonStreamingState)

PostResponses(tools, keeper) ==
    PostGenerate("responses", tools, keeper, FALSE, ResponsesStreamingState)

PostResponsesCollected(tools, keeper) ==
    PostGenerate("responses_collected", tools, keeper, FALSE, NonStreamingState)

\* Faulty variant: the handler keeps the sender it cloned for the tasks.
SpawnPartsHolding ==
    /\ phase' = [p \in Part |-> IF p \in DOMAIN parts' THEN "open" ELSE "unsent"]
    /\ senders' = DOMAIN parts' \cup {Final, Handler}
    /\ UNCHANGED <<sent, withdrawn>>

\* One task per part, one that waits for them, and the handler's own sender dropped.
SpawnParts ==
    /\ phase' = [p \in Part |-> IF p \in DOMAIN parts' THEN "open" ELSE "unsent"]
    /\ senders' = DOMAIN parts' \cup {Final}
    /\ UNCHANGED <<sent, withdrawn>>

PostGenerateEmbeddingBatch(keeper, batch) ==
    /\ endpoint = "none"
    /\ endpoint' = "embeddings"
    /\ request' = batch
    /\ \/ keeper = "unset" /\ parts' = <<>> /\ Refuse(503)
       \/ keeper = "disabled" /\ parts' = <<>> /\ Refuse(501)
       \/ keeper = "enabled" /\ batch.agents = 0 /\ parts' = <<>> /\ Refuse(503)
       \/ keeper = "enabled" /\ batch.agents > 0 /\ batch.cap = 0 /\ parts' = <<>> /\ Refuse(500)
       \/ /\ keeper = "enabled" /\ batch.agents > 0 /\ batch.cap > 0
          /\ parts' = ChunkEvenlyWithCap(batch.documents, batch.agents, batch.cap)
          /\ SpawnParts
          /\ status' = 200
          /\ client' = "reading"
          /\ UNCHANGED <<transformer, chunks, body>>

(***************************************************************************)
(* The messages of a part, through the session's transformer.              *)
(***************************************************************************)
\* The line of an embedding message; a part's own Done is discarded.
EmbeddingChunk(message) ==
    IF message.type = "embeddingsDone" THEN <<Chunk("discard", "")>> ELSE <<message>>

Transform(message) ==
    CASE endpoint = "generate"            -> [st |-> transformer, out |-> <<message>>]
      [] endpoint = "embeddings"          -> [st |-> transformer, out |-> EmbeddingChunk(message)]
      [] endpoint = "chat"                ->
            LET st == TransformChatStreaming(transformer, message, request.include_usage)
            IN  [st |-> st, out |-> st.out]
      [] endpoint = "chat_collected"      ->
            LET st == TransformChatNonStreaming(transformer, message) IN [st |-> st, out |-> st.out]
      [] endpoint = "responses"           ->
            LET st == TransformResponsesStreaming(transformer, message) IN [st |-> st, out |-> st.out]
      [] endpoint = "responses_collected" ->
            LET st == TransformResponsesNonStreaming(transformer, message)
            IN  [st |-> st, out |-> st.out]

\* ChunkForwardingSessionController::send_response.
SendResponse(p, message) ==
    /\ sent' = [sent EXCEPT ![p] = Append(@, message)]
    /\ transformer' = Transform(message).st
    /\ chunks' = chunks \o Transform(message).out

Message(type, id, calls) == [type |-> type, id |-> id, calls |-> calls]

\* The tokens and tool results an agent may generate next.
GeneratedMessages ==
    LET n == Len(sent[1]) + 1
    IN  {Message(type, n, <<>>) : type \in TextTokens}
            \cup IF request.parse_tool_calls
                 THEN {Message("parsed", n, calls) : calls \in {<<>>, <<n, n + 10>>}}
                        \cup {Message("toolFailure", n, <<>>)}
                 ELSE {}

AgentGenerates(message) ==
    /\ endpoint \in Generating
    /\ client = "reading"
    /\ Len(sent[1]) < MaxMessages
    /\ message \in GeneratedMessages
    /\ SendResponse(1, message)
    /\ Source!Token(1)
    /\ UNCHANGED <<askedVars, status, body, senders, client>>

\* The last message, after which request_from_agent returns and drops its sender.
\* The balancer's own refusals come before any token.
GenerationEnds(type) ==
    /\ endpoint \in Generating
    /\ client = "reading"
    /\ type \in Terminals
    /\ type \in {"timeout", "tooManyBuffered"} => sent[1] = <<>>
    /\ SendResponse(1, Message(type, 0, <<>>))
    /\ Source!Answer(1)
    /\ senders' = senders \ {1}
    /\ UNCHANGED <<askedVars, status, body, client>>

\* An agent's work on a part: the documents that do not fit, the planned batches.
Oversized(p) == SelectSeq(parts[p], LAMBDA d : request.tokens[d] > NBatch)
Fitting(p) == SelectSeq(parts[p], LAMBDA d : request.tokens[d] <= NBatch)
Planned(p) == PlanEmbeddingBatches(Fitting(p), request.tokens, NBatch, request.slots)
PartMessages(p) ==
    [i \in DOMAIN Oversized(p) |-> Message("oversized", Oversized(p)[i], <<>>)]
    \o LET embedded == FlattenSeq(Planned(p))
       IN  [i \in DOMAIN embedded |-> Message("embedding", embedded[i], <<>>)]

AgentEmbeds(p) ==
    /\ endpoint = "embeddings"
    /\ client = "reading"
    /\ p \in Parts
    /\ Len(sent[p]) < Len(PartMessages(p))
    /\ SendResponse(p, PartMessages(p)[Len(sent[p]) + 1])
    /\ Source!Token(p)
    /\ UNCHANGED <<askedVars, status, body, senders, client>>

\* The part is done, has produced nothing, or has failed, in the agent or before it.
EmbeddingEnds(p, type) ==
    /\ endpoint = "embeddings"
    /\ client = "reading"
    /\ p \in Parts
    /\ type \in {"embeddingsDone", "noEmbeddings"} =>
            /\ Len(sent[p]) = Len(PartMessages(p))
            /\ type = "noEmbeddings" <=> Planned(p) = <<>>
    /\ type = "timeout" => sent[p] = <<>>
    /\ SendResponse(p, Message(type, 0, <<>>))
    /\ Source!Answer(p)
    /\ senders' = senders \ {p}
    /\ UNCHANGED <<askedVars, status, body, client>>

\* Faulty variant: the final Done does not wait for the parts.
SendFinalDoneUnjoined ==
    /\ Final \in senders
    /\ chunks' = Append(chunks, Message("embeddingsDone", 0, <<>>))
    /\ senders' = senders \ {Final}
    /\ UNCHANGED <<askedVars, status, sourceVars, transformer, body, client>>

\* All the parts' tasks are joined: the one Done of the whole request is sent.
SendFinalDone ==
    /\ Final \in senders
    /\ \A p \in Parts : Ended(p)
    /\ chunks' = IF client = "gone" THEN chunks
                 ELSE Append(chunks, Message("embeddingsDone", 0, <<>>))
    /\ senders' = senders \ {Final}
    /\ UNCHANGED <<askedVars, status, sourceVars, transformer, body, client>>

(***************************************************************************)
(* The response body.                                                      *)
(***************************************************************************)
\* The streams that pass chunks on as they come; what is discarded is skipped.
ReadChunk ==
    /\ client = "reading"
    /\ endpoint \in Streaming
    /\ chunks # <<>>
    /\ chunks' = Tail(chunks)
    /\ body' = IF Head(chunks).type = "discard" THEN body ELSE Append(body, Head(chunks))
    /\ UNCHANGED <<askedVars, status, sourceVars, transformer, senders, client>>

\* The channel is closed.
ChannelClosed == client = "reading" /\ chunks = <<>> /\ senders = {}

\* The stream ends with the channel.
EndOfStream ==
    /\ ChannelClosed
    /\ endpoint \in Streaming \ {"chat"}
    /\ client' = "ended"
    /\ UNCHANGED <<askedVars, status, sourceVars, transformer, chunks, senders, body>>

\* A chat completion's ends with [DONE].
EndOfChatStream ==
    /\ ChannelClosed
    /\ endpoint = "chat"
    /\ body' = Append(body, Chunk("[DONE]", ""))
    /\ client' = "ended"
    /\ UNCHANGED <<askedVars, status, sourceVars, transformer, chunks, senders>>

\* The collected results: the first error, or the completion, or neither.
CollectedBody ==
    LET errors == SelectSeq(chunks, LAMBDA c : c.type = "error")
        bodies == SelectSeq(chunks, LAMBDA c : c.type = "body")
    IN  CASE errors # <<>> -> [status |-> 500, body |-> <<Head(errors)>>]
          [] errors = <<>> /\ bodies # <<>> -> [status |-> 200, body |-> <<Head(bodies)>>]
          [] OTHER -> [status |-> 500, body |-> <<Chunk("error", "no completion")>>]

Collect ==
    /\ client = "reading"
    /\ endpoint \in Collected
    /\ senders = {}
    /\ status' = CollectedBody.status
    /\ body' = CollectedBody.body
    /\ client' = "ended"
    /\ UNCHANGED <<askedVars, sourceVars, transformer, chunks, senders>>

\* The client disconnects: the body, or the handler that collects it, is dropped,
\* and with it the guard, which cancels connection_close.
Leave ==
    /\ client = "reading"
    /\ client' = "gone"
    /\ withdrawn' = Parts
    /\ chunks' = <<>>
    /\ UNCHANGED <<askedVars, status, phase, sent, transformer, body, senders>>

\* request_from_agent sees the cancelled token, and returns.
CancelledRequestReturns(p) ==
    /\ sent' = sent
    /\ Source!Withhold(p)
    /\ senders' = senders \ {p}
    /\ UNCHANGED <<askedVars, status, transformer, chunks, body, client>>

-----------------------------------------------------------------------------
Post ==
    \/ \E tools \in Tools, keeper \in Holder :
        \/ PostContinue(tools, keeper)
        \/ \E usage \in BOOLEAN : PostChatCompletions(tools, keeper, usage)
        \/ PostChatCompletionsCollected(tools, keeper)
        \/ PostResponses(tools, keeper)
        \/ PostResponsesCollected(tools, keeper)
    \/ \E keeper \in Holder, batch \in EmbeddingRequests :
        PostGenerateEmbeddingBatch(keeper, batch)

PartEnds(p) ==
    \/ p = 1 /\ \E type \in Terminals : GenerationEnds(type)
    \/ \E type \in {"embeddingsDone", "noEmbeddings", "embeddingError", "error", "timeout"} :
            EmbeddingEnds(p, type)
    \/ CancelledRequestReturns(p)

ClientStep == ReadChunk \/ EndOfStream \/ EndOfChatStream \/ Collect

HttpStreamsNext ==
    \/ Post
    \/ endpoint \in Generating /\ client = "reading"
        /\ \E message \in GeneratedMessages : AgentGenerates(message)
    \/ \E p \in Parts : AgentEmbeds(p) \/ PartEnds(p)
    \/ SendFinalDone
    \/ ClientStep
    \/ Leave

HttpStreamsSpec == HttpStreamsInit /\ [][HttpStreamsNext]_httpStreamsVars

\* What ResponseStream promises: a request is answered, or withdrawn if the client
\* withdrew it.
PartReturns ==
    \E p \in Part :
        /\ phase[p] = "open"
        /\ client = "reading" \/ p \in withdrawn
        /\ \E end \in {"answered", "withdrawn"} : phase' = [phase EXCEPT ![p] = end]

\* Besides, the task that joins the parts runs, and a client that stays reads.
HttpStreamsFairness ==
    /\ WF_phase(PartReturns)
    /\ WF_httpStreamsVars(SendFinalDone)
    /\ WF_httpStreamsVars(ClientStep)

-----------------------------------------------------------------------------
(***************************************************************************)
(* What a client makes of the lines of a stream.                           *)
(***************************************************************************)
\* StreamableResult::is_done.
IsDone(message) ==
    message.type \in {"done", "errorToken", "embeddingsDone", "noEmbeddings", "embeddingError"}

\* Envelopes that are not a result: an error, or a refusal of the balancer's own.
IsRefusal(message) == message.type \in {"timeout", "tooManyBuffered"}

Types(events, types) == SelectSeq(events, LAMBDA e : e.type \in types)
UpTo(messages, i) == IF i = 0 THEN messages ELSE SubSeq(messages, 1, i)

\* Results are gathered up to the first that is done; anything else is an error.
CollectGeneratedTokens(messages) ==
    LET taken == UpTo(messages, SelectInSeq(messages, LAMBDA m :
                        IsDone(m) \/ IsRefusal(m) \/ m.type = "error"))
        text == Types(taken, TextTokens)
    IN  [ok            |-> Types(taken, {"timeout", "tooManyBuffered", "error"}) = <<>>,
         token_results |-> taken,
         text          |-> [i \in DOMAIN text |-> text[i].id]]

\* Only Done ends it here, as the parts end one by one; a part's error is gathered.
CollectEmbeddingResults(messages) ==
    LET taken == UpTo(messages, SelectInSeq(messages, LAMBDA m :
                        m.type = "embeddingsDone" \/ IsRefusal(m)))
    IN  [ok                  |-> Types(taken, {"timeout", "tooManyBuffered"}) = <<>>,
         saw_done            |-> Types(taken, {"embeddingsDone"}) # <<>>,
         embeddings          |-> Types(taken, {"embedding"}),
         oversized_documents |-> Types(taken, {"oversized"}),
         errors              |-> Types(taken, {"embeddingError"}),
         no_embeddings       |-> Len(Types(taken, {"noEmbeddings"})),
         wire_errors         |-> Types(taken, {"error"})]

\* The OpenAI clients gather the events as they are; [DONE] is the end, not an event.
PostStreaming(events) == SelectSeq(events, LAMBDA e : e.type # "[DONE]")

(***************************************************************************)
(* Properties.                                                             *)
(***************************************************************************)
Ids(messages, type) == [i \in DOMAIN Types(messages, {type}) |-> Types(messages, {type})[i].id]
CallsOf(messages) ==
    LET parsed == Types(messages, {"parsed"}) IN FlattenSeq([i \in DOMAIN parsed |-> parsed[i].calls])

\* Items that are added and not done after the first i events.
OpenItems(i) ==
    {j \in 1 .. i : body[j].type = "item_added"
                    /\ ~ \E k \in j .. i : body[k].type = "item_done"
                                           /\ body[k].output_index = body[j].output_index}

\* The events of /v1/responses, however reasoning, text, tool calls and failures
\* alternate: numbered without gaps, the items indexed in order, each closed
\* before the next one opens, and a delta only for the item that is open.  It
\* suffices to look at the event that came last, and at those before it
\* (next_sequence_number, close_open_item).
ResponsesItemsNest ==
    endpoint = "responses" /\ body # <<>> =>
        LET i == Len(body)
            last == body[i]
        IN  /\ last.sequence_number = i - 1
            /\ last.type = "item_added" =>
                   /\ OpenItems(i - 1) = {}
                   /\ last.output_index = Len(Types(body, {"item_added"})) - 1
            /\ last.type \in {"text_delta", "text_done", "part_done", "reasoning_delta",
                              "reasoning_done", "arguments_delta", "arguments_done"} =>
                   \E j \in OpenItems(i - 1) : last.output_index = body[j].output_index

\* response.completed is the last event, every item is done by then, and the
\* items it lists hold exactly the text, the reasoning and the calls the agent
\* generated, in order (handle_done, finalized_output).
CompletedIsWhole ==
    endpoint = "responses" =>
        \A i \in DOMAIN body :
            body[i].type = "completed" =>
                LET output == body[i].payload
                    texts(kind) == LET items == SelectSeq(output, LAMBDA o : o.kind = kind)
                                   IN  [k \in DOMAIN items |-> items[k].text]
                    done == Types(body, {"item_done"})
                IN  /\ i = Len(body)
                    /\ OpenItems(i) = {}
                    /\ output = [k \in DOMAIN done |-> done[k].payload]
                    /\ FlattenSeq(texts("message")) = Ids(sent[1], "content")
                    /\ FlattenSeq(texts("reasoning")) = Ids(sent[1], "reasoning")
                    /\ texts("call") = CallsOf(sent[1])

\* A chat completion's stream: its finish reason is tool_calls exactly if the
\* client was sent tool calls, only the usage and [DONE] come after it, and
\* [DONE] ends every stream, one that failed too (saw_tool_call, chain).
ChatFinishIsTrue ==
    endpoint = "chat" =>
        /\ \A i \in DOMAIN body : body[i].type = "finish" =>
               /\ body[i].payload = "tool_calls" <=> \E j \in 1 .. i : body[j].type = "toolCalls"
               /\ \A j \in i + 1 .. Len(body) : body[j].type \in {"usage", "[DONE]"}
        /\ status = 200 /\ client = "ended" => Last(body).type = "[DONE]"

\* A collected completion is answered with 200 only if the agent finished and
\* nothing failed, and then it is everything the agent generated; the two APIs
\* agree on what that is (build_done_chunk, build_completed, the handlers).
CollectedIsWhole ==
    endpoint \in Collected /\ client = "ended" /\ status = 200 =>
        LET result == body[1].payload
            items(kind) == SelectSeq(result, LAMBDA o : o.kind = kind)
        IN  /\ Last(sent[1]).type = "done"
            /\ \A i \in DOMAIN sent[1] : ~Classify(sent[1][i])
            /\ endpoint = "chat_collected" =>
                   /\ result.content = Ids(sent[1], "content")
                   /\ result.tool_calls = CallsOf(sent[1])
            /\ endpoint = "responses_collected" =>
                   /\ \A i \in DOMAIN result : result[i].index = i - 1
                   /\ [i \in DOMAIN items("call") |-> items("call")[i].text] = CallsOf(sent[1])
                   /\ FlattenSeq([i \in DOMAIN items("message") |-> items("message")[i].text])
                        = Ids(sent[1], "content")

Results(document) ==
    {i \in DOMAIN body : body[i].type \in {"embedding", "oversized"} /\ body[i].id = document}

\* An embedding stream has one Done, its last line, after every part has ended;
\* no document is answered twice, and one without a result is in a part that
\* failed (the join, the parts' own Done discarded).
EmbeddingsAnswered ==
    endpoint = "embeddings" =>
        /\ \A d \in 1 .. request.documents : Cardinality(Results(d)) <= 1
        /\ \A i \in DOMAIN body : body[i].type = "embeddingsDone" =>
               /\ i = Len(body)
               /\ \A p \in Parts : Ended(p)
               /\ \A p \in Parts : Last(sent[p]).type \notin {"embeddingError", "error", "timeout"} =>
                      \A d \in ToSet(parts[p]) : Results(d) # {}

\* A client that stops reading where it takes a stream to be over has missed
\* nothing: its collection of a generation is all that the agent sent, and fails
\* exactly if the stream ended in a refusal or an error; its collection of
\* embeddings fails exactly if a part timed out, and otherwise it saw the Done and
\* every document whose part did not fail; and an OpenAI client has the text and
\* the calls in order, with a finish reason exactly if the agent was done
\* (collect_generated_tokens, collect_embedding_results, post_streaming).
CollectionIsWhole ==
    /\ endpoint = "generate" /\ status = 200 /\ client = "ended" =>
           LET collected == CollectGeneratedTokens(body)
           IN  /\ collected.ok <=> Last(sent[1]).type \in {"done", "errorToken"}
               /\ collected.token_results = sent[1]
               /\ Len(collected.text) = Len(Types(sent[1], TextTokens))
    /\ endpoint = "embeddings" /\ status = 200 /\ client = "ended" =>
           LET collected == CollectEmbeddingResults(body)
               failed == {p \in Parts : Last(sent[p]).type \in {"embeddingError", "error"}}
           IN  /\ collected.ok <=> \A p \in Parts : Last(sent[p]).type # "timeout"
               /\ collected.ok =>
                    /\ collected.saw_done
                    /\ Len(collected.errors) + Len(collected.wire_errors) = Cardinality(failed)
                    /\ \A p \in Parts \ failed : \A d \in ToSet(parts[p]) :
                          \E m \in ToSet(collected.embeddings \o collected.oversized_documents) :
                              m.id = d
    /\ endpoint = "chat" /\ status = 200 /\ client = "ended" =>
           LET events == PostStreaming(body)
               payloads(type) == LET of == Types(events, {type})
                                 IN  [i \in DOMAIN of |-> of[i].payload]
           IN  /\ payloads("content") = Ids(sent[1], "content")
               /\ FlattenSeq(payloads("toolCalls")) = CallsOf(sent[1])
               /\ Types(events, {"finish"}) # <<>> <=> Last(sent[1]).type = "done"

\* For every request the bounds allow: the parts divide its documents, in order
\* and evenly, none of them empty or above the cap; and an agent's batches divide
\* documents of any lengths that fit, none of them empty or above what llama.cpp
\* has room for (chunk_evenly_with_cap, plan_embedding_batches).
DocumentsDivided ==
    endpoint = "none" =>
        /\ \A documents \in 0 .. 2 * MaxDivided, agents, cap \in 1 .. MaxDivided :
               LET chunked == ChunkEvenlyWithCap(documents, agents, cap)
               IN  /\ FlattenSeq(chunked) = [d \in 1 .. documents |-> d]
                   /\ Len(chunked) >= Least(documents, agents)
                   /\ \A p, q \in DOMAIN chunked :
                          /\ Len(chunked[p]) \in 1 .. cap
                          /\ Len(chunked[p]) <= Len(chunked[q]) + 1
        /\ \A count \in 0 .. MaxDivided, slots \in 1 .. 3 :
               \A tokens \in [1 .. count -> 0 .. NBatch] :
                   LET documents == [d \in 1 .. count |-> d]
                       planned == PlanEmbeddingBatches(documents, tokens, NBatch, slots)
                   IN  /\ FlattenSeq(planned) = documents
                       /\ \A b \in DOMAIN planned :
                              /\ Len(planned[b]) \in 1 .. slots
                              /\ FoldLeft(LAMBDA sum, d : sum + tokens[d], 0, planned[b]) <= NBatch

\* The HTTP response is what the agent said (the four transformers), and so is
\* what a client gathers from it.
ResponseIsWhole ==
    /\ ResponsesItemsNest /\ CompletedIsWhole /\ ChatFinishIsTrue /\ CollectedIsWhole
    /\ CollectionIsWhole

\* A client that stays is always answered to the end, whatever became of the
\* parts (the senders' lifetimes), and one that leaves has every part of its
\* request withdrawn (CancellationTokenStreamGuard's drop).
StreamEnds ==
    []<>(client \in {"idle", "ended"} \/ (client = "gone" /\ senders = {}))
=============================================================================
