------------------------- MODULE OpenAITransformers -------------------------
(***************************************************************************)
(* The four transformers of the OpenAI compatible service, as functions    *)
(* from a transformer's state and an outgoing message to the new state.    *)
(* The chunks or events a transform call returns are the state's `out`.    *)
(*                                                                         *)
(* A message is [type, id, calls]: the text of a token is its id, the      *)
(* parsed tool calls are a sequence of ids.  JSON layout, timestamps and   *)
(* the usage numbers are left out.                                         *)
(***************************************************************************)
EXTENDS Naturals, Sequences, SequencesExt

(***************************************************************************)
(* Outgoing messages.                                                      *)
(***************************************************************************)
\* ContentToken and UndeterminableToken are treated alike everywhere.
TextTokens == {"content", "reasoning", "toolToken"}
\* A tool call's results are "parsed", or "toolFailure" for one of three failures.
\* None of them is is_done: generation goes on and ends with a message of its own.
\* What ends a stream: Done, an error token, an error of the balancer's own.
Terminals == {"done", "errorToken", "timeout", "tooManyBuffered", "error"}

\* OpenAIError::classify: the messages that are reported as errors.
Classify(message) == message.type \in (Terminals \ {"done"}) \cup {"toolFailure"}

(***************************************************************************)
(* Chat completions, streaming.                                            *)
(***************************************************************************)
OpenAIStreamingState == [saw_tool_call |-> FALSE, out |-> <<>>]

Chunk(type, payload) == [type |-> type, payload |-> payload]
ContentChunk(text) == Chunk("content", text)
ToolCallsChunk(calls) == Chunk("toolCalls", calls)
FinishChunk(reason) == Chunk("finish", reason)
UsageChunk == Chunk("usage", "")

\* try_universal_error_chunk: the error envelope, in every format.
ErrorChunk(message) == Chunk("error", message.type)

HandleToolCallParsed(st, message) ==
    IF message.calls = <<>> THEN [st EXCEPT !.out = <<>>]
    ELSE [saw_tool_call |-> TRUE, out |-> <<ToolCallsChunk(message.calls)>>]

HandleChatDone(st, include_usage) ==
    [st EXCEPT !.out =
        <<FinishChunk(IF st.saw_tool_call THEN "tool_calls" ELSE "stop")>>
            \o IF include_usage THEN <<UsageChunk>> ELSE <<>>]

TransformChatStreaming(st, message, include_usage) ==
    CASE Classify(message)                        -> [st EXCEPT !.out = <<ErrorChunk(message)>>]
      [] message.type = "content"                 -> [st EXCEPT !.out = <<ContentChunk(message.id)>>]
      [] message.type \in {"reasoning", "toolToken"} -> [st EXCEPT !.out = <<>>]
      [] message.type = "parsed"                  -> HandleToolCallParsed(st, message)
      [] message.type = "done"                    -> HandleChatDone(st, include_usage)

(***************************************************************************)
(* Chat completions and responses, collected into one body.                *)
(***************************************************************************)
\* Both collecting transformers gather the text and the calls; reasoning is gathered
\* for a response only.
NonStreamingState == [content |-> <<>>, reasoning |-> <<>>, tool_calls |-> <<>>, out |-> <<>>]

AppendToolCalls(st, calls) == [st EXCEPT !.tool_calls = @ \o calls, !.out = <<>>]

BuildChatDone(st) ==
    [content |-> st.content, tool_calls |-> st.tool_calls,
     finish_reason |-> IF st.tool_calls # <<>> THEN "tool_calls" ELSE "stop"]

TransformChatNonStreaming(st, message) ==
    CASE Classify(message)            -> [st EXCEPT !.out = <<ErrorChunk(message)>>]
      [] message.type = "content"     -> [st EXCEPT !.content = Append(@, message.id), !.out = <<>>]
      [] message.type \in {"reasoning", "toolToken"} -> [st EXCEPT !.out = <<>>]
      [] message.type = "parsed"      -> AppendToolCalls(st, message.calls)
      [] message.type = "done"        -> [st EXCEPT !.out = <<Chunk("body", BuildChatDone(st))>>]

\* An output item; its id in the code is the kind with the index.
Item(kind, index, text) == [kind |-> kind, index |-> index, text |-> text]

\* Reasoning, then the message unless there are only tool calls, then the calls.
BuildCompleted(st) ==
    LET reasoning == IF st.reasoning = <<>> THEN <<>>
                     ELSE <<Item("reasoning", 0, st.reasoning)>>
        message == IF st.content = <<>> /\ st.tool_calls # <<>> THEN <<>>
                   ELSE <<Item("message", Len(reasoning), st.content)>>
        first == Len(reasoning) + Len(message)
    IN  reasoning \o message
            \o [i \in DOMAIN st.tool_calls |-> Item("call", first + i - 1, st.tool_calls[i])]

TransformResponsesNonStreaming(st, message) ==
    CASE Classify(message)           -> [st EXCEPT !.out = <<ErrorChunk(message)>>]
      [] message.type = "content"    -> [st EXCEPT !.content = Append(@, message.id), !.out = <<>>]
      [] message.type = "reasoning"  -> [st EXCEPT !.reasoning = Append(@, message.id), !.out = <<>>]
      [] message.type = "toolToken"  -> [st EXCEPT !.out = <<>>]
      [] message.type = "parsed"     -> AppendToolCalls(st, message.calls)
      [] message.type = "done"       -> [st EXCEPT !.out = <<Chunk("body", BuildCompleted(st))>>]

(***************************************************************************)
(* Responses, streaming: numbered events over items that open and close.   *)
(***************************************************************************)
ResponsesStreamingState ==
    [started |-> FALSE, sequence_number |-> 0, output_index |-> 0, open |-> "none",
     reasoning_text |-> <<>>, message_text |-> <<>>, finalized_output |-> <<>>, out |-> <<>>]

\* One event with the next sequence number.
Push(st, type, index, payload) ==
    [st EXCEPT !.sequence_number = @ + 1,
               !.out = Append(@, [type |-> type, sequence_number |-> st.sequence_number,
                                  output_index |-> index, payload |-> payload])]

\* The item is done: it is listed, and the next one gets the next index.
Finalize(st, item) ==
    [Push(st, "item_done", st.output_index, item)
        EXCEPT !.finalized_output = Append(@, item), !.output_index = @ + 1, !.open = "none"]

CloseOpenItem(st) ==
    CASE st.open = "none" -> st
      [] st.open = "reasoning" ->
            [Finalize(Push(st, "reasoning_done", st.output_index, st.reasoning_text),
                      Item("reasoning", st.output_index, st.reasoning_text))
                EXCEPT !.reasoning_text = <<>>]
      [] st.open = "message" ->
            [Finalize(Push(Push(st, "text_done", st.output_index, st.message_text),
                           "part_done", st.output_index, st.message_text),
                      Item("message", st.output_index, st.message_text))
                EXCEPT !.message_text = <<>>]

HandleReasoning(st, text) ==
    LET closed == CloseOpenItem(st)
        opened == IF st.open = "reasoning" THEN st
                  ELSE [Push(closed, "item_added", closed.output_index, "reasoning")
                            EXCEPT !.open = "reasoning"]
    IN  Push([opened EXCEPT !.reasoning_text = Append(@, text)],
             "reasoning_delta", opened.output_index, text)

\* Faulty variant: the message opens while the reasoning item is still open.
HandleContentUnclosed(st, text) ==
    LET opened == IF st.open = "message" THEN st
                  ELSE [Push(Push(st, "item_added", st.output_index, "message"),
                             "part_added", st.output_index, <<>>) EXCEPT !.open = "message"]
    IN  Push([opened EXCEPT !.message_text = Append(@, text)],
             "text_delta", opened.output_index, text)

HandleContent(st, text) ==
    LET closed == CloseOpenItem(st)
        opened == IF st.open = "message" THEN st
                  ELSE [Push(Push(closed, "item_added", closed.output_index, "message"),
                             "part_added", closed.output_index, <<>>) EXCEPT !.open = "message"]
    IN  Push([opened EXCEPT !.message_text = Append(@, text)],
             "text_delta", opened.output_index, text)

HandleToolCall(st, call) ==
    LET index == st.output_index
    IN  Finalize(Push(Push(Push(st, "item_added", index, "call"),
                           "arguments_delta", index, call),
                      "arguments_done", index, call),
                 Item("call", index, call))

HandleToolCalls(st, calls) == FoldLeft(HandleToolCall, CloseOpenItem(st), calls)

EnsurePreamble(st) ==
    IF st.started THEN st
    ELSE Push(Push([st EXCEPT !.started = TRUE], "created", 0, <<>>), "in_progress", 0, <<>>)

HandleDone(st) ==
    LET closed == CloseOpenItem(st)
    IN  Push(closed, "completed", 0, closed.finalized_output)

TransformResponsesStreaming(st, message) ==
    LET begun == EnsurePreamble([st EXCEPT !.out = <<>>])
    IN  CASE Classify(message)          -> Push(begun, "failed", 0, message.type)
          [] message.type = "content"   -> HandleContent(begun, message.id)
          [] message.type = "reasoning" -> HandleReasoning(begun, message.id)
          [] message.type = "toolToken" -> [st EXCEPT !.out = <<>>]
          [] message.type = "parsed"    -> HandleToolCalls(begun, message.calls)
          [] message.type = "done"      -> HandleDone(begun)
=============================================================================
