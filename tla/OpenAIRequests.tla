--------------------------- MODULE OpenAIRequests ---------------------------
(***************************************************************************)
(* What the OpenAI compatible service makes of a request before it is      *)
(* forwarded, over the turns of a conversation: the service keeps nothing, *)
(* so its client sends back the items of earlier answers with every turn,  *)
(* and the parts and items that the service does not know are skipped.     *)
(*                                                                         *)
(* A part is [type, id]: its text or its image is its id.  A string where  *)
(* a list of parts may stand is one part of type "plain".                  *)
(***************************************************************************)
EXTENDS OpenAITransformers

CONSTANTS
    Additions,    \* what a client may add to its items in a turn
    Settings,     \* the other parameters of a request
    Answers,      \* what may have been collected when an answer is built
    MaxTurns      \* bound: the turns of a conversation

VARIABLES
    instructions, \* whether the client sends instructions
    items,        \* the items of the client
    forwarded,    \* the request of this turn, as it is forwarded
    before,       \* history: the messages of the turn before
    turn,         \* the number of the turn
    talks         \* who is to speak: "client", "agent", or "refused"

openAIRequestsVars == <<instructions, items, forwarded, before, turn, talks>>

(***************************************************************************)
(* Messages.                                                               *)
(***************************************************************************)
\* normalize_role
NormalizeRole(role) == IF role = "developer" THEN "system" ELSE role

\* into_conversation_part: the parts that are known; an image needs its URL.
IntoConversationPart(part) == part.type \in {"input_text", "input_image"}

\* into_conversation_content: a text, or the parts that are known.
IntoConversationContent(content) ==
    SelectSeq(content, LAMBDA part : part.type = "plain" \/ IntoConversationPart(part))

\* OpenAIResponsesFunctionOutput::into_text
IntoText(content) == SelectSeq(content, LAMBDA part : part.type \in {"plain", "input_text"})

ConversationMessage(role, content) == [role |-> role, content |-> content]

\* OpenAIResponsesMessageItem::into_conversation_message
MessageIntoConversationMessage(item) ==
    ConversationMessage(NormalizeRole(item.role), IntoConversationContent(item.content))

\* OpenAIResponsesInputItem::into_conversation_message: a message may do without a
\* type; an item of another type is skipped.
IntoConversationMessage(item) ==
    CASE item.type \in {"message", "untyped"} -> <<MessageIntoConversationMessage(item)>>
      [] item.type = "function_call" -> <<ConversationMessage("assistant", item.content)>>
      [] item.type = "function_call_output" -> <<ConversationMessage("tool", IntoText(item.content))>>
      [] OTHER -> <<>>

\* OpenAIResponsesInput: a text alone is a message of the user.
InputMessages(input) ==
    FlattenSeq([i \in DOMAIN input |->
        IF input[i].type = "text" THEN <<ConversationMessage("user", input[i].content)>>
        ELSE IntoConversationMessage(input[i])])

SystemMessage == ConversationMessage("system", <<[type |-> "plain", id |-> 0]>>)

(***************************************************************************)
(* Tools and the other parameters.                                         *)
(***************************************************************************)
\* into_raw_parameters_schema: a schema without a type is one of an object.
IntoRawParametersSchema(parameters) ==
    [parameters EXCEPT !.schema_type = IF @ = "none" THEN "object" ELSE @]

\* into_tool
IntoTool(tool) == [tool EXCEPT !.parameters = IntoRawParametersSchema(@)]

\* RawParametersSchema::validate
SchemaValidates(schema) ==
    schema.has_required /\ schema.has_properties => schema.required \subseteq schema.properties

\* Parameters::validate
ParametersValidate(parameters) == parameters.given => SchemaValidates(parameters)

\* The functions among the tools.
FunctionTools(tools) ==
    LET functions == SelectSeq(tools, LAMBDA tool : tool.type = "function")
    IN  [i \in DOMAIN functions |-> IntoTool(functions[i])]

\* into_grammar_constraint
IntoGrammarConstraint(format) == IF format = "json_schema" THEN "json_schema" ELSE "none"

\* enables_thinking; a request that says nothing of reasoning thinks.
EnablesThinking(effort) == effort # "none"

DEFAULT_MAX_TOKENS == 2000

\* max_output_tokens of a request that does not name it.
Unset == -1

\* into_prepared
IntoPrepared(input, told, setting) ==
    LET tools == FunctionTools(setting.tools)
    IN  [valid |-> \A i \in DOMAIN tools : ParametersValidate(tools[i].parameters),
         messages |-> (IF told THEN <<SystemMessage>> ELSE <<>>) \o InputMessages(input),
         enable_thinking |-> EnablesThinking(setting.effort),
         grammar |-> IntoGrammarConstraint(setting.format),
         max_tokens |-> IF setting.max_tokens = Unset THEN DEFAULT_MAX_TOKENS ELSE setting.max_tokens,
         parse_tool_calls |-> tools # <<>>,
         tools |-> tools]

NotForwarded == IntoPrepared(<<>>, FALSE, [tools |-> <<>>, effort |-> "unset", format |-> "none",
                                           max_tokens |-> Unset])

(***************************************************************************)
(* The turns.                                                              *)
(***************************************************************************)
OpenAIRequestsInit ==
    /\ instructions = FALSE /\ items = <<>> /\ forwarded = NotForwarded /\ before = <<>>
    /\ turn = 0 /\ talks = "client"

\* What is new gets ids of its own.
Numbered(added) ==
    [i \in DOMAIN added |->
        [added[i] EXCEPT !.content = [p \in DOMAIN @ |-> [@[p] EXCEPT !.id = 100 * turn + 10 * i + p]]]]

\* A text alone can only be the whole input: it is a message in later turns.
KeptByClient(item) ==
    IF item.type = "text" THEN [item EXCEPT !.type = "untyped", !.role = "user"] ELSE item

\* The client keeps its instructions over the turns, and has a result only for what
\* it was asked to call.
PostTurn(added, told, setting) ==
    LET input == items \o Numbered(added)
        prepared == IntoPrepared(input, told, setting)
    IN  /\ talks = "client" /\ turn < MaxTurns
        /\ turn > 0 => told = instructions
        /\ (\E i \in DOMAIN added : added[i].type = "function_call_output")
             => \E i \in DOMAIN items : items[i].type = "function_call"
        /\ added[1].type = "text" => items = <<>>
        /\ instructions' = told
        /\ items' = [i \in DOMAIN input |-> KeptByClient(input[i])]
        /\ forwarded' = prepared
        /\ talks' = IF prepared.valid THEN "agent" ELSE "refused"
        /\ UNCHANGED <<before, turn>>

AnswerOf(type, role, part) == [type |-> type, role |-> role, content |-> <<[type |-> part, id |-> 0]>>]

MessageItemDone == AnswerOf("message", "assistant", "output_text")

FunctionCallItem == AnswerOf("function_call", "none", "call")

ReasoningItemDone == AnswerOf("reasoning", "none", "reasoning_text")

\* An item of the answer as the client holds it, and sends it back.
AnswerItem(item) ==
    CASE item.kind = "message"   -> MessageItemDone
      [] item.kind = "call"      -> FunctionCallItem
      [] item.kind = "reasoning" -> ReasoningItemDone

AgentAnswersTurn(collected) ==
    LET output == BuildCompleted(collected)
    IN  /\ talks = "agent"
        /\ items' = items \o Numbered([i \in DOMAIN output |-> AnswerItem(output[i])])
        /\ before' = forwarded.messages
        /\ turn' = turn + 1
        /\ talks' = "client"
        /\ UNCHANGED <<instructions, forwarded>>

OpenAIRequestsNext ==
    \/ \E added \in Additions, told \in BOOLEAN, setting \in Settings : PostTurn(added, told, setting)
    \/ \E collected \in Answers : AgentAnswersTurn(collected)
-----------------------------------------------------------------------------
\* The ids of parts and messages, in order.
IdsOf(sequences) == [i \in DOMAIN FlattenSeq(sequences) |-> FlattenSeq(sequences)[i].id]

\* What a client and an agent said in earlier turns is said to the agent in the same
\* way in the later ones; every text, every image that has a URL and every tool call
\* is in the conversation once and in order, and nothing else is but instructions;
\* a tool's result comes after the call; and an agent is asked to parse tool calls
\* exactly if it is given functions, each with parameters of a type
\* (into_prepared, into_conversation_message, into_raw_parameters_schema).  What the
\* agent wrote itself is not among the texts: an output_text is skipped.
TurnsAreKept ==
    talks = "agent" =>
        LET messages == forwarded.messages
            kept(item) == SelectSeq(item.content, LAMBDA part :
                             part.type \notin {"output_text", "input_image_without_url", "reasoning_text",
                                               "input_file"}
                               /\ ~(item.type = "function_call_output" /\ part.type = "input_image"))
        IN  /\ IsPrefix(before, messages)
            /\ IdsOf([i \in DOMAIN messages |-> messages[i].content])
                 = (IF instructions THEN <<0>> ELSE <<>>) \o IdsOf([i \in DOMAIN items |-> kept(items[i])])
            /\ \A i \in DOMAIN messages : messages[i].role \in {"system", "user", "assistant", "tool"}
            /\ \A i \in DOMAIN messages : messages[i].role = "tool" =>
                  \E j \in 1 .. i - 1 : messages[j].content # <<>> /\ messages[j].content[1].type = "call"
            /\ forwarded.parse_tool_calls = (forwarded.tools # <<>>)
            /\ \A i \in DOMAIN forwarded.tools : forwarded.tools[i].parameters.schema_type # "none"
=============================================================================
