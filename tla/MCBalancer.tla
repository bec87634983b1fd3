----------------------------- MODULE MCBalancer -----------------------------
(***************************************************************************)
(* Four parts of the balancer that meet at none of the variables modelled  *)
(* here: the streams of the HTTP endpoints, the connection of an agent     *)
(* with its status reports, the turns of an OpenAI conversation, and the   *)
(* schemas that the answers of the OpenAI service are validated with.  A   *)
(* behaviour exercises one of them and the others stay at rest.            *)
(***************************************************************************)
EXTENDS HttpStreams, AgentConnection, OpenAIRequests, StrictSchema

VARIABLE part

\* Embedding requests for one agent or two, with documents that share a batch,
\* fill one, or do not fit; and the requests that are turned away.
Lengths == {<<>>, <<3>>, <<1, 2>>, <<1, 1, 1>>, <<3, 2, 1>>}

MCEmbeddingRequests ==
    {[documents |-> Len(lengths), tokens |-> lengths, agents |-> known, cap |-> cap, slots |-> 2] :
        lengths \in Lengths, known \in 0 .. 2, cap \in 0 .. 2}

\* The items a client adds in a turn: a text, messages of several roles and parts,
\* the result of a call, and what the service does not know.
PartOf(type) == [type |-> type, id |-> 0]
ItemOf(type, role, types) == [type |-> type, role |-> role, content |-> [i \in DOMAIN types |-> PartOf(types[i])]]

MCAdditions ==
    {<<ItemOf("text", "none", <<"plain">>)>>,
     <<ItemOf("message", "developer", <<"plain">>), ItemOf("untyped", "user", <<"input_text">>)>>,
     <<ItemOf("message", "user", <<"input_text", "input_image", "input_image_without_url", "input_text">>)>>,
     <<ItemOf("message", "user", <<"input_file">>), ItemOf("item_reference", "none", <<>>)>>,
     <<ItemOf("function_call_output", "none", <<"plain">>)>>,
     <<ItemOf("function_call_output", "none", <<"input_image", "input_text">>),
       ItemOf("untyped", "user", <<"plain">>)>>}

ParametersOf(type, properties, required) ==
    [given |-> TRUE, schema_type |-> type, has_properties |-> TRUE, properties |-> properties,
     has_required |-> TRUE, required |-> required]

ToolOf(type, parameters) == [type |-> type, parameters |-> parameters]

SettingOf(tools, effort, format, max_tokens) ==
    [tools |-> tools, effort |-> effort, format |-> format, max_tokens |-> max_tokens]

MCSettings ==
    LET search == ToolOf("web_search", ParametersOf("none", {}, {}))
        weather == ToolOf("function", ParametersOf("none", {"city"}, {"city"}))
        invalid == ToolOf("function", ParametersOf("object", {"city"}, {"country"}))
    IN  {SettingOf(<<>>, "none", "json_schema", 0),
         SettingOf(<<search>>, "unset", "text", Unset),
         SettingOf(<<search, weather>>, "low", "text", 1),
         SettingOf(<<weather, invalid>>, "unset", "text", Unset)}

MCAnswers ==
    {[content |-> content, reasoning |-> reasoning, tool_calls |-> calls, out |-> <<>>] :
        content \in {<<>>, <<1>>}, reasoning \in {<<>>, <<2>>}, calls \in {<<>>, <<3, 4>>}}

\* Three components that refer to each other in every way, and one of them perhaps
\* to a component there is not; a document without the root; a root with a strict
\* property, then another root.
ComponentOf(refs, nullable, inner) ==
    [refs |-> refs, nullable |-> nullable, required |-> <<"id", "text", "id">>, inner |-> inner]

MCDocuments ==
    {[name \in {"A", "B", "C"} |->
        CASE name = "A" -> ComponentOf(ofA, FALSE, {})
          [] name = "B" -> ComponentOf(ofB, nullable, inner)
          [] name = "C" -> ComponentOf(ofC, FALSE, {})] :
        ofA \in SUBSET {"A", "B", "C"}, ofB \in SUBSET {"A", "B", "C"},
        ofC \in {{}, {"A"}, {"B", "C"}, {"B", "X"}}, nullable \in BOOLEAN, inner \in {{}, {"details"}}}
    \cup {[name \in {"B"} |-> ComponentOf({}, FALSE, {"details"})]}

MCRoots ==
    <<[root |-> "A", strict |-> <<[component |-> "A", property |-> ""],
                                  [component |-> "B", property |-> "details"]>>],
      [root |-> "C", strict |-> <<>>]>>

BalancerInit ==
    /\ part \in {"streams", "connection", "conversation", "validator"}
    /\ HttpStreamsInit /\ AgentConnectionInit /\ OpenAIRequestsInit /\ StrictSchemaInit

restVars == <<openAIRequestsVars, strictSchemaVars>>

BalancerNext ==
    /\ UNCHANGED part
    /\ \/ part = "streams" /\ HttpStreamsNext /\ UNCHANGED <<agentConnectionVars, restVars>>
       \/ part = "connection" /\ AgentConnectionNext /\ UNCHANGED <<httpStreamsVars, restVars>>
       \/ /\ part = "conversation" /\ OpenAIRequestsNext
          /\ UNCHANGED <<httpStreamsVars, agentConnectionVars, strictSchemaVars>>
       \/ /\ part = "validator" /\ StrictSchemaNext
          /\ UNCHANGED <<httpStreamsVars, agentConnectionVars, openAIRequestsVars>>

\* Every task is polled (see Fairness in their modules); a part at rest is not
\* asked to go on.
BalancerSpec ==
    /\ BalancerInit
    /\ [][BalancerNext]_<<part, httpStreamsVars, agentConnectionVars, restVars>>
    /\ HttpStreamsFairness
    /\ WF_agentConnectionVars(part = "connection" /\ IncrementVersion)
    /\ WF_agentConnectionVars(part = "connection" /\ Connect)
    /\ SF_agentConnectionVars(part = "connection" /\ BeginStatusUpdate)
    /\ WF_agentConnectionVars(part = "connection" /\ AgentStep)
    /\ \A c \in Connection : WF_agentConnectionVars(part = "connection" /\ SessionStep(c))
    /\ \A q \in Query : WF_agentConnectionVars(part = "connection" /\ QueryStep(q))
    /\ WF_agentConnectionVars(part = "connection" /\ SnapshotsStream)
-----------------------------------------------------------------------------
\* Every variable of the streams and of the connection has its type.
BalancerTypeOK == HttpStreamsTypeOK /\ AgentConnectionTypeOK

\* What the OpenAI service answers is whole in each of its formats, and a conversation
\* is the same in every turn (the transformers, into_prepared).
OpenAIIsCompatible ==
    /\ part = "streams" => ResponseIsWhole
    /\ part = "conversation" => TurnsAreKept

\* Documents are divided without loss, and every one of them is answered
\* (chunk_evenly_with_cap, plan_embedding_batches, the end of the parts).
EmbeddingsAreWhole == part = "streams" => EmbeddingsAnswered /\ DocumentsDivided

\* A management client is not left in the dark: if it watches the pool it comes to see
\* an agent as it is, or that it is gone, and what it asks an agent is answered in
\* some way (UpdateAgentStatus, DeregisterAgent, the snapshots stream, the 504).
AgentIsSeen == StatusIsSeen /\ GoneIsSeen /\ QueryEnds
=============================================================================
