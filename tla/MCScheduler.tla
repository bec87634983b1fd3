---------------------------- MODULE MCScheduler -----------------------------
(***************************************************************************)
(* The generation of tokens in an agent: the scheduler that shares the     *)
(* model between requests, what becomes of a conversation and its tokens,  *)
(* and the meter of their throughput.  A behaviour exercises one of them   *)
(* and the others stay at rest.                                            *)
(***************************************************************************)
EXTENDS Scheduler, Generation, Throughput

VARIABLE part

\* A text alone; a remote image; images to pass through, to convert, to resize and
\* to rasterize, in one message and in several; broken and unsupported ones.
Text == [type |-> "text", image |-> Nothing]
Image(uri, format, width, height, intact) ==
    [type |-> "image_url",
     image |-> [uri |-> uri, format |-> format, width |-> width, height |-> height,
                intact |-> intact]]
Histories ==
    {<<<<Text>>>>,
     <<<<Text, Image("remote", "Png", 2, 2, TRUE)>>>>,
     <<<<Image("data", "Png", 2, 2, TRUE), Text>>, <<Text>>, <<Image("data", "Webp", 1, 4, TRUE)>>>>,
     <<<<Image("data", "Svg", 9, 4, TRUE), Image("data", "Webp", 1, 1, TRUE)>>>>,
     <<<<Image("data", "Svg", 3, 1, TRUE)>>>>,
     <<<<Image("data", "Jpeg", 2, 5, FALSE)>>>>,
     <<<<Image("data", "Unsupported", 1, 1, TRUE)>>>>}

\* Shown pieces of every section and markers of two.
Pieces ==
    {[section |-> "Content", visible |-> TRUE], [section |-> "Reasoning", visible |-> TRUE],
     [section |-> "ToolCall", visible |-> TRUE], [section |-> "ToolCall", visible |-> FALSE],
     [section |-> "Undeterminable", visible |-> FALSE]}
Calls ==
    {[tool |-> "unknown", arguments |-> "fit"], [tool |-> "anything", arguments |-> "not_json"],
     [tool |-> "schema", arguments |-> "fit"], [tool |-> "schema", arguments |-> "misfit"]}

AgentInit ==
    /\ part \in {"scheduler", "generation", "throughput"}
    /\ SchedulerInit /\ (part # "scheduler" => Len(available_ids) = 1)
    /\ GenerationInit /\ ThroughputInit

AgentNext ==
    /\ UNCHANGED part
    /\ \/ /\ part = "scheduler" /\ SchedulerNext
          /\ UNCHANGED <<generationVars, throughputVars>>
       \/ /\ part = "generation" /\ GenerationNext
          /\ UNCHANGED <<schedulerVars, throughputVars>>
       \/ /\ part = "throughput" /\ ThroughputNext
          /\ UNCHANGED <<schedulerVars, generationVars>>

\* The scheduler's thread keeps looping.
AgentSpec ==
    /\ AgentInit /\ [][AgentNext]_<<part, schedulerVars, generationVars, throughputVars>>
    /\ WF_schedulerVars(part = "scheduler" /\ SchedulerStep)
-----------------------------------------------------------------------------
\* Every variable of the scheduler and of the meter has its type.
AgentTypeOK == SchedulerTypeOK /\ ThroughputTypeOK

\* A conversation is refused for a reason that is told, or answered: the model sees
\* its images, the client sees every piece and every tool call, in order, and the
\* end (prepare_conversation_history_request, AdvanceGeneratingPhase).
ConversationIsHandled ==
    part = "generation" =>
        GenerationTypeOK /\ ImagesFitThePrompt /\ ToolCallsAreTold /\ EndIsTold

\* Whatever is said of a generation is so: its answer is whole, and the throughput
\* of an idle agent goes away (ContinuousBatchTerminalDelivery,
\* TokenThroughputMeter).
AnswersAreWhole == AnswerIsWhole /\ StaleIsZero
=============================================================================
