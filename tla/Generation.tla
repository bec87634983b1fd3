----------------------------- MODULE Generation -----------------------------
(***************************************************************************)
(* What an agent makes of one conversation: the request is prepared (its   *)
(* grammar, its images, its prompt and its tools), and then every sampled  *)
(* token goes through the classifier, is sent to the client, and, inside a *)
(* tool call, is also kept until the call is whole and can be parsed.      *)
(*                                                                         *)
(* llama.cpp, its classifier and its parser of tool calls are external: a  *)
(* sampled token has zero or more outcomes (the classifier holds pieces    *)
(* back), each with a section and a piece that is shown or is a marker.    *)
(* Batches and sequences are the business of Scheduler.                    *)
(***************************************************************************)
EXTENDS Integers, Sequences, SequencesExt

CONSTANTS
    Conversations,    \* the histories of the requests
    ResizeToFit,      \* the values of image_resize_to_fit
    Piece,            \* what the classifier makes of tokens: records [section, visible]
    ToolCalls,        \* the calls of the models: records [tool, arguments]
    MaxHeld,          \* bound: outcomes of one token
    MaxPieces,        \* bound: outcomes of one request
    CompletionLimit,  \* max_tokens
    Nothing           \* no request

ASSUME GenerationAssumption ==
    /\ ResizeToFit \subseteq Nat
    /\ \A piece \in Piece : piece.section \in STRING /\ piece.visible \in BOOLEAN
    /\ MaxHeld \in Nat /\ MaxPieces \in Nat /\ CompletionLimit \in Nat

VARIABLES
    asked,       \* the request, until it is accepted
    prompt,      \* PreparedConversationHistoryRequest: its images and its texts
    stage,       \* "idle", "asked", "prepared", "generating", "over"
    parses,      \* the request has a tool_call_pipeline
    section,     \* current_section() of the classifier
    counted,     \* the usage of the classifier that counts as completion
    tool_calls,  \* ToolCallBuffer: the numbers of the pieces in it
    pieces,      \* history: the outcomes so far, without those of the harvest
    told,        \* the messages sent to the client
    reader,      \* the client still receives
    ending,      \* history: how the request ended
    skipped      \* history: a token was harvested

generationVars == <<asked, prompt, stage, parses, section, counted, tool_calls, pieces, told,
                    reader, ending, skipped>>

NoPrompt == [images |-> <<>>, texts |-> <<>>]

(***************************************************************************)
(* Images.  Sizes of an SVG are counted in halves of a pixel.              *)
(***************************************************************************)
PassThrough == {"Png", "Jpeg", "Gif", "Bmp"}
Larger(a, b) == IF a > b THEN a ELSE b
Failed == [ok |-> FALSE, format |-> "none", width |-> 0, height |-> 0]
Pixels(format, width, height) == [ok |-> TRUE, format |-> format, width |-> width, height |-> height]

\* compute_target_dimension: the scaled size, rounded up.  A size that is scaled to
\* a whole number may come out just above it in f64.
TargetDimension(size, larger, max) ==
    LET up(a, b) == (a + b - 1) \div b
        t == up(size * max, larger)
    IN  IF larger <= 2 * max THEN {up(size, 2)}
        ELSE IF (size * max) % larger = 0 THEN {t, t + 1} ELSE {t}

\* rasterize_svg_to_dynamic_image
RasterizeSvg(image, max) ==
    LET larger == Larger(image.width, image.height)
    IN  {Pixels("Svg", w, h) : w \in TargetDimension(image.width, larger, max),
                               h \in TargetDimension(image.height, larger, max)}

\* load_supported_image: how an image may come out of it.
LoadSupportedImage(image, max) ==
    IF ~image.intact \/ image.format = "Unsupported" THEN {Failed}
    ELSE IF image.format = "Svg" THEN RasterizeSvg(image, max)
    ELSE {Pixels(image.format, image.width, image.height)}

\* External: DynamicImage::resize keeps the proportions.
Resize(image, max) ==
    LET larger == Larger(image.width, image.height)
        scaled(size) == Larger(1, (2 * size * max + larger) \div (2 * larger))
    IN  [image EXCEPT !.width = scaled(image.width), !.height = scaled(image.height)]

\* encode_png and encode_jpeg; an encoder may refuse.
Encoded(image, format) == {Failed, [image EXCEPT !.format = format]}

\* The end of prepared_for_inference.
PrepareLoaded(image, max) ==
    IF ~image.ok THEN {Failed}
    ELSE IF image.width > max \/ image.height > max THEN Encoded(Resize(image, max), "Jpeg")
    ELSE IF image.format \in PassThrough THEN {image}
    ELSE Encoded(image, "Png")

\* from_data_uri and prepared_for_inference.
PreparedForInference(image, max) ==
    IF image.uri # "data" \/ max = 0 THEN {Failed}
    ELSE UNION {PrepareLoaded(loaded, max) : loaded \in LoadSupportedImage(image, max)}

(***************************************************************************)
(* The conversation.  A message is a sequence of parts; a text is one part. *)
(***************************************************************************)
\* ConversationHistory::extract_image_urls
ExtractImageUrls(messages) ==
    SelectSeq(FlattenSeq(messages), LAMBDA part : part.type = "image_url")

\* replace_images_with_marker, message by message.
ReplaceImagesWithMarker(messages) ==
    [m \in DOMAIN messages |->
        [p \in DOMAIN messages[m] |->
            IF messages[m][p].type = "text" THEN "text" ELSE "marker"]]

\* A grammar may fail to become one (malformed), or to be loaded (unloadable).
ConversationRequest ==
    [grammar : {"none", "gbnf", "malformed", "unloadable"}, enable_thinking : BOOLEAN,
     messages : Conversations, template : {"none", "renders", "raises"}, multimodal : BOOLEAN,
     tools : {"none", "valid", "invalid"}, parse_tool_calls : BOOLEAN,
     image_resize_to_fit : ResizeToFit]

Refusal(reason, holds) == IF holds THEN <<reason>> ELSE <<>>

\* resolve_grammar and resolve_grammar_to_gbnf
ResolveGrammar(r) ==
    Refusal("GrammarIncompatibleWithThinking", r.grammar # "none" /\ r.enable_thinking)
      \o Refusal("GrammarSyntaxError", r.grammar = "malformed")

\* require_renderer_for_generation, and a template that raises.
RenderTemplate(r) ==
    Refusal("TokenGenerationDisabled", r.template = "none")
      \o Refusal("ChatTemplateError", r.template = "raises")

\* build_tool_call_pipeline and ToolCallValidator::from_tools
WantsToolCalls(r) == r.parse_tool_calls /\ r.tools # "none"
BuildToolCallPipeline(r) == Refusal("ToolSchemaInvalid", WantsToolCalls(r) /\ r.tools = "invalid")

\* create_grammar_llama_sampler
CreateGrammarSampler(r) == Refusal("GrammarInitializationFailed", r.grammar = "unloadable")

\* What may fail outside of the request: llama.cpp, serde_json, the pool of sequences.
PrepareFaults == {"none", "marker"}
AcceptFaults ==
    {"none", "serialization", "busy", "bitmap", "tokenizer", "classifier", "oversized", "eval"}

\* The reasons to refuse a request while it is prepared, in the order they are looked
\* for.  An internal error leaves through `?` and is only logged.
PrepareRefusals(r, images, fault) ==
    ResolveGrammar(r)
      \o Refusal("ImageDecodingFailed", \E i \in DOMAIN images : ~images[i].ok)
      \o Refusal("Internal", fault = "marker")
      \o RenderTemplate(r)
      \o Refusal("MultimodalNotSupported", images # <<>> /\ ~r.multimodal)

\* accept_text_prompt, from the sequence on.
TextRefusals(r, fault) ==
    Refusal("SamplerError", fault = "tokenizer")
      \o CreateGrammarSampler(r)
      \o Refusal("Internal", fault = "classifier")

\* accept_multimodal_request, from the sequence on.
MultimodalRefusals(r, fault) ==
    Refusal("ImageDecodingFailed", fault = "bitmap")
      \o Refusal("SamplerError", fault = "tokenizer")
      \o Refusal("Internal", fault = "classifier")
      \o Refusal("ImageExceedsBatchSize", fault = "oversized")
      \o Refusal("SamplerError", fault = "eval")
      \o CreateGrammarSampler(r)

AcceptRefusals(r, images, fault) ==
    Refusal("Internal", WantsToolCalls(r) /\ fault = "serialization")
      \o BuildToolCallPipeline(r)
      \o Refusal("SamplerError", fault = "busy")
      \o (IF images = <<>> THEN TextRefusals(r, fault) ELSE MultimodalRefusals(r, fault))

Note(kind) == [kind |-> kind, pieces |-> <<>>, calls |-> <<>>]

GenerationInit ==
    /\ asked = Nothing /\ prompt = NoPrompt /\ stage = "idle" /\ parses = FALSE
    /\ section = "Pending" /\ counted = 0 /\ tool_calls = <<>> /\ pieces = <<>> /\ told = <<>>
    /\ reader = TRUE /\ ending = "none" /\ skipped = FALSE

AskAgent(r) ==
    /\ stage = "idle"
    /\ stage' = "asked" /\ asked' = r
    /\ UNCHANGED <<prompt, parses, section, counted, tool_calls, pieces, told, reader, ending, skipped>>

\* The first refusal ends the request; an internal error tells the client nothing.
RefuseRequest(refusals) ==
    LET internal == Head(refusals) = "Internal"
    IN  /\ stage' = "over"
        /\ told' = IF reader /\ ~internal THEN <<Note(Head(refusals))>> ELSE <<>>
        /\ ending' = IF internal THEN "internal" ELSE "refused"

\* How the images of a conversation may come out of prepared_for_inference.
PreparedImages(r) ==
    LET urls == ExtractImageUrls(r.messages)
        prepared(i) == PreparedForInference(urls[i].image, r.image_resize_to_fit)
    IN  {s \in [DOMAIN urls -> UNION {prepared(i) : i \in DOMAIN urls}] :
            \A i \in DOMAIN urls : s[i] \in prepared(i)}

\* prepare_conversation_history_request
PrepareConversationHistoryRequest(fault) ==
    /\ stage = "asked"
    /\ \E images \in PreparedImages(asked) :
          LET refusals == PrepareRefusals(asked, images, fault)
          IN  IF refusals = <<>>
              THEN /\ stage' = "prepared"
                   /\ prompt' = [images |-> images,
                                 texts |-> ReplaceImagesWithMarker(asked.messages)]
                   /\ UNCHANGED <<asked, told, ending>>
              ELSE RefuseRequest(refusals) /\ asked' = Nothing /\ UNCHANGED prompt
    /\ UNCHANGED <<parses, section, counted, tool_calls, pieces, reader, skipped>>

\* accept_text_prompt and accept_multimodal_request, up to the first token.
AcceptPrompt(fault) ==
    /\ stage = "prepared"
    /\ LET refusals == AcceptRefusals(asked, prompt.images, fault)
       IN  IF refusals = <<>>
           THEN /\ stage' = "generating" /\ parses' = WantsToolCalls(asked)
                /\ UNCHANGED <<told, ending>>
           ELSE RefuseRequest(refusals) /\ UNCHANGED parses
    /\ asked' = Nothing /\ prompt' = NoPrompt
    /\ UNCHANGED <<section, counted, tool_calls, pieces, reader, skipped>>

(***************************************************************************)
(* Tool calls.                                                             *)
(***************************************************************************)
\* External: what parse_chat_message finds in the text of a tool call.  The tool
\* of a call has a schema, takes any object, or is none of the request's.
Parsed ==
    [outcome : {"Unrecognized", "Err"}, calls : {<<>>}]
      \cup [outcome : {"Recognized"}, calls : {<<>>} \cup {<<call>> : call \in ToolCalls}]

\* ToolCallValidator::validate; arguments that are no JSON are let through.
CallIsValid(call) ==
    /\ call.tool # "unknown"
    /\ call.tool = "schema" => call.arguments # "misfit"

\* ToolCallPipeline::finalize and into_generated_token_result, for the text of
\* these pieces.
FinalizeToolCall(buffered, parsed) ==
    LET kind == IF buffered = <<>> THEN "ToolCallParsed"
                ELSE IF parsed.outcome = "Err" THEN "ToolCallParseFailed"
                ELSE IF parsed.outcome = "Unrecognized" THEN "UnrecognizedToolCallFormat"
                ELSE IF \A i \in DOMAIN parsed.calls : CallIsValid(parsed.calls[i])
                THEN "ToolCallParsed" ELSE "ToolCallValidationFailed"
    IN  [kind |-> kind, pieces |-> buffered,
         calls |-> IF kind = "ToolCallParsed" /\ buffered # <<>> THEN parsed.calls ELSE <<>>]

Sections == {"Content", "Reasoning", "ToolCall", "Undeterminable"}
Reports == {"ToolCallParsed", "ToolCallParseFailed", "ToolCallValidationFailed",
            "UnrecognizedToolCallFormat"}

(***************************************************************************)
(* The stages of a sampled token.                                          *)
(***************************************************************************)
\* section_of
SectionOf(piece) == IF piece.section = "Undeterminable" THEN "Pending" ELSE piece.section

\* emit_classified: a marker is not sent.
EmitClassified(piece, n) ==
    IF piece.visible
    THEN <<[kind |-> piece.section, pieces |-> <<n>>, calls |-> <<>>]>>
    ELSE <<>>

\* ToolCallPipeline::feed
Feed(buffered, piece, n) ==
    IF parses /\ piece.section = "ToolCall" THEN Append(buffered, n) ELSE buffered

\* Faulty variant: an outcome is compared with the section before the token.
TakeOutcomeOfToken(state, piece, parsed) ==
    LET n == state.n + 1
        fed == Feed(state.buffer, piece, n)
        closes == parses /\ section = "ToolCall" /\ SectionOf(piece) # "ToolCall"
    IN  [n |-> n, section |-> SectionOf(piece),
         buffer |-> IF closes THEN <<>> ELSE fed,
         messages |-> state.messages \o EmitClassified(piece, n)
                        \o (IF closes THEN <<FinalizeToolCall(fed, parsed)>> ELSE <<>>)]

\* One outcome: it is emitted, fed to the pipeline inside a tool call, and the
\* piece behind a tool call closes it (classify_ingest_outcomes, tool_call_pass).
TakeOutcome(state, piece, parsed) ==
    LET n == state.n + 1
        fed == Feed(state.buffer, piece, n)
        closes == parses /\ state.section = "ToolCall" /\ SectionOf(piece) # "ToolCall"
    IN  [n |-> n, section |-> SectionOf(piece),
         buffer |-> IF closes THEN <<>> ELSE fed,
         messages |-> state.messages \o EmitClassified(piece, n)
                        \o (IF closes THEN <<FinalizeToolCall(fed, parsed)>> ELSE <<>>)]

\* completion_token_count: tool calls are not counted.
CompletionTokenCount(outcomes) == Len(SelectSeq(outcomes, LAMBDA piece : piece.section # "ToolCall"))

\* What is in the buffer when a request completes is told before Done.
FlushToolCalls(buffered, parsed) ==
    IF parses /\ buffered # <<>> THEN <<FinalizeToolCall(buffered, parsed)>> ELSE <<>>

\* A message to a client that left is lost, and ends the request.
Deliver(messages) ==
    told' = IF reader THEN told \o messages ELSE told

\* The outcomes of a token that ends the generation are dropped.
AdvanceEndOfGeneration(parsed) ==
    /\ stage = "generating"
    /\ Deliver(FlushToolCalls(tool_calls, parsed) \o <<Note("Done")>>)
    /\ tool_calls' = <<>>
    /\ stage' = "over"
    /\ ending' = IF ~reader /\ FlushToolCalls(tool_calls, parsed) # <<>> THEN "dropped" ELSE "finished"
    /\ UNCHANGED <<asked, prompt, parses, section, counted, pieces, reader, skipped>>

\* advance_one, for any other token.
AdvanceOne(outcomes, parsed) ==
    LET taken == FoldLeft(LAMBDA state, piece : TakeOutcome(state, piece, parsed),
                          [n |-> Len(pieces), section |-> section, buffer |-> tool_calls,
                           messages |-> <<>>], outcomes)
        count == counted + CompletionTokenCount(outcomes)
        full == count >= CompletionLimit
        last == IF full THEN FlushToolCalls(taken.buffer, parsed) ELSE <<>>
        dropped == ~reader /\ taken.messages \o last # <<>>
    IN  /\ stage = "generating"
        /\ Len(pieces \o outcomes) <= MaxPieces
        /\ pieces' = pieces \o outcomes
        /\ section' = taken.section /\ counted' = count
        /\ tool_calls' = IF full THEN <<>> ELSE taken.buffer
        /\ IF dropped
           THEN told' = told /\ stage' = "over" /\ ending' = "dropped"
           ELSE IF full
           THEN /\ Deliver(taken.messages \o last \o <<Note("Done")>>)
                /\ stage' = "over" /\ ending' = "finished"
           ELSE Deliver(taken.messages) /\ UNCHANGED <<stage, ending>>
        /\ UNCHANGED <<asked, prompt, parses, reader, skipped>>

\* SampleTokenPhase or the classifier fails.
AdvanceFails(reason) ==
    /\ stage = "generating"
    /\ Deliver(<<Note(reason)>>)
    /\ stage' = "over" /\ ending' = "failed"
    /\ UNCHANGED <<asked, prompt, parses, section, counted, tool_calls, pieces, reader, skipped>>

\* The harvest moves the classifier on and drops the outcomes; bound: once.
HarvestOne(outcomes) ==
    /\ stage = "generating"
    /\ outcomes # <<>> /\ ~skipped
    /\ section' = SectionOf(Last(outcomes))
    /\ counted' = counted + CompletionTokenCount(outcomes)
    /\ skipped' = TRUE
    /\ UNCHANGED <<asked, prompt, stage, parses, tool_calls, pieces, told, reader, ending>>

\* check_stop_signals: Done, whatever is in the buffer.
StopGeneration ==
    /\ stage = "generating"
    /\ Deliver(<<Note("Done")>>)
    /\ stage' = "over" /\ ending' = "stopped"
    /\ UNCHANGED <<asked, prompt, parses, section, counted, tool_calls, pieces, reader, skipped>>

\* The scheduler shuts down: its requests, and those in its channel, are dropped.
SchedulerShutsDown ==
    /\ stage \in {"asked", "generating"}
    /\ stage' = "over" /\ ending' = "shutdown" /\ asked' = Nothing
    /\ UNCHANGED <<prompt, parses, section, counted, tool_calls, pieces, told, reader, skipped>>

ReaderLeaves ==
    /\ reader /\ stage # "over"
    /\ reader' = FALSE
    /\ UNCHANGED <<asked, prompt, stage, parses, section, counted, tool_calls, pieces, told, ending, skipped>>

Outcomes == UNION {[1 .. n -> Piece] : n \in 0 .. MaxHeld}

GenerationNext ==
    \/ \E r \in ConversationRequest : AskAgent(r)
    \/ \E fault \in PrepareFaults : PrepareConversationHistoryRequest(fault)
    \/ \E fault \in AcceptFaults : AcceptPrompt(fault)
    \/ \E parsed \in Parsed : AdvanceEndOfGeneration(parsed)
    \/ \E outcomes \in Outcomes, parsed \in Parsed : AdvanceOne(outcomes, parsed)
    \/ \E reason \in {"SamplerError", "GrammarRejectedModelOutput", "DetokenizationFailed"} :
          AdvanceFails(reason)
    \/ \E outcomes \in Outcomes : HarvestOne(outcomes)
    \/ StopGeneration
    \/ SchedulerShutsDown
    \/ ReaderLeaves

GenerationSpec == GenerationInit /\ [][GenerationNext]_generationVars

(***************************************************************************)
(* Properties.                                                             *)
(***************************************************************************)
GenerationTypeOK ==
    /\ asked \in ConversationRequest \cup {Nothing}
    /\ stage \in {"idle", "asked", "prepared", "generating", "over"}
    /\ parses \in BOOLEAN /\ reader \in BOOLEAN /\ skipped \in BOOLEAN
    /\ counted \in 0 .. CompletionLimit + 2 * MaxHeld
    /\ section \in {"Pending", "Content", "Reasoning", "ToolCall"}
    /\ pieces \in Seq(Piece) /\ tool_calls \in Seq(1 .. MaxPieces)
    /\ ending \in {"none", "refused", "internal", "finished", "dropped", "failed", "stopped",
                   "shutdown"}

\* What the model gets of an image fits and is of a format llama.cpp reads, and the
\* markers of the prompt are its images, one by one (prepared_for_inference,
\* replace_images_with_marker).
ImagesFitThePrompt ==
    stage = "prepared" =>
        /\ \A i \in DOMAIN prompt.images :
              LET image == prompt.images[i]
              IN  /\ image.format \in PassThrough
                  /\ image.width \in 1 .. asked.image_resize_to_fit
                  /\ image.height \in 1 .. asked.image_resize_to_fit
        /\ Len(SelectSeq(FlattenSeq(prompt.texts), LAMBDA text : text = "marker"))
             = Len(prompt.images)

\* Where a tool call ends: before a piece of another section, or where the
\* generation was finished.
CallEndsAt(i) ==
    /\ pieces[i].section = "ToolCall"
    /\ IF i = Len(pieces) THEN ending = "finished" ELSE pieces[i + 1].section # "ToolCall"

CallEndingAt(i) ==
    LET first == CHOOSE f \in 1 .. i :
                    /\ \A j \in f .. i : pieces[j].section = "ToolCall"
                    /\ f = 1 \/ pieces[f - 1].section # "ToolCall"
    IN  [j \in 1 .. i - first + 1 |-> first + j - 1]

\* Every visible piece is sent once and in order; every tool call is reported once,
\* with all of its pieces, after them and at most one piece later, and before Done;
\* a tool call said to be parsed names tools of the request with arguments that fit.
\* The harvest is the exception (AdvanceGeneratingPhase, tool_call_pass,
\* ToolCallPipeline).
ToolCallsAreTold ==
    reader /\ ~skipped /\ stage \in {"generating", "over"} =>
        LET shown == SelectSeq(told, LAMBDA m : m.kind \in Sections)
            reports == SelectSeq(told, LAMBDA m : m.kind \in Reports)
            visible == SelectSeq([i \in DOMAIN pieces |-> i], LAMBDA i : pieces[i].visible)
            ended == SelectSeq([i \in DOMAIN pieces |-> i], LAMBDA i : CallEndsAt(i))
        IN  /\ shown = [k \in DOMAIN visible |->
                          [kind |-> pieces[visible[k]].section, pieces |-> <<visible[k]>>, calls |-> <<>>]]
            /\ [k \in DOMAIN reports |-> reports[k].pieces]
                 = IF parses THEN [k \in DOMAIN ended |-> CallEndingAt(ended[k])] ELSE <<>>
            /\ \A k \in DOMAIN reports : \A i \in DOMAIN reports[k].calls :
                  LET call == reports[k].calls[i]
                  IN  call.tool # "unknown" /\ call # [tool |-> "schema", arguments |-> "misfit"]
            /\ \A p, q \in DOMAIN told :
                  told[p].kind \in Reports /\ told[q].kind \notin Reports /\ told[q].pieces # <<>> =>
                      LET last == told[p].pieces[Len(told[p].pieces)]
                      IN  /\ Head(told[q].pieces) <= last => q < p
                          /\ Head(told[q].pieces) > last + 1 => p < q

\* The client of a request is told of its end, once and last.  Two ends are silent, and
\* after them it has seen no end at all: an internal error, which comes before
\* anything is sent, and a scheduler that shuts down (process_command, run).
EndIsTold ==
    reader =>
        /\ \A i \in DOMAIN told :
              told[i].kind \notin Sections \cup Reports => i = Len(told) /\ stage = "over"
        /\ stage = "over" =>
              CASE ending = "internal" -> told = <<>>
                [] ending = "shutdown" -> \A i \in DOMAIN told : told[i].kind \in Sections \cup Reports
                [] OTHER -> told # <<>> /\ told[Len(told)].kind \notin Sections \cup Reports
=============================================================================
