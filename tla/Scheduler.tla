------------------------------ MODULE Scheduler ------------------------------
(***************************************************************************)
(* The continuous batch scheduler of an agent: one thread that owns the    *)
(* llama.cpp context and loops over check_stop_signals,                    *)
(* remove_completed_requests, accept_new_commands,                         *)
(* try_process_embedding_request and execute_one_iteration, while commands *)
(* and stop signals arrive and clients leave at any moment.                *)
(*                                                                         *)
(* A request generates on its own sequence of the KV cache.  The tokens of *)
(* several sequences are decoded in one batch; a sequence's next token is  *)
(* sampled from the logits of the last decode.  An image is decoded        *)
(* outside the batch, so it overwrites these logits.  Of a token it only   *)
(* matters what the classifier counts for it and whether there is          *)
(* something to send; llama.cpp is external, and its outcomes are choices. *)
(***************************************************************************)
EXTENDS Integers, Sequences, FiniteSets

CONSTANTS
    Request,        \* the requests sent to the scheduler
    Shutdown,       \* ContinuousBatchSchedulerCommand::Shutdown
    MaxSequences,   \* bound: the largest max_concurrent_sequences
    NBatch,         \* n_batch: the tokens of one batch
    MaxPrompt,      \* bound: the longest prompt
    MaxTokens,      \* max_tokens of a request
    MaxGain,        \* bound: the tokens a classifier counts at once
    MaxCells        \* the cells of the KV cache that a sequence may have

ASSUME SchedulerAssumption ==
    /\ Shutdown \notin Request
    /\ MaxSequences \in Nat \ {0}
    /\ NBatch \in Nat \ {0}
    /\ MaxPrompt \in Nat \ {0}
    /\ MaxTokens \in Int
    /\ MaxGain \in Nat
    /\ MaxCells \in Nat

VARIABLES
    commands,       \* the command channel
    embeddings,     \* pending_embedding_requests
    running,        \* running
    place,          \* where the loop stands
    active,         \* active_requests
    available_ids,  \* SequenceIdPool.available_ids, a stack
    kind,           \* per request that is not over: text, image or embedding
    phase,          \* per request, from new to over
    outcome,        \* per request, its ContinuousBatchTerminalOutcome
    id,             \* per request, its sequence id
    remaining,      \* per request, the prompt tokens it has yet to ingest
    position,       \* per request, current_token_position
    pending,        \* requests with a pending_sampled_token
    i_batch,        \* requests whose i_batch is set
    logits,         \* external: the requests the last decode left logits for
    kv,             \* external: per sequence id, the cells it has in the KV cache
    usage,          \* per request, its completion tokens: all but those of tool calls
    terminals,      \* per request, the terminal messages sent to its client
    stop,           \* requests whose stopper was signalled
    listening,      \* requests whose client still receives
    harvested,      \* history: requests that were sampled by the harvest
    unsent,         \* history: requests a visible piece of which was not sent
    failed          \* history: requests given up on an internal error

queueVars == <<commands, embeddings, running>>
tokenVars == <<usage, harvested, unsent>>
llamaVars == <<logits, kv>>
clientVars == <<stop, listening>>
schedulerVars == <<commands, embeddings, running, place, active, available_ids, kind, phase,
          outcome, id, remaining, position, pending, i_batch, logits, kv, usage,
          terminals, stop, listening, harvested, unsent, failed>>

\* The sequence ids of this scheduler's pool and of its llama.cpp context.
SequenceIds == DOMAIN kv
Elements(s) == {s[i] : i \in 1 .. Len(s)}

SchedulerTypeOK ==
    /\ commands \in Seq(Request \cup {Shutdown})
    /\ embeddings \in Seq(Request)
    /\ running \in BOOLEAN
    /\ place \in {"stop", "remove", "accept", "embed", "wait", "advance", "decode", "cleanup", "ended"}
    /\ active \in Seq(Request)
    /\ available_ids \in Seq(SequenceIds)
    /\ kind \in [Request -> {"none", "text", "image", "embedding"}]
    /\ phase \in [Request -> {"new", "queued", "ingesting", "generating", "completed", "over"}]
    /\ outcome \in [Request -> {"EmitNothing", "Done", "Error"}]
    /\ id \in [Request -> SequenceIds \cup {-1}]
    /\ remaining \in [Request -> 0 .. MaxPrompt]
    /\ position \in [Request -> Nat]
    /\ pending \in SUBSET Request
    /\ i_batch \in SUBSET Request
    /\ logits \in SUBSET Request
    /\ \E n \in 1 .. MaxSequences : kv \in [0 .. n - 1 -> Nat]
    /\ usage \in [Request -> Nat]
    /\ terminals \in [Request -> Nat]
    /\ stop \in SUBSET Request
    /\ listening \in SUBSET Request
    /\ harvested \in SUBSET Request
    /\ unsent \in SUBSET Request
    /\ failed \in SUBSET Request

SchedulerInit ==
    /\ commands = <<>>
    /\ embeddings = <<>>
    /\ running = TRUE
    /\ place = "stop"
    /\ active = <<>>
    /\ \E n \in 1 .. MaxSequences :
           /\ available_ids = [i \in 1 .. n |-> n - i]
           /\ kv = [s \in 0 .. n - 1 |-> 0]
    /\ kind = [r \in Request |-> "none"]
    /\ phase = [r \in Request |-> "new"]
    /\ outcome = [r \in Request |-> "EmitNothing"]
    /\ id = [r \in Request |-> -1]
    /\ remaining = [r \in Request |-> 0]
    /\ position = [r \in Request |-> 0]
    /\ pending = {}
    /\ i_batch = {}
    /\ logits = {}
    /\ usage = [r \in Request |-> 0]
    /\ terminals = [r \in Request |-> 0]
    /\ stop = {}
    /\ listening = Request
    /\ harvested = {}
    /\ unsent = {}
    /\ failed = {}

(***************************************************************************)
(* The other threads.                                                      *)
(***************************************************************************)
Send(r, k) ==
    /\ phase[r] = "new"
    /\ place # "ended"
    /\ phase' = [phase EXCEPT ![r] = "queued"]
    /\ kind' = [kind EXCEPT ![r] = k]
    /\ commands' = Append(commands, r)
    /\ UNCHANGED <<embeddings, running, place, active, available_ids, outcome, id, remaining,
                   position, pending, i_batch, llamaVars, tokenVars, terminals, clientVars, failed>>

SendShutdown ==
    /\ Shutdown \notin Elements(commands)
    /\ running
    /\ commands' = Append(commands, Shutdown)
    /\ UNCHANGED <<embeddings, running, place, active, available_ids, kind, phase, outcome, id,
                   remaining, position, pending, i_batch, llamaVars, tokenVars, terminals,
                   clientVars, failed>>

\* The stopper is signalled; a client that left also drops its receiver.
Stop(r, leaves) ==
    /\ phase[r] \notin {"new", "over"}
    /\ r \notin stop
    /\ stop' = stop \cup {r}
    /\ listening' = IF leaves THEN listening \ {r} ELSE listening
    /\ UNCHANGED <<queueVars, place, active, available_ids, kind, phase, outcome, id, remaining,
                   position, pending, i_batch, llamaVars, tokenVars, terminals, failed>>

(***************************************************************************)
(* The loop.                                                               *)
(***************************************************************************)
ActiveIn(p) == {r \in Elements(active) : phase[r] = p}
Unfinished == ActiveIn("ingesting") \cup ActiveIn("generating")

\* Requests whose next token can be sampled.
Sampleable == (ActiveIn("generating") \cap i_batch) \ pending

\* mark_completed, for the requests of a set.
MarkCompleted(set, result) ==
    /\ phase' = [r \in Request |-> IF r \in set THEN "completed" ELSE phase[r]]
    /\ outcome' = [r \in Request |-> IF r \in set THEN result ELSE outcome[r]]

\* Faulty variant: a request that is still ingesting its prompt is not stopped.
CheckStopSignalsOfGenerating ==
    /\ place = "stop"
    /\ MarkCompleted(ActiveIn("generating") \cap stop, "Done")
    /\ i_batch' = i_batch \ (ActiveIn("generating") \cap stop)
    /\ place' = "remove"
    /\ UNCHANGED <<queueVars, active, available_ids, kind, id, remaining, position, pending,
                   llamaVars, tokenVars, terminals, clientVars, failed>>

CheckStopSignals ==
    /\ place = "stop"
    /\ MarkCompleted(Unfinished \cap stop, "Done")
    /\ i_batch' = i_batch \ (Unfinished \cap stop)
    /\ place' = "remove"
    /\ UNCHANGED <<queueVars, active, available_ids, kind, id, remaining, position, pending,
                   llamaVars, tokenVars, terminals, clientVars, failed>>

\* Vec::swap_remove.
SwapRemove(s, i) ==
    [j \in 1 .. Len(s) - 1 |-> IF j = i THEN s[Len(s)] ELSE s[j]]

\* cleanup_completed_request: the request's state is dropped, its sequence cleared,
\* the terminal message delivered and the sequence id given back.
CleanupCompletedRequest(i, result) ==
    LET r == active[i]
    IN  /\ active' = SwapRemove(active, i)
        /\ kind' = [kind EXCEPT ![r] = "none"]
        /\ phase' = [phase EXCEPT ![r] = "over"]
        /\ outcome' = [outcome EXCEPT ![r] = "EmitNothing"]
        /\ id' = [id EXCEPT ![r] = -1]
        /\ remaining' = [remaining EXCEPT ![r] = 0]
        /\ position' = [position EXCEPT ![r] = 0]
        /\ usage' = [usage EXCEPT ![r] = 0]
        /\ harvested' = harvested \ {r}
        /\ unsent' = unsent \ {r}
        /\ i_batch' = i_batch \ {r}
        /\ pending' = pending \ {r}
        /\ kv' = [kv EXCEPT ![id[r]] = 0]
        /\ available_ids' = Append(available_ids, id[r])
        /\ terminals' = [terminals EXCEPT ![r] =
               IF result # "EmitNothing" /\ r \in listening THEN @ + 1 ELSE @]

Completed(i) == phase[active[i]] = "completed"

RemoveCompletedRequest ==
    /\ place = "remove"
    /\ \E i \in 1 .. Len(active) :
           /\ Completed(i)
           /\ \A j \in 1 .. i - 1 : ~Completed(j)
           /\ CleanupCompletedRequest(i, outcome[active[i]])
    /\ UNCHANGED <<queueVars, place, logits, clientVars, failed>>

NoneCompleted ==
    /\ place = "remove"
    /\ \A i \in 1 .. Len(active) : ~Completed(i)
    /\ place' = "accept"
    /\ UNCHANGED <<queueVars, active, available_ids, kind, phase, outcome, id, remaining,
                   position, pending, i_batch, llamaVars, tokenVars, terminals, clientVars,
                   failed>>

\* accept_new_commands takes commands until there are none; a loop with nothing to
\* generate then waits for one more.
Accepting(r) ==
    /\ place \in {"accept", "wait"}
    /\ commands # <<>>
    /\ Head(commands) = r
    /\ commands' = Tail(commands)
    /\ place' = IF place = "accept" THEN "accept"
                ELSE IF running /\ r # Shutdown THEN "stop" ELSE "cleanup"

NoCommand ==
    /\ place = "accept"
    /\ commands = <<>>
    /\ place' = "embed"
    /\ UNCHANGED <<queueVars, active, available_ids, kind, phase, outcome, id, remaining,
                   position, pending, i_batch, llamaVars, tokenVars, terminals, clientVars,
                   failed>>

AcceptShutdown ==
    /\ Accepting(Shutdown)
    /\ running' = FALSE
    /\ UNCHANGED <<embeddings, active, available_ids, kind, phase, outcome, id,
                   remaining, position, pending, i_batch, llamaVars, tokenVars, terminals,
                   clientVars, failed>>

AcceptEmbedding(r) ==
    /\ Accepting(r)
    /\ kind[r] = "embedding"
    /\ embeddings' = Append(embeddings, r)
    /\ UNCHANGED <<running, active, available_ids, kind, phase, outcome, id, remaining,
                   position, pending, i_batch, llamaVars, tokenVars, terminals, clientVars,
                   failed>>

\* The request is over before it was active: its client gets an error, or, on an
\* internal error, nothing at all.
EndUnaccepted(r, silent) ==
    /\ kind' = [kind EXCEPT ![r] = "none"]
    /\ phase' = [phase EXCEPT ![r] = "over"]
    /\ terminals' = [terminals EXCEPT ![r] = IF ~silent /\ r \in listening THEN @ + 1 ELSE @]
    /\ failed' = IF silent THEN failed \cup {r} ELSE failed

\* A prompt that is not accepted leaves nothing behind: the sequence id, if one was
\* taken, is given back.
Refuse(r, silent) ==
    /\ Accepting(r)
    /\ kind[r] \in {"text", "image"}
    /\ EndUnaccepted(r, silent)
    /\ UNCHANGED <<embeddings, running, active, available_ids, outcome, id,
                   remaining, position, pending, i_batch, llamaVars, tokenVars, clientVars>>

\* The chat template, the images or the mode of the agent do not fit the request.
RefuseConversation(r, silent) == Refuse(r, silent)

RefuseGrammar(r) == Refuse(r, FALSE)

RefuseTools(r, silent) == Refuse(r, silent)

RefuseBusy(r) == available_ids = <<>> /\ Refuse(r, FALSE)

\* A sequence was taken, but the prompt cannot be tokenized or sampled.
RefusePrompt(r, silent) == available_ids # <<>> /\ Refuse(r, silent)

\* A sequence id is taken from the pool.
TakeSequence(r) ==
    /\ available_ids # <<>>
    /\ id' = [id EXCEPT ![r] = available_ids[Len(available_ids)]]
    /\ available_ids' = SubSeq(available_ids, 1, Len(available_ids) - 1)
    /\ active' = Append(active, r)

\* Faulty variant: the sequence is taken as its last request left it.
AcceptTextPromptUncleared(r, prompt) ==
    /\ Accepting(r)
    /\ kind[r] = "text"
    /\ TakeSequence(r)
    /\ phase' = [phase EXCEPT ![r] = "ingesting"]
    /\ remaining' = [remaining EXCEPT ![r] = prompt]
    /\ UNCHANGED <<kv, embeddings, running, kind, outcome, position, pending, i_batch,
                   logits, tokenVars, terminals, clientVars, failed>>

AcceptTextPrompt(r, prompt) ==
    /\ Accepting(r)
    /\ kind[r] = "text"
    /\ TakeSequence(r)
    /\ kv' = [kv EXCEPT ![id'[r]] = 0]
    /\ phase' = [phase EXCEPT ![r] = "ingesting"]
    /\ remaining' = [remaining EXCEPT ![r] = prompt]
    /\ UNCHANGED <<embeddings, running, kind, outcome, position, pending, i_batch,
                   logits, tokenVars, terminals, clientVars, failed>>

\* What the classifiers count for the tokens of a set of requests: nothing for one that
\* belongs to a tool call or is held back, several when it lets go of what it held.
Gains(set) == {gain \in [Request -> 0 .. MaxGain] : \A r \in Request \ set : gain[r] = 0}

ClassifyTokens(gain) == usage' = [r \in Request |-> usage[r] + gain[r]]

\* harvest_pending_samples_before_external_decode: what could be sampled is, and
\* waits for the next batch; the broken ones complete with an error.  The outcomes of
\* the classifiers, the pieces to send among them, are dropped.
Harvest(broken, gain, pieces) ==
    /\ pending' = pending \cup (Sampleable \ broken)
    /\ ClassifyTokens(gain)
    /\ harvested' = harvested \cup (Sampleable \ broken)
    /\ unsent' = unsent \cup pieces

\* The image is decoded on a sequence of its own and leaves the logits of its last
\* token alone, from which the request is sampled (i_batch is -1).
AcceptImage(r, prompt, broken, gain, pieces) ==
    /\ Accepting(r)
    /\ kind[r] = "image"
    /\ TakeSequence(r)
    /\ Harvest(broken, gain, pieces)
    /\ i_batch' = (i_batch \ Sampleable) \cup {r}
    /\ kv' = [kv EXCEPT ![id'[r]] = prompt]
    /\ logits' = {r}
    /\ position' = [position EXCEPT ![r] = prompt]
    /\ phase' = [q \in Request |-> IF q = r THEN "generating"
                                   ELSE IF q \in broken THEN "completed" ELSE phase[q]]
    /\ outcome' = [q \in Request |-> IF q \in broken THEN "Error" ELSE outcome[q]]
    /\ UNCHANGED <<embeddings, running, kind, remaining, terminals, clientVars, failed>>

\* The classifier cannot be built (silently), decoding the image fails, or its
\* grammar cannot be set up afterwards: the cells stay behind in the sequence,
\* whose id goes back to the pool.
ImageFails(r, broken, gain, pieces, cells, silent) ==
    /\ Accepting(r)
    /\ kind[r] = "image"
    /\ available_ids # <<>>
    /\ Harvest(broken, gain, pieces)
    /\ i_batch' = i_batch \ Sampleable
    /\ kv' = [kv EXCEPT ![available_ids[Len(available_ids)]] = cells]
    /\ logits' = {}
    /\ kind' = [kind EXCEPT ![r] = "none"]
    /\ phase' = [q \in Request |-> IF q = r THEN "over"
                                   ELSE IF q \in broken THEN "completed" ELSE phase[q]]
    /\ outcome' = [q \in Request |-> IF q \in broken THEN "Error" ELSE outcome[q]]
    /\ terminals' = [terminals EXCEPT ![r] = IF ~silent /\ r \in listening THEN @ + 1 ELSE @]
    /\ failed' = IF silent THEN failed \cup {r} ELSE failed
    /\ UNCHANGED <<embeddings, running, active, available_ids, id, remaining, position,
                   clientVars>>

(***************************************************************************)
(* Embeddings, and the choice between an iteration and the next round.     *)
(***************************************************************************)
\* The loop goes on with an iteration if there is something to generate.
AfterEmbedding == place' = IF Unfinished # {} THEN "advance" ELSE "wait"

\* recv_timeout of the command channel.
WaitTimeout ==
    /\ place = "wait"
    /\ commands = <<>>
    /\ place' = IF running THEN "stop" ELSE "cleanup"
    /\ UNCHANGED <<queueVars, active, available_ids, kind, phase, outcome, id, remaining,
                   position, pending, i_batch, llamaVars, tokenVars, terminals, clientVars,
                   failed>>

NoEmbedding ==
    /\ place = "embed"
    /\ embeddings = <<>>
    /\ AfterEmbedding
    /\ UNCHANGED <<queueVars, active, available_ids, kind, phase, outcome, id, remaining,
                   position, pending, i_batch, llamaVars, tokenVars, terminals, clientVars,
                   failed>>

\* process_embedding_batch: computed in an emptied cache, whose cells it leaves behind
\* in any of the sequences, unless an internal error ends it without a message.
ProcessEmbeddingBatch(r, cells, silent) ==
    /\ EndUnaccepted(r, silent)
    /\ kv' = [s \in SequenceIds |-> cells]
    /\ logits' = {}

\* One batch of embeddings: refused while tokens are generated.
ProcessEmbedding(cells, silent) ==
    /\ place = "embed"
    /\ embeddings # <<>>
    /\ embeddings' = Tail(embeddings)
    /\ AfterEmbedding
    /\ \/ /\ Unfinished # {}
          /\ EndUnaccepted(Head(embeddings), FALSE)
          /\ UNCHANGED llamaVars
       \/ /\ Unfinished = {}
          /\ ProcessEmbeddingBatch(Head(embeddings), cells, silent)
    /\ UNCHANGED <<commands, running, active, available_ids, outcome, id, remaining,
                   position, pending, i_batch, tokenVars, clientVars>>

(***************************************************************************)
(* execute_one_iteration.                                                  *)
(***************************************************************************)
\* CompletionCheckPhase, once the classifier has counted the token.  A limit that is
\* negative is reached at once.
ReachesMaxTokens(r, gain) == usage[r] + gain[r] >= MaxTokens

\* emit_token_phase and tool_call_pass: a token without a visible piece or a finished
\* tool call has nothing to send, and a client that has left is then not noticed.
EmitTokens(pieces) == unsent' = unsent \cup (pieces \ listening)

\* advance_generating_requests: of the requests that can be sampled, some fail to
\* sample or classify; the others count their token.  One that ends the generation
\* (is_eog_token) is not sent, but the tool call before it may be.  The request
\* completes with its last token, or when something cannot be sent.
Advance(ends, broken, gain, pieces) ==
    LET classified == Sampleable \ broken
        dropped == pieces \ listening
        full == {r \in classified \ (ends \cup dropped) : ReachesMaxTokens(r, gain)}
        goOn == classified \ (ends \cup dropped \cup full)
    IN  /\ place = "advance"
        /\ ClassifyTokens(gain)
        /\ EmitTokens(pieces)
        /\ pending' = pending \cup goOn
        /\ phase' = [r \in Request |-> IF r \in Sampleable \ goOn THEN "completed" ELSE phase[r]]
        /\ outcome' = [r \in Request |->
               IF r \in broken THEN "Error"
               ELSE IF r \in (ends \cup full) \ dropped THEN "Done" ELSE outcome[r]]
        /\ i_batch' = i_batch \ (Sampleable \ goOn)
        /\ place' = "decode"
        /\ UNCHANGED <<queueVars, active, available_ids, kind, id, remaining, position,
                       llamaVars, harvested, terminals, clientVars, failed>>

\* Active requests with a pending token.
Waiting == {i \in 1 .. Len(active) : phase[active[i]] = "generating" /\ active[i] \in pending}

\* fill_generating: the pending tokens, one per request, until the batch is full.
FillGenerating ==
    {active[i] : i \in {j \in Waiting : Cardinality({k \in Waiting : k < j}) < NBatch}}

\* Faulty variant: a prompt fills the batch, however little of it is left.
ChunkSizeOfSpace(left, used) == IF used < NBatch THEN NBatch - used ELSE 0

\* compute_ingesting_chunk_size, with its saturating subtraction.
ChunkSize(left, used) ==
    LET space == IF used < NBatch THEN NBatch - used ELSE 0
    IN  IF left < space THEN left ELSE space

\* fill_ingesting: the tokens in the batch after the first i active requests, each
\* of which takes as much of its prompt as there is space for.
FillIngesting[i \in 0 .. Len(active)] ==
    IF i = 0 THEN Cardinality(FillGenerating)
    ELSE FillIngesting[i - 1] +
         IF phase[active[i]] = "ingesting"
         THEN ChunkSize(remaining[active[i]], FillIngesting[i - 1]) ELSE 0

BatchSize == FillIngesting[Len(active)]

\* The tokens that request r contributes to the batch.
Contribution(r) ==
    IF r \in FillGenerating THEN 1
    ELSE IF r \in ActiveIn("ingesting")
    THEN LET i == CHOOSE i \in 1 .. Len(active) : active[i] = r
         IN  FillIngesting[i] - FillIngesting[i - 1]
    ELSE 0

AfterIteration == place' = IF running THEN "stop" ELSE "cleanup"

\* apply_generating_contribution and apply_ingesting_contribution: a request whose
\* prompt is over begins to generate.
ApplyContributions(generating, ingested, last) ==
    /\ pending' = pending \ generating
    /\ i_batch' = i_batch \cup generating \cup last
    /\ position' = [r \in Request |-> position[r] + Contribution(r)]
    /\ remaining' = [r \in Request |->
           IF r \in ingested THEN remaining[r] - Contribution(r) ELSE remaining[r]]
    /\ phase' = [r \in Request |-> IF r \in last THEN "generating" ELSE phase[r]]

\* The batch is decoded, if the cache has the cells for it, and the contributions are
\* committed.
DecodeBatch ==
    LET generating == FillGenerating
        chunk == [r \in Request |-> Contribution(r)]
        ingested == {r \in ActiveIn("ingesting") : chunk[r] > 0}
        last == {r \in ingested : chunk[r] = remaining[r]}
    IN  /\ place = "decode"
        /\ BatchSize > 0
        /\ \A r \in generating \cup ingested : position[r] + chunk[r] <= MaxCells
        /\ kv' = [s \in SequenceIds |->
               LET owners == {r \in generating \cup ingested : id[r] = s}
               IN  IF owners = {} THEN kv[s]
                   ELSE LET r == CHOOSE r \in owners : TRUE
                        IN  position[r] + chunk[r]]
        /\ logits' = generating \cup last
        /\ ApplyContributions(generating, ingested, last)
        /\ AfterIteration
        /\ UNCHANGED <<queueVars, active, available_ids, kind, outcome, id, tokenVars,
                       terminals, clientVars, failed>>

\* There is nothing to decode, or the decode was aborted, or failed.
DecodeNothing ==
    /\ place = "decode"
    /\ AfterIteration
    /\ UNCHANGED <<queueVars, active, available_ids, kind, phase, outcome, id, remaining,
                   position, pending, i_batch, llamaVars, tokenVars, terminals, clientVars,
                   failed>>

\* Faulty variant: the client of the evicted request is not told.
EvictSilently ==
    /\ place = "decode"
    /\ BatchSize > 0
    /\ \E i \in 1 .. Len(active) :
           /\ active[i] \in Unfinished
           /\ \A j \in 1 .. Len(active) : active[j] \in Unfinished =>
                  \/ position[active[j]] < position[active[i]]
                  \/ position[active[j]] = position[active[i]] /\ i <= j
           /\ CleanupCompletedRequest(i, "EmitNothing")
    /\ IF active' = <<>> THEN AfterIteration ELSE UNCHANGED place
    /\ UNCHANGED <<queueVars, logits, clientVars, failed>>

\* evict_largest_sequence: the cache is full, the first of the longest sequences
\* is evicted, and the batch is assembled anew.
EvictLargestSequence ==
    /\ place = "decode"
    /\ BatchSize > 0
    /\ \E i \in 1 .. Len(active) :
           /\ active[i] \in Unfinished
           /\ \A j \in 1 .. Len(active) : active[j] \in Unfinished =>
                  \/ position[active[j]] < position[active[i]]
                  \/ position[active[j]] = position[active[i]] /\ i <= j
           /\ CleanupCompletedRequest(i, "Error")
    /\ IF active' = <<>> THEN AfterIteration ELSE UNCHANGED place
    /\ UNCHANGED <<queueVars, logits, clientVars, failed>>

(***************************************************************************)
(* The end: what is active is cleaned up, what is queued is dropped.       *)
(***************************************************************************)
CleanupOnShutdown ==
    /\ place = "cleanup"
    /\ active # <<>>
    /\ CleanupCompletedRequest(1, outcome[active[1]])
    /\ UNCHANGED <<queueVars, place, logits, clientVars, failed>>

EndScheduler ==
    /\ place = "cleanup"
    /\ active = <<>>
    /\ place' = "ended"
    /\ phase' = [r \in Request |-> IF phase[r] = "queued" THEN "over" ELSE phase[r]]
    /\ commands' = <<>>
    /\ embeddings' = <<>>
    /\ UNCHANGED <<running, active, available_ids, kind, outcome, id, remaining, position,
                   pending, i_batch, llamaVars, tokenVars, terminals, clientVars, failed>>

-----------------------------------------------------------------------------
AcceptCommand ==
    \/ NoCommand
    \/ AcceptShutdown
    \/ \E r \in Request :
           \/ AcceptEmbedding(r)
           \/ \E prompt \in 1 .. MaxPrompt : AcceptTextPrompt(r, prompt)
           \/ RefuseGrammar(r) \/ RefuseBusy(r)
           \/ \E silent \in BOOLEAN :
                  RefuseConversation(r, silent) \/ RefuseTools(r, silent) \/ RefusePrompt(r, silent)
           \/ \E broken \in SUBSET Sampleable :
              \E gain \in Gains(Sampleable \ broken) :
              \E pieces \in SUBSET (Sampleable \ broken) :
                  \/ \E prompt \in 1 .. MaxPrompt : AcceptImage(r, prompt, broken, gain, pieces)
                  \/ \E cells \in 0 .. MaxPrompt, silent \in BOOLEAN :
                         ImageFails(r, broken, gain, pieces, cells, silent)

ExecuteOneIteration ==
    \/ \E broken \in SUBSET Sampleable :
       \E ends \in SUBSET (Sampleable \ broken) :
       \E gain \in Gains(Sampleable \ broken) :
       \E pieces \in SUBSET (Sampleable \ broken) :
           Advance(ends, broken, gain, pieces)
    \/ DecodeBatch
    \/ DecodeNothing
    \/ EvictLargestSequence

SchedulerStep ==
    \/ CheckStopSignals
    \/ RemoveCompletedRequest
    \/ NoneCompleted
    \/ AcceptCommand
    \/ NoEmbedding
    \/ WaitTimeout
    \/ \E cells \in 0 .. MaxPrompt, silent \in BOOLEAN : ProcessEmbedding(cells, silent)
    \/ ExecuteOneIteration
    \/ CleanupOnShutdown
    \/ EndScheduler

SchedulerNext ==
    \/ \E r \in Request, k \in {"text", "image", "embedding"} : Send(r, k)
    \/ SendShutdown
    \/ \E r \in Request, leaves \in BOOLEAN : Stop(r, leaves)
    \/ SchedulerStep

SchedulerSpec == SchedulerInit /\ [][SchedulerNext]_schedulerVars

-----------------------------------------------------------------------------
(***************************************************************************)
(* Properties.                                                             *)
(***************************************************************************)
\* A token is only sampled from logits that the last decode left for its own
\* sequence, whatever was accepted, stopped, evicted or decoded in between
\* (i_batch, harvest_pending_samples_before_external_decode).
LogitsAreFresh == Sampleable \subseteq logits

\* The next token of a sequence goes right behind what the cache has of it, also
\* on a sequence that a failed image left cells in (current_token_position,
\* clear_kv_cache_for_sequence).
PositionIsCacheLength ==
    \A r \in Unfinished : kv[id[r]] = position[r]

\* Every sequence id is either free or belongs to one active request
\* (SequenceIdPool, SequenceIdGuard).
SequencesPartitioned ==
    /\ \A s \in SequenceIds :
           Cardinality({i \in 1 .. Len(available_ids) : available_ids[i] = s})
             + Cardinality({i \in 1 .. Len(active) : id[active[i]] = s}) = 1
    /\ Len(active) = Cardinality(Elements(active))

\* No batch has more tokens than it was made for (AssembleBatchPhase, BatchPass::new).
BatchWithinLimit == place = "decode" => BatchSize <= NBatch

\* What the scheduler keeps of llama.cpp is so: logits, positions, sequence ids and
\* the size of a batch.
CacheIsTracked ==
    LogitsAreFresh /\ PositionIsCacheLength /\ SequencesPartitioned /\ BatchWithinLimit

\* A request that is over has had exactly one terminal message, unless its client
\* left, an internal error ended it, or the scheduler was torn down
\* (complete_with_outcome, ContinuousBatchTerminalDelivery).
AnsweredOnce ==
    \A r \in Request :
        /\ terminals[r] <= 1
        /\ terminals[r] = 1 => phase[r] = "over"
        /\ phase[r] = "over" /\ r \in listening /\ r \notin failed /\ place # "ended" /\ running
              => terminals[r] = 1

\* Of a request that completed, every visible piece and every tool call was sent, unless
\* the harvest sampled one of its tokens (emit_token_phase before CompletionCheckPhase).
EveryPieceSent ==
    \A r \in Request \ harvested : outcome[r] = "Done" => r \notin unsent

\* A request that goes on generating has not reached its limit, which content and
\* reasoning count for and tool calls do not, unless the harvest sampled one of its
\* tokens (max_tokens_outcome).
LimitIsKept ==
    \A r \in ActiveIn("generating") \ harvested : usage[r] = 0 \/ usage[r] < MaxTokens

\* What the comment of the harvest says: "their user-visible emission happens in
\* `advance_generating_phase` after the next decode": of a request that generates to
\* its end, the visible pieces of harvested tokens are sent, too
\* (harvest_pending_samples_before_external_decode).
HarvestedTokenSent ==
    \A r \in Request : outcome[r] = "Done" /\ r \notin stop => r \notin unsent

\* An answer is whole: one terminal message, everything to see before it, and no more
\* than was asked for.
AnswerIsWhole == AnsweredOnce /\ EveryPieceSent /\ LimitIsKept

\* A request that is stopped ends, even if its prompt never gets into a batch or
\* the decodes fail for good (check_stop_signals at the head of the loop).
StoppedRequestEnds ==
    \A r \in Request : r \in stop ~> phase[r] = "over"
=============================================================================
