# Paddler: TLA+ models, checks and proofs

Paddler balances LLM inference over a fleet of agents. A *balancer* keeps the
desired state of the cluster, accepts requests over HTTP and web sockets and gives
each one to an agent with a free slot. An *agent* connects to the balancer, loads the
model it is told to load and runs requests on llama.cpp in continuous batches. Client
libraries, a web admin panel and a desktop application sit around the two.

This directory holds TLA+ models of the parts of the program where steps of several
tasks, threads, processes or machines meet, or where a long sequence of messages has to
come out right; TLC configurations that check them on small instances; and TLAPS proofs
for every instance. `PROJECT.json` lists the components, runs, mutants, the source lines
behind each definition, the findings, the hazards and the theorems. Paths below are
relative to `src/`.

    tlc -workers 2 -config Requests.cfg MCRequests     # model-check
    tlapm RequestProofs.tla                            # check the proofs

## 1. Inventory

| Component | State | Operations | Interacts with | What is hard | Module |
|---|---|---|---|---|---|
| Dispatch and buffering (`agent_controller_pool.rs`, `buffered_request_manager.rs`) | controllers by agent id, atomic slot counts, the buffer count, a watch channel | scan, claim, buffer, wait, release; register, report, remove | forwarding (slot guards), agent sockets | interleaved atomics, lost wakeups, reconnection under a known id | `Dispatch` |
| Forwarding (`request_from_agent.rs`, agent `generate_responses`) | a sender per request id, the forwarding mode, tokens, the agent's stoppers | send, forward, time out, stop, drain, end | dispatch, scheduler, sockets, HTTP | timeouts against late answers, reused ids, stops that overtake or miss | `Forwarding`, `ResponseStream` |
| HTTP endpoints, OpenAI compatibility (`inference_service/`, `compatibility/openai_service/`) | channel and senders of a body, the transformers' state | transform, split, merge, end, withdraw | forwarding | event order, items left open by an error, parts that fail, clients that leave | `HttpStreams`, `OpenAITransformers`, `OpenAIRequests`, `EmbeddingBatches` |
| Inference socket (`ws_inference_socket/`) | token registry by request id, the watcher of the generation mode | ask, stop, notify, close | forwarding, prompt page | an id used twice, a stop before its request, a change between subscribe and read | `InferenceSocket` |
| Agent connection (`management_socket_client_service.rs`, `ws_agent_socket/`, `agent_controller.rs`) | connection, versions of the status, pending one-shot queries | connect, register, report, ask, reconnect, leave | dispatch, propagation, dashboards | reports out of order, overlapping connections of one id, answers that never come | `AgentConnection` |
| State database (`state_database/`) | the file, a write lock, a broadcast channel | read, store, start from the file | HTTP handlers, propagation | unlocked reads, truncation, crashes | `StateDatabase` |
| Desired state propagation (`reconciliation_service.rs` of the balancer) | desired state, conversion flag, holder | receive, send to all, publish, retry | state database, pool | agents that register or leave in the middle, a lagging channel | `Propagation` |
| Agent reconciliation and arbiter (`reconciliation_service.rs`, `llamacpp_arbiter_service.rs` of the agent) | desired and applicable state, status, scheduler, slot counts | convert, drain, tear down, spawn, retry | socket client, downloads, scheduler | a drain that waits on its own loop, counts reset under live guards | `AgentArbiter` |
| Model sources and loading (`model_source/`, `continuous_batch_arbiter.rs`, `slot_aggregated_status.rs`) | issues, model path, slots, progress; startup signals | resolve, load, report, clear | arbiter, downloads | issues that outlive their cause, progress of what is over | `ModelLoading` |
| Model downloads (`model_source/url.rs`, `paddler_download_manager`) | cached file, partial file, lock, progress | look up, lock, resume, stream, rename, give up | other agents of the host | crashes, resumption, stale partial files, writes behind | `Download` |
| Scheduler (`continuous_batch_scheduler/`) | active requests, sequence ids, batch, KV cache, logits | accept, ingest, sample, decode, evict, stop, shut down | arbiter, forwarding, llama.cpp | logits a decode overwrites, sequences reused after failures | `Scheduler` |
| Conversations and tokens (`prepare_*`, `decoded_image.rs`, `tool_call_*`, `token_throughput_meter.rs`) | images, section, tool-call buffer; counts of a window | prepare, refuse, classify, buffer, parse, validate; count | scheduler, clients | pieces a classifier holds back, calls cut by the end, a rate that goes stale | `Generation`, `Throughput` |
| Bootstrap, StatsD, command line (`paddler_bootstrap`, `paddler_cli`, services) | services, manager, threads | start, bind, fail, end, shut down | everything | a failure nobody sees, a service that does not end | `Lifecycle` |
| Client libraries (`paddler_client`, `paddler_client_javascript`, `paddler_client_python`) | socket pool, pending requests, line buffers | connect, send, read, retry, stop | balancer | replaced connections, requests registered too late, bytes cut anywhere | `SocketClient`, `HttpClient` |
| Web admin panel (`resources/ts`) | page, form, dialogs, streams; prompt and answer | load, edit, put, follow, ask | balancer | late answers, reconnects, stale screens | `AdminPages`, `ModelUris`, `PromptPage` |
| Desktop application (`paddler_gui`) | screen, forms, runners, the model chosen | start, follow, choose, cancel, quit | bootstrap | messages of a cancelled runner, a card that mixes two states | `DesktopApp`, `ModelLoading` |
| Response format validator (`paddler_openai_response_format_validator`) | worklist, compiled schemas | close, rewrite, make strict | tests of the OpenAI formats | cyclic references | `StrictSchema` |
| Test harness (`paddler_test_cluster_harness`) | processes of a cluster, the streams it watches | start, wait, collect, shut down | balancer and agents as processes | ports picked before they are bound, snapshots of what is gone, processes left behind | `ClusterHarness`, `HttpStreams` |
| Message types, cache directory | | | | data and I/O only | none |

What makes the parts correct: a slot is neither lost nor claimed twice, and no request
sleeps next to a free slot; a client gets its own responses, in order, and one end; an
agent runs the state it reports and ends up with the state set last; a token is sampled
from its own logits and reaches its client; what the balancer knows is what a restart
would find; a cached model is complete; a screen shows what is, and what runs can be
stopped from it; whatever is started ends.

## 2. Modules

Every action carries the name of the function or event it translates; `map` in
`PROJECT.json` gives its lines. Definitions marked *Faulty variant* are plausible bugs:
each is put in place of the definition after it to see that a property notices.

### Requests

**Dispatch.** Each atomic load, store, compare-and-swap and watch send is a step of
its own. `Controller` is the set of `AgentController` objects, one per connection: an
agent that reconnects gets a new one under its old id, while the guards of earlier
requests keep the old one alive. `BeginScan`, `VisitEntry`, `CheckCapacity` and
`FinishScan` are the loop of `select_least_busy_with_capacity`; `ClaimSlot` and
`ClaimContended` the outcomes of `try_claim`; `EnterBuffer`, `Wake`, `GiveUp`
`wait_for_available_agent`. `reported` and `shrunk` are history variables.

**Forwarding** puts `forward_responses_stream` on one side, the agent's
`generate_responses` on the other and two FIFO queues in between. Messages carry only
the request id; `attempt` numbers the uses of one id so that properties can tell them
apart. **ResponseStream** is what a client may rely on: responses in order, one
terminal message unless it withdrew, and an end. `Forwarding` implements it.
`recv()` returning `None` (lines 197-215 of `request_from_agent.rs`) cannot happen: only
the request's own guard deregisters its sender. Where the agent cannot be told to stop
because its connection is closing, the model drains and ends by `AgentConnectionClose`.

**HttpStreams** takes what `ResponseStream` promises as the input of every streaming
endpoint and follows it through the session, the transformer and the channel to the
body; dropping the body cancels what is under way. An embedding request is several
requests on one channel, divided by **EmbeddingBatches** (`chunk_evenly_with_cap`,
`plan_embedding_batches`, as functions with their reference definitions).
**OpenAITransformers** has the four transformers as functions from a state and a message
to a state. **OpenAIRequests** is the way in: the service keeps nothing between turns, so
its client sends everything back, and items and parts it does not know are skipped.
**StrictSchema** is the closure loop of the validator, one component per step, and the
places its schemas are strict at; what the `jsonschema` crate makes of a finished schema is
its own affair, so `validator_for` may refuse any of them (`ValidatorFails`).

**InferenceSocket** has connections, the tasks they spawn, the registry of cancellation
tokens and the watcher of the generation mode, which subscribes before it reads.

### Desired state and models

**StateDatabase** splits `store_schema` into lock, truncate, write and broadcast, and
lets each fail or the process die at each: a file that cannot be created is as it was, one
that cannot be written is empty or cut short, and a `sync_all` that fails leaves it complete, with an error for the caller and no broadcast. Reads take no lock.
`damaged` remembers a write that was cut short, `behind` the request whose store failed
after it had touched the file. **Propagation** follows a stored state through the broadcast
channel, the loop over the pool and the holder, while agents register, close and leave.
`overlapped` are the agents that registered during a conversion. **AgentArbiter** has the
agent's two services and the socket that queues requests; every await of `apply_state`
and of the conversion is a place where the others step in. `wiped` remembers that
`reset()` zeroed the count under live guards.

**ModelLoading** has the two services and the loader thread write one status: issues,
model path, slots and progress. A resolution goes through look-up, lock, download and
refusal as its source does; the thread sends its startup signals one at a time.
**Download** has several agents of a host on one cache entry. A file is a sequence of
chunks tagged with the server's version and their index. The runtime writes behind, so
`writing` is a chunk on its way to the file and `leftover` one whose attempt returned
without a flush; `overtaken` remembers that such a write landed after a later attempt
had measured the file.

### Agents

**AgentConnection** has the agent's connect loop, its status with the version that is
incremented in a step of its own, the sessions of the balancer (several may overlap: the
two ends learn of a loss at different times), the pool's entry, the stream of snapshots,
and the one-shot queries.

**Scheduler** is the loop of the scheduler thread, one action per phase. A token is
looked at for two things alone, which vary independently: how much it adds to the count of
`max_tokens` (nothing in a tool call, several if the classifier had held tokens back) and
whether it has anything to send (a visible piece or a finished call). `unsent` are the
requests with such a token that was not sent. An end-of-generation token is not counted.
llama.cpp is external: a decode succeeds, finds no KV slot or fails. Failures to clear the
cache are ignored as in the code, and a disconnected command channel counts as `Shutdown`.
**Generation** is one conversation: its grammar, images, prompt and tools, then its tokens;
the classifier may hold pieces back and give several outcomes at once. What may fail apart
from the request itself (`PrepareFaults`, `AcceptFaults`) is chosen for it; an error that
leaves through `?` (the media marker, the parser of tool calls, the classifier of tokens, a
schema that does not serialize) and the shutdown of the scheduler end it without a word,
and `EndIsTold` names these two ends as the silent ones.
**Throughput** is the meter, with time in ticks of half a window.

**Lifecycle** starts the services of a balancer or an agent, in a process or in the
thread of a runner, and ends them. A server drains its connections until its deadline
(`DrainTimesOut`), the manager waits for a service until the cooperative one
(`AbortService`): an aborted service may leave connections open, and the end is then an
error. `LifeIsSound` is that nothing else leaves any and that whoever awaits the end learns
of it; `ShutdownEnds` assumes neither deadline and so says that a shutdown ends without them.

### Clients and screens

**SocketClient** is one of the three client libraries on a pool of sockets; where they
differ, an action asks for `library`. `late` remembers a Rust request registered after
the reader had told the pending ones. **HttpClient** is one call over HTTP: the
status decides whether there is a body, the body arrives in chunks that know nothing of
its lines, and is read whole (`get_json`, `put_json`) or as a stream; the error a caller
gets is of the kind of what went wrong, and of a status that is refused it is the text of
the body or, if that cannot be read, the transport's. The collectors of a test client
(`collect_generated_tokens`, `collect_embedding_results`) are in `HttpStreams`.

**ClusterHarness** is `start_subprocess_cluster` with the watcher of the agents' stream:
ports that another program may take between the pick and the bind, processes that die,
snapshots that are late, binaries that cannot be spawned. `until_agent` says that an agent *disappeared* when a snapshot
does not have it; `DisappearedWasLost` is that this is only said when something was lost.
`wait_until_healthy` has no deadline: with a balancer that never comes up it waits for
good, and `HarnessEnded` exempts exactly this.

**AdminPages** and **ModelUris** are the pages, dialogs and forms of the admin panel,
**PromptPage** its prompt page on an `InferenceSocket`, **DesktopApp** the desktop
application with its screens, what each of them shows and lets a user do, the choice of a
model, and the tasks of its runners. In `ModelUris` a URI is written by the form and read
by the URL parser of the browser. What that parser does to a path (encoding, dots, the end
at a `?` or `#`, the empty path of a special scheme) is defined; what it makes of one word
and of an authority are constants (`PathEncoded`, `QueryEncoded`, `Authority`), of which it
is assumed that what the parser wrote it reads unchanged and that it leaves alone what the
form writes itself. Left out are texts that are not of this form: a scheme without slashes
(`agent:foo`), backslashes, more slashes than two before a host, credentials. In
`PromptPage` a socket gets its listeners in the step that makes it: the two React effects
of `useWebSocket.ts` run before the browser can have opened a connection over the network.
The card of an agent (`ViewAgentCard`) is in
`ModelLoading`, next to the status it is drawn from.

### Sums

The `MC` modules put components that share a run beside each other with a variable
(`part`, `stage`, `transport`) that says which of them a behaviour exercises; the others
rest at one initial state. A property of one component is then about the behaviours of
that component, exactly as if it were checked alone. `MCServing` is `MCRequests` with
`Lifecycle` and the fairness that its liveness needs. `PromptPage` and `HttpStreams`, in
contrast, compose: the first runs on the actions of `InferenceSocket`, the second on the
steps of `ResponseStream`.

## 3. Runs

| Run | Instance | Checks |
|---|---|---|
| `requests` | 2 requests, 2 connections of one agent, buffer 1, slots 0..1; 2 uses of an id, 1 response and a terminal each | `RequestsTypeOK`, `SlotConservation`, `NoOversubscription`, `BufferCounted`, `NoLostWakeup`, `Answered`, `OwnResponsesInOrder`, `SlotHeldWhileAgentWorks` |
| `serving` | 2 requests, 1 connection; 1 use, up to 2 responses; 4 services of a balancer, 2 of an agent | `BufferedRequestServed`, `ImplementsResponseStream`, `StopReachesAgent`, `LifeIsSound`, `ShutdownEnds` |
| `desired_state` | 3 GETs or PUTs, 2 states, 1 crash; 2 agents, 3 stores, channel of 2; 2 requests, 2 slots, 3 desired states | `DesiredStateTypeOK`, `KnownIsStored`, `ConvertedIsTold`, `SwapIsClean`, `DesiredStateArrives` |
| `scheduler` | 2 requests on up to 2 sequences, batch 2, prompts of up to 2 tokens, a limit of 1, tokens that count 0 or 1, 2 cells of cache; conversations of up to 3 pieces, 2 held back | `AgentTypeOK`, `CacheIsTracked`, `AnswersAreWhole`, `ConversationIsHandled`, `StoppedRequestEnds` |
| `models` | 2 agents, a file of 2, then 3, then 1 chunks, 2 failures; 2 desired states in turn out of 5, 2 failures | `ModelsTypeOK`, `CachedModelIsWhole`, `StatusIsTrue`, `ModelArrives` |
| `balancer` | up to 3 messages on any endpoint, up to 3 documents on 2 agents; 2 connections, 3 events, 1 query; 2 turns; 3 components | `BalancerTypeOK`, `OpenAIIsCompatible`, `SchemaIsClosed`, `EmbeddingsAreWhole`, `StreamEnds`, `AgentIsSeen` |
| `clients` | 2 requests over a socket and its replacement, answers of up to 2 frames; bodies of 2 lines; a cluster of 2 agents | `AnswerIsFaithful`, `ChunkingIsInvisible`, `CallsEnd` |
| `user_interfaces` | 2 runners; 2 agents, 2 fetches, 1 PUT, 3 edits | `ScreensAreTrue`, `ScreensMoveOn` |
| `prompt_page` | 2 sockets, 3 tasks, 2 prompts | `PageIsTrue`, `PageMovesOn` |
| `arbiter_drain` | 1 request, 2 desired states | `SwapCompletes` (violated, finding 1) |
| `state_database_get` | 2 requests | `PutIsKept` (violated, finding 2) |
| `scheduler_harvest` | 2 requests | `HarvestedTokenSent` (violated, finding 3) |

What they show. *requests, serving*: interleaved claims, releases, reports and reconnects
neither lose nor duplicate a slot or a wakeup; timeouts, stops, the shutdown, lost agents
and late responses do not confuse two uses of an id; a buffered request is served while an
agent keeps a free slot; forwarding is what `ResponseStream` promises; all services of a
process end once one does, and a failure or an abort is told to whoever awaits it.
*desired_state, models*: what the balancer knows is stored, unless the last store failed and
said so, what is stored is published and told, what an
agent is told it ends up running, with the file complete and the reasons for a failure
shown while it lasts. *scheduler*: requests that share batches and cache do not disturb
each other; every piece and every tool call reaches the client in order or is refused for
a reason; what counts for the limit keeps to it; a stopped request ends. *balancer*: the OpenAI formats lose and invent nothing
however reasoning, text, calls and failures alternate; every document is answered once;
a client that leaves withdraws every part; dashboards come to see an agent as it is, and
what they ask it is answered in some way; the schemas answers are validated with hold what
their roots reach, cycles included.
*clients, user_interfaces, prompt_page*: answers are complete or end with a reason, however
the bytes were cut; a cluster that is handed to a test is the one it asked for; no screen
waits for ever, and what runs can be stopped.

Composite properties are conjunctions of named ones. `CacheIsTracked`: `LogitsAreFresh`,
`PositionIsCacheLength`, `SequencesPartitioned`, `BatchWithinLimit`. `AnswersAreWhole`:
`AnswerIsWhole` and the meter's `StaleIsZero`. `SwapIsClean`: `AppliedIsRunning`,
`SlotsOnlyWithScheduler`, `NoPhantomSlots`, `DrainedBeforeTeardown`. `OpenAIIsCompatible`:
`ResponseIsWhole`, `TurnsAreKept`. `DesiredStateArrives`: `LatestIsPublished` (balancer),
`ConvergesOnDesiredState` (agent). `AgentIsSeen`: `StatusIsSeen`, `GoneIsSeen`, `QueryEnds`.
The others are read off their modules.

**Bounds.** Two requests, agents, runners or uses are the fewest that race, and every
property here speaks of at most two of them and the object they share; the theorems of
section 5 cover any number for the modules they are about. A buffer or a slot count of
one is full after one claim. Two prompt tokens and a batch of two make a
prompt that spans batches and a batch shared by two requests; tokens that do not count come
before one that does, so that a limit of one is reached after any number of steps, and two
cells of cache let a request outgrow its own. Three messages let reasoning, text and a call, or text, call and failure,
follow each other. Two connections make one loss and one overlap. Two failures allow one
in the recovery from the other. Three components refer to each other in every way,
cycles included, and a document without the root is among them. `MaxDesired`, `MaxStores`, `MaxCrashes`, `MaxFaults`, `MaxDrops`,
`MaxEvents`, `MaxDisturbances` and their like bound what the environment does, not what
the program does. No run with liveness uses symmetry. Deadlock is not checked: a system
whose requests are served and whose bounds are used up rests, and that it does not rest
too early is what the liveness properties say.

**Fairness.** A task is polled while it can go on, so its steps are weakly fair; what
the environment does (clients, users, agents that answer, faults) is not, unless named
here. *Dispatch*: request tasks, socket handlers that changed the pool, the drop of a
refused connection; agents need not release, report or reconnect. *Forwarding*: the
balancer's task with its timeouts, the agent's reader and its check of stoppers; nothing
makes a scheduler generate, but it ends a job that was stopped. *HttpStreams*: a part
returns (that is what `ResponseStream` promises), a reading client reads. *AgentArbiter*:
both services; `select!` picks among ready branches at random and so does not pass one by
for ever (strong fairness where branches compete); running requests complete, and a
conversion or a load that is tried again and again succeeds once. *Propagation*: strong
fairness for receiving, which competes with the ticker. *AgentConnection*: both ends,
and strong fairness for the status ticker, which competes with messages; the agent
connects again after a loss. *Scheduler*: its thread runs; nothing is assumed of
llama.cpp's outcomes. *ModelLoading, Download*: services and the loader thread; the ticker
retries, `read_timeout` ends a stalled response, failures are bounded. *Lifecycle*:
services, the manager and whoever awaits the thread; an open answer completes or its
connection is closed by the shutdown; nothing of the deadlines, which a program that ends
in time does not meet. *Clients*: the tasks of a connection, a caller that
reads; the balancer answers what it serves (as `Forwarding` shows). *DesktopApp*: the
event loop and the tasks; strong fairness for the `select!` between the end of a runner
and its snapshots. *AdminPages, PromptPage*: the browser delivers frames, events and
answers; the balancer answers. *ClusterHarness*: the test and the processes it has told to
end; nothing makes an agent register or load.

## 4. Findings

1. `arbiter_drain`: a request counts as in flight when it is queued, but only the
   arbiter loop, which awaits the drain, could hand it to the scheduler. A swap that
   meets a queued request waits until the shutdown.
2. `state_database_get`: a GET that reads while a PUT has truncated the file finds it
   empty and stores the default state, after and over the PUT.
3. `scheduler_harvest`: a token sampled ahead of an image decode is counted and
   decoded, but `advance_generating_phase` skips it, so the client never gets it. The
   same holds of pieces of a tool call and of the end of a section.

Also met while modelling, with no run of their own. Where a property has to make an
exception for one of these, it names exactly that case.

*Balancer.*
* Requests that arrive together may exceed `max_buffered_requests`: the count is checked
  and incremented in two steps.
* A second connection under a registered id replaces the live controller before it is
  refused, and its end removes the id; likewise the late end of a lost connection removes
  the entry of the agent's newer one.
* An agent that registers during a conversion may end up with the previous state.
* Versions of status snapshots are an `i32` that wraps; issues change without a version.
* A store whose `sync_all` fails has replaced the file and is not broadcast: the balancer
  goes on with the old state until the next PUT, and starts with the new one.
* The memory database broadcasts after it lets go of its lock, so two PUTs may be
  broadcast in the other order.
* `ToolCallParseFailed` and its like do not end a stream (`generated_token_result.rs:74-93`),
  so a Responses stream says `response.failed` and later `response.completed`.
* The Responses API skips `output_text` parts of echoed assistant messages, so earlier
  answers are lost to the model; the `call_id` of a function result is dropped; a
  `json_schema` format without reasoning effort `none` is always refused by the agent
  (`openai_responses_request_params.rs:112-118`, `resolve_grammar.rs:18`); `developer` is
  made `system` here and not in chat completions.
* Conversation parameters that do not validate close the whole inference socket.

*Agent.*
* `reset()` zeroes the slot count under live guards. A load that the shutdown cancels is
  marked as applied. `model_path` stays set after a failed load.
* The Hugging Face cache is asked for the default revision, whichever is desired; a file
  that did not exist is not asked for again until the issue is reset; the fix of
  `HuggingFaceStartedDownloading` compares a bare file name and never matches; a failed
  download leaves its progress shown. A failure to read metadata is reported as a missing
  chat template.
* A write left behind by a broken download stream may land after the next attempt has
  measured the file, and a resumed download may join two versions of a file.
* A stop sends `Done` without flushing the tool-call buffer; outcomes held back until the
  end-of-generation token are dropped; text of a user that contains the media marker
  upsets the correspondence of markers and images; a token that cannot be decoded leaves
  no issue.
* Errors inside the preparation and the acceptance of a request that leave through `?` are
  logged, and its client waits for the timeout (`prepare_conversation_history_request.rs:89`,
  `continuous_batch_scheduler/mod.rs:412-426`, `513`, `666`).
* The throughput meter is said to report zero once two seconds have passed without a token
  (`token_throughput_meter.rs:11-14`). The code (line 66) also wants the open window to be
  empty: a burst that ends inside a window keeps its last rate for as long as the agent is
  idle. `StaleIsZero` is about the other bursts.

*Clients.*
* A Rust request registered after the reader told the pending ones, and before the writer
  is gone, is never answered (`spawn_read_task.rs:102-114`, `connection.rs:87-96`).
* The Python client takes `ToolCallParsed` for the end (`inference_message.py:127-128`),
  does not know every kind of message and never sends `StopRespondingTo`.
* In the JavaScript client a frame for someone else is an error of every stream, and the
  close of the socket ends none.

*Screens.*
* A desktop runner that overlaps another may be left without anyone to stop it, and the
  `BalancerStarted` of a cancelled start may replace a new form.
* The prompt is asked again on every reconnect; the old answer is shown until the first
  frame of the new one; an error after reasoning leaves the page thinking.
* The model form does not bring back Hugging Face revisions with a slash, relative local
  paths, `Url` models on huggingface.co, or names that the URL parser rewrites: a space
  becomes `%20`, dots are resolved, and of a local path or a Hugging Face file everything
  from a `?` or `#` on is lost (`useAgentDesiredModelUrl.ts:51`). The answer to a PUT navigates to `/` whatever
  page is shown, and the last writer wins.

## 5. Proofs

Eight modules hold theorems. Each theorem is about every value of the constants that the
named `ASSUME` of its module admits; those say that bounds are natural numbers, that
`None`, `NotConfigured` and their like are not among the values they stand apart from,
and what a configuration always has (a slot, a version of a file, a state to store).

| Module | Theorems (the property a run checks in brackets) |
|---|---|
| `RequestProofs` | Dispatch: `TypeCorrect`, `SlotsConserved` (`SlotConservation`), `NeverOversubscribed` (`NoOversubscription`), `BufferIsCounted` (`BufferCounted`), `NoWakeupLost` (`NoLostWakeup`). Forwarding: `ForwardingIsSound`, `FinishedRequestsAreAnswered` (`Answered`), `ResponsesAreOwnAndInOrder` (`OwnResponsesInOrder`), `SlotIsHeld` (`SlotHeldWhileAgentWorks`), `ForwardingImplementsStream`. Both: `RequestsAreTyped` (`RequestsTypeOK`). Processes: `LifecycleIsSound`, `LivesEndCleanly` (`LifeIsSound`) |
| `DesiredStateProofs` | `BroadcastIsStored` (`KnownIsStored`), `PropagationIsSound`, `ConvertedStateIsTold` (`ConvertedIsTold`), `ArbiterIsSound`, `SwapsAreClean` (`SwapIsClean`), `DesiredStateIsTyped` (`DesiredStateTypeOK`) |
| `SchedulerProofs` | `SchedulerIsSound`, `AgentIsTyped` (`AgentTypeOK`), `CacheIsAlwaysTracked` (`CacheIsTracked`), `AnswersAreAlwaysWhole` (`AnswersAreWhole`) |
| `ModelProofs` | `DownloadIsSound`, `CachedModelsAreWhole` (`CachedModelIsWhole`), `ProgressIsReported`, `ModelsAreSound`, `StatusIsAlwaysTrue` (`StatusIsTrue`), `ModelsAreTyped` (`ModelsTypeOK`) |
| `BalancerProofs` | `BalancerIsTyped` (`BalancerTypeOK`), `SchemasAreClosed` (`SchemaIsClosed`) |
| `ClientProofs` | `ClientsAreSound`, `AnswersAreAlwaysFaithful` (`AnswerIsFaithful`) |
| `ScreenProofs` | `ModelIsReadBack`, `ScreensAreSound`, `ScreensAreAlwaysTrue` (`ScreensAreTrue`) |
| `PageProofs` | `PageIsSound`, `PageIsAlwaysTrue` (`PageIsTrue`) |

None of the properties is inductive alone. What the inductive invariants add:

**Dispatch.** `IInv`: what the pool and the references in flight may point to
(`PoolShape`, `ReferencesCreated`), what each place of a request implies
(`RequestShape`), that a candidate had capacity and keeps it unless the agent lowered
it (`CandidateHadCapacity`, for `NeverOversubscribed`: the compare-and-swap compares the
claims only), and what a scan under way has passed by (`ScanMissedNothing`): an agent
with capacity that was visited without success has a signal on its way. `NoWakeupLost`
is `ScanMissedNothing` at the place where the scan is over. `SlotsConserved` rests on
lemmas on how a claim and a release change the cardinality of `Claims(c)`.

**Forwarding.** `ForwardingInv`: what has not begun has left no trace at the client
(`NotBegun`) or the agent (`NotAtAgent`); while no drain was given up both queues hold
messages of the current use only (`OwnPipeline`, `QuietBetweenUses`), the request once and
before every response (`RequestIsFirst`), nothing after the last response (`DoneIsLast`), and the responses
numbered from the ones already received on (`Numbered`). The refinement maps each use to
a stream; a step of the balancer that delivers, ends or withdraws is a step of
`ResponseStream`, every other one stutters. `Stream!Spec` has no fairness: that every
stream ends is the run `serving`'s.

**Desired state.** In `StateDatabase`, the lock's holder is the one request inside
`store_schema` (`LockHeld`), what it has written so far (`HolderWrote`), a balancer
that is down has no request under way (`DownIsIdle`), and a file that differs from what is
known has what the last request, which failed, wrote (`KnownOrBehind`). In `Propagation`, an iteration is
under way for a state that is not converted, and nothing is left to send outside one
(`IterationShape`); it has told the agents it has passed by (`PassedIsTold`), and an agent
that registers apart from it has read what the holder still has (`InitialIsPublished`). In `AgentArbiter`, the count is exact
until a reset wipes it (`CountIsExact`), only a scheduler has active requests
(`ActiveIsScheduled`), a state is never lost between the reconciliation and the scheduler
(`StateIsKept`), and where `apply_state` stands says what is left (`ApplyShape`).

**Scheduler.** `SchedulerInv` is about where a request is: in one queue at most
(`QueuesAreDisjoint`), with a sequence id of its own (`PoolIsExact`), so that the cache of
a sequence follows its request (`CacheFollows`); when a batch is assembled nothing is left
to sample (`NothingIsOverwritten`); but for the harvest of finding 3, a request that
generates has sent what there was to send and has not reached its limit
(`TokensAreCounted`); and it ends once (`EndIsAnnounced`, `AnsweredOnce`). A batch is filled by a recursive function on
the active requests; that it is defined everywhere and keeps to `n_batch` is shown without
an induction schema, by the least index at which it would not (`LeastNatural`). The
theorem about the whole agent adds the meter's `WindowIsOpened`.

**Downloads.** `DownloadInv`: one attempt holds the lock (`LockIsExclusive`); unless a
write was overtaken, the next chunk of a stream is the one after the last of the partial
file (`StreamContinues`), and so is the write a broken attempt left behind
(`LeftoverContinues`), of which there is one (`LeftoverIsAlone`).

**Model loading.** `ModelLoadingInv` separates the writers of the status. Every step of
the reconciliation is a `SearchStep`, which touches nothing of the arbiter's and only
issues of the search, or a `PublishStep`, which may clear an issue of a load but makes the
arbiter apply anew. The signals say how far the thread has come and why it ended
(`ThreadShape`), so that a dropped one tells the arbiter which issue to register
(`LoadShape`, `IssuesExplain`); what has been wanted stays so (`NothingYet`), and only a
shutdown publishes a state without the model it wants (`OnlyCancelled`).

**Lifecycle.** `LifecycleInv`: before the manager runs there is nothing (`NothingBefore`),
only a server that is up, stopping or aborted has connections (`ServedByServers`), the
manager ends after its services and with an error if one of them failed or was aborted
(`ManagerIsLast`), and its result is what is handed on
(`ResultIsHandedOn`).

**Agent connection.** The types of `AgentConnection` hold a bound the code does not check:
how many messages of an agent are under way. `ConnectionInv`: a report is written while
there is room (`LoopShape`), a farewell once, and a reply for a question that has left the
queue towards the agent for good (`PastOn`), of which there are at most as many as
questions (`QueueIsBounded`), since a question is on its way once (`AskedIsSingle`). Versions
are bounded by the events that raise them (`StatusIsCounted`). For the endpoints
(`StreamsInv`), `PartsFit` is that `chunk_evenly_with_cap` makes no more parts than there
are documents.

**Schemas.** `SchemaInv` has the invariant of the worklist (`ClosureGoesOn`): the root, and
whatever a component that was found refers to, was found or is pending; all of these are
*reached*, that is in every set of names that holds the root and is closed under references;
and what was taken, together with what is pending, is no more than one and the references
of what was found. When the worklist is empty the components found are such a set and so
the least one (`ClosureIsDone`). The definitions are the components as rewritten, strict at
the pointers consumed so far (`DefinitionsFollow`), and a validator that was kept is strict
at all of its pointers (`ValidatorsAreStrict`); a root that failed before its schema was
handed to `validator_for` has a cause in the document (`FailureHasCause`). That `unique_strings` keeps each value once
is shown, like the batch of the scheduler, by the least index at which it would not.

**Clients.** `SocketInv`: every trace of a request, towards the balancer or back, is on the
connection its caller holds (`TracesAreHeld`); it is on its way or was delivered, never both
(`RequestIsSingle`); its frames under way continue what its channel holds, said with a
numbering of the wire because many requests share it (`FramesContinue`); an error is the
last in a channel (`NoErrorYet`); who is no longer pending has been told why
(`GoneIsTold`); and a request that was given up has its stop behind it in the queue
(`StopFollows`). `HttpInv` is about where a call stands when it fails. `HarnessInv`: the
stored state is the one that was put (`StoredFollows`), no process is lost track of
(`ProcessesAreKept`), and while nothing was lost what the watcher saw is so (`SeenIsSo`).

**Screens.** `DesktopInv`: unless runners have overlapped, the one of its kind that has not
posted its last message is the one whose token is kept (`OwnerIsPresent`), how far a task is
says what its thread does (`RunnerShape`), and what a screen needs to be shown
(`ScreenShape`). `AdminInv`: what each fetch, form and submission belongs to (`FetchShape`,
`FormShape`, `SubmissionShape`), and that a form holds what is wanted (`FormIsWanted`). The
last rests on a theorem of its own: `ModelIsReadBack`, that a model which is written as a
URI is read back as it was exactly if it is `Representable`, that is of none of the shapes
named in section 4, for every parser that keeps the assumption on the constants. So a form
that is opened on a representable model and submitted untouched stores that model, and what
a form submits is always representable, since it has been through the parser once.

**Prompt page.** `PageInv` carries two chains. An answer is shown by way of the
subscription, which is of the newest request alone (`NewestIsAsked`). The notice of the mode
goes over three hands: a watcher that waits and has seen the last version has read the mode
of that version (`WatcherIsCurrent`, `VersionsAreCounted`), and what was told last, on its
way or on the page, is what was read last (`NoticeFollows`). What runs has a connection and
an id under which it is stopped (`RunningHasPlace`, `HandlersAreSpawned`).

The larger inductive invariants (`ForwardingInv`, `SchedulerInv`, `ModelLoadingInv`) were
checked by TLC on the runs' instances before they were proved. What proving found in the models:

* A request that had just decoded its image could not be sampled: the scheduler sets
  `i_batch: Some(-1)` (`continuous_batch_scheduler/mod.rs:740`), and the model now does.
* The reference that `SchemaIsClosed` compares with left out a root that the document does
  not have; the code refuses it (`strict_chat_completion_schema.rs:126-128`), and a run now
  has such a document.
* The messages of `DesktopApp`, the conversions of `ModelUris` and the card of an agent had
  cases that overlapped or were left open outside the instances of the runs.

Only model-checked:

* All liveness, the liveness of `ResponseStream` included, and everything with `ENABLED`,
  which TLAPS 1.4.5 does not prove.
* `ConversationIsHandled`, with the types of `Generation`; `OpenAIIsCompatible`,
  `EmbeddingsAreWhole` and `ChunkingIsInvisible`. What they say is what folds, filters and
  concatenations over sequences come to (the pieces of an answer, the items of a
  conversation, the documents of the batches, the lines of a body): an induction over data,
  whose schema the installed provers cannot instantiate.

No module declares a recursive operator.

## 6. Not modelled

llama.cpp, the operating system, the network, the web framework and the service manager,
`hf_hub` and `jsonschema` are external: they are modelled by the outcomes the code handles.
Left out altogether: the memory database (a lock around an assignment), the cache directory
(a path from the environment), message types and their serialization, the text that chat
templates render, the conversion of the OpenAPI document from YAML, argument parsing,
layout and styles, and the fixtures and assertions of the tests.

## 7. What is left

1. The properties named above that need an induction over sequences.
2. The composition of `StateDatabase` and `Propagation` on one variable: a PUT that was
   acknowledged is what agents converge on, across a restart.
