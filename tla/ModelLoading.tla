---------------------------- MODULE ModelLoading ----------------------------
(***************************************************************************)
(* How an agent gets from a desired state to a running model, and what it  *)
(* reports on the way.  The reconciliation service resolves the model and  *)
(* the multimodal projection of the desired state to files (Hugging Face,  *)
(* URL, local).  The arbiter spawns a scheduler thread that loads them and *)
(* awaits its startup signals.  All three write the one status: its issues,*)
(* its model path, its slots and the download it shows.                    *)
(*                                                                         *)
(* The bytes of a download are in Download, the requests that a swap of    *)
(* models waits for in AgentArbiter.                                       *)
(***************************************************************************)
EXTENDS Naturals, FiniteSets, Sequences

CONSTANTS
    Wanted,        \* desired states the balancer may set
    Malformed,     \* references whose URL does not parse or is not http(s)
    NotConfigured, \* no model, no projection, no state
    SlotsWanted,   \* desired_slots_total
    MaxWanted,     \* bound: how often the balancer sets a desired state
    MaxFailures    \* bound: how often a look-up, a download or a load fails

Sources == {"HuggingFace", "Url", "LocalToAgent"}

ASSUME ModelLoadingAssumption ==
    /\ \A w \in Wanted :
          /\ w.model = NotConfigured \/ w.model.source \in Sources
          /\ w.projection = NotConfigured \/ w.projection.source \in Sources
          /\ {w.chat_template_override, w.enable_embeddings} \subseteq BOOLEAN
    /\ NotConfigured \notin Wanted
    /\ SlotsWanted \in Nat \ {0} /\ MaxWanted \in Nat /\ MaxFailures \in Nat

VARIABLES
    wanted_rx,     \* agent_desired_state_rx
    wanted,        \* ReconciliationService.agent_desired_state
    is_converted,  \* is_converted_to_applicable_state
    resolving,     \* <<role, step>> of to_applicable_state, or <<"idle", "idle">>
    model_file,    \* the model's path, once it is resolved
    in_cache,      \* references whose file is in the cache of its source
    applicable_rx, \* the value in AgentApplicableStateHolder's channel
    is_changed,    \* the arbiter has not seen it
    applicable,    \* LlamaCppArbiterService.agent_applicable_state
    awaiting,      \* where the arbiter's loop is
    thread,        \* where the scheduler thread is
    signals,       \* the startup signals it has sent
    issues,        \* SlotAggregatedStatus.issues
    model_path,    \* SlotAggregatedStatus.model_path
    slots,         \* SlotAggregatedStatus.slots_total
    application,   \* state_application_status
    download,      \* the reference whose download the status shows
    halted,        \* the shutdown token
    sends,         \* how many desired states were set, for the bound
    failures,      \* how many failures there were, for the bound
    cause          \* history: why the last load ended

reconciliationVars == <<wanted_rx, wanted, is_converted, resolving, model_file, in_cache>>
statusVars == <<issues, model_path, slots, application, download>>
loadVars == <<applicable, awaiting, thread, signals, cause>>
modelLoadingVars == <<reconciliationVars, statusVars, loadVars, applicable_rx, is_changed,
                      halted, sends, failures>>

References == ({w.model : w \in Wanted} \cup {w.projection : w \in Wanted}) \ {NotConfigured}

\* The file a reference resolves to: a local path is its own, the others are
\* somewhere in a cache.  model_source/huggingface.rs asks the cache for the
\* default revision, whatever revision is desired.
Default(ref) == [ref EXCEPT !.revision = "main"]
File(ref) == IF ref.source = "LocalToAgent" THEN ref ELSE [ref EXCEPT !.source = "cache"]
Files == {File(ref) : ref \in References} \cup {File(Default(ref)) : ref \in References}

UrlIssues == {"CacheCannotAcquireLock", "CacheDirectoryIsNotWritable", "CacheStorageIsFull",
              "DownloadInterrupted", "DownloadServerDeniedAccess", "DownloadServerErrored",
              "DownloadServerIsUnreachable", "DownloadServerRejectedRequest",
              "DownloadUrlIsMalformed", "ModelCacheIsCorrupted", "ModelDoesNotExistAtUrl"}
HubIssues == {"HuggingFaceModelDoesNotExist", "HuggingFacePermissions"}

Issue(name, about) == [issue |-> name, of |-> about]
Fix(name, about) == [fix |-> name, of |-> about]
SlotIssues == {Issue("SlotCannotStart", i) : i \in 0 .. SlotsWanted - 1}

\* A cache directory that cannot be read or written, by the kind of the error.
CacheFailure(ref) ==
    {Issue(name, ref) :
        name \in {"CacheDirectoryIsNotWritable", "CacheStorageIsFull", "ModelCacheIsCorrupted"}}

\* What a download that fails is reported as.
AgentIssueFor(ref) ==
    {Issue(name, ref) : name \in UrlIssues \ {"CacheCannotAcquireLock", "DownloadUrlIsMalformed"}}

CanFix(fix, issue) ==
    \/ /\ fix.fix = "ModelStateIsReconciled"
       /\ issue.issue \in UrlIssues \cup HubIssues \cup
            {"ChatTemplateDoesNotCompile", "HuggingFaceCannotAcquireLock",
             "UnableToFindChatTemplate"}
    \/ fix.fix = "MultimodalProjectionIsLoaded"
       /\ issue.issue = "MultimodalProjectionCannotBeLoaded"
    \/ /\ \/ fix.fix = "ChatTemplateIsCompiled" /\ issue.issue = "ChatTemplateDoesNotCompile"
          \/ fix.fix \in {"HuggingFaceDownloadedModel", "HuggingFaceStartedDownloading"}
             /\ issue.issue \in HubIssues \cup {"HuggingFaceCannotAcquireLock"}
          \/ fix.fix = "MultimodalProjectionIsLoaded"
             /\ issue.issue \in HubIssues \cup {"ModelFileDoesNotExist"}
          \/ fix.fix = "ModelIsLoaded" /\ issue.issue = "ModelCannotBeLoaded"
          \/ fix.fix = "SlotStarted" /\ issue.issue = "SlotCannotStart"
          \/ fix.fix = "ModelChatTemplateIsLoaded" /\ issue.issue = "UnableToFindChatTemplate"
          \/ fix.fix \in {"ModelDownloadStarted", "ModelDownloadCompleted"}
             /\ issue.issue \in UrlIssues
       /\ fix.of = issue.of

RegisterIssue(issue) == issues' = issues \cup {issue}
RegisterFix(fix) == issues' = {issue \in issues : ~CanFix(fix, issue)}

\* An AgentApplicableState: a desired state with its files.
Applicables ==
    [state : Wanted, model : Files \cup {NotConfigured}, projection : Files \cup {NotConfigured}]
        \cup {NotConfigured}

\* What is not configured is no file and no state.
ASSUME NotConfiguredAssumption ==
    /\ NotConfigured \notin Files
    /\ NotConfigured \notin [state : Wanted, model : Files \cup {NotConfigured},
                             projection : Files \cup {NotConfigured}]

ResolutionSteps == {"look", "ask", "download", "lock"}
ThreadSteps == {"none", "load", "metadata", "template", "compile", "path", "projection",
                "tokens", "context", "running", "ended"}

\* Every variable has its type.
ModelLoadingTypeOK ==
    /\ wanted_rx \in Seq(Wanted) /\ Len(wanted_rx) <= MaxWanted
    /\ wanted \in Wanted \cup {NotConfigured}
    /\ is_converted \in BOOLEAN
    /\ resolving \in ({"model", "projection"} \X ResolutionSteps)
                     \cup {<<"idle", "idle">>, <<"done", "done">>}
    /\ model_file \in Files \cup {NotConfigured}
    /\ in_cache \subseteq References
    /\ applicable_rx \in Applicables /\ applicable \in Applicables
    /\ is_changed \in BOOLEAN
    /\ awaiting \in {"idle", "apply", "model", "template", "warm", "cancelled", "stopped"}
    /\ thread \in ThreadSteps
    /\ signals \subseteq {"model", "template", "skipped", "warm"}
    /\ \A i \in issues :
          /\ i.issue \in UrlIssues => i.of.source = "Url"
          /\ i.issue \in HubIssues => i.of.source = "HuggingFace"
    /\ model_path \in Files \cup {NotConfigured}
    /\ slots \in {0, SlotsWanted}
    /\ application \in {"Applied", "AttemptedAndRetrying", "Fresh", "Stuck"}
    /\ download \in References \cup {NotConfigured}
    /\ halted \in BOOLEAN
    /\ sends \in 0 .. MaxWanted /\ failures \in 0 .. MaxFailures

ModelLoadingInit ==
    /\ wanted_rx = <<>> /\ wanted = NotConfigured /\ is_converted = FALSE
    /\ resolving = <<"idle", "idle">> /\ model_file = NotConfigured /\ in_cache = {}
    /\ applicable_rx = NotConfigured /\ is_changed = FALSE /\ applicable = NotConfigured
    /\ awaiting = "idle" /\ thread = "none" /\ signals = {} /\ cause = "none"
    /\ issues = {} /\ model_path = NotConfigured /\ slots = 0 /\ application = "Fresh"
    /\ download = NotConfigured
    /\ halted = FALSE /\ sends = 0 /\ failures = 0

CanFail == failures < MaxFailures /\ failures' = failures + 1
-----------------------------------------------------------------------------
\* The balancer sets a desired state.
SendWanted(w) ==
    /\ ~halted
    /\ sends < MaxWanted
    /\ sends' = sends + 1
    /\ wanted_rx' = Append(wanted_rx, w)
    /\ UNCHANGED <<wanted, is_converted, resolving, model_file, in_cache, statusVars, loadVars,
                   applicable_rx, is_changed, halted, failures>>

\* The shutdown token is cancelled.
Halt ==
    /\ ~halted
    /\ halted' = TRUE
    /\ UNCHANGED <<reconciliationVars, statusVars, loadVars, applicable_rx, is_changed, failures>>
-----------------------------------------------------------------------------
\* The reconciliation service: one conversion at a time, awaited in its loop.

Role == resolving[1]
Reference == IF Role = "model" THEN wanted.model ELSE wanted.projection
Resolving(source, step) ==
    /\ Role \in {"model", "projection"}
    /\ Reference # NotConfigured
    /\ Reference.source = source
    /\ resolving[2] = step

ReceiveWanted ==
    /\ resolving = <<"idle", "idle">> /\ wanted_rx # <<>> /\ ~halted
    /\ wanted' = Head(wanted_rx)
    /\ wanted_rx' = Tail(wanted_rx)
    /\ is_converted' = FALSE
    /\ resolving' = <<"model", "look">>
    /\ UNCHANGED <<model_file, in_cache, statusVars, loadVars, applicable_rx, is_changed, halted,
                   failures>>

\* The ticker tries again what is not converted; without a desired state there
\* is nothing to resolve.
RetryConversionTick ==
    /\ resolving = <<"idle", "idle">> /\ ~is_converted /\ ~halted
    /\ resolving' = IF wanted = NotConfigured THEN <<"done", "done">> ELSE <<"model", "look">>
    /\ UNCHANGED <<wanted_rx, wanted, is_converted, model_file, in_cache, statusVars, loadVars,
                   applicable_rx, is_changed, halted, failures>>

\* Publishes the applicable state: what is wanted, with its files.
SetAgentApplicableState(projection) ==
    /\ RegisterFix(Fix("ModelStateIsReconciled", NotConfigured))
    /\ applicable_rx' = IF wanted = NotConfigured THEN NotConfigured
                        ELSE [state |-> wanted, model |-> model_file,
                              projection |-> projection]
    /\ is_changed' = TRUE
    /\ is_converted' = TRUE
    /\ resolving' = <<"idle", "idle">>
    /\ model_file' = NotConfigured

NothingWanted ==
    /\ resolving = <<"done", "done">>
    /\ SetAgentApplicableState(NotConfigured)
    /\ UNCHANGED <<wanted_rx, wanted, in_cache, model_path, slots, application, download, loadVars,
                   halted, failures>>

\* A file was found (or none is configured, or the search was cancelled): the
\* projection comes after the model, the applicable state after the projection.
Resolved(file, fix, shows) ==
    /\ download' = shows
    /\ \/ /\ Role = "model"
          /\ RegisterFix(fix)
          /\ resolving' = <<"projection", "look">>
          /\ model_file' = file
          /\ UNCHANGED <<applicable_rx, is_changed, is_converted>>
       \/ /\ Role = "projection"
          /\ SetAgentApplicableState(file)
    /\ UNCHANGED <<wanted_rx, wanted, model_path, slots, application, loadVars, halted>>

\* The conversion ends with an error, which is logged; the issue, if one is
\* registered, is what the agent reports.
Unresolved(registered, shows) ==
    /\ issues' = issues \cup registered
    /\ download' = shows
    /\ resolving' = <<"idle", "idle">>
    /\ model_file' = NotConfigured
    /\ UNCHANGED <<wanted_rx, wanted, is_converted, in_cache, model_path, slots, application,
                   loadVars, applicable_rx, is_changed, halted>>

NoFix == Fix("none", NotConfigured)

ResolveNotConfigured ==
    /\ Role \in {"model", "projection"} /\ Reference = NotConfigured
    /\ Resolved(NotConfigured, NoFix, download)
    /\ UNCHANGED <<in_cache, failures>>

LocalFileExists ==
    /\ Resolving("LocalToAgent", "look")
    /\ Resolved(File(Reference), NoFix, download)
    /\ UNCHANGED <<in_cache, failures>>

\* A missing file is reported, one that cannot be looked at is not.
LocalFileMissing ==
    /\ Resolving("LocalToAgent", "look") /\ CanFail
    /\ \E registered \in
          {{}, {Issue(IF Role = "model" THEN "ModelFileDoesNotExist"
                      ELSE "MultimodalProjectionCannotBeLoaded", File(Reference))}} :
          Unresolved(registered, download)

\* The Hub is not asked again for what it did not have.
HubRefused ==
    /\ Resolving("HuggingFace", "look")
    /\ Issue("HuggingFaceModelDoesNotExist", Reference) \in issues
    /\ Unresolved({}, download)
    /\ UNCHANGED failures

HubCached ==
    /\ Resolving("HuggingFace", "look")
    /\ Issue("HuggingFaceModelDoesNotExist", Reference) \notin issues
    /\ Default(Reference) \in in_cache
    /\ Resolved(File(Default(Reference)), NoFix, NotConfigured)
    /\ UNCHANGED <<in_cache, failures>>

HubAsked ==
    /\ Resolving("HuggingFace", "look")
    /\ Issue("HuggingFaceModelDoesNotExist", Reference) \notin issues
    /\ Default(Reference) \notin in_cache
    /\ resolving' = <<Role, "ask">>
    /\ UNCHANGED <<wanted_rx, wanted, is_converted, model_file, in_cache, statusVars, loadVars,
                   applicable_rx, is_changed, halted, failures>>

\* The library's progress: the fix names the file without its repository, and
\* no issue is about such a path.
HubDownloadStarts ==
    /\ Resolving("HuggingFace", "ask")
    /\ RegisterFix(Fix("HuggingFaceStartedDownloading",
                      [Reference EXCEPT !.source = "filename"]))
    /\ download' = Reference
    /\ resolving' = <<Role, "download">>
    /\ UNCHANGED <<wanted_rx, wanted, is_converted, model_file, in_cache, model_path, slots,
                   application, loadVars, applicable_rx, is_changed, halted, failures>>

HubDownloaded ==
    /\ Resolving("HuggingFace", "download")
    /\ in_cache' = in_cache \cup {Reference}
    /\ Resolved(File(Reference), Fix("HuggingFaceDownloadedModel", Reference), NotConfigured)
    /\ UNCHANGED failures

\* The metadata is asked for and the lock taken before a download starts.  One
\* that breaks later has no issue of its own and leaves its progress on show.
HubFails ==
    /\ CanFail
    /\ \/ /\ Resolving("HuggingFace", "ask")
          /\ \E registered \in {{}} \cup {{Issue(name, Reference)} : name \in HubIssues} :
                Unresolved(registered, download)
       \/ Resolving("HuggingFace", "download") /\ Unresolved({}, download)

HubLocked ==
    /\ Resolving("HuggingFace", "ask") /\ CanFail
    /\ RegisterIssue(Issue("HuggingFaceCannotAcquireLock", Reference))
    /\ resolving' = <<Role, "lock">>
    /\ UNCHANGED <<wanted_rx, wanted, is_converted, model_file, in_cache, model_path, slots,
                   application, download, loadVars, applicable_rx, is_changed, halted>>

\* The retry after a lock is the ticker's: the wait ends with an error.
WaitForDownloadLockRetry ==
    /\ Resolving("HuggingFace", "lock")
    /\ Unresolved({}, download)
    /\ UNCHANGED failures

UrlMalformed ==
    /\ Resolving("Url", "look") /\ Reference \in Malformed
    /\ Unresolved({Issue("DownloadUrlIsMalformed", Reference)}, NotConfigured)
    /\ UNCHANGED failures

UrlCached ==
    /\ Resolving("Url", "look") /\ Reference \in in_cache \ Malformed
    /\ Resolved(File(Reference), Fix("ModelDownloadCompleted", Reference), NotConfigured)
    /\ UNCHANGED <<in_cache, failures>>

\* The cache fails, or another agent of the host holds the lock.
UrlUnavailable ==
    /\ Resolving("Url", "look") /\ Reference \notin Malformed /\ CanFail
    /\ \E issue \in CacheFailure(Reference) \cup {Issue("CacheCannotAcquireLock", Reference)} :
          /\ issue.issue = "CacheCannotAcquireLock" => Reference \notin in_cache
          /\ Unresolved({issue}, NotConfigured)

UrlStarted ==
    /\ Resolving("Url", "look") /\ Reference \notin in_cache \cup Malformed
    /\ RegisterFix(Fix("ModelDownloadStarted", Reference))
    /\ download' = Reference
    /\ resolving' = <<Role, "download">>
    /\ UNCHANGED <<wanted_rx, wanted, is_converted, model_file, in_cache, model_path, slots,
                   application, loadVars, applicable_rx, is_changed, halted, failures>>

UrlFinished ==
    /\ Resolving("Url", "download")
    /\ in_cache' = in_cache \cup {Reference}
    /\ Resolved(File(Reference), Fix("ModelDownloadCompleted", Reference), NotConfigured)
    /\ UNCHANGED failures

UrlFails ==
    /\ Resolving("Url", "look") \/ Resolving("Url", "download")
    /\ Reference \notin in_cache \cup Malformed /\ CanFail
    /\ \E issue \in AgentIssueFor(Reference) : Unresolved({issue}, NotConfigured)

\* A shutdown ends a download and the wait for a lock: the file counts as not
\* configured, and the progress stays on show.
ResolutionCancelled ==
    /\ halted
    /\ Role \in {"model", "projection"} /\ resolving[2] # "look"
    /\ Resolved(NotConfigured, NoFix, download)
    /\ UNCHANGED <<in_cache, failures>>
-----------------------------------------------------------------------------
\* The arbiter's loop.  The shutdown comes first in its select.

BeginApplying(state) ==
    /\ awaiting = "idle" /\ ~halted
    /\ awaiting' = "apply"
    /\ applicable' = state

TakeApplicableState ==
    /\ is_changed
    /\ BeginApplying(applicable_rx)
    /\ is_changed' = FALSE
    /\ application' = "Fresh"
    /\ UNCHANGED <<reconciliationVars, issues, model_path, slots, download, thread, signals,
                   cause, applicable_rx, halted, failures>>

RetryApplyingTick ==
    /\ application \in {"AttemptedAndRetrying", "Fresh", "Stuck"}
    /\ BeginApplying(applicable)
    /\ application' = IF application = "AttemptedAndRetrying" THEN "Stuck"
                      ELSE "AttemptedAndRetrying"
    /\ UNCHANGED <<reconciliationVars, issues, model_path, slots, download, thread, signals,
                   cause, applicable_rx, is_changed, halted, failures>>

\* The thread of the last state is gone; with a state, the status is reset and a
\* thread is spawned for its model.
ApplyState ==
    /\ awaiting = "apply"
    /\ signals' = {} /\ cause' = "none"
    /\ \/ /\ applicable = NotConfigured
          /\ UNCHANGED <<issues, model_path, slots>>
       \/ /\ applicable # NotConfigured
          /\ issues' = {} /\ model_path' = NotConfigured /\ slots' = 0
    /\ IF applicable # NotConfigured /\ applicable.model # NotConfigured
       THEN awaiting' = "model" /\ thread' = "load" /\ UNCHANGED application
       ELSE awaiting' = "idle" /\ thread' = "none" /\ application' = "Applied"
    /\ UNCHANGED <<reconciliationVars, download, applicable, applicable_rx, is_changed,
                   halted, failures>>

loopVars == <<reconciliationVars, download, applicable, thread, signals, cause,
              applicable_rx, is_changed, halted, failures>>

\* A signal that was dropped is one whose thread has ended without sending it.
ModelLoadedSignal ==
    /\ awaiting = "model"
    /\ \/ "model" \in signals /\ RegisterFix(Fix("ModelIsLoaded", applicable.model))
       \/ /\ thread = "ended" /\ "model" \notin signals
          /\ RegisterIssue(Issue("ModelCannotBeLoaded", applicable.model))
    /\ awaiting' = "template"
    /\ UNCHANGED <<loopVars, model_path, slots, application>>

\* Faulty variant: a dropped signal is a missing template, whether
\* or not the model was loaded.
ChatTemplateLoadedSignalUnchecked ==
    /\ awaiting = "template"
    /\ \/ /\ "template" \in signals
          /\ RegisterFix(Fix("ModelChatTemplateIsLoaded", applicable.model))
       \/ "skipped" \in signals /\ UNCHANGED issues
       \/ /\ thread = "ended" /\ signals \cap {"template", "skipped"} = {}
          /\ RegisterIssue(Issue("UnableToFindChatTemplate", applicable.model))
    /\ awaiting' = "warm"
    /\ UNCHANGED <<loopVars, model_path, slots, application>>

ChatTemplateLoadedSignal ==
    /\ awaiting = "template"
    /\ \/ /\ "template" \in signals
          /\ RegisterFix(Fix("ModelChatTemplateIsLoaded", applicable.model))
       \/ "skipped" \in signals /\ UNCHANGED issues
       \/ /\ thread = "ended" /\ signals \cap {"template", "skipped"} = {}
          /\ IF Issue("ModelCannotBeLoaded", applicable.model) \in issues
             THEN UNCHANGED issues
             ELSE RegisterIssue(Issue("UnableToFindChatTemplate", applicable.model))
    /\ awaiting' = "warm"
    /\ UNCHANGED <<loopVars, model_path, slots, application>>

\* The scheduler runs: its slots are counted and the state is applied.
AgentWarmSignal ==
    /\ awaiting = "warm" /\ "warm" \in signals
    /\ slots' = SlotsWanted
    /\ issues' = {issue \in issues :
                     \A i \in 0 .. SlotsWanted - 1 : ~CanFix(Fix("SlotStarted", i), issue)}
    /\ application' = "Applied"
    /\ awaiting' = "idle"
    /\ UNCHANGED <<loopVars, model_path>>

SpawnError ==
    /\ awaiting = "warm" /\ thread = "ended" /\ "warm" \notin signals
    /\ awaiting' = "idle"
    /\ UNCHANGED <<loopVars, statusVars>>

\* A shutdown ends the wait for the signals; the thread is joined, and ends at
\* the next signal it cannot send or when it takes the shutdown command.
SpawnIsCancelled ==
    /\ halted /\ awaiting \in {"model", "template", "warm"}
    /\ awaiting' = "cancelled"
    /\ UNCHANGED <<loopVars, statusVars>>

SchedulerJoined ==
    /\ awaiting = "cancelled" /\ thread = "ended"
    /\ application' = "Applied"
    /\ awaiting' = "idle"
    /\ UNCHANGED <<loopVars, issues, model_path, slots>>

\* Between two rounds of its loop the arbiter sees the shutdown and tears the
\* thread down.
ArbiterEnds ==
    /\ halted /\ awaiting = "idle"
    /\ awaiting' = "stopped"
    /\ thread' = IF thread = "none" THEN "none" ELSE "ended"
    /\ UNCHANGED <<reconciliationVars, statusVars, applicable, signals, cause, applicable_rx,
                   is_changed, halted, failures>>
-----------------------------------------------------------------------------
\* The scheduler thread.

threadVars == <<reconciliationVars, slots, application, download, applicable, awaiting,
                applicable_rx, is_changed, halted>>

ThreadEnds(why, registered) ==
    /\ CanFail
    /\ thread' = "ended" /\ cause' = why
    /\ issues' = issues \cup registered
    /\ UNCHANGED <<threadVars, model_path, signals>>

\* The receivers of the signals are dropped when the wait for them is.
SendStartupSignal(signal, next) ==
    IF awaiting \in {"model", "template", "warm"}
    THEN signals' = signals \cup {signal} /\ thread' = next /\ UNCHANGED cause
    ELSE thread' = "ended" /\ cause' = "cancelled" /\ UNCHANGED signals

\* The backend, the devices and the model.
LoadModel ==
    /\ thread = "load"
    /\ \/ ThreadEnds("model", {})
       \/ /\ SendStartupSignal("model", "metadata")
          /\ UNCHANGED <<threadVars, issues, model_path, failures>>

LoadMetadata ==
    /\ thread = "metadata"
    /\ \/ ThreadEnds("template", {})
       \/ /\ thread' = "template"
          /\ UNCHANGED <<threadVars, issues, model_path, signals, cause, failures>>

\* An embedding model needs no chat template; the others have an override or
\* their own.
LoadChatTemplate ==
    /\ thread = "template"
    /\ \/ /\ applicable.state.enable_embeddings /\ ~applicable.state.chat_template_override
          /\ SendStartupSignal("skipped", "path")
          /\ UNCHANGED <<threadVars, issues, model_path, failures>>
       \/ /\ ~applicable.state.enable_embeddings /\ ~applicable.state.chat_template_override
          /\ ThreadEnds("template", {})
       \/ /\ ~applicable.state.enable_embeddings \/ applicable.state.chat_template_override
          /\ SendStartupSignal("template", "compile")
          /\ UNCHANGED <<threadVars, issues, model_path, failures>>

CompileChatTemplate ==
    /\ thread = "compile"
    /\ \/ ThreadEnds("compile", {Issue("ChatTemplateDoesNotCompile", applicable.model)})
       \/ /\ RegisterFix(Fix("ChatTemplateIsCompiled", applicable.model))
          /\ thread' = "path"
          /\ UNCHANGED <<threadVars, model_path, signals, cause, failures>>

SetModelPath ==
    /\ thread = "path"
    /\ model_path' = applicable.model
    /\ thread' = "projection"
    /\ UNCHANGED <<threadVars, issues, signals, cause, failures>>

LoadProjection ==
    /\ thread = "projection"
    /\ \/ /\ applicable.projection # NotConfigured
          /\ ThreadEnds("projection",
                {Issue("MultimodalProjectionCannotBeLoaded", applicable.projection)})
       \/ /\ thread' = "tokens"
          /\ IF applicable.projection = NotConfigured THEN UNCHANGED issues
             ELSE RegisterFix(Fix("MultimodalProjectionIsLoaded", applicable.projection))
          /\ UNCHANGED <<threadVars, model_path, signals, cause, failures>>

\* The special tokens cannot be decoded: an error without an issue.
DecodeSpecialTokens ==
    /\ thread = "tokens"
    /\ \/ ThreadEnds("tokens", {})
       \/ /\ thread' = "context"
          /\ UNCHANGED <<threadVars, issues, model_path, signals, cause, failures>>

\* The context, the warmup (its failures are only logged) and the last signal.
CreateContext ==
    /\ thread = "context"
    /\ \/ ThreadEnds("context", SlotIssues)
       \/ /\ SendStartupSignal("warm", "running")
          /\ UNCHANGED <<threadVars, issues, model_path, failures>>

TakeShutdownCommand ==
    /\ thread = "running" /\ awaiting = "cancelled"
    /\ thread' = "ended"
    /\ UNCHANGED <<threadVars, issues, model_path, signals, cause, failures>>
-----------------------------------------------------------------------------
HubStep ==
    \/ HubRefused \/ HubCached \/ HubAsked \/ HubDownloadStarts \/ HubDownloaded
    \/ HubFails \/ HubLocked \/ WaitForDownloadLockRetry

UrlStep ==
    UrlMalformed \/ UrlCached \/ UrlUnavailable \/ UrlStarted \/ UrlFinished \/ UrlFails

ResolutionStep ==
    \/ ReceiveWanted \/ RetryConversionTick \/ NothingWanted
    \/ ResolveNotConfigured \/ LocalFileExists \/ LocalFileMissing
    \/ HubStep \/ UrlStep \/ ResolutionCancelled

ApplyingStep ==
    \/ TakeApplicableState \/ RetryApplyingTick \/ ApplyState
    \/ ModelLoadedSignal \/ ChatTemplateLoadedSignal \/ AgentWarmSignal \/ SpawnError
    \/ SpawnIsCancelled \/ SchedulerJoined \/ ArbiterEnds

ThreadStep ==
    \/ LoadModel \/ LoadMetadata \/ LoadChatTemplate \/ CompileChatTemplate \/ SetModelPath
    \/ LoadProjection \/ DecodeSpecialTokens \/ CreateContext \/ TakeShutdownCommand

ModelLoadingNext ==
    \/ \E w \in Wanted : SendWanted(w)
    \/ (Halt \/ ResolutionStep \/ ApplyingStep \/ ThreadStep) /\ UNCHANGED sends
-----------------------------------------------------------------------------
\* Nothing more is wanted and what is wanted last has been published and taken.
Settled ==
    awaiting = "idle" /\ ~is_changed /\ is_converted /\ wanted_rx = <<>>

\* What the issues say of a load that ended for a reason.
Explanation(why) ==
    CASE why = "model" -> {Issue("ModelCannotBeLoaded", applicable.model)}
      [] why = "template" -> {Issue("UnableToFindChatTemplate", applicable.model)}
      [] why = "compile" -> {Issue("ChatTemplateDoesNotCompile", applicable.model)}
      [] why = "projection" -> {Issue("MultimodalProjectionCannotBeLoaded", applicable.projection)}
      [] why = "context" -> SlotIssues
      [] OTHER -> {}

LoadIssues ==
    {issue \in issues :
        issue.issue \in {"ModelCannotBeLoaded", "UnableToFindChatTemplate",
                         "ChatTemplateDoesNotCompile", "SlotCannotStart"}}

\* When a load has failed and no other state waits, the issues name its cause
\* and, of the causes only a load can have, no other: the arbiter, its thread
\* and the reconciliation write and clear them concurrently
\* (await_startup_signals, register_fix).
FailureIsExplained ==
    awaiting = "idle" /\ ~is_changed /\ application # "Applied" /\ thread = "ended"
        => /\ Explanation(cause) \subseteq issues
           /\ LoadIssues \subseteq Explanation(cause)

\* When the state wanted last is applied, no issue is left of the failures on
\* the way, of this or of another model (the reset of apply_state; the fix that
\* is registered after a conversion leaves some of them).
AppliedHasNoIssue == Settled /\ ~halted /\ application = "Applied" => issues = {}

\* A running scheduler is reported with its model and its slots.
RunningIsReported ==
    awaiting = "idle" /\ thread = "running"
        => model_path = applicable.model /\ slots = SlotsWanted /\ application = "Applied"

\* A model whose search a shutdown has cancelled counts as not configured: the
\* arbiter never applies such a state.
CancelledIsNotApplied ==
    applicable # NotConfigured /\ applicable.model = NotConfigured
        => applicable.state.model = NotConfigured

\* The status on an agent's card in the desktop application: the download that is
\* shown, the model that is missing, or how far the state is applied.
ViewAgentCard ==
    IF download # NotConfigured THEN "Downloading"
    ELSE IF model_path = NotConfigured THEN "Waiting for model"
    ELSE application

\* A card says OK only of an agent that runs its model on all its slots, with the
\* issues of the load behind it: the three writers of the status never show
\* the path of one state beside the outcome of another.
CardIsTrue ==
    ViewAgentCard = "Applied" /\ ~halted
        => thread = "running" /\ slots = SlotsWanted /\ model_path = applicable.model
           /\ LoadIssues = {}

\* The agent's status tells the truth about a model that is loaded or fails to.
StatusIsExplained ==
    /\ FailureIsExplained /\ AppliedHasNoIssue /\ RunningIsReported /\ CancelledIsNotApplied
    /\ CardIsTrue

\* The Hub has refused the model or the projection wanted, and is not asked again;
\* or its URL is malformed.
IsHopeless ==
    \E ref \in {wanted.model, wanted.projection} \ {NotConfigured} :
        ref \in Malformed \/ Issue("HuggingFaceModelDoesNotExist", ref) \in issues

\* Once failures stop, what is wanted last is applied, without an issue left, or
\* cannot be had (the tickers of the two services).
ModelIsServed ==
    <>[](halted \/ (wanted # NotConfigured /\ IsHopeless)
         \/ (Settled /\ application = "Applied" /\ issues = {}))
=============================================================================
