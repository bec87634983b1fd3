------------------------------ MODULE MCModels ------------------------------
(***************************************************************************)
(* The way of a model into an agent: its download, and its loading.  A     *)
(* behaviour exercises one of them and the other stays at rest.            *)
(***************************************************************************)
EXTENDS Download, ModelLoading

VARIABLE part

ServerLengths == <<2, 3, 1>>

Hub(revision) == [source |-> "HuggingFace", name |-> "hub", revision |-> revision]
At(where, name) == [source |-> where, name |-> name, revision |-> "main"]

\* A model of the Hub at another revision with a local projection, an embedding
\* model behind a URL, a malformed URL, no model, and a local embedding model with
\* a template of its own and a projection of the Hub.
WantedStates ==
    {[model |-> Hub("v2"), projection |-> At("LocalToAgent", "projection"),
      chat_template_override |-> FALSE, enable_embeddings |-> FALSE],
     [model |-> At("Url", "server"), projection |-> NotConfigured,
      chat_template_override |-> FALSE, enable_embeddings |-> TRUE],
     [model |-> At("Url", "typo"), projection |-> NotConfigured,
      chat_template_override |-> FALSE, enable_embeddings |-> FALSE],
     [model |-> NotConfigured, projection |-> NotConfigured,
      chat_template_override |-> FALSE, enable_embeddings |-> FALSE],
     [model |-> At("LocalToAgent", "file"), projection |-> Hub("main"),
      chat_template_override |-> TRUE, enable_embeddings |-> TRUE]}

MalformedUrls == {At("Url", "typo")}

\* Every variable of the two parts has its type.
ModelsTypeOK == TypeOK /\ ModelLoadingTypeOK

ModelsInit == part \in {"download", "loading"} /\ Init /\ ModelLoadingInit

ModelsNext ==
    /\ UNCHANGED part
    /\ \/ part = "download" /\ Next /\ UNCHANGED modelLoadingVars
       \/ part = "loading" /\ ModelLoadingNext /\ UNCHANGED vars

\* A download's ticker retries a failed conversion, a response that was started is
\* delivered or fails (read_timeout), and a write ends.  The services of an agent
\* are tasks of one runtime and its loader is a thread: each goes on while it can.
\* The idle part is not asked to.
ModelsSpec ==
    /\ ModelsInit /\ [][ModelsNext]_<<part, vars, modelLoadingVars>>
    /\ \A a \in Agent : WF_vars(part = "download" /\ AgentStep(a))
    /\ WF_modelLoadingVars(part = "loading" /\ ResolutionStep /\ UNCHANGED sends)
    /\ WF_modelLoadingVars(part = "loading" /\ ApplyingStep /\ UNCHANGED sends)
    /\ WF_modelLoadingVars(part = "loading" /\ ThreadStep /\ UNCHANGED sends)
-----------------------------------------------------------------------------
\* What an agent's status says is so: the progress of a download
\* (set_download_status, reset_download), the reason a load failed, the model that
\* runs (await_startup_signals, register_fix, reset).
StatusIsTrue == ProgressIsTrue /\ StatusIsExplained

\* Once failures stop a model arrives: every agent of the host resolves its file,
\* and an agent applies the state wanted last or has said why it cannot (the
\* tickers of the reconciliation and of the arbiter, the removal of a stale partial
\* file, the release of the lock).
ModelArrives ==
    /\ part = "download" => EveryAgentResolves
    /\ part = "loading" => ModelIsServed
=============================================================================
