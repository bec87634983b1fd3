----------------------------- MODULE AdminPages -----------------------------
(***************************************************************************)
(* The other pages of the web admin panel: the dashboard, which follows    *)
(* the agents through an event source and opens dialogs on them, and the   *)
(* form that loads the desired state, edits it and puts it back.  One page *)
(* is shown at a time; what a component keeps is gone with it, while what  *)
(* it asked the balancer for may be answered after.                        *)
(***************************************************************************)
EXTENDS ModelUris, FiniteSets

CONSTANTS
    Agents,
    SavedModels,     \* what the balancer may have: pairs of a model and a projection
    Typed,           \* what the user may type as a URI
    MaxChanges,      \* bound: changes of the agents and of the desired state by others
    MaxFetches,      \* bound: requests of useFetchJson
    MaxPuts,         \* bound: submissions
    MaxEdits,        \* bound: edits, submissions, visits and dialogs of the user
    MaxFaults        \* bound: broken streams, events that do not parse

ASSUME AdminPagesAssumption ==
    /\ Agents # {}
    /\ \A models \in SavedModels : models[1] \in DesiredModel /\ models[2] \in DesiredModel
    /\ \A uri \in Typed : uri \in Uri
    /\ {MaxChanges, MaxFetches, MaxEdits, MaxPuts, MaxFaults} \subseteq Nat

VARIABLES
    \* the balancer
    fleet,           \* per agent: is it registered, has it issues, an own template
    desired,         \* the balancer's desired state
    changes, faults,
    \* Home
    page,            \* "/", "/model", "/prompt"
    \* useEventSourceUpdates of the dashboard
    stream,          \* its state
    wireUp,          \* the event source has a connection
    events,          \* snapshots on their way, or "garbage"
    listed,          \* the snapshot that is shown
    dialog,          \* the dialog on an agent
    \* useFetchJson
    fetches,         \* per request: what for, of which agent, its status and value
    mounted,         \* the request of the component that is mounted, 0 for none
    fetchState,      \* its state
    \* ChangeModelForm and its contexts
    form,            \* what the form has
    editing,         \* the template editor is open
    temporary,       \* temporaryContent
    edits,
    wanted,          \* history: what was loaded, with what the user changed since
    puts             \* submissions: body and status

fleetVars == <<fleet, desired, changes, faults>>
dashboardVars == <<stream, wireUp, events, listed, dialog>>
fetchVars == <<fetches, mounted, fetchState>>
formVars == <<form, editing, temporary, edits, wanted>>
adminVars == <<fleet, desired, changes, faults, page, stream, wireUp, events, listed, dialog,
               fetches, mounted, fetchState, form, editing, temporary, edits, wanted, puts>>

Flag == {"registered", "issues", "override"}
Parameter == {"n_batch", "enable_embeddings"}
UriField == {"model", "projection"}
NoDialog == [kind |-> "none", agent |-> CHOOSE a \in Agents : TRUE]
Fetch == 1 .. MaxFetches
Put == 1 .. MaxPuts

\* null and an empty template show alike.
EmptyState == [model |-> NoModel, projection |-> NoModel, template |-> 0, useTemplate |-> FALSE,
               parameters |-> [p \in Parameter |-> 0]]
EmptyForm == [uri |-> [f \in UriField |-> NoUri], template |-> 0, useTemplate |-> FALSE,
              parameters |-> [p \in Parameter |-> 0]]
NoFetch == [for |-> "none", agent |-> NoDialog.agent, status |-> "none", value |-> EmptyState]
NoPut == [body |-> EmptyState, status |-> "none"]

AdminPagesTypeOK ==
    /\ fleet \in [Agents -> SUBSET Flag]
    /\ page \in {"/", "/model", "/prompt"}
    /\ stream \in {"initial", "connected", "connectionError", "deserializationError", "dataSnapshot"}
    /\ wireUp \in BOOLEAN /\ editing \in BOOLEAN
    /\ Len(events) <= MaxChanges + MaxFaults + 1
    /\ listed \in [Agents -> SUBSET Flag]
    /\ dialog.agent \in Agents
    /\ mounted \in 0 .. MaxFetches
    /\ fetchState \in {"loading", "ok", "error"}
    /\ {temporary, form.template, desired.template} \subseteq {0, 1}
    /\ \A f \in Fetch : fetches[f].status \in {"none", "sent", "ok", "failed", "over"}
    /\ \A p \in Put : puts[p].status \in {"none", "sent", "ok", "failed", "over"}

AdminPagesInit ==
    /\ fleet = [a \in Agents |-> Flag]
    /\ desired \in {[EmptyState EXCEPT !.model = m[1], !.projection = m[2],
                                              !.useTemplate = m[1].kind = "Url"] : m \in SavedModels}
    /\ changes = 0 /\ faults = 0
    /\ page = "/prompt"
    /\ stream = "initial" /\ wireUp = FALSE /\ events = <<>>
    /\ listed = [a \in Agents |-> {}]
    /\ dialog = NoDialog
    /\ fetches = [f \in Fetch |-> NoFetch]
    /\ mounted = 0 /\ fetchState = "loading"
    /\ form = EmptyForm /\ editing = FALSE /\ temporary = 0 /\ edits = 0 /\ wanted = EmptyState
    /\ puts = [p \in Put |-> NoPut]

(***************************************************************************)
(* useFetchJson: the effect asks, the clean-up aborts.  An answer is taken *)
(* by the component that asked, or by nobody.                              *)
(***************************************************************************)
ActOnce == edits < MaxEdits /\ edits' = edits + 1
Unsent == {f \in Fetch : fetches[f].status = "none"}

StartFetch(purpose, agent) ==
    /\ Unsent # {}
    /\ LET f == CHOOSE g \in Unsent : \A h \in Unsent : g <= h
       IN  /\ fetches' = [fetches EXCEPT ![f] = [for |-> purpose, agent |-> agent, status |-> "sent",
                                                 value |-> EmptyState]]
           /\ mounted' = f
    /\ fetchState' = "loading"

Unmount ==
    /\ mounted' = 0
    /\ fetchState' = "loading"
    /\ fetches' = IF mounted # 0 /\ fetches[mounted].status \in {"sent", "over"}
                  THEN [fetches EXCEPT ![mounted] = [NoFetch EXCEPT !.status = "over"]] ELSE fetches

\* The balancer answers with what it has, or not well.
Answer(f) ==
    /\ fetches[f].status = "sent"
    /\ \/ fetches' = [fetches EXCEPT ![f].status = "ok", ![f].value = desired]
       \/ fetches' = [fetches EXCEPT ![f].status = "failed"]
    /\ UNCHANGED <<fleetVars, page, dashboardVars, mounted, fetchState, formVars, puts>>

\* The providers take what was loaded as their default, once.
FormOf(state) ==
    [uri |-> [model |-> modelSchemaToUrl(state.model),
              projection |-> modelSchemaToUrl(state.projection)],
     template |-> state.template, useTemplate |-> state.useTemplate,
     parameters |-> state.parameters]

ShowAnswer(f) ==
    /\ fetchState' = IF fetches[f].status = "ok" THEN "ok" ELSE "error"
    /\ IF page = "/model" /\ fetches[f].status = "ok"
       THEN /\ form' = FormOf(fetches[f].value)
            /\ temporary' = fetches[f].value.template
            /\ wanted' = fetches[f].value
       ELSE UNCHANGED <<form, temporary, wanted>>

TakeAnswer(f) ==
    /\ fetches[f].status \in {"ok", "failed"}
    /\ fetches' = [fetches EXCEPT ![f].status = "over", ![f].value = EmptyState]
    /\ IF f = mounted THEN ShowAnswer(f)
       ELSE UNCHANGED <<fetchState, form, temporary, wanted>>
    /\ UNCHANGED <<fleetVars, page, dashboardVars, mounted, editing, edits, puts>>

(***************************************************************************)
(* Home: one page at a time.                                               *)
(***************************************************************************)
LeaveDashboard ==
    /\ stream' = "initial" /\ wireUp' = FALSE /\ events' = <<>>
    /\ listed' = [a \in Agents |-> {}] /\ dialog' = NoDialog
LeaveForm == form' = EmptyForm /\ editing' = FALSE /\ temporary' = 0 /\ wanted' = EmptyState

\* useBalancerDesiredState, mounted with the page.
FetchBalancerDesiredState == StartFetch("form", NoDialog.agent)

Navigate(to) ==
    /\ page' = to
    /\ LeaveDashboard /\ LeaveForm
    /\ IF to = "/model" THEN FetchBalancerDesiredState ELSE Unmount

VisitPage ==
    \E to \in {"/", "/model", "/prompt"} :
        /\ to # page /\ ~editing /\ dialog = NoDialog /\ ActOnce
        /\ Navigate(to)
        /\ UNCHANGED <<fleetVars, puts>>

(***************************************************************************)
(* The dashboard.                                                          *)
(***************************************************************************)
Change ==
    /\ changes < MaxChanges
    /\ changes' = changes + 1
    /\ \/ \E a \in Agents, flag \in Flag :
             /\ flag # "registered" => "registered" \in fleet[a]
             /\ fleet' = [fleet EXCEPT ![a] =
                            IF flag \in @ THEN IF flag = "registered" THEN {} ELSE @ \ {flag}
                            ELSE @ \cup {flag}]
             /\ events' = IF wireUp THEN Append(events, [kind |-> "snapshot", fleet |-> fleet'])
                          ELSE events
             /\ UNCHANGED desired
       \/ /\ desired' = [desired EXCEPT !.parameters["n_batch"] = 1 - @]
          /\ UNCHANGED <<fleet, events>>
    /\ UNCHANGED <<faults, page, stream, wireUp, listed, dialog, fetchVars, formVars, puts>>

\* The event source connects, and again after an error; the stream of the
\* balancer begins with a snapshot.
StreamOpens ==
    /\ page = "/" /\ ~wireUp
    /\ wireUp' = TRUE
    /\ stream' = "connected"
    /\ events' = <<[kind |-> "snapshot", fleet |-> fleet]>>
    /\ UNCHANGED <<fleetVars, page, listed, dialog, fetchVars, formVars, puts>>

\* The rows of the list are unmounted, and a dialog with its row or button.
HasButton(d, snapshot) ==
    CASE d.kind = "metadata" -> "registered" \in snapshot[d.agent]
      [] d.kind = "template" -> "override" \in snapshot[d.agent]
      [] d.kind = "issues" -> "issues" \in snapshot[d.agent]
      [] OTHER -> TRUE

CloseWithButton(visible) ==
    IF dialog = NoDialog \/ visible THEN UNCHANGED <<dialog, fetchVars>>
    ELSE dialog' = NoDialog /\ Unmount

StreamFails ==
    /\ page = "/" /\ faults < MaxFaults
    /\ faults' = faults + 1
    /\ wireUp' = FALSE /\ events' = <<>>
    /\ stream' = "connectionError"
    /\ CloseWithButton(FALSE)
    /\ UNCHANGED <<fleet, desired, changes, page, listed, formVars, puts>>

Garble ==
    /\ page = "/" /\ wireUp /\ faults < MaxFaults
    /\ faults' = faults + 1
    /\ events' = Append(events, [kind |-> "garbage", fleet |-> fleet])
    /\ UNCHANGED <<fleet, desired, changes, page, stream, wireUp, listed, dialog, fetchVars, formVars, puts>>

TakeEvent ==
    /\ page = "/" /\ events # <<>>
    /\ events' = Tail(events)
    /\ LET event == Head(events)
       IN  IF event.kind = "garbage"
           THEN /\ stream' = "deserializationError"
                /\ CloseWithButton(FALSE)
                /\ UNCHANGED listed
           ELSE /\ stream' = "dataSnapshot"
                /\ listed' = event.fleet
                /\ CloseWithButton(HasButton(dialog, event.fleet))
    /\ UNCHANGED <<fleetVars, page, wireUp, formVars, puts>>

ListShown == page = "/" /\ stream = "dataSnapshot"

OpenDialog(kind, a) ==
    /\ ListShown /\ dialog = NoDialog /\ ActOnce
    /\ "registered" \in listed[a] /\ HasButton([kind |-> kind, agent |-> a], listed)
    /\ dialog' = [kind |-> kind, agent |-> a]
    /\ UNCHANGED <<fleetVars, page, stream, wireUp, events, listed, form, editing, temporary, wanted,
                   puts>>

\* useModelMetadata, useChatTemplateOverride: mounted with the dialog.
FetchModelMetadata(a) == StartFetch("metadata", a)
FetchChatTemplateOverride(a) == StartFetch("template", a)

OpenModelMetadata == \E a \in Agents : OpenDialog("metadata", a) /\ FetchModelMetadata(a)
OpenChatTemplateOverride ==
    \E a \in Agents : OpenDialog("template", a) /\ FetchChatTemplateOverride(a)
OpenAgentIssues == \E a \in Agents : OpenDialog("issues", a) /\ UNCHANGED fetchVars

CloseDialog ==
    /\ dialog # NoDialog
    /\ dialog' = NoDialog
    /\ Unmount
    /\ UNCHANGED <<fleetVars, page, stream, wireUp, events, listed, formVars, puts>>

(***************************************************************************)
(* The form.                                                               *)
(***************************************************************************)
FormShown == page = "/model" /\ fetchState = "ok"
Editable == FormShown /\ ActOnce

EditUri ==
    /\ Editable /\ ~editing
    /\ \E field \in UriField, uri \in Typed :
          /\ form' = [form EXCEPT !.uri[field] = uri]
          /\ wanted' = [wanted EXCEPT ![field] = IF IsOk(uri) THEN agentDesiredModel(uri) ELSE @]
    /\ UNCHANGED <<fleetVars, page, dashboardVars, fetchVars, editing, temporary, puts>>

\* Every render makes setParameter anew, over the parameters of that render.
setParameter(name, value) ==
    form' = [form EXCEPT !.parameters = [form.parameters EXCEPT ![name] = value]]

ChangeParameter(name) ==
    /\ Editable /\ ~editing
    /\ setParameter(name, 1 - form.parameters[name])
    /\ wanted' = [wanted EXCEPT !.parameters[name] = 1 - @]
    /\ UNCHANGED <<fleetVars, page, dashboardVars, fetchVars, editing, temporary, puts>>

InputParameter == ChangeParameter("n_batch")
CheckParameter == ChangeParameter("enable_embeddings")

ChooseTemplate ==
    /\ Editable /\ ~editing
    /\ form' = [form EXCEPT !.useTemplate = ~@]
    /\ wanted' = [wanted EXCEPT !.useTemplate = ~@]
    /\ UNCHANGED <<fleetVars, page, dashboardVars, fetchVars, editing, temporary, puts>>

OpenEditor ==
    /\ FormShown /\ ~editing /\ form.useTemplate
    /\ editing' = TRUE
    /\ UNCHANGED <<fleetVars, page, dashboardVars, fetchVars, form, temporary, edits, wanted, puts>>

TypeTemplate ==
    /\ Editable /\ editing
    /\ temporary' = 1 - temporary
    /\ UNCHANGED <<fleetVars, page, dashboardVars, fetchVars, form, editing, wanted, puts>>

SaveTemplate ==
    /\ editing
    /\ editing' = FALSE
    /\ form' = [form EXCEPT !.template = temporary]
    /\ wanted' = [wanted EXCEPT !.template = temporary]
    /\ UNCHANGED <<fleetVars, page, dashboardVars, fetchVars, temporary, edits, puts>>

\* What was not saved is given up, once that is confirmed.
CloseEditor ==
    /\ editing
    /\ editing' = FALSE
    /\ temporary' = form.template
    /\ UNCHANGED <<fleetVars, page, dashboardVars, fetchVars, form, edits, wanted, puts>>

\* null unless both URIs are acceptable; the browser wants a base model.
Submittable == form.uri["model"] # NoUri /\ \A field \in UriField : IsOk(form.uri[field])

balancerDesiredState ==
    [model |-> agentDesiredModel(form.uri["model"]),
     projection |-> agentDesiredModel(form.uri["projection"]),
     template |-> form.template, useTemplate |-> form.useTemplate, parameters |-> form.parameters]

SubmitForm ==
    /\ FormShown /\ ~editing /\ Submittable /\ ActOnce
    /\ \E p \in Put :
          /\ puts[p].status = "none" /\ \A q \in 1 .. p - 1 : puts[q].status # "none"
          /\ puts' = [puts EXCEPT ![p] = [body |-> balancerDesiredState, status |-> "sent"]]
    /\ UNCHANGED <<fleetVars, page, dashboardVars, fetchVars, form, editing, temporary, wanted>>

\* Submissions are requests of their own: the balancer takes them in any order.
ServePut(p) ==
    /\ puts[p].status = "sent"
    /\ \/ /\ puts' = [puts EXCEPT ![p].status = "ok"]
          /\ desired' = puts[p].body
       \/ /\ puts' = [puts EXCEPT ![p].status = "failed"]
          /\ desired' \in {desired, puts[p].body}
    /\ UNCHANGED <<fleet, changes, faults, page, dashboardVars, fetchVars, formVars>>

\* navigate("/"), whichever page is shown by now.
PutAnswered(p) ==
    /\ puts[p].status \in {"ok", "failed"}
    /\ puts' = [puts EXCEPT ![p] = [NoPut EXCEPT !.status = "over"]]
    /\ IF puts[p].status = "ok" /\ page # "/"
       THEN Navigate("/")
       ELSE UNCHANGED <<page, dashboardVars, fetchVars, form, editing, temporary, wanted>>
    /\ UNCHANGED <<fleetVars, edits>>

AdminNext ==
    \/ VisitPage \/ Change
    \/ StreamOpens \/ StreamFails \/ Garble \/ TakeEvent
    \/ OpenModelMetadata \/ OpenChatTemplateOverride \/ OpenAgentIssues \/ CloseDialog
    \/ EditUri \/ InputParameter \/ CheckParameter \/ ChooseTemplate \/ OpenEditor
    \/ TypeTemplate \/ SaveTemplate \/ CloseEditor \/ SubmitForm
    \/ \E f \in Fetch : Answer(f) \/ TakeAnswer(f)
    \/ \E p \in Put : ServePut(p) \/ PutAnswered(p)

\* The browser reconnects and delivers, the balancer answers.
AdminFairness ==
    /\ WF_<<stream, wireUp>>(StreamOpens)
    /\ WF_events(TakeEvent)
    /\ \A f \in Fetch : WF_fetches(Answer(f) \/ TakeAnswer(f))
    /\ \A p \in Put : WF_puts(ServePut(p) \/ PutAnswered(p))

(***************************************************************************)
(* Properties.                                                             *)
(***************************************************************************)
\* What the form would submit is what was loaded with what the user changed
\* since, and no more: loading and editing lose nothing, for models the form
\* can represent; and what it submits it can represent, so that nothing changes
\* when it is loaded and submitted again.
PutIsWanted ==
    FormShown /\ Submittable =>
        /\ \A field \in UriField :
              /\ Representable(wanted[field]) => balancerDesiredState[field] = wanted[field]
              /\ Representable(balancerDesiredState[field])
        /\ \A field \in {"template", "useTemplate", "parameters"} :
              balancerDesiredState[field] = wanted[field]

\* Whenever the template editor is opened it has what was saved, not what was
\* given up before.
EditorShowsSaved == FormShown /\ ~editing => temporary = form.template

\* What ModelMetadataLoader and ChatTemplateOverrideLoader show: under the name
\* of the agent, what was loaded.
DialogView == [title |-> dialog.agent, body |-> fetches[mounted].agent, kind |-> fetches[mounted].for]

\* A dialog shows the answer of the request it made, about its own agent,
\* whatever arrives for the dialogs before it.
DialogShowsOwn ==
    dialog.kind \in {"metadata", "template"} =>
        mounted # 0 /\ DialogView.body = DialogView.title /\ DialogView.kind = dialog.kind

\* The dashboard comes to show the agents as they are, after broken streams and
\* events that do not parse, unless the user leaves or the last event was bad.
DashboardIsCurrent ==
    []<>(page = "/" => \/ stream = "dataSnapshot" /\ listed = fleet
                       \/ stream = "deserializationError" /\ events = <<>>)

\* A dialog or the form stops loading.
LoadingEnds == []<>~(mounted # 0 /\ fetchState = "loading")

=============================================================================
