---------------------------- MODULE ScreenProofs ----------------------------
(***************************************************************************)
(* That what is on a screen is so, for any number of runners behind the    *)
(* desktop application, and for any agents, requests, edits, submissions   *)
(* and failures behind the pages of the web admin panel.                   *)
(***************************************************************************)
EXTENDS MCUserInterfaces, SequenceTheorems, WellFoundedInduction, TLAPS

-----------------------------------------------------------------------------
(***************************************************************************)
(* The desktop application.                                                *)
(*                                                                         *)
(* RunningIsInReach and ShownIsStopped are about the runner the screen     *)
(* belongs to.  They rest on OwnerIsPresent: unless runners have           *)
(* overlapped, the one of its kind that has not posted its last message is *)
(* the one whose token is kept.                                            *)
(***************************************************************************)
RunnerMessage == {"started", "snapshot", "stopped", "failed"}
ScreenOf(k) == IF k = "agent" THEN {"AgentRunning"} ELSE {"StartBalancerForm", "RunningBalancer"}

\* How far a task is says what its thread does, and a last message is its last step.
RunnerShape ==
    /\ outbox \in [Runner -> Seq(RunnerMessage)]
    /\ \A r \in Runner :
          /\ kind[r] = "none" <=> task[r] = "none"
          /\ task[r] \in {"none", "starting"} => thread[r] = "none" /\ outbox[r] = <<>>
          /\ thread[r] = "running" => task[r] \in {"announce", "snapshot", "select"}
          /\ outbox[r] # <<>> /\ outbox[r][1] \in {"stopped", "failed"} => task[r] = "over"

\* A runner that still has something to say is the one of its kind that is kept.
OwnerIsPresent ==
    ~overlapped /\ ~shutdown =>
        \A r \in Runner : kind[r] # "none" /\ ~Gone(r) => owner[kind[r]] = r

\* Only the screen of its kind shows a runner, and only a form that is shown waits.
ScreenShape ==
    /\ shown # None => shown \in Runner
    /\ shown # None => \/ kind[shown] = "agent" /\ screen = "AgentRunning"
                       \/ kind[shown] = "balancer" /\ screen = "RunningBalancer"
    /\ starting => screen = "StartBalancerForm"
    /\ shutdown => screen = "Home"

DesktopInv ==
    /\ TypeOK /\ RunnerShape /\ OwnerIsPresent /\ ScreenShape
    /\ RunningIsInReach /\ ShownIsStopped /\ ErrorsAreCurrent

ScreenTypes ==
    /\ screen \in {"Home", "JoinBalancerForm", "StartBalancerForm", "AgentRunning",
                   "RunningBalancer"}
    /\ starting \in BOOLEAN /\ stopping \in BOOLEAN /\ homeError \in BOOLEAN
    /\ invalid \subseteq TypedField
    /\ later \in BOOLEAN /\ selected \in BOOLEAN
    /\ errors \subseteq FormField

RunnerTypes ==
    /\ shown \in 0 .. MaxRunners
    /\ owner \in [RunnerKind -> 0 .. MaxRunners]
    /\ kind \in [Runner -> RunnerKind \cup {"none"}]
    /\ task \in [Runner -> {"none", "starting", "announce", "snapshot", "select", "report", "over"}]
    /\ thread \in [Runner -> {"none", "running", "ok", "failed"}]
    /\ cancelled \in [Runner -> BOOLEAN]

\* A channel of a task holds one message at most.
OutboxTypes ==
    /\ outbox \in [Runner -> Seq(RunnerMessage)]
    /\ \A r \in Runner : Len(outbox[r]) <= 1

FlagTypes == shutdown \in BOOLEAN /\ overlapped \in BOOLEAN

\* The types, in parts.
LEMMA DesktopTypes ==
    ASSUME RunnerShape
    PROVE  TypeOK <=> ScreenTypes /\ RunnerTypes /\ OutboxTypes /\ FlagTypes
<1>1. \A r \in Runner : \A i \in DOMAIN outbox[r] : outbox[r][i] \in RunnerMessage
  <2>1. \A r \in Runner : outbox[r] \in Seq(RunnerMessage)
    BY DEF RunnerShape
  <2>2. QED
    BY <2>1, LenProperties
<1>2. QED
  BY <1>1, Zenon DEF TypeOK, ScreenTypes, RunnerTypes, OutboxTypes, FlagTypes, RunnerShape,
     RunnerMessage

\* App::update by the message it takes: what a last message says, it says of a runner
\* whose task is over.
Updates(r) ==
    /\ ~shutdown
    /\ outbox[r] # <<>>
    /\ outbox' = [outbox EXCEPT ![r] = <<>>]
    /\ \/ SnapshotUpdated(r)
       \/ BalancerStarted
       \/ /\ task[r] = "over" /\ kind[r] = "agent"
          /\ \E failed \in BOOLEAN : AgentEnded(failed)
       \/ /\ task[r] = "over" /\ kind[r] = "balancer"
          /\ BalancerFailed \/ BalancerStopped
    /\ UNCHANGED <<shutdown, kind, task, thread, cancelled, overlapped>>

\* A message has one of its kinds.
LEMMA MessageIsTaken ==
    ASSUME RunnerTypes, RunnerShape, NEW r \in Runner, Update(r)
    PROVE  Updates(r)
<1> DEFINE message == Head(outbox[r])
<1>1. outbox[r] \in Seq(RunnerMessage) /\ outbox[r] # <<>>
  BY DEF Update, RunnerShape
<1>2. message \in RunnerMessage /\ message = outbox[r][1]
  BY <1>1, EmptySeq, LenProperties
<1>3. /\ ~shutdown /\ outbox' = [outbox EXCEPT ![r] = <<>>]
      /\ UNCHANGED <<shutdown, kind, task, thread, cancelled, overlapped>>
  BY DEF Update
<1>4. \/ message = "snapshot" /\ SnapshotUpdated(r)
      \/ message = "started" /\ BalancerStarted
      \/ message \in {"failed", "stopped"} /\ kind[r] = "agent" /\ AgentEnded(message = "failed")
      \/ message = "failed" /\ kind[r] = "balancer" /\ BalancerFailed
      \/ message = "stopped" /\ kind[r] = "balancer" /\ BalancerStopped
  BY Zenon DEF Update
<1> HIDE DEF message
<1>5. message \in {"failed", "stopped"} => task[r] = "over"
  BY <1>1, <1>2 DEF RunnerShape
<1>6. \/ SnapshotUpdated(r)
      \/ BalancerStarted
      \/ task[r] = "over" /\ kind[r] = "agent" /\ \E failed \in BOOLEAN : AgentEnded(failed)
      \/ task[r] = "over" /\ kind[r] = "balancer" /\ (BalancerFailed \/ BalancerStopped)
  <2>1. \A failed : failed = (message = "failed") => failed \in BOOLEAN
    BY Zenon
  <2>2. QED
    BY <1>4, <1>5, <2>1, Zenon
<1>7. QED
  BY <1>1, <1>3, <1>6, Zenon DEF Updates

\* A message in an empty channel.
LEMMA OneMessage ==
    ASSUME NEW m \in RunnerMessage
    PROVE  <<m>> \in Seq(RunnerMessage) /\ Len(<<m>>) = 1 /\ <<m>> # <<>> /\ <<m>>[1] = m
  OBVIOUS

\* Zero is no runner.
LEMMA RunnersAreCounted ==
    /\ MaxRunners \in Nat /\ 0 \in 0 .. MaxRunners
    /\ \A r \in Runner : r \in 0 .. MaxRunners /\ r # 0
  BY DesktopAppAssumption DEF Runner

\* What starting a runner changes, for the runner that is started.
SpawnAs(r, k, first) ==
    /\ kind[r] = "none"
    /\ kind' = [kind EXCEPT ![r] = k]
    /\ task' = [task EXCEPT ![r] = first]
    /\ thread' = IF k = "agent" THEN [thread EXCEPT ![r] = "running"] ELSE thread
    /\ owner' = [owner EXCEPT ![k] = r]
    /\ overlapped' = (overlapped \/ \E other \in Runner : kind[other] = k /\ ~Gone(other))
    /\ cancelled' = cancelled
    /\ outbox' = outbox

\* What confirming the form does.
ConfirmTo ==
    /\ ~shutdown /\ screen = "StartBalancerForm" /\ ~starting
    /\ errors' \subseteq invalid \cup {"address"} \cup (IF later \/ selected THEN {} ELSE {"model"})
    /\ screen' = screen /\ stopping' = stopping /\ invalid' = invalid /\ later' = later
    /\ selected' = selected /\ homeError' = homeError /\ shown' = shown /\ shutdown' = shutdown
    /\ \/ /\ errors' = {} /\ starting' = TRUE
          /\ \E r \in Runner : SpawnAs(r, "balancer", "starting")
       \/ /\ starting' = starting /\ owner' = owner /\ kind' = kind /\ task' = task
          /\ thread' = thread /\ cancelled' = cancelled /\ outbox' = outbox
          /\ overlapped' = overlapped

\* A form that waits cannot be confirmed again.
LEMMA ConfirmIsSplit ==
    ASSUME ConfirmStart
    PROVE  ConfirmTo
<1>1. /\ ~shutdown /\ screen = "StartBalancerForm"
      /\ screen' = screen /\ stopping' = stopping /\ invalid' = invalid /\ later' = later
      /\ selected' = selected /\ homeError' = homeError /\ shown' = shown /\ shutdown' = shutdown
  BY DEF ConfirmStart, Sends
<1>2. ~starting
  <2>1. "Confirm" \in ViewStartBalancerForm
    BY <1>1 DEF ConfirmStart, Sends, View
  <2>2. QED
    BY <2>1 DEF ViewStartBalancerForm
<1>3. PICK taken \in {{}, {"address"}} :
          /\ errors' = invalid \cup taken \cup (IF later \/ selected THEN {} ELSE {"model"})
          /\ IF errors' = {}
             THEN starting' = TRUE /\ Spawn("balancer", "starting")
             ELSE UNCHANGED <<starting, owner, runnerVars, overlapped>>
  <2>1. PICK taken \in IF PortInUse THEN {{}, {"address"}} ELSE {{}} :
          /\ errors' = invalid \cup taken \cup (IF later \/ selected THEN {} ELSE {"model"})
          /\ IF errors' = {}
             THEN starting' = TRUE /\ Spawn("balancer", "starting")
             ELSE UNCHANGED <<starting, owner, runnerVars, overlapped>>
    BY Zenon DEF ConfirmStart
  <2>2. taken \in {{}, {"address"}}
    BY <2>1
  <2>3. QED
    BY <2>1, <2>2, Zenon
<1>4. errors' \subseteq invalid \cup {"address"} \cup (IF later \/ selected THEN {} ELSE {"model"})
  BY <1>3
<1>5. CASE errors' = {}
  <2>1. starting' = TRUE /\ Spawn("balancer", "starting")
    BY <1>3, <1>5, Zenon
  <2>2. \E r \in Runner : SpawnAs(r, "balancer", "starting")
    BY <2>1, Zenon DEF Spawn, SpawnAs
  <2>3. QED
    BY <1>1, <1>2, <1>4, <1>5, <2>1, <2>2, Zenon DEF ConfirmTo
<1>6. CASE errors' # {}
  <2>1. UNCHANGED <<starting, owner, runnerVars, overlapped>>
    BY <1>3, <1>6, Zenon
  <2>2. QED
    BY <1>1, <1>2, <1>4, <2>1, Zenon DEF ConfirmTo, runnerVars
<1>7. QED
  BY <1>5, <1>6

\* What connecting an agent does.
ConnectTo ==
    /\ ~shutdown /\ screen = "JoinBalancerForm"
    /\ starting' = starting /\ stopping' = stopping /\ invalid' = invalid /\ later' = later
    /\ selected' = selected /\ homeError' = homeError /\ shutdown' = shutdown
    /\ \/ /\ screen' = "AgentRunning" /\ errors' = {} /\ shown' = None
          /\ \E r \in Runner : SpawnAs(r, "agent", "snapshot")
       \/ /\ screen' = screen /\ errors' = invalid /\ shown' = shown
          /\ owner' = owner /\ kind' = kind /\ task' = task
          /\ thread' = thread /\ cancelled' = cancelled /\ outbox' = outbox
          /\ overlapped' = overlapped

\* Joining a balancer is one of the two ways ConnectTo names.
LEMMA ConnectIsSplit ==
    ASSUME ConnectAgent
    PROVE  ConnectTo
<1>1. /\ ~shutdown /\ screen = "JoinBalancerForm"
      /\ starting' = starting /\ stopping' = stopping /\ invalid' = invalid /\ later' = later
      /\ selected' = selected /\ homeError' = homeError /\ shutdown' = shutdown
  BY DEF ConnectAgent, Sends
<1>2. CASE invalid = {}
  <2>1. Spawn("agent", "snapshot") /\ Connect
    BY <1>2, Zenon DEF ConnectAgent
  <2>2. \E r \in Runner : SpawnAs(r, "agent", "snapshot")
    BY <2>1, Zenon DEF Spawn, SpawnAs
  <2>3. QED
    BY <1>1, <2>1, <2>2, Zenon DEF ConnectTo, Connect
<1>3. CASE invalid # {}
  <2>1. errors' = invalid /\ UNCHANGED <<screen, shown, owner, runnerVars, overlapped>>
    BY <1>3, Zenon DEF ConnectAgent
  <2>2. QED
    BY <1>1, <2>1, Zenon DEF ConnectTo, runnerVars
<1>4. QED
  BY <1>2, <1>3

\* The screens have their types.
LEMMA ScreenTypesStep ==
    ASSUME ScreenTypes, RunnerTypes, RunnerShape, Next
    PROVE  ScreenTypes'
<1>1. CASE HomeStartBalancer
  BY <1>1 DEF HomeStartBalancer, Sends, OpenForm, runnerVars, ScreenTypes, FormField,
     TypedField
<1>2. CASE HomeJoinBalancer
  BY <1>2 DEF HomeJoinBalancer, Sends, OpenForm, runnerVars, ScreenTypes, FormField,
     TypedField
<1>3. ASSUME NEW field \in TypedField, EditField(field) PROVE ScreenTypes'
  BY <1>3 DEF EditField, Sends, runnerVars, ScreenTypes, FormField, TypedField
<1>4. CASE SelectModel
  BY <1>4 DEF SelectModel, Sends, runnerVars, ScreenTypes, FormField, TypedField
<1>5. CASE ToggleAddModelLater
  BY <1>5 DEF ToggleAddModelLater, Sends, runnerVars, ScreenTypes, FormField,
     TypedField
<1>6. CASE ConfirmStart
  <2>0. ConfirmTo
    BY <1>6, ConfirmIsSplit
  <2>1. ASSUME NEW r \in Runner, SpawnAs(r, "balancer", "starting"), starting' = TRUE, errors' = {}
        PROVE  ScreenTypes'
    BY <2>0, <2>1 DEF ConfirmTo, SpawnAs, ScreenTypes, FormField, TypedField
  <2>2. CASE /\ starting' = starting /\ owner' = owner /\ kind' = kind /\ task' = task
             /\ thread' = thread /\ cancelled' = cancelled /\ outbox' = outbox
             /\ overlapped' = overlapped
    BY <2>0, <2>2 DEF ConfirmTo, ScreenTypes, FormField, TypedField
  <2>3. QED
    BY <2>0, <2>1, <2>2, Zenon DEF ConfirmTo
<1>7. CASE ConnectAgent
  <2>0. ConnectTo
    BY <1>7, ConnectIsSplit
  <2>1. ASSUME NEW r \in Runner, SpawnAs(r, "agent", "snapshot"), screen' = "AgentRunning",
               errors' = {}, shown' = None
        PROVE  ScreenTypes'
    BY <2>0, <2>1 DEF ConnectTo, SpawnAs, ScreenTypes, FormField, TypedField
  <2>2. CASE /\ screen' = screen /\ errors' = invalid /\ shown' = shown
             /\ owner' = owner /\ kind' = kind /\ task' = task
             /\ thread' = thread /\ cancelled' = cancelled /\ outbox' = outbox
             /\ overlapped' = overlapped
    BY <2>0, <2>2 DEF ConnectTo, ScreenTypes, FormField, TypedField
  <2>3. QED
    BY <2>0, <2>1, <2>2, Zenon DEF ConnectTo
<1>8. CASE CancelStartForm
  BY <1>8 DEF CancelStartForm, Sends, Cancel, GoHome, ClearForm, ScreenTypes,
     FormField, TypedField
<1>9. CASE CancelJoinForm
  BY <1>9 DEF CancelJoinForm, Sends, GoHome, ClearForm, runnerVars, ScreenTypes,
     FormField, TypedField
<1>10. CASE StopBalancer
  BY <1>10 DEF StopBalancer, Sends, Cancel, ScreenTypes, FormField, TypedField
<1>11. CASE DisconnectAgent
  BY <1>11 DEF DisconnectAgent, Sends, Cancel, GoHome, ClearForm, ScreenTypes,
     FormField, TypedField
<1>12. CASE Quit
  BY <1>12 DEF Quit, GoHome, ClearForm, ScreenTypes, FormField, TypedField
<1>13. ASSUME NEW r \in Runner, StartRunner(r) PROVE ScreenTypes'
  BY <1>13 DEF StartRunner, screenVars, ScreenTypes, FormField, TypedField
<1>14. ASSUME NEW r \in Runner, AnnounceBalancer(r) PROVE ScreenTypes'
  BY <1>14 DEF AnnounceBalancer, Post, screenVars, ScreenTypes, FormField, TypedField
<1>15. ASSUME NEW r \in Runner, PostSnapshot(r) PROVE ScreenTypes'
  BY <1>15 DEF PostSnapshot, Post, screenVars, ScreenTypes, FormField, TypedField
<1>16. ASSUME NEW r \in Runner, PostResult(r) PROVE ScreenTypes'
  BY <1>16 DEF PostResult, Post, screenVars, ScreenTypes, FormField, TypedField
<1>17. ASSUME NEW r \in Runner, SelectUpdate(r) PROVE ScreenTypes'
  BY <1>17 DEF SelectUpdate, screenVars, ScreenTypes, FormField, TypedField
<1>18. ASSUME NEW r \in Runner, SelectCompletion(r) PROVE ScreenTypes'
  BY <1>18 DEF SelectCompletion, screenVars, ScreenTypes, FormField, TypedField
<1>19. ASSUME NEW r \in Runner, EndThread(r) PROVE ScreenTypes'
  BY <1>19 DEF EndThread, screenVars, ScreenTypes, FormField, TypedField
<1>20. ASSUME NEW r \in Runner, FailThread(r) PROVE ScreenTypes'
  BY <1>20 DEF FailThread, screenVars, ScreenTypes, FormField, TypedField
<1>21. ASSUME NEW r \in Runner, DropTask(r) PROVE ScreenTypes'
  BY <1>21 DEF DropTask, screenVars, ScreenTypes, FormField, TypedField
<1>22. ASSUME NEW r \in Runner, Update(r) PROVE ScreenTypes'
  <2>0. Updates(r)
    BY <1>22, MessageIsTaken
  <2>1. /\ ~shutdown /\ outbox[r] # <<>> /\ outbox' = [outbox EXCEPT ![r] = <<>>]
        /\ shutdown' = shutdown /\ kind' = kind /\ task' = task /\ thread' = thread
        /\ cancelled' = cancelled /\ overlapped' = overlapped
    BY <2>0 DEF Updates
  <2>2. CASE SnapshotUpdated(r)
    BY <2>1, <2>0, <2>2 DEF SnapshotUpdated, ScreenTypes, FormField, TypedField
  <2>3. CASE BalancerStarted
    BY <2>1, <2>0, <2>3 DEF BalancerStarted, ClearForm, screenVars, ScreenTypes,
       FormField, TypedField
  <2>4. ASSUME NEW failed \in BOOLEAN, task[r] = "over", kind[r] = "agent", AgentEnded(failed)
        PROVE  ScreenTypes'
    BY <2>1, <2>0, <2>4 DEF AgentEnded, GoHome, ClearForm, screenVars, ScreenTypes,
       FormField, TypedField
  <2>5. CASE task[r] = "over" /\ kind[r] = "balancer" /\ BalancerFailed
    BY <2>1, <2>0, <2>5 DEF BalancerFailed, GoHome, ClearForm, screenVars,
       ScreenTypes, FormField, TypedField
  <2>6. CASE task[r] = "over" /\ kind[r] = "balancer" /\ BalancerStopped
    BY <2>1, <2>0, <2>6 DEF BalancerStopped, GoHome, ClearForm, screenVars,
       ScreenTypes, FormField, TypedField
  <2>7. QED
    BY <2>0, <2>2, <2>3, <2>4, <2>5, <2>6, Zenon DEF Updates
<1>23. QED
  BY <1>1, <1>2, <1>3, <1>4, <1>5, <1>6, <1>7, <1>8, <1>9, <1>10, <1>11, <1>12, <1>13,
     <1>14, <1>15, <1>16, <1>17, <1>18, <1>19, <1>20, <1>21, <1>22 DEF Next

\* The runners have their types.
LEMMA RunnerTypesStep ==
    ASSUME RunnerTypes, RunnerShape, Next
    PROVE  RunnerTypes'
<1>1. CASE HomeStartBalancer
  BY <1>1, RunnersAreCounted DEF HomeStartBalancer, Sends, OpenForm, runnerVars,
     RunnerTypes, RunnerKind, None
<1>2. CASE HomeJoinBalancer
  BY <1>2, RunnersAreCounted DEF HomeJoinBalancer, Sends, OpenForm, runnerVars,
     RunnerTypes, RunnerKind, None
<1>3. ASSUME NEW field \in TypedField, EditField(field) PROVE RunnerTypes'
  BY <1>3, RunnersAreCounted DEF EditField, Sends, runnerVars, RunnerTypes,
     RunnerKind, None
<1>4. CASE SelectModel
  BY <1>4, RunnersAreCounted DEF SelectModel, Sends, runnerVars, RunnerTypes,
     RunnerKind, None
<1>5. CASE ToggleAddModelLater
  BY <1>5, RunnersAreCounted DEF ToggleAddModelLater, Sends, runnerVars, RunnerTypes,
     RunnerKind, None
<1>6. CASE ConfirmStart
  <2>0. ConfirmTo
    BY <1>6, ConfirmIsSplit
  <2>1. ASSUME NEW r \in Runner, SpawnAs(r, "balancer", "starting"), starting' = TRUE, errors' = {}
        PROVE  RunnerTypes'
    BY <2>0, <2>1, RunnersAreCounted DEF ConfirmTo, SpawnAs, RunnerTypes,
       RunnerKind, None
  <2>2. CASE /\ starting' = starting /\ owner' = owner /\ kind' = kind /\ task' = task
             /\ thread' = thread /\ cancelled' = cancelled /\ outbox' = outbox
             /\ overlapped' = overlapped
    BY <2>0, <2>2, RunnersAreCounted DEF ConfirmTo, RunnerTypes, RunnerKind, None
  <2>3. QED
    BY <2>0, <2>1, <2>2, Zenon DEF ConfirmTo
<1>7. CASE ConnectAgent
  <2>0. ConnectTo
    BY <1>7, ConnectIsSplit
  <2>1. ASSUME NEW r \in Runner, SpawnAs(r, "agent", "snapshot"), screen' = "AgentRunning",
               errors' = {}, shown' = None
        PROVE  RunnerTypes'
    BY <2>0, <2>1, RunnersAreCounted DEF ConnectTo, SpawnAs, RunnerTypes,
       RunnerKind, None
  <2>2. CASE /\ screen' = screen /\ errors' = invalid /\ shown' = shown
             /\ owner' = owner /\ kind' = kind /\ task' = task
             /\ thread' = thread /\ cancelled' = cancelled /\ outbox' = outbox
             /\ overlapped' = overlapped
    BY <2>0, <2>2, RunnersAreCounted DEF ConnectTo, RunnerTypes, RunnerKind, None
  <2>3. QED
    BY <2>0, <2>1, <2>2, Zenon DEF ConnectTo
<1>8. CASE CancelStartForm
  BY <1>8, RunnersAreCounted DEF CancelStartForm, Sends, Cancel, GoHome, ClearForm,
     RunnerTypes, RunnerKind, None
<1>9. CASE CancelJoinForm
  BY <1>9, RunnersAreCounted DEF CancelJoinForm, Sends, GoHome, ClearForm, runnerVars,
     RunnerTypes, RunnerKind, None
<1>10. CASE StopBalancer
  BY <1>10, RunnersAreCounted DEF StopBalancer, Sends, Cancel, RunnerTypes,
     RunnerKind, None
<1>11. CASE DisconnectAgent
  BY <1>11, RunnersAreCounted DEF DisconnectAgent, Sends, Cancel, GoHome, ClearForm,
     RunnerTypes, RunnerKind, None
<1>12. CASE Quit
  BY <1>12, RunnersAreCounted DEF Quit, GoHome, ClearForm, RunnerTypes, RunnerKind,
     None
<1>13. ASSUME NEW r \in Runner, StartRunner(r) PROVE RunnerTypes'
  BY <1>13, RunnersAreCounted DEF StartRunner, screenVars, RunnerTypes, RunnerKind,
     None
<1>14. ASSUME NEW r \in Runner, AnnounceBalancer(r) PROVE RunnerTypes'
  BY <1>14, RunnersAreCounted DEF AnnounceBalancer, Post, screenVars, RunnerTypes,
     RunnerKind, None
<1>15. ASSUME NEW r \in Runner, PostSnapshot(r) PROVE RunnerTypes'
  BY <1>15, RunnersAreCounted DEF PostSnapshot, Post, screenVars, RunnerTypes,
     RunnerKind, None
<1>16. ASSUME NEW r \in Runner, PostResult(r) PROVE RunnerTypes'
  BY <1>16, RunnersAreCounted DEF PostResult, Post, screenVars, RunnerTypes,
     RunnerKind, None
<1>17. ASSUME NEW r \in Runner, SelectUpdate(r) PROVE RunnerTypes'
  BY <1>17, RunnersAreCounted DEF SelectUpdate, screenVars, RunnerTypes, RunnerKind,
     None
<1>18. ASSUME NEW r \in Runner, SelectCompletion(r) PROVE RunnerTypes'
  BY <1>18, RunnersAreCounted DEF SelectCompletion, screenVars, RunnerTypes,
     RunnerKind, None
<1>19. ASSUME NEW r \in Runner, EndThread(r) PROVE RunnerTypes'
  BY <1>19, RunnersAreCounted DEF EndThread, screenVars, RunnerTypes, RunnerKind, None
<1>20. ASSUME NEW r \in Runner, FailThread(r) PROVE RunnerTypes'
  BY <1>20, RunnersAreCounted DEF FailThread, screenVars, RunnerTypes, RunnerKind,
     None
<1>21. ASSUME NEW r \in Runner, DropTask(r) PROVE RunnerTypes'
  BY <1>21, RunnersAreCounted DEF DropTask, screenVars, RunnerTypes, RunnerKind, None
<1>22. ASSUME NEW r \in Runner, Update(r) PROVE RunnerTypes'
  <2>0. Updates(r)
    BY <1>22, MessageIsTaken
  <2>1. /\ ~shutdown /\ outbox[r] # <<>> /\ outbox' = [outbox EXCEPT ![r] = <<>>]
        /\ shutdown' = shutdown /\ kind' = kind /\ task' = task /\ thread' = thread
        /\ cancelled' = cancelled /\ overlapped' = overlapped
    BY <2>0 DEF Updates
  <2>2. CASE SnapshotUpdated(r)
    BY <2>1, <2>0, <2>2, RunnersAreCounted DEF SnapshotUpdated, RunnerTypes,
       RunnerKind, None
  <2>3. CASE BalancerStarted
    BY <2>1, <2>0, <2>3, RunnersAreCounted DEF BalancerStarted, ClearForm,
       screenVars, RunnerTypes, RunnerKind, None
  <2>4. ASSUME NEW failed \in BOOLEAN, task[r] = "over", kind[r] = "agent", AgentEnded(failed)
        PROVE  RunnerTypes'
    BY <2>1, <2>0, <2>4, RunnersAreCounted DEF AgentEnded, GoHome, ClearForm,
       screenVars, RunnerTypes, RunnerKind, None
  <2>5. CASE task[r] = "over" /\ kind[r] = "balancer" /\ BalancerFailed
    BY <2>1, <2>0, <2>5, RunnersAreCounted DEF BalancerFailed, GoHome, ClearForm,
       screenVars, RunnerTypes, RunnerKind, None
  <2>6. CASE task[r] = "over" /\ kind[r] = "balancer" /\ BalancerStopped
    BY <2>1, <2>0, <2>6, RunnersAreCounted DEF BalancerStopped, GoHome, ClearForm,
       screenVars, RunnerTypes, RunnerKind, None
  <2>7. QED
    BY <2>0, <2>2, <2>3, <2>4, <2>5, <2>6, Zenon DEF Updates
<1>23. QED
  BY <1>1, <1>2, <1>3, <1>4, <1>5, <1>6, <1>7, <1>8, <1>9, <1>10, <1>11, <1>12, <1>13,
     <1>14, <1>15, <1>16, <1>17, <1>18, <1>19, <1>20, <1>21, <1>22 DEF Next

\* Channels hold one message.
LEMMA OutboxTypesStep ==
    ASSUME RunnerTypes, OutboxTypes, RunnerShape, Next
    PROVE  OutboxTypes'
<1>1. CASE HomeStartBalancer
  BY <1>1 DEF HomeStartBalancer, Sends, OpenForm, runnerVars, OutboxTypes
<1>2. CASE HomeJoinBalancer
  BY <1>2 DEF HomeJoinBalancer, Sends, OpenForm, runnerVars, OutboxTypes
<1>3. ASSUME NEW field \in TypedField, EditField(field) PROVE OutboxTypes'
  BY <1>3 DEF EditField, Sends, runnerVars, OutboxTypes
<1>4. CASE SelectModel
  BY <1>4 DEF SelectModel, Sends, runnerVars, OutboxTypes
<1>5. CASE ToggleAddModelLater
  BY <1>5 DEF ToggleAddModelLater, Sends, runnerVars, OutboxTypes
<1>6. CASE ConfirmStart
  BY <1>6 DEF ConfirmStart, Sends, Spawn, runnerVars, OutboxTypes
<1>7. CASE ConnectAgent
  BY <1>7 DEF ConnectAgent, Sends, Spawn, Connect, runnerVars, OutboxTypes
<1>8. CASE CancelStartForm
  BY <1>8 DEF CancelStartForm, Sends, Cancel, GoHome, ClearForm, OutboxTypes
<1>9. CASE CancelJoinForm
  BY <1>9 DEF CancelJoinForm, Sends, GoHome, ClearForm, runnerVars, OutboxTypes
<1>10. CASE StopBalancer
  BY <1>10 DEF StopBalancer, Sends, Cancel, OutboxTypes
<1>11. CASE DisconnectAgent
  BY <1>11 DEF DisconnectAgent, Sends, Cancel, GoHome, ClearForm, OutboxTypes
<1>12. CASE Quit
  BY <1>12 DEF Quit, GoHome, ClearForm, OutboxTypes
<1>13. ASSUME NEW r \in Runner, StartRunner(r) PROVE OutboxTypes'
  BY <1>13 DEF StartRunner, screenVars, OutboxTypes
<1>14. ASSUME NEW r \in Runner, AnnounceBalancer(r) PROVE OutboxTypes'
  <2>1. /\ outbox' = [outbox EXCEPT ![r] = <<"started">>]
        /\ "started" \in RunnerMessage
    BY <1>14 DEF AnnounceBalancer, Post, RunnerMessage
  <2>2. QED
    BY <2>1, OneMessage DEF OutboxTypes
<1>15. ASSUME NEW r \in Runner, PostSnapshot(r) PROVE OutboxTypes'
  <2>1. /\ outbox' = [outbox EXCEPT ![r] = <<"snapshot">>]
        /\ "snapshot" \in RunnerMessage
    BY <1>15 DEF PostSnapshot, Post, RunnerMessage
  <2>2. QED
    BY <2>1, OneMessage DEF OutboxTypes
<1>16. ASSUME NEW r \in Runner, PostResult(r) PROVE OutboxTypes'
  <2>1. /\ outbox' = [outbox EXCEPT ![r] = <<(IF thread[r] = "ok" THEN "stopped" ELSE "failed")>>]
        /\ (IF thread[r] = "ok" THEN "stopped" ELSE "failed") \in RunnerMessage
    BY <1>16 DEF PostResult, Post, RunnerMessage
  <2>2. QED
    BY <2>1, OneMessage DEF OutboxTypes
<1>17. ASSUME NEW r \in Runner, SelectUpdate(r) PROVE OutboxTypes'
  BY <1>17 DEF SelectUpdate, screenVars, OutboxTypes
<1>18. ASSUME NEW r \in Runner, SelectCompletion(r) PROVE OutboxTypes'
  BY <1>18 DEF SelectCompletion, screenVars, OutboxTypes
<1>19. ASSUME NEW r \in Runner, EndThread(r) PROVE OutboxTypes'
  BY <1>19 DEF EndThread, screenVars, OutboxTypes
<1>20. ASSUME NEW r \in Runner, FailThread(r) PROVE OutboxTypes'
  BY <1>20 DEF FailThread, screenVars, OutboxTypes
<1>21. ASSUME NEW r \in Runner, DropTask(r) PROVE OutboxTypes'
  <2>1. outbox' = [outbox EXCEPT ![r] = <<>>]
    BY <1>21 DEF DropTask
  <2>2. <<>> \in Seq(RunnerMessage) /\ Len(<<>>) = 0
    OBVIOUS
  <2>3. QED
    BY <2>1, <2>2 DEF OutboxTypes
<1>22. ASSUME NEW r \in Runner, Update(r) PROVE OutboxTypes'
  <2>1. outbox' = [outbox EXCEPT ![r] = <<>>]
    BY <1>22 DEF Update
  <2>2. <<>> \in Seq(RunnerMessage) /\ Len(<<>>) = 0
    OBVIOUS
  <2>3. QED
    BY <2>1, <2>2 DEF OutboxTypes
<1>23. QED
  BY <1>1, <1>2, <1>3, <1>4, <1>5, <1>6, <1>7, <1>8, <1>9, <1>10, <1>11, <1>12, <1>13,
     <1>14, <1>15, <1>16, <1>17, <1>18, <1>19, <1>20, <1>21, <1>22 DEF Next

\* Flags stay flags.
LEMMA FlagTypesStep ==
    ASSUME RunnerTypes, RunnerShape, FlagTypes, Next
    PROVE  FlagTypes'
<1>1. CASE HomeStartBalancer
  BY <1>1, Zenon DEF HomeStartBalancer, Sends, OpenForm, runnerVars, FlagTypes
<1>2. CASE HomeJoinBalancer
  BY <1>2, Zenon DEF HomeJoinBalancer, Sends, OpenForm, runnerVars, FlagTypes
<1>3. ASSUME NEW field \in TypedField, EditField(field) PROVE FlagTypes'
  BY <1>3, Zenon DEF EditField, Sends, runnerVars, FlagTypes
<1>4. CASE SelectModel
  BY <1>4, Zenon DEF SelectModel, Sends, runnerVars, FlagTypes
<1>5. CASE ToggleAddModelLater
  BY <1>5, Zenon DEF ToggleAddModelLater, Sends, runnerVars, FlagTypes
<1>6. CASE ConfirmStart
  BY <1>6, Zenon DEF ConfirmStart, Sends, Spawn, runnerVars, FlagTypes
<1>7. CASE ConnectAgent
  BY <1>7, Zenon DEF ConnectAgent, Sends, Spawn, Connect, runnerVars, FlagTypes
<1>8. CASE CancelStartForm
  BY <1>8, Zenon DEF CancelStartForm, Sends, Cancel, GoHome, ClearForm, FlagTypes
<1>9. CASE CancelJoinForm
  BY <1>9, Zenon DEF CancelJoinForm, Sends, GoHome, ClearForm, runnerVars, FlagTypes
<1>10. CASE StopBalancer
  BY <1>10, Zenon DEF StopBalancer, Sends, Cancel, FlagTypes
<1>11. CASE DisconnectAgent
  BY <1>11, Zenon DEF DisconnectAgent, Sends, Cancel, GoHome, ClearForm, FlagTypes
<1>12. CASE Quit
  BY <1>12, Zenon DEF Quit, GoHome, ClearForm, FlagTypes
<1>13. ASSUME NEW r \in Runner, StartRunner(r) PROVE FlagTypes'
  BY <1>13, Zenon DEF StartRunner, screenVars, FlagTypes
<1>14. ASSUME NEW r \in Runner, AnnounceBalancer(r) PROVE FlagTypes'
  BY <1>14, Zenon DEF AnnounceBalancer, Post, screenVars, FlagTypes
<1>15. ASSUME NEW r \in Runner, PostSnapshot(r) PROVE FlagTypes'
  BY <1>15, Zenon DEF PostSnapshot, Post, screenVars, FlagTypes
<1>16. ASSUME NEW r \in Runner, PostResult(r) PROVE FlagTypes'
  BY <1>16, Zenon DEF PostResult, Post, screenVars, FlagTypes
<1>17. ASSUME NEW r \in Runner, SelectUpdate(r) PROVE FlagTypes'
  BY <1>17, Zenon DEF SelectUpdate, screenVars, FlagTypes
<1>18. ASSUME NEW r \in Runner, SelectCompletion(r) PROVE FlagTypes'
  BY <1>18, Zenon DEF SelectCompletion, screenVars, FlagTypes
<1>19. ASSUME NEW r \in Runner, EndThread(r) PROVE FlagTypes'
  BY <1>19, Zenon DEF EndThread, screenVars, FlagTypes
<1>20. ASSUME NEW r \in Runner, FailThread(r) PROVE FlagTypes'
  BY <1>20, Zenon DEF FailThread, screenVars, FlagTypes
<1>21. ASSUME NEW r \in Runner, DropTask(r) PROVE FlagTypes'
  BY <1>21, Zenon DEF DropTask, screenVars, FlagTypes
<1>22. ASSUME NEW r \in Runner, Update(r) PROVE FlagTypes'
  BY <1>22, Zenon, MessageIsTaken DEF Updates, SnapshotUpdated, BalancerStarted,
     BalancerFailed, BalancerStopped, AgentEnded, GoHome, ClearForm, screenVars,
     FlagTypes
<1>23. QED
  BY <1>1, <1>2, <1>3, <1>4, <1>5, <1>6, <1>7, <1>8, <1>9, <1>10, <1>11, <1>12, <1>13,
     <1>14, <1>15, <1>16, <1>17, <1>18, <1>19, <1>20, <1>21, <1>22 DEF Next

\* Tasks and threads go together.
LEMMA RunnerShapeStep ==
    ASSUME RunnerTypes, OutboxTypes, RunnerShape, OutboxTypes', Next
    PROVE  RunnerShape'
<1>1. CASE HomeStartBalancer
  BY <1>1 DEF HomeStartBalancer, Sends, OpenForm, runnerVars, RunnerShape,
     RunnerTypes, OutboxTypes
<1>2. CASE HomeJoinBalancer
  BY <1>2 DEF HomeJoinBalancer, Sends, OpenForm, runnerVars, RunnerShape, RunnerTypes,
     OutboxTypes
<1>3. ASSUME NEW field \in TypedField, EditField(field) PROVE RunnerShape'
  BY <1>3 DEF EditField, Sends, runnerVars, RunnerShape, RunnerTypes, OutboxTypes
<1>4. CASE SelectModel
  BY <1>4 DEF SelectModel, Sends, runnerVars, RunnerShape, RunnerTypes, OutboxTypes
<1>5. CASE ToggleAddModelLater
  BY <1>5 DEF ToggleAddModelLater, Sends, runnerVars, RunnerShape, RunnerTypes,
     OutboxTypes
<1>6. CASE ConfirmStart
  <2>0. ConfirmTo
    BY <1>6, ConfirmIsSplit
  <2>1. ASSUME NEW r \in Runner, SpawnAs(r, "balancer", "starting"), starting' = TRUE, errors' = {}
        PROVE  RunnerShape'
    BY <2>0, <2>1 DEF ConfirmTo, SpawnAs, RunnerShape, RunnerTypes, OutboxTypes
  <2>2. CASE /\ starting' = starting /\ owner' = owner /\ kind' = kind /\ task' = task
             /\ thread' = thread /\ cancelled' = cancelled /\ outbox' = outbox
             /\ overlapped' = overlapped
    BY <2>0, <2>2 DEF ConfirmTo, RunnerShape, RunnerTypes, OutboxTypes
  <2>3. QED
    BY <2>0, <2>1, <2>2, Zenon DEF ConfirmTo
<1>7. CASE ConnectAgent
  <2>0. ConnectTo
    BY <1>7, ConnectIsSplit
  <2>1. ASSUME NEW r \in Runner, SpawnAs(r, "agent", "snapshot"), screen' = "AgentRunning",
               errors' = {}, shown' = None
        PROVE  RunnerShape'
    BY <2>0, <2>1 DEF ConnectTo, SpawnAs, RunnerShape, RunnerTypes, OutboxTypes
  <2>2. CASE /\ screen' = screen /\ errors' = invalid /\ shown' = shown
             /\ owner' = owner /\ kind' = kind /\ task' = task
             /\ thread' = thread /\ cancelled' = cancelled /\ outbox' = outbox
             /\ overlapped' = overlapped
    BY <2>0, <2>2 DEF ConnectTo, RunnerShape, RunnerTypes, OutboxTypes
  <2>3. QED
    BY <2>0, <2>1, <2>2, Zenon DEF ConnectTo
<1>8. CASE CancelStartForm
  BY <1>8 DEF CancelStartForm, Sends, Cancel, GoHome, ClearForm, RunnerShape,
     RunnerTypes, OutboxTypes
<1>9. CASE CancelJoinForm
  BY <1>9 DEF CancelJoinForm, Sends, GoHome, ClearForm, runnerVars, RunnerShape,
     RunnerTypes, OutboxTypes
<1>10. CASE StopBalancer
  BY <1>10 DEF StopBalancer, Sends, Cancel, RunnerShape, RunnerTypes, OutboxTypes
<1>11. CASE DisconnectAgent
  BY <1>11 DEF DisconnectAgent, Sends, Cancel, GoHome, ClearForm, RunnerShape,
     RunnerTypes, OutboxTypes
<1>12. CASE Quit
  BY <1>12 DEF Quit, GoHome, ClearForm, RunnerShape, RunnerTypes, OutboxTypes
<1>13. ASSUME NEW r \in Runner, StartRunner(r) PROVE RunnerShape'
  BY <1>13 DEF StartRunner, screenVars, RunnerShape, RunnerTypes, OutboxTypes
<1>14. ASSUME NEW r \in Runner, AnnounceBalancer(r) PROVE RunnerShape'
  BY <1>14 DEF AnnounceBalancer, Post, screenVars, RunnerShape, RunnerTypes,
     OutboxTypes
<1>15. ASSUME NEW r \in Runner, PostSnapshot(r) PROVE RunnerShape'
  BY <1>15 DEF PostSnapshot, Post, screenVars, RunnerShape, RunnerTypes, OutboxTypes
<1>16. ASSUME NEW r \in Runner, PostResult(r) PROVE RunnerShape'
  BY <1>16 DEF PostResult, Post, screenVars, RunnerShape, RunnerTypes, OutboxTypes
<1>17. ASSUME NEW r \in Runner, SelectUpdate(r) PROVE RunnerShape'
  BY <1>17 DEF SelectUpdate, screenVars, RunnerShape, RunnerTypes, OutboxTypes
<1>18. ASSUME NEW r \in Runner, SelectCompletion(r) PROVE RunnerShape'
  BY <1>18 DEF SelectCompletion, screenVars, RunnerShape, RunnerTypes, OutboxTypes
<1>19. ASSUME NEW r \in Runner, EndThread(r) PROVE RunnerShape'
  BY <1>19 DEF EndThread, screenVars, RunnerShape, RunnerTypes, OutboxTypes
<1>20. ASSUME NEW r \in Runner, FailThread(r) PROVE RunnerShape'
  BY <1>20 DEF FailThread, screenVars, RunnerShape, RunnerTypes, OutboxTypes
<1>21. ASSUME NEW r \in Runner, DropTask(r) PROVE RunnerShape'
  BY <1>21 DEF DropTask, screenVars, RunnerShape, RunnerTypes, OutboxTypes
<1>22. ASSUME NEW r \in Runner, Update(r) PROVE RunnerShape'
  <2>0. Updates(r)
    BY <1>22, MessageIsTaken
  <2>1. /\ ~shutdown /\ outbox[r] # <<>> /\ outbox' = [outbox EXCEPT ![r] = <<>>]
        /\ shutdown' = shutdown /\ kind' = kind /\ task' = task /\ thread' = thread
        /\ cancelled' = cancelled /\ overlapped' = overlapped
    BY <2>0 DEF Updates
  <2>2. CASE SnapshotUpdated(r)
    BY <2>1, <2>0, <2>2 DEF SnapshotUpdated, RunnerShape, RunnerTypes, OutboxTypes
  <2>3. CASE BalancerStarted
    BY <2>1, <2>0, <2>3 DEF BalancerStarted, ClearForm, screenVars, RunnerShape,
       RunnerTypes, OutboxTypes
  <2>4. ASSUME NEW failed \in BOOLEAN, task[r] = "over", kind[r] = "agent", AgentEnded(failed)
        PROVE  RunnerShape'
    BY <2>1, <2>0, <2>4 DEF AgentEnded, GoHome, ClearForm, screenVars, RunnerShape,
       RunnerTypes, OutboxTypes
  <2>5. CASE task[r] = "over" /\ kind[r] = "balancer" /\ BalancerFailed
    BY <2>1, <2>0, <2>5 DEF BalancerFailed, GoHome, ClearForm, screenVars,
       RunnerShape, RunnerTypes, OutboxTypes
  <2>6. CASE task[r] = "over" /\ kind[r] = "balancer" /\ BalancerStopped
    BY <2>1, <2>0, <2>6 DEF BalancerStopped, GoHome, ClearForm, screenVars,
       RunnerShape, RunnerTypes, OutboxTypes
  <2>7. QED
    BY <2>0, <2>2, <2>3, <2>4, <2>5, <2>6, Zenon DEF Updates
<1>23. QED
  BY <1>1, <1>2, <1>3, <1>4, <1>5, <1>6, <1>7, <1>8, <1>9, <1>10, <1>11, <1>12, <1>13,
     <1>14, <1>15, <1>16, <1>17, <1>18, <1>19, <1>20, <1>21, <1>22 DEF Next

\* What still runs has not posted its last message.
LEMMA LiveIsNotGone ==
    ASSUME RunnerShape, NEW r \in Runner, Live(r)
    PROVE  kind[r] # "none" /\ task[r] \notin {"none", "over"} /\ ~Gone(r)
  BY DEF RunnerShape, Live, Gone

\* Without an overlap nothing of the kind is left when a runner is started.
LEMMA NothingIsLeft ==
    ASSUME NEW r \in Runner, NEW k, NEW first, SpawnAs(r, k, first), ~overlapped'
    PROVE  ~overlapped /\ \A other \in Runner : kind[other] = k => Gone(other)
  BY Zenon DEF SpawnAs

\* A runner that is taken out of its screen was the one that is kept.
LEMMA TakenIsKept ==
    ASSUME RunnerShape, OwnerIsPresent, ~overlapped, ~shutdown, NEW r \in Runner, outbox[r] # <<>>
    PROVE  kind[r] # "none" /\ owner[kind[r]] = r
  BY DEF RunnerShape, OwnerIsPresent, Gone

\* The runner that is not gone is the one that is kept.
LEMMA OwnerStep ==
    ASSUME RunnerTypes, OutboxTypes, RunnerShape, OwnerIsPresent, FlagTypes, Next
    PROVE  OwnerIsPresent'
<1>1. CASE HomeStartBalancer
  BY <1>1 DEF HomeStartBalancer, Sends, OpenForm, runnerVars, OwnerIsPresent, Gone,
     RunnerTypes, FlagTypes
<1>2. CASE HomeJoinBalancer
  BY <1>2 DEF HomeJoinBalancer, Sends, OpenForm, runnerVars, OwnerIsPresent, Gone,
     RunnerTypes, FlagTypes
<1>3. ASSUME NEW field \in TypedField, EditField(field) PROVE OwnerIsPresent'
  BY <1>3 DEF EditField, Sends, runnerVars, OwnerIsPresent, Gone, RunnerTypes,
     FlagTypes
<1>4. CASE SelectModel
  BY <1>4 DEF SelectModel, Sends, runnerVars, OwnerIsPresent, Gone, RunnerTypes,
     FlagTypes
<1>5. CASE ToggleAddModelLater
  BY <1>5 DEF ToggleAddModelLater, Sends, runnerVars, OwnerIsPresent, Gone,
     RunnerTypes, FlagTypes
<1>6. CASE ConfirmStart
  <2>0. ConfirmTo
    BY <1>6, ConfirmIsSplit
  <2>1. ASSUME NEW r \in Runner, SpawnAs(r, "balancer", "starting"), starting' = TRUE, errors' = {}
        PROVE  OwnerIsPresent'
    <3>1. SUFFICES ASSUME ~overlapped', NEW s \in Runner, kind'[s] # "none", ~Gone(s)'
                   PROVE  owner'[kind'[s]] = s
      BY DEF OwnerIsPresent
    <3>2. ~overlapped /\ \A other \in Runner : kind[other] = "balancer" => Gone(other)
      BY <2>1, <3>1, NothingIsLeft
    <3>3. CASE s = r
      BY <2>1, <3>3 DEF SpawnAs, RunnerTypes, RunnerKind
    <3>4. CASE s # r
      <4>1. kind'[s] = kind[s] /\ task'[s] = task[s] /\ outbox'[s] = outbox[s]
        BY <2>1, <3>4 DEF SpawnAs, RunnerTypes
      <4>2. ~Gone(s) /\ kind[s] # "none" /\ kind[s] # "balancer"
        BY <3>1, <3>2, <4>1 DEF Gone
      <4>3. owner[kind[s]] = s
        BY <2>0, <3>2, <4>2 DEF OwnerIsPresent, ConfirmTo
      <4>4. QED
        BY <2>1, <4>1, <4>2, <4>3 DEF SpawnAs, RunnerTypes
    <3>5. QED
      BY <3>3, <3>4
  <2>2. CASE /\ starting' = starting /\ owner' = owner /\ kind' = kind /\ task' = task
             /\ thread' = thread /\ cancelled' = cancelled /\ outbox' = outbox
             /\ overlapped' = overlapped
    BY <2>0, <2>2 DEF ConfirmTo, OwnerIsPresent, Gone, RunnerTypes, FlagTypes
  <2>3. QED
    BY <2>0, <2>1, <2>2, Zenon DEF ConfirmTo
<1>7. CASE ConnectAgent
  <2>0. ConnectTo
    BY <1>7, ConnectIsSplit
  <2>1. ASSUME NEW r \in Runner, SpawnAs(r, "agent", "snapshot"), screen' = "AgentRunning",
               errors' = {}, shown' = None
        PROVE  OwnerIsPresent'
    <3>1. SUFFICES ASSUME ~overlapped', NEW s \in Runner, kind'[s] # "none", ~Gone(s)'
                   PROVE  owner'[kind'[s]] = s
      BY DEF OwnerIsPresent
    <3>2. ~overlapped /\ \A other \in Runner : kind[other] = "agent" => Gone(other)
      BY <2>1, <3>1, NothingIsLeft
    <3>3. CASE s = r
      BY <2>1, <3>3 DEF SpawnAs, RunnerTypes, RunnerKind
    <3>4. CASE s # r
      <4>1. kind'[s] = kind[s] /\ task'[s] = task[s] /\ outbox'[s] = outbox[s]
        BY <2>1, <3>4 DEF SpawnAs, RunnerTypes
      <4>2. ~Gone(s) /\ kind[s] # "none" /\ kind[s] # "agent"
        BY <3>1, <3>2, <4>1 DEF Gone
      <4>3. owner[kind[s]] = s
        BY <2>0, <3>2, <4>2 DEF OwnerIsPresent, ConnectTo
      <4>4. QED
        BY <2>1, <4>1, <4>2, <4>3 DEF SpawnAs, RunnerTypes
    <3>5. QED
      BY <3>3, <3>4
  <2>2. CASE /\ screen' = screen /\ errors' = invalid /\ shown' = shown
             /\ owner' = owner /\ kind' = kind /\ task' = task
             /\ thread' = thread /\ cancelled' = cancelled /\ outbox' = outbox
             /\ overlapped' = overlapped
    BY <2>0, <2>2 DEF ConnectTo, OwnerIsPresent, Gone, RunnerTypes, FlagTypes
  <2>3. QED
    BY <2>0, <2>1, <2>2, Zenon DEF ConnectTo
<1>8. CASE CancelStartForm
  BY <1>8 DEF CancelStartForm, Sends, Cancel, GoHome, ClearForm, OwnerIsPresent, Gone,
     RunnerTypes, FlagTypes
<1>9. CASE CancelJoinForm
  BY <1>9 DEF CancelJoinForm, Sends, GoHome, ClearForm, runnerVars, OwnerIsPresent,
     Gone, RunnerTypes, FlagTypes
<1>10. CASE StopBalancer
  BY <1>10 DEF StopBalancer, Sends, Cancel, OwnerIsPresent, Gone, RunnerTypes,
     FlagTypes
<1>11. CASE DisconnectAgent
  BY <1>11 DEF DisconnectAgent, Sends, Cancel, GoHome, ClearForm, OwnerIsPresent,
     Gone, RunnerTypes, FlagTypes
<1>12. CASE Quit
  BY <1>12 DEF Quit, GoHome, ClearForm, OwnerIsPresent, Gone, RunnerTypes, FlagTypes
<1>13. ASSUME NEW r \in Runner, StartRunner(r) PROVE OwnerIsPresent'
  BY <1>13 DEF StartRunner, screenVars, OwnerIsPresent, Gone, RunnerTypes, FlagTypes
<1>14. ASSUME NEW r \in Runner, AnnounceBalancer(r) PROVE OwnerIsPresent'
  BY <1>14 DEF AnnounceBalancer, Post, screenVars, OwnerIsPresent, Gone, RunnerTypes,
     FlagTypes
<1>15. ASSUME NEW r \in Runner, PostSnapshot(r) PROVE OwnerIsPresent'
  BY <1>15 DEF PostSnapshot, Post, screenVars, OwnerIsPresent, Gone, RunnerTypes,
     FlagTypes
<1>16. ASSUME NEW r \in Runner, PostResult(r) PROVE OwnerIsPresent'
  BY <1>16 DEF PostResult, Post, screenVars, OwnerIsPresent, Gone, RunnerTypes,
     FlagTypes
<1>17. ASSUME NEW r \in Runner, SelectUpdate(r) PROVE OwnerIsPresent'
  BY <1>17 DEF SelectUpdate, screenVars, OwnerIsPresent, Gone, RunnerTypes, FlagTypes
<1>18. ASSUME NEW r \in Runner, SelectCompletion(r) PROVE OwnerIsPresent'
  BY <1>18 DEF SelectCompletion, screenVars, OwnerIsPresent, Gone, RunnerTypes,
     FlagTypes
<1>19. ASSUME NEW r \in Runner, EndThread(r) PROVE OwnerIsPresent'
  BY <1>19 DEF EndThread, screenVars, OwnerIsPresent, Gone, RunnerTypes, FlagTypes
<1>20. ASSUME NEW r \in Runner, FailThread(r) PROVE OwnerIsPresent'
  BY <1>20 DEF FailThread, screenVars, OwnerIsPresent, Gone, RunnerTypes, FlagTypes
<1>21. ASSUME NEW r \in Runner, DropTask(r) PROVE OwnerIsPresent'
  BY <1>21 DEF DropTask, screenVars, OwnerIsPresent, Gone, RunnerTypes, FlagTypes
<1>22. ASSUME NEW r \in Runner, Update(r) PROVE OwnerIsPresent'
  <2>0. Updates(r)
    BY <1>22, MessageIsTaken
  <2>1. /\ ~shutdown /\ outbox[r] # <<>> /\ outbox' = [outbox EXCEPT ![r] = <<>>]
        /\ shutdown' = shutdown /\ kind' = kind /\ task' = task /\ thread' = thread
        /\ cancelled' = cancelled /\ overlapped' = overlapped
    BY <2>0 DEF Updates
  <2>2. CASE SnapshotUpdated(r)
    BY <2>1, <2>0, <2>2 DEF SnapshotUpdated, OwnerIsPresent, Gone, RunnerTypes,
       FlagTypes
  <2>3. CASE BalancerStarted
    BY <2>1, <2>0, <2>3 DEF BalancerStarted, ClearForm, screenVars, OwnerIsPresent,
       Gone, RunnerTypes, FlagTypes
  <2>4. ASSUME NEW failed \in BOOLEAN, task[r] = "over", kind[r] = "agent", AgentEnded(failed)
        PROVE  OwnerIsPresent'
    <3>1. SUFFICES ASSUME ~overlapped, NEW s \in Runner, kind[s] # "none", ~Gone(s)'
                   PROVE  owner'[kind[s]] = s
      BY <2>1 DEF OwnerIsPresent
    <3>2. owner["agent"] = r
      BY <2>1, <2>4, <3>1, TakenIsKept
    <3>3. ~Gone(s)
      BY <2>1, <3>1 DEF Gone, OutboxTypes
    <3>4. owner[kind[s]] = s
      BY <2>1, <3>1, <3>3 DEF OwnerIsPresent
    <3>5. s # r
      BY <2>1, <2>4, <3>1 DEF Gone, OutboxTypes
    <3>6. kind[s] # "agent"
      BY <3>2, <3>4, <3>5
    <3>7. owner' = owner \/ owner' = [owner EXCEPT !["agent"] = None]
      BY <2>4 DEF AgentEnded, screenVars
    <3>8. QED
      BY <3>1, <3>4, <3>6, <3>7 DEF RunnerTypes
  <2>5. CASE task[r] = "over" /\ kind[r] = "balancer" /\ BalancerFailed
    <3>1. SUFFICES ASSUME ~overlapped, NEW s \in Runner, kind[s] # "none", ~Gone(s)'
                   PROVE  owner'[kind[s]] = s
      BY <2>1 DEF OwnerIsPresent
    <3>2. owner["balancer"] = r
      BY <2>1, <2>5, <3>1, TakenIsKept
    <3>3. ~Gone(s)
      BY <2>1, <3>1 DEF Gone, OutboxTypes
    <3>4. owner[kind[s]] = s
      BY <2>1, <3>1, <3>3 DEF OwnerIsPresent
    <3>5. s # r
      BY <2>1, <2>5, <3>1 DEF Gone, OutboxTypes
    <3>6. kind[s] # "balancer"
      BY <3>2, <3>4, <3>5
    <3>7. owner' = owner \/ owner' = [owner EXCEPT !["balancer"] = None]
      BY <2>5 DEF BalancerFailed, screenVars
    <3>8. QED
      BY <3>1, <3>4, <3>6, <3>7 DEF RunnerTypes
  <2>6. CASE task[r] = "over" /\ kind[r] = "balancer" /\ BalancerStopped
    <3>1. SUFFICES ASSUME ~overlapped, NEW s \in Runner, kind[s] # "none", ~Gone(s)'
                   PROVE  owner'[kind[s]] = s
      BY <2>1 DEF OwnerIsPresent
    <3>2. owner["balancer"] = r
      BY <2>1, <2>6, <3>1, TakenIsKept
    <3>3. ~Gone(s)
      BY <2>1, <3>1 DEF Gone, OutboxTypes
    <3>4. owner[kind[s]] = s
      BY <2>1, <3>1, <3>3 DEF OwnerIsPresent
    <3>5. s # r
      BY <2>1, <2>6, <3>1 DEF Gone, OutboxTypes
    <3>6. kind[s] # "balancer"
      BY <3>2, <3>4, <3>5
    <3>7. owner' = owner \/ owner' = [owner EXCEPT !["balancer"] = None]
      BY <2>6 DEF BalancerStopped, screenVars
    <3>8. QED
      BY <3>1, <3>4, <3>6, <3>7 DEF RunnerTypes
  <2>7. QED
    BY <2>0, <2>2, <2>3, <2>4, <2>5, <2>6, Zenon DEF Updates
<1>23. QED
  BY <1>1, <1>2, <1>3, <1>4, <1>5, <1>6, <1>7, <1>8, <1>9, <1>10, <1>11, <1>12, <1>13,
     <1>14, <1>15, <1>16, <1>17, <1>18, <1>19, <1>20, <1>21, <1>22 DEF Next

\* The screen shows a runner of its kind.
LEMMA ScreenShapeStep ==
    ASSUME RunnerTypes, RunnerShape, ScreenShape, FlagTypes, Next
    PROVE  ScreenShape'
<1>1. CASE HomeStartBalancer
  BY <1>1 DEF HomeStartBalancer, Sends, OpenForm, runnerVars, ScreenShape,
     RunnerTypes, None
<1>2. CASE HomeJoinBalancer
  BY <1>2 DEF HomeJoinBalancer, Sends, OpenForm, runnerVars, ScreenShape, RunnerTypes,
     None
<1>3. ASSUME NEW field \in TypedField, EditField(field) PROVE ScreenShape'
  BY <1>3 DEF EditField, Sends, runnerVars, ScreenShape, RunnerTypes, None
<1>4. CASE SelectModel
  BY <1>4 DEF SelectModel, Sends, runnerVars, ScreenShape, RunnerTypes, None
<1>5. CASE ToggleAddModelLater
  BY <1>5 DEF ToggleAddModelLater, Sends, runnerVars, ScreenShape, RunnerTypes, None
<1>6. CASE ConfirmStart
  <2>0. ConfirmTo
    BY <1>6, ConfirmIsSplit
  <2>1. ASSUME NEW r \in Runner, SpawnAs(r, "balancer", "starting"), starting' = TRUE, errors' = {}
        PROVE  ScreenShape'
    BY <2>0, <2>1 DEF ConfirmTo, SpawnAs, ScreenShape, RunnerTypes, None
  <2>2. CASE /\ starting' = starting /\ owner' = owner /\ kind' = kind /\ task' = task
             /\ thread' = thread /\ cancelled' = cancelled /\ outbox' = outbox
             /\ overlapped' = overlapped
    BY <2>0, <2>2 DEF ConfirmTo, ScreenShape, RunnerTypes, None
  <2>3. QED
    BY <2>0, <2>1, <2>2, Zenon DEF ConfirmTo
<1>7. CASE ConnectAgent
  <2>0. ConnectTo
    BY <1>7, ConnectIsSplit
  <2>1. ASSUME NEW r \in Runner, SpawnAs(r, "agent", "snapshot"), screen' = "AgentRunning",
               errors' = {}, shown' = None
        PROVE  ScreenShape'
    BY <2>0, <2>1 DEF ConnectTo, SpawnAs, ScreenShape, RunnerTypes, None
  <2>2. CASE /\ screen' = screen /\ errors' = invalid /\ shown' = shown
             /\ owner' = owner /\ kind' = kind /\ task' = task
             /\ thread' = thread /\ cancelled' = cancelled /\ outbox' = outbox
             /\ overlapped' = overlapped
    BY <2>0, <2>2 DEF ConnectTo, ScreenShape, RunnerTypes, None
  <2>3. QED
    BY <2>0, <2>1, <2>2, Zenon DEF ConnectTo
<1>8. CASE CancelStartForm
  BY <1>8 DEF CancelStartForm, Sends, Cancel, GoHome, ClearForm, ScreenShape,
     RunnerTypes, None
<1>9. CASE CancelJoinForm
  BY <1>9 DEF CancelJoinForm, Sends, GoHome, ClearForm, runnerVars, ScreenShape,
     RunnerTypes, None
<1>10. CASE StopBalancer
  BY <1>10 DEF StopBalancer, Sends, Cancel, ScreenShape, RunnerTypes, None
<1>11. CASE DisconnectAgent
  BY <1>11 DEF DisconnectAgent, Sends, Cancel, GoHome, ClearForm, ScreenShape,
     RunnerTypes, None
<1>12. CASE Quit
  BY <1>12 DEF Quit, GoHome, ClearForm, ScreenShape, RunnerTypes, None
<1>13. ASSUME NEW r \in Runner, StartRunner(r) PROVE ScreenShape'
  BY <1>13 DEF StartRunner, screenVars, ScreenShape, RunnerTypes, None
<1>14. ASSUME NEW r \in Runner, AnnounceBalancer(r) PROVE ScreenShape'
  BY <1>14 DEF AnnounceBalancer, Post, screenVars, ScreenShape, RunnerTypes, None
<1>15. ASSUME NEW r \in Runner, PostSnapshot(r) PROVE ScreenShape'
  BY <1>15 DEF PostSnapshot, Post, screenVars, ScreenShape, RunnerTypes, None
<1>16. ASSUME NEW r \in Runner, PostResult(r) PROVE ScreenShape'
  BY <1>16 DEF PostResult, Post, screenVars, ScreenShape, RunnerTypes, None
<1>17. ASSUME NEW r \in Runner, SelectUpdate(r) PROVE ScreenShape'
  BY <1>17 DEF SelectUpdate, screenVars, ScreenShape, RunnerTypes, None
<1>18. ASSUME NEW r \in Runner, SelectCompletion(r) PROVE ScreenShape'
  BY <1>18 DEF SelectCompletion, screenVars, ScreenShape, RunnerTypes, None
<1>19. ASSUME NEW r \in Runner, EndThread(r) PROVE ScreenShape'
  BY <1>19 DEF EndThread, screenVars, ScreenShape, RunnerTypes, None
<1>20. ASSUME NEW r \in Runner, FailThread(r) PROVE ScreenShape'
  BY <1>20 DEF FailThread, screenVars, ScreenShape, RunnerTypes, None
<1>21. ASSUME NEW r \in Runner, DropTask(r) PROVE ScreenShape'
  BY <1>21 DEF DropTask, screenVars, ScreenShape, RunnerTypes, None
<1>22. ASSUME NEW r \in Runner, Update(r) PROVE ScreenShape'
  <2>0. Updates(r)
    BY <1>22, MessageIsTaken
  <2>1. /\ ~shutdown /\ outbox[r] # <<>> /\ outbox' = [outbox EXCEPT ![r] = <<>>]
        /\ shutdown' = shutdown /\ kind' = kind /\ task' = task /\ thread' = thread
        /\ cancelled' = cancelled /\ overlapped' = overlapped
    BY <2>0 DEF Updates
  <2>2. CASE SnapshotUpdated(r)
    <3>1. kind[r] \in RunnerKind
      BY <2>1 DEF RunnerShape, RunnerTypes
    <3>2. CASE screen = (IF kind[r] = "agent" THEN "AgentRunning" ELSE "RunningBalancer")
      BY <2>1, <2>2, <3>1, <3>2 DEF SnapshotUpdated, ScreenShape, RunnerKind
    <3>3. CASE screen # (IF kind[r] = "agent" THEN "AgentRunning" ELSE "RunningBalancer")
      BY <2>1, <2>2, <3>3 DEF SnapshotUpdated, ScreenShape
    <3>4. QED
      BY <3>2, <3>3
  <2>3. CASE BalancerStarted
    BY <2>1, <2>0, <2>3 DEF BalancerStarted, ClearForm, screenVars, ScreenShape,
       RunnerTypes, None
  <2>4. ASSUME NEW failed \in BOOLEAN, task[r] = "over", kind[r] = "agent", AgentEnded(failed)
        PROVE  ScreenShape'
    BY <2>1, <2>0, <2>4 DEF AgentEnded, GoHome, ClearForm, screenVars, ScreenShape,
       RunnerTypes, None
  <2>5. CASE task[r] = "over" /\ kind[r] = "balancer" /\ BalancerFailed
    BY <2>1, <2>0, <2>5 DEF BalancerFailed, GoHome, ClearForm, screenVars,
       ScreenShape, RunnerTypes, None
  <2>6. CASE task[r] = "over" /\ kind[r] = "balancer" /\ BalancerStopped
    BY <2>1, <2>0, <2>6 DEF BalancerStopped, GoHome, ClearForm, screenVars,
       ScreenShape, RunnerTypes, None
  <2>7. QED
    BY <2>0, <2>2, <2>3, <2>4, <2>5, <2>6, Zenon DEF Updates
<1>23. QED
  BY <1>1, <1>2, <1>3, <1>4, <1>5, <1>6, <1>7, <1>8, <1>9, <1>10, <1>11, <1>12, <1>13,
     <1>14, <1>15, <1>16, <1>17, <1>18, <1>19, <1>20, <1>21, <1>22 DEF Next

\* What runs and was not cancelled is in reach.
LEMMA ReachStep ==
    ASSUME RunnerTypes, RunnerShape, ScreenShape, OwnerIsPresent, FlagTypes,
           RunningIsInReach, Next
    PROVE  RunningIsInReach'
<1>1. CASE HomeStartBalancer
  BY <1>1 DEF HomeStartBalancer, Sends, OpenForm, runnerVars, RunningIsInReach, Live,
     RunnerTypes
<1>2. CASE HomeJoinBalancer
  BY <1>2 DEF HomeJoinBalancer, Sends, OpenForm, runnerVars, RunningIsInReach, Live,
     RunnerTypes
<1>3. ASSUME NEW field \in TypedField, EditField(field) PROVE RunningIsInReach'
  BY <1>3 DEF EditField, Sends, runnerVars, RunningIsInReach, Live, RunnerTypes
<1>4. CASE SelectModel
  BY <1>4 DEF SelectModel, Sends, runnerVars, RunningIsInReach, Live, RunnerTypes
<1>5. CASE ToggleAddModelLater
  BY <1>5 DEF ToggleAddModelLater, Sends, runnerVars, RunningIsInReach, Live,
     RunnerTypes
<1>6. CASE ConfirmStart
  <2>0. ConfirmTo
    BY <1>6, ConfirmIsSplit
  <2>1. ASSUME NEW r \in Runner, SpawnAs(r, "balancer", "starting"), starting' = TRUE, errors' = {}
        PROVE  RunningIsInReach'
    <3>1. SUFFICES ASSUME NEW s \in Runner, Live(s)', ~cancelled'[s], ~overlapped'
                   PROVE  /\ owner'[kind'[s]] = s
                          /\ screen' \in IF kind'[s] = "agent" THEN {"AgentRunning"}
                                         ELSE {"StartBalancerForm", "RunningBalancer"}
      BY DEF RunningIsInReach
    <3>2. ~overlapped /\ \A other \in Runner : kind[other] = "balancer" => Gone(other)
      BY <2>1, <3>1, NothingIsLeft
    <3>3. CASE s = r
      BY <2>0, <2>1, <3>3 DEF ConfirmTo, SpawnAs, RunnerTypes, RunnerKind
    <3>4. CASE s # r
      <4>1. kind'[s] = kind[s] /\ Live(s) /\ ~cancelled[s]
        BY <2>1, <3>1, <3>4 DEF SpawnAs, RunnerTypes, Live
      <4>2. kind[s] # "balancer" /\ kind[s] # "none"
        BY <3>2, <4>1, LiveIsNotGone
      <4>3. screen \in IF kind[s] = "agent" THEN {"AgentRunning"}
                       ELSE {"StartBalancerForm", "RunningBalancer"}
        BY <3>2, <4>1 DEF RunningIsInReach
      <4>4. QED
        BY <2>0, <4>2, <4>3 DEF ConfirmTo, RunnerTypes, RunnerKind
    <3>5. QED
      BY <3>3, <3>4
  <2>2. CASE /\ starting' = starting /\ owner' = owner /\ kind' = kind /\ task' = task
             /\ thread' = thread /\ cancelled' = cancelled /\ outbox' = outbox
             /\ overlapped' = overlapped
    BY <2>0, <2>2 DEF ConfirmTo, RunningIsInReach, Live, RunnerTypes
  <2>3. QED
    BY <2>0, <2>1, <2>2, Zenon DEF ConfirmTo
<1>7. CASE ConnectAgent
  <2>0. ConnectTo
    BY <1>7, ConnectIsSplit
  <2>1. ASSUME NEW r \in Runner, SpawnAs(r, "agent", "snapshot"), screen' = "AgentRunning",
               errors' = {}, shown' = None
        PROVE  RunningIsInReach'
    <3>1. SUFFICES ASSUME NEW s \in Runner, Live(s)', ~cancelled'[s], ~overlapped'
                   PROVE  /\ owner'[kind'[s]] = s
                          /\ screen' \in IF kind'[s] = "agent" THEN {"AgentRunning"}
                                         ELSE {"StartBalancerForm", "RunningBalancer"}
      BY DEF RunningIsInReach
    <3>2. ~overlapped /\ \A other \in Runner : kind[other] = "agent" => Gone(other)
      BY <2>1, <3>1, NothingIsLeft
    <3>3. CASE s = r
      BY <2>0, <2>1, <3>3 DEF ConnectTo, SpawnAs, RunnerTypes, RunnerKind
    <3>4. CASE s # r
      <4>1. kind'[s] = kind[s] /\ Live(s) /\ ~cancelled[s]
        BY <2>1, <3>1, <3>4 DEF SpawnAs, RunnerTypes, Live
      <4>2. kind[s] # "agent" /\ kind[s] # "none"
        BY <3>2, <4>1, LiveIsNotGone
      <4>3. screen \in IF kind[s] = "agent" THEN {"AgentRunning"}
                       ELSE {"StartBalancerForm", "RunningBalancer"}
        BY <3>2, <4>1 DEF RunningIsInReach
      <4>4. QED
        BY <2>0, <4>2, <4>3 DEF ConnectTo, RunnerTypes, RunnerKind
    <3>5. QED
      BY <3>3, <3>4
  <2>2. CASE /\ screen' = screen /\ errors' = invalid /\ shown' = shown
             /\ owner' = owner /\ kind' = kind /\ task' = task
             /\ thread' = thread /\ cancelled' = cancelled /\ outbox' = outbox
             /\ overlapped' = overlapped
    BY <2>0, <2>2 DEF ConnectTo, RunningIsInReach, Live, RunnerTypes
  <2>3. QED
    BY <2>0, <2>1, <2>2, Zenon DEF ConnectTo
<1>8. CASE CancelStartForm
  <2>1. SUFFICES ASSUME NEW s \in Runner, Live(s)', ~cancelled'[s], ~overlapped'
                 PROVE  FALSE
    BY DEF RunningIsInReach
  <2>2. Live(s) /\ ~cancelled[s] /\ ~overlapped
    BY <1>8, <2>1, RunnersAreCounted DEF CancelStartForm, Cancel, Live, RunnerTypes
  <2>3. /\ owner[kind[s]] = s
        /\ screen \in IF kind[s] = "agent" THEN {"AgentRunning"}
                      ELSE {"StartBalancerForm", "RunningBalancer"}
    BY <2>2 DEF RunningIsInReach
  <2>4. kind[s] = "balancer"
    BY <1>8, <2>2, <2>3, LiveIsNotGone DEF CancelStartForm, Sends, RunnerTypes, RunnerKind
  <2>5. QED
    BY <1>8, <2>1, <2>3, <2>4, RunnersAreCounted DEF CancelStartForm, Cancel, RunnerTypes, None
<1>9. CASE CancelJoinForm
  BY <1>9 DEF CancelJoinForm, Sends, GoHome, ClearForm, runnerVars, RunningIsInReach,
     Live, RunnerTypes
<1>10. CASE StopBalancer
  BY <1>10 DEF StopBalancer, Sends, Cancel, RunningIsInReach, Live, RunnerTypes
<1>11. CASE DisconnectAgent
  <2>1. SUFFICES ASSUME NEW s \in Runner, Live(s)', ~cancelled'[s], ~overlapped'
                 PROVE  FALSE
    BY DEF RunningIsInReach
  <2>2. Live(s) /\ ~cancelled[s] /\ ~overlapped
    BY <1>11, <2>1, RunnersAreCounted DEF DisconnectAgent, Cancel, Live, RunnerTypes
  <2>3. /\ owner[kind[s]] = s
        /\ screen \in IF kind[s] = "agent" THEN {"AgentRunning"}
                      ELSE {"StartBalancerForm", "RunningBalancer"}
    BY <2>2 DEF RunningIsInReach
  <2>4. kind[s] = "agent"
    BY <1>11, <2>2, <2>3, LiveIsNotGone DEF DisconnectAgent, Sends, RunnerTypes, RunnerKind
  <2>5. QED
    BY <1>11, <2>1, <2>3, <2>4, RunnersAreCounted DEF DisconnectAgent, Cancel, RunnerTypes, None
<1>12. CASE Quit
  <2>1. SUFFICES ASSUME NEW s \in Runner, Live(s)', ~cancelled'[s]
                 PROVE  FALSE
    BY DEF RunningIsInReach
  <2>2. Live(s)
    BY <1>12, <2>1 DEF Quit, Live
  <2>3. kind[s] # "none"
    BY <2>2, LiveIsNotGone
  <2>4. cancelled'[s]
    BY <1>12, <2>3, Zenon DEF Quit
  <2>5. QED
    BY <2>1, <2>4
<1>13. ASSUME NEW r \in Runner, StartRunner(r) PROVE RunningIsInReach'
  BY <1>13 DEF StartRunner, screenVars, RunningIsInReach, Live, RunnerTypes
<1>14. ASSUME NEW r \in Runner, AnnounceBalancer(r) PROVE RunningIsInReach'
  BY <1>14 DEF AnnounceBalancer, Post, screenVars, RunningIsInReach, Live, RunnerTypes
<1>15. ASSUME NEW r \in Runner, PostSnapshot(r) PROVE RunningIsInReach'
  BY <1>15 DEF PostSnapshot, Post, screenVars, RunningIsInReach, Live, RunnerTypes
<1>16. ASSUME NEW r \in Runner, PostResult(r) PROVE RunningIsInReach'
  BY <1>16 DEF PostResult, Post, screenVars, RunningIsInReach, Live, RunnerTypes
<1>17. ASSUME NEW r \in Runner, SelectUpdate(r) PROVE RunningIsInReach'
  BY <1>17 DEF SelectUpdate, screenVars, RunningIsInReach, Live, RunnerTypes
<1>18. ASSUME NEW r \in Runner, SelectCompletion(r) PROVE RunningIsInReach'
  BY <1>18 DEF SelectCompletion, screenVars, RunningIsInReach, Live, RunnerTypes
<1>19. ASSUME NEW r \in Runner, EndThread(r) PROVE RunningIsInReach'
  BY <1>19 DEF EndThread, screenVars, RunningIsInReach, Live, RunnerTypes
<1>20. ASSUME NEW r \in Runner, FailThread(r) PROVE RunningIsInReach'
  BY <1>20 DEF FailThread, screenVars, RunningIsInReach, Live, RunnerTypes
<1>21. ASSUME NEW r \in Runner, DropTask(r) PROVE RunningIsInReach'
  BY <1>21 DEF DropTask, screenVars, RunningIsInReach, Live, RunnerTypes
<1>22. ASSUME NEW r \in Runner, Update(r) PROVE RunningIsInReach'
  <2>0. Updates(r)
    BY <1>22, MessageIsTaken
  <2>1. /\ ~shutdown /\ outbox[r] # <<>> /\ outbox' = [outbox EXCEPT ![r] = <<>>]
        /\ shutdown' = shutdown /\ kind' = kind /\ task' = task /\ thread' = thread
        /\ cancelled' = cancelled /\ overlapped' = overlapped
    BY <2>0 DEF Updates
  <2>2. CASE SnapshotUpdated(r)
    BY <2>1, <2>0, <2>2 DEF SnapshotUpdated, RunningIsInReach, Live, RunnerTypes
  <2>3. CASE BalancerStarted
    BY <2>1, <2>0, <2>3 DEF BalancerStarted, ClearForm, screenVars,
       RunningIsInReach, Live, RunnerTypes
  <2>4. ASSUME NEW failed \in BOOLEAN, task[r] = "over", kind[r] = "agent", AgentEnded(failed)
        PROVE  RunningIsInReach'
    <3>1. SUFFICES ASSUME NEW s \in Runner, Live(s)', ~cancelled'[s], ~overlapped'
                   PROVE  /\ owner'[kind'[s]] = s
                          /\ screen' \in IF kind'[s] = "agent" THEN {"AgentRunning"}
                                         ELSE {"StartBalancerForm", "RunningBalancer"}
      BY DEF RunningIsInReach
    <3>2. Live(s) /\ ~cancelled[s] /\ ~overlapped /\ kind'[s] = kind[s]
      BY <2>1, <3>1 DEF Live
    <3>3. /\ owner[kind[s]] = s
          /\ screen \in IF kind[s] = "agent" THEN {"AgentRunning"}
                        ELSE {"StartBalancerForm", "RunningBalancer"}
      BY <3>2 DEF RunningIsInReach
    <3>4. owner["agent"] = r /\ s # r
      BY <2>1, <2>4, <3>2, TakenIsKept, LiveIsNotGone
    <3>5. kind[s] # "agent" /\ kind[s] \in RunnerKind
      BY <3>2, <3>3, <3>4, LiveIsNotGone DEF RunnerTypes
    <3>6. screen' = screen /\ owner' = owner
      BY <2>4, <3>3, <3>5 DEF AgentEnded, RunnerKind, screenVars
    <3>7. QED
      BY <3>2, <3>3, <3>6
  <2>5. CASE task[r] = "over" /\ kind[r] = "balancer" /\ BalancerFailed
    <3>1. SUFFICES ASSUME NEW s \in Runner, Live(s)', ~cancelled'[s], ~overlapped'
                   PROVE  /\ owner'[kind'[s]] = s
                          /\ screen' \in IF kind'[s] = "agent" THEN {"AgentRunning"}
                                         ELSE {"StartBalancerForm", "RunningBalancer"}
      BY DEF RunningIsInReach
    <3>2. Live(s) /\ ~cancelled[s] /\ ~overlapped /\ kind'[s] = kind[s]
      BY <2>1, <3>1 DEF Live
    <3>3. /\ owner[kind[s]] = s
          /\ screen \in IF kind[s] = "agent" THEN {"AgentRunning"}
                        ELSE {"StartBalancerForm", "RunningBalancer"}
      BY <3>2 DEF RunningIsInReach
    <3>4. owner["balancer"] = r /\ s # r
      BY <2>1, <2>5, <3>2, TakenIsKept, LiveIsNotGone
    <3>5. kind[s] # "balancer" /\ kind[s] \in RunnerKind
      BY <3>2, <3>3, <3>4, LiveIsNotGone DEF RunnerTypes
    <3>6. screen' = screen /\ owner' = owner
      BY <2>5, <3>3, <3>5 DEF BalancerFailed, RunnerKind, screenVars
    <3>7. QED
      BY <3>2, <3>3, <3>6
  <2>6. CASE task[r] = "over" /\ kind[r] = "balancer" /\ BalancerStopped
    <3>1. SUFFICES ASSUME NEW s \in Runner, Live(s)', ~cancelled'[s], ~overlapped'
                   PROVE  /\ owner'[kind'[s]] = s
                          /\ screen' \in IF kind'[s] = "agent" THEN {"AgentRunning"}
                                         ELSE {"StartBalancerForm", "RunningBalancer"}
      BY DEF RunningIsInReach
    <3>2. Live(s) /\ ~cancelled[s] /\ ~overlapped /\ kind'[s] = kind[s]
      BY <2>1, <3>1 DEF Live
    <3>3. /\ owner[kind[s]] = s
          /\ screen \in IF kind[s] = "agent" THEN {"AgentRunning"}
                        ELSE {"StartBalancerForm", "RunningBalancer"}
      BY <3>2 DEF RunningIsInReach
    <3>4. owner["balancer"] = r /\ s # r
      BY <2>1, <2>6, <3>2, TakenIsKept, LiveIsNotGone
    <3>5. kind[s] # "balancer" /\ kind[s] \in RunnerKind
      BY <3>2, <3>3, <3>4, LiveIsNotGone DEF RunnerTypes
    <3>6. screen' = screen /\ owner' = owner
      BY <2>6, <3>3, <3>5 DEF BalancerStopped, RunnerKind, screenVars
    <3>7. QED
      BY <3>2, <3>3, <3>6
  <2>7. QED
    BY <2>0, <2>2, <2>3, <2>4, <2>5, <2>6, Zenon DEF Updates
<1>23. QED
  BY <1>1, <1>2, <1>3, <1>4, <1>5, <1>6, <1>7, <1>8, <1>9, <1>10, <1>11, <1>12, <1>13,
     <1>14, <1>15, <1>16, <1>17, <1>18, <1>19, <1>20, <1>21, <1>22 DEF Next

\* What is shown is what would be stopped.
LEMMA ShownStep ==
    ASSUME RunnerTypes, RunnerShape, ScreenShape, OwnerIsPresent, FlagTypes,
           ShownIsStopped, Next
    PROVE  ShownIsStopped'
<1>1. CASE HomeStartBalancer
  BY <1>1 DEF HomeStartBalancer, Sends, OpenForm, runnerVars, ShownIsStopped,
     ScreenShape, RunnerTypes, None
<1>2. CASE HomeJoinBalancer
  BY <1>2 DEF HomeJoinBalancer, Sends, OpenForm, runnerVars, ShownIsStopped,
     ScreenShape, RunnerTypes, None
<1>3. ASSUME NEW field \in TypedField, EditField(field) PROVE ShownIsStopped'
  BY <1>3 DEF EditField, Sends, runnerVars, ShownIsStopped, ScreenShape, RunnerTypes,
     None
<1>4. CASE SelectModel
  BY <1>4 DEF SelectModel, Sends, runnerVars, ShownIsStopped, ScreenShape,
     RunnerTypes, None
<1>5. CASE ToggleAddModelLater
  BY <1>5 DEF ToggleAddModelLater, Sends, runnerVars, ShownIsStopped, ScreenShape,
     RunnerTypes, None
<1>6. CASE ConfirmStart
  <2>0. ConfirmTo
    BY <1>6, ConfirmIsSplit
  <2>1. ASSUME NEW r \in Runner, SpawnAs(r, "balancer", "starting"), starting' = TRUE, errors' = {}
        PROVE  ShownIsStopped'
    BY <2>0, <2>1 DEF ConfirmTo, SpawnAs, ShownIsStopped, ScreenShape, RunnerTypes,
       None
  <2>2. CASE /\ starting' = starting /\ owner' = owner /\ kind' = kind /\ task' = task
             /\ thread' = thread /\ cancelled' = cancelled /\ outbox' = outbox
             /\ overlapped' = overlapped
    BY <2>0, <2>2 DEF ConfirmTo, ShownIsStopped, ScreenShape, RunnerTypes, None
  <2>3. QED
    BY <2>0, <2>1, <2>2, Zenon DEF ConfirmTo
<1>7. CASE ConnectAgent
  <2>0. ConnectTo
    BY <1>7, ConnectIsSplit
  <2>1. ASSUME NEW r \in Runner, SpawnAs(r, "agent", "snapshot"), screen' = "AgentRunning",
               errors' = {}, shown' = None
        PROVE  ShownIsStopped'
    BY <2>0, <2>1 DEF ConnectTo, SpawnAs, ShownIsStopped, ScreenShape, RunnerTypes,
       None
  <2>2. CASE /\ screen' = screen /\ errors' = invalid /\ shown' = shown
             /\ owner' = owner /\ kind' = kind /\ task' = task
             /\ thread' = thread /\ cancelled' = cancelled /\ outbox' = outbox
             /\ overlapped' = overlapped
    BY <2>0, <2>2 DEF ConnectTo, ShownIsStopped, ScreenShape, RunnerTypes, None
  <2>3. QED
    BY <2>0, <2>1, <2>2, Zenon DEF ConnectTo
<1>8. CASE CancelStartForm
  BY <1>8 DEF CancelStartForm, Sends, Cancel, GoHome, ClearForm, ShownIsStopped,
     ScreenShape, RunnerTypes, None
<1>9. CASE CancelJoinForm
  BY <1>9 DEF CancelJoinForm, Sends, GoHome, ClearForm, runnerVars, ShownIsStopped,
     ScreenShape, RunnerTypes, None
<1>10. CASE StopBalancer
  BY <1>10 DEF StopBalancer, Sends, Cancel, ShownIsStopped, ScreenShape, RunnerTypes,
     None
<1>11. CASE DisconnectAgent
  BY <1>11 DEF DisconnectAgent, Sends, Cancel, GoHome, ClearForm, ShownIsStopped,
     ScreenShape, RunnerTypes, None
<1>12. CASE Quit
  BY <1>12 DEF Quit, GoHome, ClearForm, ShownIsStopped, ScreenShape, RunnerTypes, None
<1>13. ASSUME NEW r \in Runner, StartRunner(r) PROVE ShownIsStopped'
  BY <1>13 DEF StartRunner, screenVars, ShownIsStopped, ScreenShape, RunnerTypes, None
<1>14. ASSUME NEW r \in Runner, AnnounceBalancer(r) PROVE ShownIsStopped'
  BY <1>14 DEF AnnounceBalancer, Post, screenVars, ShownIsStopped, ScreenShape,
     RunnerTypes, None
<1>15. ASSUME NEW r \in Runner, PostSnapshot(r) PROVE ShownIsStopped'
  BY <1>15 DEF PostSnapshot, Post, screenVars, ShownIsStopped, ScreenShape,
     RunnerTypes, None
<1>16. ASSUME NEW r \in Runner, PostResult(r) PROVE ShownIsStopped'
  BY <1>16 DEF PostResult, Post, screenVars, ShownIsStopped, ScreenShape, RunnerTypes,
     None
<1>17. ASSUME NEW r \in Runner, SelectUpdate(r) PROVE ShownIsStopped'
  BY <1>17 DEF SelectUpdate, screenVars, ShownIsStopped, ScreenShape, RunnerTypes,
     None
<1>18. ASSUME NEW r \in Runner, SelectCompletion(r) PROVE ShownIsStopped'
  BY <1>18 DEF SelectCompletion, screenVars, ShownIsStopped, ScreenShape, RunnerTypes,
     None
<1>19. ASSUME NEW r \in Runner, EndThread(r) PROVE ShownIsStopped'
  BY <1>19 DEF EndThread, screenVars, ShownIsStopped, ScreenShape, RunnerTypes, None
<1>20. ASSUME NEW r \in Runner, FailThread(r) PROVE ShownIsStopped'
  BY <1>20 DEF FailThread, screenVars, ShownIsStopped, ScreenShape, RunnerTypes, None
<1>21. ASSUME NEW r \in Runner, DropTask(r) PROVE ShownIsStopped'
  BY <1>21 DEF DropTask, screenVars, ShownIsStopped, ScreenShape, RunnerTypes, None
<1>22. ASSUME NEW r \in Runner, Update(r) PROVE ShownIsStopped'
  <2>0. Updates(r)
    BY <1>22, MessageIsTaken
  <2>1. /\ ~shutdown /\ outbox[r] # <<>> /\ outbox' = [outbox EXCEPT ![r] = <<>>]
        /\ shutdown' = shutdown /\ kind' = kind /\ task' = task /\ thread' = thread
        /\ cancelled' = cancelled /\ overlapped' = overlapped
    BY <2>0 DEF Updates
  <2>2. CASE SnapshotUpdated(r)
    <3>1. ~overlapped => owner[kind[r]] = r
      BY <2>1, TakenIsKept
    <3>2. QED
      BY <2>1, <2>2, <3>1 DEF SnapshotUpdated, ShownIsStopped
  <2>3. CASE BalancerStarted
    BY <2>1, <2>0, <2>3 DEF BalancerStarted, ClearForm, screenVars, ShownIsStopped,
       ScreenShape, RunnerTypes, None
  <2>4. ASSUME NEW failed \in BOOLEAN, task[r] = "over", kind[r] = "agent", AgentEnded(failed)
        PROVE  ShownIsStopped'
    BY <2>1, <2>0, <2>4 DEF AgentEnded, GoHome, ClearForm, screenVars,
       ShownIsStopped, ScreenShape, RunnerTypes, None
  <2>5. CASE task[r] = "over" /\ kind[r] = "balancer" /\ BalancerFailed
    BY <2>1, <2>0, <2>5 DEF BalancerFailed, GoHome, ClearForm, screenVars,
       ShownIsStopped, ScreenShape, RunnerTypes, None
  <2>6. CASE task[r] = "over" /\ kind[r] = "balancer" /\ BalancerStopped
    BY <2>1, <2>0, <2>6 DEF BalancerStopped, GoHome, ClearForm, screenVars,
       ShownIsStopped, ScreenShape, RunnerTypes, None
  <2>7. QED
    BY <2>0, <2>2, <2>3, <2>4, <2>5, <2>6, Zenon DEF Updates
<1>23. QED
  BY <1>1, <1>2, <1>3, <1>4, <1>5, <1>6, <1>7, <1>8, <1>9, <1>10, <1>11, <1>12, <1>13,
     <1>14, <1>15, <1>16, <1>17, <1>18, <1>19, <1>20, <1>21, <1>22 DEF Next

\* Errors are about what the fields hold.
LEMMA ErrorsStep ==
    ASSUME ScreenTypes, RunnerTypes, RunnerShape, ScreenShape, ErrorsAreCurrent,
           Next
    PROVE  ErrorsAreCurrent'
<1>1. CASE HomeStartBalancer
  BY <1>1 DEF HomeStartBalancer, Sends, OpenForm, runnerVars, ErrorsAreCurrent,
     ScreenShape, ScreenTypes
<1>2. CASE HomeJoinBalancer
  BY <1>2 DEF HomeJoinBalancer, Sends, OpenForm, runnerVars, ErrorsAreCurrent,
     ScreenShape, ScreenTypes
<1>3. ASSUME NEW field \in TypedField, EditField(field) PROVE ErrorsAreCurrent'
  BY <1>3 DEF EditField, Sends, runnerVars, ErrorsAreCurrent, ScreenShape, ScreenTypes
<1>4. CASE SelectModel
  BY <1>4 DEF SelectModel, Sends, runnerVars, ErrorsAreCurrent, ScreenShape,
     ScreenTypes
<1>5. CASE ToggleAddModelLater
  BY <1>5 DEF ToggleAddModelLater, Sends, runnerVars, ErrorsAreCurrent, ScreenShape,
     ScreenTypes
<1>6. CASE ConfirmStart
  <2>0. ConfirmTo
    BY <1>6, ConfirmIsSplit
  <2>1. ASSUME NEW r \in Runner, SpawnAs(r, "balancer", "starting"), starting' = TRUE, errors' = {}
        PROVE  ErrorsAreCurrent'
    BY <2>0, <2>1 DEF ConfirmTo, SpawnAs, ErrorsAreCurrent, ScreenShape, ScreenTypes
  <2>2. CASE /\ starting' = starting /\ owner' = owner /\ kind' = kind /\ task' = task
             /\ thread' = thread /\ cancelled' = cancelled /\ outbox' = outbox
             /\ overlapped' = overlapped
    BY <2>0, <2>2 DEF ConfirmTo, ErrorsAreCurrent, ScreenShape, ScreenTypes
  <2>3. QED
    BY <2>0, <2>1, <2>2, Zenon DEF ConfirmTo
<1>7. CASE ConnectAgent
  <2>0. ConnectTo
    BY <1>7, ConnectIsSplit
  <2>1. ASSUME NEW r \in Runner, SpawnAs(r, "agent", "snapshot"), screen' = "AgentRunning",
               errors' = {}, shown' = None
        PROVE  ErrorsAreCurrent'
    BY <2>0, <2>1 DEF ConnectTo, SpawnAs, ErrorsAreCurrent, ScreenShape, ScreenTypes
  <2>2. CASE /\ screen' = screen /\ errors' = invalid /\ shown' = shown
             /\ owner' = owner /\ kind' = kind /\ task' = task
             /\ thread' = thread /\ cancelled' = cancelled /\ outbox' = outbox
             /\ overlapped' = overlapped
    BY <2>0, <2>2 DEF ConnectTo, ErrorsAreCurrent, ScreenShape, ScreenTypes
  <2>3. QED
    BY <2>0, <2>1, <2>2, Zenon DEF ConnectTo
<1>8. CASE CancelStartForm
  BY <1>8 DEF CancelStartForm, Sends, Cancel, GoHome, ClearForm, ErrorsAreCurrent,
     ScreenShape, ScreenTypes
<1>9. CASE CancelJoinForm
  BY <1>9 DEF CancelJoinForm, Sends, GoHome, ClearForm, runnerVars, ErrorsAreCurrent,
     ScreenShape, ScreenTypes
<1>10. CASE StopBalancer
  BY <1>10 DEF StopBalancer, Sends, Cancel, ErrorsAreCurrent, ScreenShape, ScreenTypes
<1>11. CASE DisconnectAgent
  BY <1>11 DEF DisconnectAgent, Sends, Cancel, GoHome, ClearForm, ErrorsAreCurrent,
     ScreenShape, ScreenTypes
<1>12. CASE Quit
  BY <1>12 DEF Quit, GoHome, ClearForm, ErrorsAreCurrent, ScreenShape, ScreenTypes
<1>13. ASSUME NEW r \in Runner, StartRunner(r) PROVE ErrorsAreCurrent'
  BY <1>13 DEF StartRunner, screenVars, ErrorsAreCurrent, ScreenShape, ScreenTypes
<1>14. ASSUME NEW r \in Runner, AnnounceBalancer(r) PROVE ErrorsAreCurrent'
  BY <1>14 DEF AnnounceBalancer, Post, screenVars, ErrorsAreCurrent, ScreenShape,
     ScreenTypes
<1>15. ASSUME NEW r \in Runner, PostSnapshot(r) PROVE ErrorsAreCurrent'
  BY <1>15 DEF PostSnapshot, Post, screenVars, ErrorsAreCurrent, ScreenShape,
     ScreenTypes
<1>16. ASSUME NEW r \in Runner, PostResult(r) PROVE ErrorsAreCurrent'
  BY <1>16 DEF PostResult, Post, screenVars, ErrorsAreCurrent, ScreenShape,
     ScreenTypes
<1>17. ASSUME NEW r \in Runner, SelectUpdate(r) PROVE ErrorsAreCurrent'
  BY <1>17 DEF SelectUpdate, screenVars, ErrorsAreCurrent, ScreenShape, ScreenTypes
<1>18. ASSUME NEW r \in Runner, SelectCompletion(r) PROVE ErrorsAreCurrent'
  BY <1>18 DEF SelectCompletion, screenVars, ErrorsAreCurrent, ScreenShape,
     ScreenTypes
<1>19. ASSUME NEW r \in Runner, EndThread(r) PROVE ErrorsAreCurrent'
  BY <1>19 DEF EndThread, screenVars, ErrorsAreCurrent, ScreenShape, ScreenTypes
<1>20. ASSUME NEW r \in Runner, FailThread(r) PROVE ErrorsAreCurrent'
  BY <1>20 DEF FailThread, screenVars, ErrorsAreCurrent, ScreenShape, ScreenTypes
<1>21. ASSUME NEW r \in Runner, DropTask(r) PROVE ErrorsAreCurrent'
  BY <1>21 DEF DropTask, screenVars, ErrorsAreCurrent, ScreenShape, ScreenTypes
<1>22. ASSUME NEW r \in Runner, Update(r) PROVE ErrorsAreCurrent'
  <2>0. Updates(r)
    BY <1>22, MessageIsTaken
  <2>1. /\ ~shutdown /\ outbox[r] # <<>> /\ outbox' = [outbox EXCEPT ![r] = <<>>]
        /\ shutdown' = shutdown /\ kind' = kind /\ task' = task /\ thread' = thread
        /\ cancelled' = cancelled /\ overlapped' = overlapped
    BY <2>0 DEF Updates
  <2>2. CASE SnapshotUpdated(r)
    BY <2>1, <2>0, <2>2 DEF SnapshotUpdated, ErrorsAreCurrent, ScreenShape,
       ScreenTypes
  <2>3. CASE BalancerStarted
    BY <2>1, <2>0, <2>3 DEF BalancerStarted, ClearForm, screenVars,
       ErrorsAreCurrent, ScreenShape, ScreenTypes
  <2>4. ASSUME NEW failed \in BOOLEAN, task[r] = "over", kind[r] = "agent", AgentEnded(failed)
        PROVE  ErrorsAreCurrent'
    BY <2>1, <2>0, <2>4 DEF AgentEnded, GoHome, ClearForm, screenVars,
       ErrorsAreCurrent, ScreenShape, ScreenTypes
  <2>5. CASE task[r] = "over" /\ kind[r] = "balancer" /\ BalancerFailed
    BY <2>1, <2>0, <2>5 DEF BalancerFailed, GoHome, ClearForm, screenVars,
       ErrorsAreCurrent, ScreenShape, ScreenTypes
  <2>6. CASE task[r] = "over" /\ kind[r] = "balancer" /\ BalancerStopped
    BY <2>1, <2>0, <2>6 DEF BalancerStopped, GoHome, ClearForm, screenVars,
       ErrorsAreCurrent, ScreenShape, ScreenTypes
  <2>7. QED
    BY <2>0, <2>2, <2>3, <2>4, <2>5, <2>6, Zenon DEF Updates
<1>23. QED
  BY <1>1, <1>2, <1>3, <1>4, <1>5, <1>6, <1>7, <1>8, <1>9, <1>10, <1>11, <1>12, <1>13,
     <1>14, <1>15, <1>16, <1>17, <1>18, <1>19, <1>20, <1>21, <1>22 DEF Next

-----------------------------------------------------------------------------
\* It holds when the application starts.
LEMMA DesktopBegins ==
    ASSUME Init
    PROVE  DesktopInv
<1>1. outbox \in [Runner -> Seq(RunnerMessage)]
  <2>1. <<>> \in Seq(RunnerMessage)
    OBVIOUS
  <2>2. QED
    BY <2>1, Zenon DEF Init
<1>2. RunnerShape
  BY <1>1 DEF Init, RunnerShape
<1>3. ScreenTypes /\ FlagTypes
  BY DEF Init, ScreenTypes, FlagTypes
<1>4. RunnerTypes
  BY RunnersAreCounted DEF Init, RunnerTypes, None
<1>5. OutboxTypes
  <2>1. Len(<<>>) <= 1
    OBVIOUS
  <2>2. QED
    BY <1>1, <2>1 DEF Init, OutboxTypes
<1>6. OwnerIsPresent /\ ScreenShape
  BY DEF Init, OwnerIsPresent, ScreenShape, None
<1>7. RunningIsInReach /\ ShownIsStopped /\ ErrorsAreCurrent
  BY DEF Init, RunningIsInReach, ShownIsStopped, ErrorsAreCurrent, Live, None
<1>8. QED
  BY <1>2, <1>3, <1>4, <1>5, <1>6, <1>7, DesktopTypes, Zenon DEF DesktopInv

\* What the user, the tasks, the threads and the event loop do keeps it.
LEMMA DesktopGoesOn ==
    ASSUME DesktopInv, Next
    PROVE  DesktopInv'
<1>1. /\ ScreenTypes /\ RunnerTypes /\ OutboxTypes /\ FlagTypes
      /\ RunnerShape /\ OwnerIsPresent /\ ScreenShape
      /\ RunningIsInReach /\ ShownIsStopped /\ ErrorsAreCurrent
  BY DesktopTypes, Zenon DEF DesktopInv
<1>2. ScreenTypes' /\ RunnerTypes' /\ OutboxTypes' /\ FlagTypes'
  BY <1>1, ScreenTypesStep, RunnerTypesStep, OutboxTypesStep, FlagTypesStep, Zenon
<1>3. RunnerShape'
  BY <1>1, <1>2, RunnerShapeStep, Zenon
<1>4. OwnerIsPresent' /\ ScreenShape' /\ RunningIsInReach' /\ ShownIsStopped' /\ ErrorsAreCurrent'
  BY <1>1, OwnerStep, ScreenShapeStep, ReachStep, ShownStep, ErrorsStep, Zenon
<1>5. TypeOK'
  <2>1. RunnerShape' => (TypeOK <=> ScreenTypes /\ RunnerTypes /\ OutboxTypes /\ FlagTypes)'
    BY DesktopTypes, PTL
  <2>2. QED
    BY <1>2, <1>3, <2>1, Zenon
<1>6. QED
  BY <1>3, <1>4, <1>5, Zenon DEF DesktopInv

\* Another interface leaves it alone.
LEMMA DesktopStays ==
    ASSUME DesktopInv, UNCHANGED vars
    PROVE  DesktopInv'
  BY DEF DesktopInv, TypeOK, RunnerShape, OwnerIsPresent, ScreenShape, RunningIsInReach,
         ShownIsStopped, ErrorsAreCurrent, Gone, Live, vars

-----------------------------------------------------------------------------
(***************************************************************************)
(* The pages of the web admin panel.                                       *)
(*                                                                         *)
(* What the form would put is what is wanted because reading a model back  *)
(* from its URI gives the model again, and because the form and what is    *)
(* wanted change together.  That needs every desired state that can arrive *)
(* to be one the balancer can have, and so every body of a submission.     *)
(***************************************************************************)
DesiredState ==
    [model : DesiredModel, projection : DesiredModel, template : {0, 1}, useTemplate : BOOLEAN,
     parameters : [Parameter -> {0, 1}]]
FormData ==
    [uri : [UriField -> Uri], template : {0, 1}, useTemplate : BOOLEAN,
     parameters : [Parameter -> {0, 1}]]
RequestStatus == {"none", "sent", "ok", "failed", "over"}
FetchPurpose == {"none", "form", "metadata", "template"}
FetchRecord == [for : FetchPurpose, agent : Agents, status : RequestStatus, value : DesiredState]
PutRecord == [body : DesiredState, status : RequestStatus]
Snapshot == [Agents -> SUBSET Flag]
StreamEvent == [kind : {"snapshot", "garbage"}, fleet : Snapshot]
AgentDialog == [kind : {"none", "metadata", "template", "issues"}, agent : Agents]

\* The dashboard, and the events on their way to it.
DashboardShape ==
    /\ fleet \in Snapshot
    /\ changes \in 0 .. MaxChanges /\ faults \in 0 .. MaxFaults
    /\ page \in {"/", "/model", "/prompt"}
    /\ stream \in {"initial", "connected", "connectionError", "deserializationError", "dataSnapshot"}
    /\ wireUp \in BOOLEAN
    /\ events \in Seq(StreamEvent)
    /\ Len(events) <= 1 + changes + faults
    /\ listed \in Snapshot
    /\ dialog \in AgentDialog

FetchShape ==
    /\ fetches \in [Fetch -> FetchRecord]
    /\ mounted \in 0 .. MaxFetches
    /\ fetchState \in {"loading", "ok", "error"}

FormShape ==
    form \in FormData /\ editing \in BOOLEAN /\ temporary \in {0, 1} /\ wanted \in DesiredState

SubmissionShape ==
    desired \in DesiredState /\ puts \in [Put -> PutRecord]

\* The form and what is wanted say the same, as far as the form can say it.
FormIsWanted ==
    FormShown =>
        /\ form.template = wanted.template
        /\ form.useTemplate = wanted.useTemplate
        /\ form.parameters = wanted.parameters
        /\ IsOk(form.uri["model"]) /\ Representable(wanted.model)
              => agentDesiredModel(form.uri["model"]) = wanted.model
        /\ IsOk(form.uri["projection"]) /\ Representable(wanted.projection)
              => agentDesiredModel(form.uri["projection"]) = wanted.projection

AdminInv ==
    /\ DashboardShape /\ FetchShape /\ FormShape /\ SubmissionShape
    /\ FormIsWanted /\ EditorShowsSaved /\ DialogShowsOwn

\* The words that modelSchemaToUrl writes.
LEMMA Words ==
    /\ NoText \in Texts /\ "agent" \in Texts /\ "https" \in Texts /\ "blob" \in Texts /\ HuggingFaceHost \in Texts
    /\ HuggingFaceHost # NoText /\ "agent" # NoText /\ "http" # NoText /\ "https" # NoText
    /\ "blob" # NoText /\ {NoText, "blob"} \cap (SingleDot \cup DoubleDot) = {}
<1>1. /\ HuggingFaceHost # NoText /\ "agent" # NoText /\ "http" # NoText /\ "https" # NoText
      /\ "blob" # NoText
  BY Zenon DEF HuggingFaceHost, NoText
<1>3. {NoText, "blob"} \cap (SingleDot \cup DoubleDot) = {}
  BY Zenon DEF NoText, SingleDot, DoubleDot
<1>2. QED
  BY <1>1, <1>3, ModelUrisAssumption

\* The empty address is an address, and the empty path a path.
LEMMA NoUriIs == NoUri \in Uri /\ <<>> \in Segments
<1>1. <<>> \in Segments
  BY DEF Segments
<1>2. QED
  BY <1>1, Words DEF NoUri, UriOf, Uri

\* The parts of an address.
LEMMA UriHasParts ==
    ASSUME NEW s, NEW h, NEW p, NEW q
    PROVE  /\ UriOf(s, h, p, q).scheme = s /\ UriOf(s, h, p, q).host = h
           /\ UriOf(s, h, p, q).path = p /\ UriOf(s, h, p, q).query = q
           /\ s \in Texts /\ h \in Texts /\ p \in Segments /\ q \in Texts => UriOf(s, h, p, q) \in Uri
  BY DEF UriOf, Uri

\* An address with a scheme is not the empty one.
LEMMA NoUriHasNoScheme ==
    ASSUME NEW u, u.scheme # NoText
    PROVE  u # NoUri
<1>1. NoUri.scheme = NoText
  BY DEF NoUri, UriOf
<1>2. QED
  BY <1>1

\* A path of one segment.
LEMMA OneSegment ==
    ASSUME NEW w \in Texts
    PROVE  <<w>> \in Segments /\ Len(<<w>>) = 1 /\ <<w>>[1] = w
  BY DEF Segments

\* Two paths in a row.
LEMMA Joined ==
    ASSUME NEW a \in Segments, NEW b \in Segments
    PROVE  /\ a \o b \in Segments
           /\ Len(a) \in Nat /\ Len(b) \in Nat /\ Len(a \o b) = Len(a) + Len(b)
           /\ \A i \in 1 .. Len(a) : (a \o b)[i] = a[i]
           /\ \A i \in 1 .. Len(b) : (a \o b)[Len(a) + i] = b[i]
  BY LenProperties, ConcatProperties DEF Segments

\* The fields of a model have their types.
LEMMA ModelOfFields ==
    ASSUME NEW k \in {"None", "HuggingFace", "LocalToAgent", "Url"}, NEW repo \in Segments,
           NEW revision \in Segments, NEW path \in Segments, NEW relative \in BOOLEAN, NEW query \in Texts,
           NEW uri \in Uri
    PROVE  DesiredModelOf(k, repo, revision, path, relative, query, uri) \in ModelRecord
  BY Zenon DEF DesiredModelOf, ModelRecord

\* A repository, a local path and a URL have the parts they were made of.
LEMMA ModelHasParts ==
    /\ \A repo, revision, path, query :
          LET m == HuggingFace(repo, revision, path, query)
          IN  /\ m.kind = "HuggingFace" /\ m.repo = repo /\ m.revision = revision /\ m.path = path
              /\ m.query = query
    /\ \A path, relative, query :
          LET m == LocalToAgent(path, relative, query)
          IN  m.kind = "LocalToAgent" /\ m.path = path /\ m.relative = relative /\ m.query = query
    /\ \A uri : LET m == UrlModel(uri) IN m.kind = "Url" /\ m.uri = uri
    /\ NoModel.kind = "None"
  BY Zenon DEF HuggingFace, LocalToAgent, UrlModel, NoModel, DesiredModelOf

\* The kind says which form a well-formed model has.
LEMMA KindSaysForm ==
    ASSUME NEW m, WellFormed(m)
    PROVE  /\ m.kind = "None" => m = NoModel
           /\ m.kind = "HuggingFace" => m = HuggingFace(m.repo, m.revision, m.path, m.query)
           /\ m.kind = "LocalToAgent" => /\ m = LocalToAgent(m.path, m.relative, m.query)
                                         /\ m.relative => m.path # <<>>
           /\ m.kind = "Url" => m = UrlModel(m.uri)
           /\ m.kind \in {"None", "HuggingFace", "LocalToAgent", "Url"}
<1>1. CASE m = NoModel
  <2>1. m.kind = "None"
    BY <1>1, ModelHasParts
  <2>2. QED
    BY <1>1, <2>1
<1>2. CASE m = HuggingFace(m.repo, m.revision, m.path, m.query)
  <2>0. HuggingFace(m.repo, m.revision, m.path, m.query).kind = "HuggingFace"
    BY DEF HuggingFace, DesiredModelOf
  <2>1. m.kind = "HuggingFace"
    BY <1>2, <2>0
  <2>2. QED
    BY <1>2, <2>1
<1>3. CASE m = LocalToAgent(m.path, m.relative, m.query) /\ (m.relative => m.path # <<>>)
  <2>0. LocalToAgent(m.path, m.relative, m.query).kind = "LocalToAgent"
    BY DEF LocalToAgent, DesiredModelOf
  <2>1. m.kind = "LocalToAgent"
    BY <1>3, <2>0
  <2>2. QED
    BY <1>3, <2>1
<1>4. CASE m = UrlModel(m.uri)
  <2>0. UrlModel(m.uri).kind = "Url"
    BY ModelHasParts, Zenon
  <2>1. m.kind = "Url"
    BY <1>4, <2>0
  <2>2. QED
    BY <1>4, <2>1
<1>5. QED
  BY <1>1, <1>2, <1>3, <1>4 DEF WellFormed

\* A model is written as a URI.
LEMMA UriOfModel ==
    ASSUME NEW m \in DesiredModel
    PROVE  modelSchemaToUrl(m) \in Uri
<1>1. m \in ModelRecord /\ WellFormed(m)
  BY DEF DesiredModel
<1>0. /\ m.repo \in Segments /\ m.revision \in Segments /\ m.path \in Segments
      /\ m.relative \in BOOLEAN /\ m.query \in Texts /\ m.uri \in Uri
  BY <1>1 DEF ModelRecord
<1>2. CASE m.kind = "None"
  BY <1>2, NoUriIs DEF modelSchemaToUrl
<1>3. CASE m.kind = "HuggingFace"
  <2> DEFINE p == m.repo \o <<"blob">> \o m.revision \o m.path
  <2>1. <<"blob">> \in Segments
    BY Words, OneSegment
  <2>2. p \in Segments
    BY <1>0, <2>1, ConcatProperties DEF Segments
  <2>3. modelSchemaToUrl(m) = UriOf("https", HuggingFaceHost, p, m.query)
    BY <1>3 DEF modelSchemaToUrl
  <2> HIDE DEF p
  <2>4. QED
    BY <1>0, <2>2, <2>3, Words, UriHasParts
<1>4. CASE m.kind = "LocalToAgent"
  <2>1. m.relative => m.path # <<>>
    BY <1>1, <1>4, KindSaysForm
  <2>2. CASE m.relative
    <3>1. Head(m.path) \in Texts /\ Tail(m.path) \in Segments
      BY <1>0, <2>1, <2>2, HeadTailProperties DEF Segments
    <3>2. modelSchemaToUrl(m) = UriOf("agent", Head(m.path), Tail(m.path), m.query)
      BY <1>4, <2>2 DEF modelSchemaToUrl
    <3>3. QED
      BY <1>0, <3>1, <3>2, Words, UriHasParts
  <2>3. CASE ~m.relative
    <3>1. modelSchemaToUrl(m) = UriOf("agent", NoText, m.path, m.query)
      BY <1>4, <2>3 DEF modelSchemaToUrl
    <3>2. QED
      BY <1>0, <3>1, Words, UriHasParts
  <2>4. QED
    BY <2>2, <2>3
<1>5. CASE m.kind = "Url"
  BY <1>0, <1>5 DEF modelSchemaToUrl
<1>6. QED
  BY <1>1, <1>2, <1>3, <1>4, <1>5 DEF ModelRecord

(***************************************************************************)
(* The URL parser.                                                         *)
(***************************************************************************)
\* A set of natural numbers has a least element.
LEMMA LeastNumber ==
    ASSUME NEW T, T \subseteq Nat, T # {}
    PROVE  \E n \in T : \A m \in T : n <= m
<1>1. PICK n \in T : \A m \in T : ~(<<m, n>> \in OpToRel(<, Nat))
  BY NatLessThanWellFounded, WFMin
<1>2. \A m \in T : ~(m < n)
  BY <1>1 DEF OpToRel
<1>3. QED
  BY <1>2

\* What is left of the first i segments.
Walked(f, path, over, back) ==
    f = [i \in 0 .. Len(path) |-> IF i = 0 THEN <<>> ELSE Walk(f[i - 1], path[i], over, back)]

\* The walk is defined for every path.
LEMMA WalkExists ==
    ASSUME NEW path \in Segments, NEW over, NEW back
    PROVE  \E f : Walked(f, path, over, back)
<1> DEFINE Step(w, i) == Walk(w, path[i], over, back)
           Goes(f, k) == /\ f = [i \in 0 .. k |-> f[i]]
                         /\ f[0] = <<>>
                         /\ \A i \in 1 .. k : f[i] = Step(f[i - 1], i)
           Bad == {k \in 0 .. Len(path) : \A f : ~Goes(f, k)}
<1>1. Len(path) \in Nat
  BY LenProperties DEF Segments
<1>2. ASSUME Bad # {} PROVE FALSE
  <2>1. PICK k \in Bad : \A m \in Bad : k <= m
    <3>1. Bad \subseteq Nat
      OBVIOUS
    <3> HIDE DEF Bad
    <3>2. QED
      BY <1>2, <3>1, LeastNumber
  <2>2. k \in 0 .. Len(path) /\ \A f : ~Goes(f, k)
    BY <2>1
  <2>3. CASE k = 0
    <3> DEFINE f == [i \in 0 .. 0 |-> <<>>]
    <3>1. Goes(f, 0)
      OBVIOUS
    <3> HIDE DEF f, Goes
    <3>2. QED
      BY <2>2, <2>3, <3>1
  <2>4. CASE k # 0
    <3>1. k \in Nat /\ k - 1 \in 0 .. Len(path)
      BY <1>1, <2>2, <2>4
    <3>2. k - 1 \notin Bad
      <4> HIDE DEF Bad
      <4>1. QED
        BY <2>1, <3>1
    <3>3. PICK g : Goes(g, k - 1)
      BY <3>1, <3>2
    <3> DEFINE f == [i \in 0 .. k |-> IF i = k THEN Step(g[k - 1], k) ELSE g[i]]
    <3>4. f = [i \in 0 .. k |-> f[i]]
      OBVIOUS
    <3>5. f[0] = <<>>
      BY <3>1, <3>3, <2>4
    <3>6. ASSUME NEW i \in 1 .. k PROVE f[i] = Step(f[i - 1], i)
      <4>1. f[i - 1] = g[i - 1]
        BY <3>1
      <4> HIDE DEF Step
      <4>2. CASE i = k
        BY <3>1, <4>1, <4>2
      <4>3. CASE i # k
        <5>1. i \in 1 .. k - 1 /\ f[i] = g[i]
          BY <3>1, <4>3
        <5>2. g[i] = Step(g[i - 1], i)
          BY <3>3, <5>1
        <5> HIDE DEF f
        <5>3. QED
          BY <4>1, <5>1, <5>2
      <4>4. QED
        BY <4>2, <4>3
    <3>7. Goes(f, k)
      <4> HIDE DEF f, Step
      <4> QED
        BY <3>4, <3>5, <3>6
    <3> HIDE DEF f, Goes
    <3>8. QED
      BY <2>2, <3>7
  <2>5. QED
    BY <2>3, <2>4
<1>3. PICK f : Goes(f, Len(path))
  BY <1>1, <1>2
<1>4. Walked(f, path, over, back)
  BY <1>1, <1>3 DEF Walked
<1>5. QED
  BY <1>4

\* The steps of the walk.
WalkSteps(g, path, over, back) ==
    /\ WalkPath(path, over, back) = g[Len(path)]
    /\ g[0] = <<>>
    /\ \A i \in 1 .. Len(path) : g[i] = Walk(g[i - 1], path[i], over, back)

LEMMA WalkGoes ==
    ASSUME NEW path \in Segments, NEW over, NEW back
    PROVE  \E g : WalkSteps(g, path, over, back)
<1> DEFINE g == CHOOSE f : Walked(f, path, over, back)
<1>1. Walked(g, path, over, back)
  BY WalkExists
<1>2. WalkPath(path, over, back) = g[Len(path)]
  BY Zenon DEF WalkPath, Walked
<1> HIDE DEF g
<1>3. Len(path) \in Nat
  BY LenProperties DEF Segments
<1>4. g[0] = <<>>
  BY <1>1, <1>3 DEF Walked
<1>5. ASSUME NEW i \in 1 .. Len(path) PROVE g[i] = Walk(g[i - 1], path[i], over, back)
  <2>1. i \in 0 .. Len(path) /\ i # 0
    BY <1>3
  <2>2. QED
    BY <1>1, <2>1 DEF Walked
<1>6. QED
  BY <1>2, <1>4, <1>5 DEF WalkSteps

\* Some of the segments of a path, none that is passed over or goes back.
LeftOf(walked, path, over, back) ==
    /\ walked \in Segments
    /\ \A j \in 1 .. Len(walked) :
          /\ walked[j] \notin over \cup back
          /\ \E k \in 1 .. Len(path) : walked[j] = path[k]

LEMMA WalkLeaves ==
    ASSUME NEW path \in Segments, NEW over, NEW back, NEW walked, LeftOf(walked, path, over, back),
           NEW i \in 1 .. Len(path)
    PROVE  LeftOf(Walk(walked, path[i], over, back), path, over, back)
<1>0. walked \in Segments /\ Len(walked) \in Nat /\ Len(path) \in Nat /\ path[i] \in Texts
  BY LenProperties, ElementOfSeq DEF LeftOf, Segments
<1>1. CASE path[i] \in over
  BY <1>1 DEF Walk
<1>2. CASE path[i] \notin over /\ path[i] \in back /\ walked = <<>>
  BY <1>2 DEF Walk
<1>3. CASE path[i] \notin over /\ path[i] \in back /\ walked # <<>>
  <2> DEFINE w == SubSeq(walked, 1, Len(walked) - 1)
  <2>1. Len(walked) >= 1
    BY <1>0, <1>3, EmptySeq DEF Segments
  <2>2. w \in Segments /\ Len(w) = Len(walked) - 1 /\ \A j \in 1 .. Len(w) : w[j] = walked[j]
    <3> DEFINE n == Len(walked) - 1
    <3>1. n \in Nat /\ \A j \in 1 .. n : j \in 1 .. Len(walked)
      BY <1>0, <2>1
    <3>2. \A j \in 1 .. n : walked[j] \in Texts
      BY <1>0, <3>1, ElementOfSeq DEF Segments
    <3> HIDE DEF n
    <3>3. /\ SubSeq(walked, 1, n) \in Segments /\ Len(SubSeq(walked, 1, n)) = n
          /\ \A j \in 1 .. n : SubSeq(walked, 1, n)[j] = walked[j]
      BY <3>1, <3>2, SubSeqProperties DEF Segments
    <3>4. QED
      BY <3>3 DEF n
  <2>3. Walk(walked, path[i], over, back) = w
    BY <1>3 DEF Walk
  <2> HIDE DEF w
  <2>4. \A j \in 1 .. Len(w) : j \in 1 .. Len(walked)
    BY <1>0, <2>1, <2>2
  <2>5. QED
    BY <2>2, <2>3, <2>4 DEF LeftOf
<1>4. CASE path[i] \notin over /\ path[i] \notin back
  <2> DEFINE w == Append(walked, path[i])
  <2>1. /\ w \in Segments /\ Len(w) = Len(walked) + 1
        /\ \A j \in 1 .. Len(walked) : w[j] = walked[j]
        /\ w[Len(walked) + 1] = path[i]
    BY <1>0, AppendProperties DEF Segments
  <2>2. Walk(walked, path[i], over, back) = w
    BY <1>4 DEF Walk
  <2> HIDE DEF w
  <2>3. \A j \in 1 .. Len(w) : j \in 1 .. Len(walked) \/ j = Len(walked) + 1
    BY <1>0, <2>1
  <2>4. QED
    BY <1>4, <2>1, <2>2, <2>3 DEF LeftOf
<1>5. QED
  BY <1>1, <1>2, <1>3, <1>4

\* What the walk leaves.
LEMMA WalkIsLeft ==
    ASSUME NEW path \in Segments, NEW over, NEW back
    PROVE  /\ LeftOf(WalkPath(path, over, back), path, over, back)
           /\ Len(path) > 0 /\ path[Len(path)] \notin over \cup back => WalkPath(path, over, back) # <<>>
<1>0. PICK g : WalkSteps(g, path, over, back)
  BY WalkGoes, Zenon
<1>1. /\ WalkPath(path, over, back) = g[Len(path)]
      /\ g[0] = <<>>
      /\ \A i \in 1 .. Len(path) : g[i] = Walk(g[i - 1], path[i], over, back)
  BY <1>0, Zenon DEF WalkSteps
<1>2. Len(path) \in Nat
  BY LenProperties DEF Segments
<1> DEFINE Bad == {i \in 0 .. Len(path) : ~LeftOf(g[i], path, over, back)}
<1>3. ASSUME Bad # {} PROVE FALSE
  <2>1. PICK i \in Bad : \A m \in Bad : i <= m
    <3>1. Bad \subseteq Nat
      OBVIOUS
    <3> HIDE DEF Bad
    <3>2. QED
      BY <1>3, <3>1, LeastNumber
  <2>2. i # 0
    <3>1. LeftOf(<<>>, path, over, back)
      BY DEF LeftOf, Segments
    <3>2. QED
      BY <1>1, <2>1, <3>1
  <2>3. i - 1 \in 0 .. Len(path) /\ i \in 1 .. Len(path)
    BY <1>2, <2>1, <2>2
  <2>4. i - 1 \notin Bad
    <3> HIDE DEF Bad
    <3> QED
      BY <2>1, <2>3
  <2>5. LeftOf(g[i - 1], path, over, back)
    BY <2>3, <2>4
  <2>6. LeftOf(g[i], path, over, back)
    BY <1>1, <2>3, <2>5, WalkLeaves
  <2>7. QED
    BY <2>1, <2>6
<1>4. \A i \in 0 .. Len(path) : LeftOf(g[i], path, over, back)
  BY <1>3
<1>5. LeftOf(WalkPath(path, over, back), path, over, back)
  BY <1>1, <1>2, <1>4
<1>6. ASSUME Len(path) > 0, path[Len(path)] \notin over \cup back
      PROVE  WalkPath(path, over, back) # <<>>
  <2> DEFINE n == Len(path)
             w == g[n - 1]
  <2>1. n \in 1 .. Len(path) /\ n - 1 \in 0 .. Len(path)
    BY <1>2, <1>6
  <2>2. w \in Segments
    BY <1>4, <2>1 DEF LeftOf
  <2>3. path[n] \in Texts
    BY <2>1, ElementOfSeq DEF Segments
  <2>4. WalkPath(path, over, back) = Append(w, path[n])
    BY <1>1, <1>6, <2>1 DEF Walk
  <2> HIDE DEF w, n
  <2>5. Len(Append(w, path[n])) = Len(w) + 1 /\ Len(w) \in Nat
    BY <2>2, <2>3, AppendProperties, LenProperties DEF Segments
  <2>6. QED
    BY <2>4, <2>5
<1>7. QED
  BY <1>5, <1>6

\* A walk on which nothing is passed over or goes back leaves the path.
LEMMA WalkIsAll ==
    ASSUME NEW path \in Segments, NEW over, NEW back,
           \A i \in 1 .. Len(path) : path[i] \notin over \cup back
    PROVE  WalkPath(path, over, back) = path
<1>0. PICK g : WalkSteps(g, path, over, back)
  BY WalkGoes, Zenon
<1>1. /\ WalkPath(path, over, back) = g[Len(path)]
      /\ g[0] = <<>>
      /\ \A i \in 1 .. Len(path) : g[i] = Walk(g[i - 1], path[i], over, back)
  BY <1>0, Zenon DEF WalkSteps
<1>2. Len(path) \in Nat
  BY LenProperties DEF Segments
<1> DEFINE Begins(w, i) == w \in Segments /\ Len(w) = i /\ \A j \in 1 .. i : w[j] = path[j]
           Bad == {i \in 0 .. Len(path) : ~Begins(g[i], i)}
<1>3. ASSUME Bad # {} PROVE FALSE
  <2>1. PICK i \in Bad : \A m \in Bad : i <= m
    <3>1. Bad \subseteq Nat
      OBVIOUS
    <3> HIDE DEF Bad
    <3>2. QED
      BY <1>3, <3>1, LeastNumber
  <2>2. i # 0
    <3>1. Begins(<<>>, 0)
      BY DEF Segments
    <3> HIDE DEF Begins
    <3>2. QED
      BY <1>1, <2>1, <3>1
  <2>3. i - 1 \in 0 .. Len(path) /\ i \in 1 .. Len(path)
    BY <1>2, <2>1, <2>2
  <2>4. i - 1 \notin Bad
    <3> HIDE DEF Bad
    <3> QED
      BY <2>1, <2>3
  <2>5. Begins(g[i - 1], i - 1)
    BY <2>3, <2>4
  <2> DEFINE w == g[i - 1]
  <2>6. g[i] = Append(w, path[i]) /\ path[i] \in Texts
    BY <1>1, <2>3, ElementOfSeq DEF Walk, Segments
  <2>7. w \in Segments /\ Len(w) = i - 1 /\ \A j \in 1 .. i - 1 : w[j] = path[j]
    BY <2>5
  <2> HIDE DEF w
  <2>8. /\ g[i] \in Segments /\ Len(g[i]) = i - 1 + 1
        /\ \A j \in 1 .. i - 1 : g[i][j] = w[j]
        /\ g[i][i - 1 + 1] = path[i]
    BY <2>6, <2>7, AppendProperties DEF Segments
  <2>9. \A j \in 1 .. i : j \in 1 .. i - 1 \/ j = i
    BY <2>3
  <2>10. i - 1 + 1 = i
    BY <2>3
  <2>11. Begins(g[i], i)
    BY <2>7, <2>8, <2>9, <2>10
  <2>12. QED
    BY <2>1, <2>11
<1>4. Begins(g[Len(path)], Len(path))
  BY <1>2, <1>3
<1>5. g[Len(path)] = path
  <2> DEFINE w == g[Len(path)]
  <2>1. w \in Seq(Texts) /\ path \in Seq(Texts) /\ Len(w) = Len(path) /\ \A j \in 1 .. Len(w) : w[j] = path[j]
    BY <1>4 DEF Segments
  <2> HIDE DEF w
  <2>2. w = path
    BY <2>1, SeqEqual
  <2>3. QED
    BY <2>2 DEF w
<1>6. QED
  BY <1>1, <1>5

EncodedPath(path) == [i \in 1 .. Len(path) |-> PathEncoded[path[i]]]

\* An encoded path is a path, of segments that are encoded.
LEMMA EncodedIsPath ==
    ASSUME NEW path \in Segments
    PROVE  /\ EncodedPath(path) \in Segments /\ Len(EncodedPath(path)) = Len(path) /\ Len(path) \in Nat
           /\ \A i \in 1 .. Len(path) : EncodedPath(path)[i] = PathEncoded[path[i]] /\ path[i] \in Texts
<1>1. Len(path) \in Nat /\ \A i \in 1 .. Len(path) : path[i] \in Texts
  BY LenProperties, ElementOfSeq DEF Segments
<1>2. \A i \in 1 .. Len(path) : PathEncoded[path[i]] \in Texts
  BY <1>1, ModelUrisAssumption
<1>3. QED
  BY <1>1, <1>2 DEF EncodedPath, Segments

\* The pathname of a URL: plain, and what a plain path was before.
LEMMA PathnameIsPlain ==
    ASSUME NEW protocol, NEW path \in Segments
    PROVE  /\ Pathname(protocol, path) \in Segments
           /\ IsPlain(Pathname(protocol, path))
           /\ protocol \in SpecialSchemes => Pathname(protocol, path) # <<>>
           /\ IsPlain(path) /\ (protocol \in SpecialSchemes => path # <<>>) => Pathname(protocol, path) = path
<1> DEFINE encoded == EncodedPath(path)
           resolved == WalkPath(encoded, SingleDot, DoubleDot)
           Dots == SingleDot \cup DoubleDot
<1>1. /\ encoded \in Segments /\ Len(encoded) = Len(path) /\ Len(path) \in Nat
      /\ \A i \in 1 .. Len(path) : encoded[i] = PathEncoded[path[i]] /\ path[i] \in Texts
  BY EncodedIsPath
<1>2. Pathname(protocol, path)
        = IF path = <<>> THEN IF protocol \in SpecialSchemes THEN <<NoText>> ELSE <<>>
          ELSE IF encoded[Len(path)] \in Dots THEN Append(resolved, NoText)
          ELSE resolved
  BY DEF Pathname, EncodedPath
<1>3. \A i \in 1 .. Len(encoded) : PathEncoded[encoded[i]] = encoded[i]
  BY <1>1, ModelUrisAssumption
<1>4. LeftOf(resolved, encoded, SingleDot, DoubleDot)
  BY <1>1, WalkIsLeft
<1>5. Len(encoded) > 0 /\ encoded[Len(encoded)] \notin Dots => resolved # <<>>
  BY <1>1, WalkIsLeft
<1>6. resolved \in Segments /\ Len(resolved) \in Nat
      /\ \A j \in 1 .. Len(resolved) : PathEncoded[resolved[j]] = resolved[j] /\ resolved[j] \notin Dots
  BY <1>3, <1>4, LenProperties DEF LeftOf, Segments
<1>7. NoText \in Texts /\ PathEncoded[NoText] = NoText /\ NoText \notin Dots
  BY Words, ModelUrisAssumption
<1>8. (\A i \in 1 .. Len(path) : encoded[i] \notin Dots) => resolved = encoded
  BY <1>1, WalkIsAll
<1> HIDE DEF encoded, resolved
<1>9. path # <<>> => Len(path) > 0
  BY <1>1, EmptySeq DEF Segments
<1>10. CASE path = <<>>
  <2>1. <<NoText>> \in Segments /\ Len(<<NoText>>) = 1 /\ <<NoText>>[1] = NoText
    BY <1>7, OneSegment
  <2>2. IsPlain(<<NoText>>)
    BY <1>7, <2>1 DEF IsPlain
  <2>3. IsPlain(<<>>) /\ <<>> \in Segments
    BY DEF IsPlain, Segments
  <2>4. <<NoText>> # <<>>
    OBVIOUS
  <2>5. QED
    BY <1>2, <1>10, <2>1, <2>2, <2>3, <2>4
<1>11. CASE path # <<>> /\ encoded[Len(path)] \in Dots
  <2> DEFINE w == Append(resolved, NoText)
  <2>1. /\ w \in Segments /\ Len(w) = Len(resolved) + 1
        /\ \A j \in 1 .. Len(resolved) : w[j] = resolved[j]
        /\ w[Len(resolved) + 1] = NoText
    BY <1>6, <1>7, AppendProperties DEF Segments
  <2>2. Pathname(protocol, path) = w
    BY <1>2, <1>11
  <2> HIDE DEF w
  <2>3. \A j \in 1 .. Len(w) : j \in 1 .. Len(resolved) \/ j = Len(resolved) + 1
    BY <1>6, <2>1
  <2>4. IsPlain(w)
    BY <1>6, <1>7, <2>1, <2>3 DEF IsPlain
  <2>5. w # <<>>
    BY <1>6, <2>1
  <2>6. ~IsPlain(path)
    <3>1. Len(path) \in 1 .. Len(path)
      BY <1>1, <1>9, <1>11
    <3>2. encoded[Len(path)] = PathEncoded[path[Len(path)]]
      BY <1>1, <3>1
    <3>3. QED
      BY <1>11, <3>1, <3>2 DEF IsPlain
  <2>7. QED
    BY <2>1, <2>2, <2>4, <2>5, <2>6
<1>12. CASE path # <<>> /\ encoded[Len(path)] \notin Dots
  <2>1. Pathname(protocol, path) = resolved
    BY <1>2, <1>12
  <2>2. resolved # <<>>
    BY <1>1, <1>5, <1>9, <1>12
  <2>3. IsPlain(resolved)
    BY <1>6 DEF IsPlain
  <2>4. ASSUME IsPlain(path) PROVE resolved = path
    <3>1. \A i \in 1 .. Len(path) : encoded[i] = path[i] /\ path[i] \notin Dots
      BY <1>1, <2>4 DEF IsPlain
    <3>2. resolved = encoded
      BY <1>8, <3>1
    <3>3. encoded = path
      BY <1>1, <3>1, SeqEqual DEF Segments
    <3>4. QED
      BY <3>2, <3>3
  <2>5. QED
    BY <1>6, <2>1, <2>2, <2>3, <2>4
<1>13. QED
  BY <1>10, <1>11, <1>12

\* The segments of a pathname that are not empty.
LEMMA NonEmptyOfPath ==
    ASSUME NEW p \in Segments
    PROVE  /\ NonEmptySegments(p) \in Segments
           /\ HasNoEmpty(NonEmptySegments(p))
           /\ IsPlain(p) => IsPlain(NonEmptySegments(p))
           /\ HasNoEmpty(p) => NonEmptySegments(p) = p
<1> DEFINE w == WalkPath(p, {NoText}, {})
<1>1. LeftOf(w, p, {NoText}, {})
  BY WalkIsLeft
<1>2. HasNoEmpty(p) => w = p
  <2>1. ASSUME HasNoEmpty(p) PROVE \A i \in 1 .. Len(p) : p[i] \notin {NoText} \cup {}
    BY <2>1 DEF HasNoEmpty
  <2>2. QED
    BY <2>1, WalkIsAll
<1>3. NonEmptySegments(p) = w
  BY DEF NonEmptySegments
<1> HIDE DEF w
<1>4. QED
  BY <1>1, <1>2, <1>3 DEF LeftOf, HasNoEmpty, IsPlain

\* What the parser makes of a scheme and an authority, it leaves so.
LEMMA AuthorityIsKept ==
    ASSUME NEW scheme \in Texts, NEW host \in Texts
    PROVE  LET authority == Authority[<<scheme, host>>]
           IN  /\ authority \in AuthorityRecord
               /\ authority.protocol \in Texts /\ authority.hostname \in Texts /\ authority.host \in Texts
               /\ authority.valid => Authority[<<authority.protocol, authority.host>>] = authority
<1>1. <<scheme, host>> \in Texts \X Texts
  OBVIOUS
<1>2. Authority[<<scheme, host>>] \in AuthorityRecord
  BY <1>1, ModelUrisAssumption
<1>3. QED
  BY <1>2, ModelUrisAssumption DEF AuthorityRecord

\* The parts of a URL.
LEMMA UrlHasParts ==
    ASSUME NEW uri \in Uri
    PROVE  LET url == ParseUrl(uri)
               authority == Authority[<<uri.scheme, uri.host>>]
           IN  /\ url.protocol = authority.protocol /\ url.hostname = authority.hostname
               /\ url.host = authority.host /\ url.pathname = Pathname(authority.protocol, uri.path)
               /\ url.search = QueryEncoded[uri.query]
               /\ url.protocol \in Texts /\ url.host \in Texts /\ url.pathname \in Segments
               /\ url.search \in Texts /\ QueryEncoded[url.search] = url.search
               /\ IsPlain(url.pathname)
               /\ uri.scheme \in Texts /\ uri.host \in Texts /\ uri.path \in Segments /\ uri.query \in Texts
<1>1. uri.scheme \in Texts /\ uri.host \in Texts /\ uri.path \in Segments /\ uri.query \in Texts
  BY DEF Uri
<1> DEFINE authority == Authority[<<uri.scheme, uri.host>>]
           url == ParseUrl(uri)
<1>2. authority.protocol \in Texts /\ authority.host \in Texts
  BY <1>1, AuthorityIsKept
<1>3. Pathname(authority.protocol, uri.path) \in Segments /\ IsPlain(Pathname(authority.protocol, uri.path))
  BY <1>1, PathnameIsPlain
<1>4. QueryEncoded[uri.query] \in Texts /\ QueryEncoded[QueryEncoded[uri.query]] = QueryEncoded[uri.query]
  BY <1>1, ModelUrisAssumption
<1>5. /\ url.protocol = authority.protocol /\ url.hostname = authority.hostname
      /\ url.host = authority.host /\ url.pathname = Pathname(authority.protocol, uri.path)
      /\ url.search = QueryEncoded[uri.query]
  BY Zenon DEF ParseUrl
<1> HIDE DEF authority, url
<1>6. /\ url.protocol \in Texts /\ url.host \in Texts /\ url.pathname \in Segments
      /\ url.search \in Texts /\ QueryEncoded[url.search] = url.search /\ IsPlain(url.pathname)
  BY <1>2, <1>3, <1>4, <1>5
<1>7. QED
  BY <1>1, <1>5, <1>6 DEF authority, url

\* An absolute path is a model.
LEMMA AbsoluteIsModel ==
    ASSUME NEW path \in Segments
    PROVE  LocalToAgent(path, FALSE, NoText) \in DesiredModel
<1> DEFINE m == LocalToAgent(path, FALSE, NoText)
<1>1. m \in ModelRecord
  BY NoUriIs, Words, ModelOfFields DEF LocalToAgent
<1>2. m.path = path /\ m.relative = FALSE /\ m.query = NoText
  BY DEF LocalToAgent, DesiredModelOf
<1>3. m = LocalToAgent(m.path, m.relative, m.query)
  BY <1>2
<1> HIDE DEF m
<1>4. WellFormed(m)
  BY <1>2, <1>3 DEF WellFormed
<1>5. QED
  BY <1>1, <1>4 DEF DesiredModel, m

\* What is read from an acceptable URI is a well-formed model, one that the form can
\* read back (urlToAgentDesiredModel, extractHuggingFaceUrlParts).
LEMMA ModelOfUri ==
    ASSUME NEW uri \in Uri, IsOk(uri)
    PROVE  agentDesiredModel(uri) \in DesiredModel /\ Representable(agentDesiredModel(uri))
<1> DEFINE url == ParseUrl(uri)
           authority == Authority[<<uri.scheme, uri.host>>]
<1>1. CASE uri = NoUri
  <2>1. NoModel \in ModelRecord
    BY NoUriIs, Words, ModelOfFields DEF NoModel
  <2>2. NoModel.kind = "None"
    BY ModelHasParts
  <2>3. QED
    BY <1>1, <2>1, <2>2 DEF agentDesiredModel, DesiredModel, WellFormed, Representable
<1>2. CASE uri # NoUri
  <2>1. /\ authority.valid /\ IsModelUrl(url)
        /\ agentDesiredModel(uri) = urlToAgentDesiredModel(url)
    BY <1>2 DEF IsOk, IsUrl, agentDesiredModel
  <2>2. /\ url.protocol = authority.protocol /\ url.hostname = authority.hostname
        /\ url.host = authority.host /\ url.pathname = Pathname(authority.protocol, uri.path)
        /\ url.protocol \in Texts /\ url.host \in Texts /\ url.pathname \in Segments
        /\ url.search \in Texts /\ QueryEncoded[url.search] = url.search
        /\ IsPlain(url.pathname)
        /\ uri.scheme \in Texts /\ uri.host \in Texts /\ uri.path \in Segments
    BY UrlHasParts
  <2>3. Authority[<<authority.protocol, authority.host>>] = authority
    BY <2>1, <2>2, AuthorityIsKept
  <2>4. authority.protocol \in SpecialSchemes => url.pathname # <<>>
    BY <2>2, PathnameIsPlain
  <2> HIDE DEF url, authority
  <2>5. CASE url.hostname = HuggingFaceHost
    <3> DEFINE p == NonEmptySegments(url.pathname)
               file == SubSeq(p, 5, Len(p))
               repo == <<p[1], p[2]>>
               revision == <<p[4]>>
               m == HuggingFace(repo, revision, file, NoText)
    <3>1. p \in Segments /\ HasNoEmpty(p) /\ IsPlain(p)
      BY <2>2, NonEmptyOfPath
    <3>2. Len(p) >= 5 /\ agentDesiredModel(uri) = m
      BY <2>1, <2>5 DEF IsModelUrl, IsHuggingFacePath, urlToAgentDesiredModel, extractHuggingFaceUrlParts
    <3> HIDE DEF p
    <3>3. Len(p) \in Nat /\ p[1] \in Texts /\ p[2] \in Texts /\ p[4] \in Texts
      BY <3>1, <3>2, LenProperties, ElementOfSeq DEF Segments
    <3>4. file \in Segments /\ Len(file) = Len(p) - 4 /\ \A i \in 1 .. Len(file) : file[i] = p[5 + i - 1]
      BY <3>1, <3>2, <3>3, SubSeqProperties DEF Segments
    <3>5. /\ repo \in Segments /\ Len(repo) = 2 /\ repo[1] = p[1] /\ repo[2] = p[2]
          /\ revision \in Segments /\ Len(revision) = 1 /\ revision[1] = p[4]
      BY <3>3 DEF Segments
    <3> HIDE DEF file, repo, revision
    <3>6. /\ \A i \in 1 .. Len(file) : 5 + i - 1 \in 1 .. Len(p)
          /\ \A i \in 1 .. Len(repo) : i \in 1 .. Len(p) /\ repo[i] = p[i]
          /\ \A i \in 1 .. Len(revision) : 4 \in 1 .. Len(p) /\ revision[i] = p[4]
          /\ Len(file) >= 1
      BY <3>2, <3>3, <3>4, <3>5
    <3>7. /\ IsPlain(file) /\ HasNoEmpty(file)
          /\ IsPlain(repo) /\ HasNoEmpty(repo)
          /\ IsPlain(revision) /\ HasNoEmpty(revision)
      BY <3>1, <3>4, <3>6 DEF IsPlain, HasNoEmpty
    <3>8. m \in ModelRecord
      BY <3>4, <3>5, Words, NoUriIs, ModelOfFields DEF HuggingFace
    <3>9. m.kind = "HuggingFace" /\ m.repo = repo /\ m.revision = revision /\ m.path = file /\ m.query = NoText
      BY DEF HuggingFace, DesiredModelOf
    <3>10. m = HuggingFace(m.repo, m.revision, m.path, m.query)
      BY <3>9
    <3> HIDE DEF m
    <3>11. WellFormed(m)
      BY <3>10, Zenon DEF WellFormed
    <3>12. Representable(m)
      BY <3>5, <3>6, <3>7, <3>9 DEF Representable
    <3>13. QED
      BY <3>2, <3>8, <3>11, <3>12 DEF DesiredModel
  <2>6. CASE url.hostname # HuggingFaceHost /\ url.protocol = "agent"
    <3> DEFINE m == LocalToAgent(url.pathname, FALSE, NoText)
    <3>1. agentDesiredModel(uri) = m
      BY <2>1, <2>6 DEF urlToAgentDesiredModel
    <3>2. m \in DesiredModel
      BY <2>2, AbsoluteIsModel
    <3>3. m.kind = "LocalToAgent" /\ m.path = url.pathname /\ m.relative = FALSE /\ m.query = NoText
      BY DEF LocalToAgent, DesiredModelOf
    <3> HIDE DEF m
    <3>4. Representable(m)
      BY <2>2, <3>3 DEF Representable
    <3>5. QED
      BY <3>1, <3>2, <3>4
  <2>7. CASE url.hostname # HuggingFaceHost /\ url.protocol # "agent"
    <3> DEFINE u == ToString(url)
               m == UrlModel(u)
    <3>1. agentDesiredModel(uri) = m
      BY <2>1, <2>7 DEF urlToAgentDesiredModel
    <3>2. /\ u.scheme = url.protocol /\ u.host = url.host /\ u.path = url.pathname /\ u.query = url.search
          /\ u \in Uri
      BY <2>2, UriHasParts DEF ToString
    <3> HIDE DEF u
    <3>3. m \in ModelRecord
      BY <3>2, NoUriIs, Words, ModelOfFields DEF UrlModel
    <3>4. m.kind = "Url" /\ m.uri = u
      BY ModelHasParts, Zenon
    <3>5. m = UrlModel(m.uri)
      BY <3>4
    <3> HIDE DEF m
    <3>6. WellFormed(m)
      BY <3>5 DEF WellFormed
    <3>7. u.scheme \in {"http", "https"} /\ u.scheme \in SpecialSchemes
      BY <2>1, <2>7, <3>2 DEF IsModelUrl, SpecialSchemes
    <3>8. Authority[<<u.scheme, u.host>>] = authority
      BY <2>2, <2>3, <3>2
    <3>9. /\ u.path # <<>> /\ IsPlain(u.path) /\ QueryEncoded[u.query] = u.query
          /\ authority.valid /\ authority.hostname # HuggingFaceHost
          /\ authority.protocol = u.scheme /\ authority.host = u.host
      BY <2>1, <2>2, <2>4, <2>7, <3>2, <3>7
    <3>10. Representable(m)
      BY <3>4, <3>7, <3>8, <3>9 DEF Representable
    <3>11. QED
      BY <3>1, <3>3, <3>6, <3>10 DEF DesiredModel
  <2>8. QED
    BY <2>5, <2>6, <2>7
<1>3. QED
  BY <1>1, <1>2

\* A representable model is accepted by the form and read back as itself.
LEMMA RepresentableIsReadBack ==
    ASSUME NEW m \in DesiredModel, Representable(m)
    PROVE  IsOk(modelSchemaToUrl(m)) /\ agentDesiredModel(modelSchemaToUrl(m)) = m
<1>1. m \in ModelRecord /\ WellFormed(m)
  BY DEF DesiredModel
<1>0. /\ m.repo \in Segments /\ m.revision \in Segments /\ m.path \in Segments
      /\ m.relative \in BOOLEAN /\ m.query \in Texts /\ m.uri \in Uri
  BY <1>1 DEF ModelRecord
<1>9. ASSUME NEW u \in Uri, u.scheme # NoText
      PROVE  /\ IsOk(u) <=> Authority[<<u.scheme, u.host>>].valid /\ IsModelUrl(ParseUrl(u))
             /\ agentDesiredModel(u) = urlToAgentDesiredModel(ParseUrl(u))
  <2>1. u # NoUri
    BY <1>9, NoUriHasNoScheme
  <2>2. QED
    BY <2>1 DEF IsOk, IsUrl, agentDesiredModel
<1>2. CASE m.kind = "None"
  <2>1. m = NoModel
    BY <1>1, <1>2, KindSaysForm
  <2>2. QED
    BY <1>2, <2>1 DEF modelSchemaToUrl, agentDesiredModel, IsOk
<1>3. CASE m.kind = "HuggingFace"
  <2> DEFINE front == m.repo \o <<"blob">> \o m.revision
             p == front \o m.path
  <2>1. m = HuggingFace(m.repo, m.revision, m.path, m.query)
    BY <1>1, <1>3, KindSaysForm
  <2>2. /\ Len(m.repo) = 2 /\ Len(m.revision) = 1 /\ Len(m.path) >= 1 /\ m.query = NoText
        /\ IsPlain(m.repo) /\ HasNoEmpty(m.repo)
        /\ IsPlain(m.revision) /\ HasNoEmpty(m.revision)
        /\ IsPlain(m.path) /\ HasNoEmpty(m.path)
    BY <1>3 DEF Representable
  <2>3. modelSchemaToUrl(m) = UriOf("https", HuggingFaceHost, p, m.query)
    BY <1>3 DEF modelSchemaToUrl
  <2>4. <<"blob">> \in Segments /\ Len(<<"blob">>) = 1 /\ <<"blob">>[1] = "blob"
    BY Words, OneSegment
  <2>5. /\ front \in Segments /\ Len(front) = 4
        /\ front[1] = m.repo[1] /\ front[2] = m.repo[2] /\ front[3] = "blob" /\ front[4] = m.revision[1]
    <3> DEFINE two == m.repo \o <<"blob">>
    <3>1. /\ two \in Segments /\ Len(two) = Len(m.repo) + Len(<<"blob">>)
          /\ \A i \in 1 .. Len(m.repo) : two[i] = m.repo[i]
          /\ \A i \in 1 .. Len(<<"blob">>) : two[Len(m.repo) + i] = <<"blob">>[i]
      BY <1>0, <2>4, Joined, Zenon
    <3> HIDE DEF two
    <3>2. Len(two) = 3 /\ two[1] = m.repo[1] /\ two[2] = m.repo[2] /\ two[3] = "blob"
      BY <2>2, <2>4, <3>1
    <3>3. front = two \o m.revision
      BY DEF two
    <3> HIDE DEF front
    <3>4. /\ front \in Segments /\ Len(front) = Len(two) + Len(m.revision)
          /\ \A i \in 1 .. Len(two) : front[i] = two[i]
          /\ \A i \in 1 .. Len(m.revision) : front[Len(two) + i] = m.revision[i]
      BY <1>0, <3>1, <3>3, Joined, Zenon
    <3>5. /\ front[1] = two[1] /\ front[2] = two[2] /\ front[3] = two[3] /\ front[4] = m.revision[1]
          /\ Len(front) = 4
      BY <2>2, <3>2, <3>4
    <3>6. QED
      BY <3>2, <3>4, <3>5, Zenon
  <2> HIDE DEF front
  <2>6. /\ p \in Segments /\ Len(p) = 4 + Len(m.path) /\ Len(m.path) \in Nat
        /\ p[1] = front[1] /\ p[2] = front[2] /\ p[3] = front[3] /\ p[4] = front[4]
        /\ \A i \in 1 .. Len(m.path) : p[4 + i] = m.path[i]
    <3>1. /\ p \in Segments /\ Len(p) = Len(front) + Len(m.path) /\ Len(m.path) \in Nat
          /\ \A i \in 1 .. Len(front) : p[i] = front[i]
          /\ \A i \in 1 .. Len(m.path) : p[Len(front) + i] = m.path[i]
      BY <1>0, <2>5, Joined, Zenon
    <3> HIDE DEF p
    <3>2. QED
      BY <2>5, <3>1
  <2> HIDE DEF p
  <2>7. <<p[1], p[2]>> = m.repo
    BY <1>0, <2>2, <2>5, <2>6 DEF Segments
  <2>8. <<p[4]>> = m.revision
    BY <1>0, <2>2, <2>5, <2>6 DEF Segments
  <2>9. SubSeq(p, 5, Len(p)) = m.path
    <3> DEFINE q == SubSeq(p, 5, Len(p))
    <3>1. q \in Seq(Texts) /\ Len(q) = Len(m.path)
      BY <2>2, <2>6, SubSeqProperties DEF Segments
    <3>2. \A i \in 1 .. Len(q) : q[i] = p[5 + i - 1]
      BY <2>2, <2>6, SubSeqProperties DEF Segments
    <3> HIDE DEF q
    <3>3. \A i \in 1 .. Len(q) : q[i] = m.path[i]
      BY <2>6, <3>1, <3>2
    <3>4. q = m.path
      BY <1>0, <3>1, <3>3, SeqEqual DEF Segments
    <3>5. QED
      BY <3>4 DEF q
  <2>10. IsPlain(p) /\ HasNoEmpty(p)
    <3>1. PathEncoded["blob"] = "blob" /\ "blob" \notin SingleDot \cup DoubleDot /\ "blob" # NoText
      BY Words, ModelUrisAssumption
    <3> DEFINE Good(w) == PathEncoded[w] = w /\ w \notin SingleDot \cup DoubleDot /\ w # NoText
    <3>2. Good(p[1]) /\ Good(p[2]) /\ Good(p[3]) /\ Good(p[4])
      <4>1. 1 \in 1 .. Len(m.repo) /\ 2 \in 1 .. Len(m.repo) /\ 1 \in 1 .. Len(m.revision)
        BY <2>2
      <4>2. QED
        BY <2>2, <2>5, <2>6, <3>1, <4>1 DEF IsPlain, HasNoEmpty
    <3>3. \A i \in 1 .. Len(m.path) : Good(p[4 + i])
      BY <2>2, <2>6 DEF IsPlain, HasNoEmpty
    <3> HIDE DEF Good
    <3>4. ASSUME NEW j \in 1 .. Len(p) PROVE Good(p[j])
      <4>1. j \in {1, 2, 3, 4} \/ (j - 4 \in 1 .. Len(m.path) /\ 4 + (j - 4) = j)
        BY <2>6
      <4>2. QED
        BY <3>2, <3>3, <4>1
    <3>5. QED
      BY <3>4 DEF Good, IsPlain, HasNoEmpty
  <2> DEFINE u == modelSchemaToUrl(m)
             url == ParseUrl(u)
  <2>11. u.scheme = "https" /\ u.host = HuggingFaceHost /\ u.path = p /\ u \in Uri
    BY <1>0, <2>3, <2>6, Words, UriHasParts
  <2> HIDE DEF u
  <2>12. Authority[<<u.scheme, u.host>>] = Parsed(TRUE, "https", HuggingFaceHost, HuggingFaceHost)
    BY <2>11, ModelUrisAssumption
  <2>13. /\ Authority[<<u.scheme, u.host>>].valid
         /\ url.hostname = HuggingFaceHost /\ url.pathname = Pathname(Authority[<<u.scheme, u.host>>].protocol, p)
    BY <2>11, <2>12, UrlHasParts DEF Parsed
  <2>14. p # <<>>
    BY <2>2, <2>6
  <2>15. url.pathname = p
    BY <2>6, <2>10, <2>13, <2>14, PathnameIsPlain
  <2>16. NonEmptySegments(url.pathname) = p
    BY <2>6, <2>10, <2>15, NonEmptyOfPath
  <2> HIDE DEF url
  <2>17. IsModelUrl(url)
    BY <2>2, <2>5, <2>6, <2>13, <2>16 DEF IsModelUrl, IsHuggingFacePath
  <2>18. urlToAgentDesiredModel(url) = HuggingFace(<<p[1], p[2]>>, <<p[4]>>, SubSeq(p, 5, Len(p)), NoText)
    BY <2>13, <2>16 DEF urlToAgentDesiredModel, extractHuggingFaceUrlParts
  <2>19. urlToAgentDesiredModel(url) = m
    BY <2>1, <2>2, <2>7, <2>8, <2>9, <2>18
  <2>20. QED
    BY <1>9, <2>11, <2>13, <2>17, <2>19, Words DEF u, url
<1>4. CASE m.kind = "LocalToAgent"
  <2>1. m = LocalToAgent(m.path, m.relative, m.query)
    BY <1>1, <1>4, KindSaysForm
  <2>2. m.relative = FALSE /\ IsPlain(m.path) /\ m.query = NoText
    BY <1>0, <1>4 DEF Representable
  <2>3. modelSchemaToUrl(m) = UriOf("agent", NoText, m.path, m.query)
    BY <1>4, <2>2 DEF modelSchemaToUrl
  <2> DEFINE u == modelSchemaToUrl(m)
             url == ParseUrl(u)
  <2>4. u.scheme = "agent" /\ u.host = NoText /\ u.path = m.path /\ u \in Uri
    BY <1>0, <2>3, Words, UriHasParts
  <2> HIDE DEF u
  <2>5. Authority[<<u.scheme, u.host>>] = Parsed(TRUE, "agent", NoText, NoText)
    BY <2>4, ModelUrisAssumption
  <2>6. /\ Authority[<<u.scheme, u.host>>].valid
        /\ url.protocol = "agent" /\ url.hostname = NoText /\ url.pathname = Pathname("agent", m.path)
    BY <2>4, <2>5, UrlHasParts DEF Parsed
  <2>7. url.pathname = m.path
    BY <1>0, <2>2, <2>6, PathnameIsPlain DEF SpecialSchemes
  <2> HIDE DEF url
  <2>8. IsModelUrl(url) /\ urlToAgentDesiredModel(url) = LocalToAgent(m.path, FALSE, NoText)
    BY <2>6, <2>7, Words DEF IsModelUrl, urlToAgentDesiredModel
  <2>9. urlToAgentDesiredModel(url) = m
    BY <2>1, <2>2, <2>8
  <2>10. QED
    BY <1>9, <2>4, <2>6, <2>8, <2>9, Words DEF u, url
<1>5. CASE m.kind = "Url"
  <2> DEFINE u == m.uri
             url == ParseUrl(u)
             authority == Authority[<<u.scheme, u.host>>]
  <2>1. m = UrlModel(u)
    BY <1>1, <1>5, KindSaysForm
  <2>2. modelSchemaToUrl(m) = u
    BY <1>5 DEF modelSchemaToUrl
  <2>3. /\ u.scheme \in {"http", "https"}
        /\ authority.valid /\ authority.hostname # HuggingFaceHost
        /\ authority.protocol = u.scheme /\ authority.host = u.host
        /\ u.path # <<>> /\ IsPlain(u.path) /\ QueryEncoded[u.query] = u.query
    BY <1>5 DEF Representable
  <2>4. u \in Uri /\ u.path \in Segments
    BY <1>0 DEF Uri
  <2>5. /\ url.protocol = authority.protocol /\ url.hostname = authority.hostname /\ url.host = authority.host
        /\ url.pathname = Pathname(authority.protocol, u.path) /\ url.search = QueryEncoded[u.query]
    BY <2>4, UrlHasParts
  <2>6. Pathname(authority.protocol, u.path) = u.path
    BY <2>3, <2>4, PathnameIsPlain
  <2>7. u = UriOf(u.scheme, u.host, u.path, u.query)
    BY <2>4 DEF Uri, UriOf
  <2> HIDE DEF u, url, authority
  <2>8. ToString(url) = UriOf(u.scheme, u.host, u.path, u.query)
    BY <2>3, <2>5, <2>6 DEF ToString
  <2>9. url.protocol \in {"http", "https"} /\ url.hostname # HuggingFaceHost
    BY <2>3, <2>5
  <2>10. IsModelUrl(url) /\ urlToAgentDesiredModel(url) = UrlModel(ToString(url))
    BY <2>9 DEF IsModelUrl, urlToAgentDesiredModel
  <2>11. urlToAgentDesiredModel(url) = m
    BY <2>1, <2>7, <2>8, <2>10
  <2>12. u.scheme # NoText
    BY <2>3, Words
  <2>13. QED
    BY <1>9, <2>2, <2>3, <2>4, <2>10, <2>11, <2>12 DEF url, authority
<1>6. QED
  BY <1>1, <1>2, <1>3, <1>4, <1>5 DEF ModelRecord

\* The models the model form of the web admin panel can hold are exactly these: the URI
\* it writes for one (modelSchemaToUrl) is accepted and read back, through the URL
\* parser of the browser (useAgentDesiredModelUrl, urlToAgentDesiredModel), as the same
\* model.  The names of a repository, a file or a path must be such that the parser
\* leaves them alone; any other model is refused or becomes another one.
THEOREM ModelIsReadBack ==
    ASSUME NEW m \in DesiredModel
    PROVE  Representable(m)
             <=> IsOk(modelSchemaToUrl(m)) /\ agentDesiredModel(modelSchemaToUrl(m)) = m
<1>1. ASSUME IsOk(modelSchemaToUrl(m)), agentDesiredModel(modelSchemaToUrl(m)) = m
      PROVE  Representable(m)
  <2>1. modelSchemaToUrl(m) \in Uri
    BY UriOfModel
  <2>2. QED
    BY <1>1, <2>1, ModelOfUri
<1>2. QED
  BY <1>1, RepresentableIsReadBack

-----------------------------------------------------------------------------
(***************************************************************************)
(* The parts of the pages.                                                 *)
(***************************************************************************)
\* The bounds are numbers, and no fetch is numbered 0.
LEMMA BoundsAreNumbers ==
    /\ MaxChanges \in Nat /\ MaxFetches \in Nat /\ MaxPuts \in Nat /\ MaxFaults \in Nat
    /\ 0 \in 0 .. MaxFetches /\ \A f \in Fetch : f \in 0 .. MaxFetches /\ f # 0
  BY AdminPagesAssumption DEF Fetch

\* No dialog has the type of one.
LEMMA NoDialogIs == NoDialog \in AgentDialog /\ NoDialog.kind = "none" /\ NoDialog.agent \in Agents
<1>1. (CHOOSE a \in Agents : TRUE) \in Agents
  BY AdminPagesAssumption
<1>2. QED
  BY <1>1 DEF NoDialog, AgentDialog

\* The empty state is a desired state.
LEMMA EmptyStateIs == EmptyState \in DesiredState
<1>1. NoUri \in Uri /\ IsOk(NoUri) /\ agentDesiredModel(NoUri) = NoModel
  BY NoUriIs DEF IsOk, agentDesiredModel
<1>2. NoModel \in DesiredModel
  BY <1>1, ModelOfUri
<1>3. QED
  BY <1>2 DEF EmptyState, DesiredState

\* The empty form is a form.
LEMMA EmptyFormIs == EmptyForm \in FormData
<1>1. [f \in UriField |-> NoUri] \in [UriField -> Uri]
  BY NoUriIs
<1>2. QED
  BY <1>1 DEF EmptyForm, FormData

\* The form that is made of a desired state.
LEMMA FormOfState ==
    ASSUME NEW s \in DesiredState
    PROVE  /\ FormOf(s) \in FormData
           /\ FormOf(s).uri["model"] = modelSchemaToUrl(s.model)
           /\ FormOf(s).uri["projection"] = modelSchemaToUrl(s.projection)
           /\ FormOf(s).template = s.template /\ FormOf(s).useTemplate = s.useTemplate
           /\ FormOf(s).parameters = s.parameters
<1>1. s.model \in DesiredModel /\ s.projection \in DesiredModel
  BY DEF DesiredState
<1> DEFINE a == modelSchemaToUrl(s.model)
           b == modelSchemaToUrl(s.projection)
           u == [model |-> a, projection |-> b]
<1>2. a \in Uri /\ b \in Uri
  BY <1>1, UriOfModel
<1> HIDE DEF a, b
<1>3. u \in [UriField -> Uri] /\ u["model"] = a /\ u["projection"] = b
  BY <1>2 DEF UriField
<1>4. FormOf(s) = [uri |-> u, template |-> s.template, useTemplate |-> s.useTemplate,
                   parameters |-> s.parameters]
  BY DEF FormOf, a, b
<1> HIDE DEF u
<1>5. s.template \in {0, 1} /\ s.useTemplate \in BOOLEAN /\ s.parameters \in [Parameter -> {0, 1}]
  BY DEF DesiredState
<1>6. FormOf(s) \in FormData
  <2>1. ASSUME NEW v \in [UriField -> Uri], NEW t \in {0, 1}, NEW c \in BOOLEAN,
               NEW p \in [Parameter -> {0, 1}]
        PROVE  [uri |-> v, template |-> t, useTemplate |-> c, parameters |-> p] \in FormData
    BY DEF FormData
  <2>2. QED
    BY <1>3, <1>4, <1>5, <2>1, Zenon
<1>7. /\ FormOf(s).uri = u
      /\ FormOf(s).template = s.template /\ FormOf(s).useTemplate = s.useTemplate
      /\ FormOf(s).parameters = s.parameters
  <2>1. ASSUME NEW v, NEW t, NEW c, NEW p,
               FormOf(s) = [uri |-> v, template |-> t, useTemplate |-> c, parameters |-> p]
        PROVE  /\ FormOf(s).uri = v /\ FormOf(s).template = t /\ FormOf(s).useTemplate = c
               /\ FormOf(s).parameters = p
    BY <2>1
  <2>2. QED
    BY <1>4, <2>1, Zenon
<1>8. QED
  BY <1>3, <1>6, <1>7, Zenon DEF a, b

\* What is submitted is a desired state.
LEMMA SubmittedIsState ==
    ASSUME FormShape, Submittable
    PROVE  balancerDesiredState \in DesiredState
<1> DEFINE a == agentDesiredModel(form.uri["model"])
           b == agentDesiredModel(form.uri["projection"])
<1>1. form.uri["model"] \in Uri /\ form.uri["projection"] \in Uri
  BY DEF FormShape, FormData, UriField
<1>2. IsOk(form.uri["model"]) /\ IsOk(form.uri["projection"])
  BY Zenon DEF Submittable, UriField
<1>3. a \in DesiredModel /\ b \in DesiredModel
  BY <1>1, <1>2, ModelOfUri
<1>4. /\ form.template \in {0, 1} /\ form.useTemplate \in BOOLEAN
      /\ form.parameters \in [Parameter -> {0, 1}]
  BY DEF FormShape, FormData
<1>5. balancerDesiredState = [model |-> a, projection |-> b, template |-> form.template,
                              useTemplate |-> form.useTemplate, parameters |-> form.parameters]
  BY DEF balancerDesiredState
<1> HIDE DEF a, b
<1>6. QED
  BY <1>3, <1>4, <1>5, Zenon DEF DesiredState

\* useFetchJson's effect: a request that was not used yet is the one that is mounted.
LEMMA FetchIsStarted ==
    ASSUME NEW purpose, NEW agent, StartFetch(purpose, agent)
    PROVE  /\ fetchState' = "loading"
           /\ \E f \in Fetch :
                 /\ mounted' = f
                 /\ fetches' = [fetches EXCEPT ![f] = [for |-> purpose, agent |-> agent,
                                                       status |-> "sent", value |-> EmptyState]]
<1> DEFINE f == CHOOSE g \in Unsent : \A h \in Unsent : g <= h
<1>1. Unsent # {} /\ Unsent \subseteq Fetch /\ Unsent \subseteq Nat
  BY BoundsAreNumbers DEF StartFetch, Unsent, Fetch
<1>2. \E g \in Unsent : \A h \in Unsent : g <= h
  BY <1>1, LeastNumber
<1>3. f \in Unsent
  BY <1>2
<1>4. f \in Fetch
  BY <1>1, <1>3
<1>5. /\ fetchState' = "loading" /\ mounted' = f
      /\ fetches' = [fetches EXCEPT ![f] = [for |-> purpose, agent |-> agent,
                                            status |-> "sent", value |-> EmptyState]]
  BY DEF StartFetch
<1> HIDE DEF f
<1>6. QED
  BY <1>4, <1>5, Zenon

\* A fetch that starts has the type of one.
LEMMA StartKeepsShape ==
    ASSUME FetchShape, NEW purpose \in FetchPurpose, NEW agent \in Agents,
           StartFetch(purpose, agent)
    PROVE  FetchShape'
<1> DEFINE asked == [for |-> purpose, agent |-> agent, status |-> "sent", value |-> EmptyState]
<1>1. asked \in FetchRecord
  BY EmptyStateIs, Zenon DEF FetchRecord, RequestStatus
<1>2. PICK f \in Fetch : mounted' = f /\ fetches' = [fetches EXCEPT ![f] = asked]
  BY FetchIsStarted, Zenon
<1>3. fetchState' = "loading"
  BY FetchIsStarted, Zenon
<1> HIDE DEF asked
<1>4. QED
  BY <1>1, <1>2, <1>3, BoundsAreNumbers DEF FetchShape

\* A fetch whose page is left stays one.
LEMMA UnmountKeepsShape ==
    ASSUME FetchShape, Unmount
    PROVE  FetchShape'
<1> DEFINE over == [NoFetch EXCEPT !.status = "over"]
<1>1. over \in FetchRecord
  <2>1. NoFetch \in FetchRecord
    BY EmptyStateIs, NoDialogIs, Zenon DEF NoFetch, FetchRecord, RequestStatus, FetchPurpose
  <2>2. QED
    BY <2>1 DEF FetchRecord, RequestStatus
<1>2. fetches' = fetches \/ fetches' = [fetches EXCEPT ![mounted] = over]
  BY Zenon DEF Unmount
<1>3. mounted' = 0 /\ fetchState' = "loading"
  BY DEF Unmount
<1> HIDE DEF over
<1>4. QED
  BY <1>1, <1>2, <1>3, BoundsAreNumbers DEF FetchShape

\* An event on its way.
LEMMA EventIs ==
    ASSUME NEW k \in {"snapshot", "garbage"}, NEW s \in Snapshot
    PROVE  /\ [kind |-> k, fleet |-> s] \in StreamEvent
           /\ <<[kind |-> k, fleet |-> s]>> \in Seq(StreamEvent)
           /\ Len(<<[kind |-> k, fleet |-> s]>>) = 1
<1> DEFINE event == [kind |-> k, fleet |-> s]
<1>1. event \in StreamEvent
  BY DEF StreamEvent
<1> HIDE DEF event
<1>2. <<event>> \in Seq(StreamEvent) /\ Len(<<event>>) = 1
  BY <1>1
<1>3. QED
  BY <1>1, <1>2 DEF event

\* A stream without events.
LEMMA NothingIsOnItsWay == <<>> \in Seq(StreamEvent) /\ Len(<<>>) = 0
  OBVIOUS

\* A page that is left.
LEMMA LeftDashboard ==
    ASSUME LeaveDashboard
    PROVE  /\ stream' = "initial" /\ wireUp' = FALSE /\ events' \in Seq(StreamEvent)
           /\ Len(events') = 0 /\ listed' \in Snapshot /\ dialog' \in AgentDialog
           /\ dialog' = NoDialog
<1>1. listed' \in Snapshot
  BY DEF LeaveDashboard, Snapshot
<1>2. QED
  BY <1>1, NoDialogIs, NothingIsOnItsWay DEF LeaveDashboard

\* The dashboard keeps its shape.
LEMMA DashboardStep ==
    ASSUME DashboardShape, AdminNext
    PROVE  DashboardShape'
<1>1. CASE VisitPage
  <2>1. PICK to \in {"/", "/model", "/prompt"} : Navigate(to) /\ UNCHANGED <<fleetVars, puts>>
    BY <1>1, Zenon DEF VisitPage
  <2>2. page' = to /\ LeaveDashboard /\ fleet' = fleet /\ changes' = changes /\ faults' = faults
    BY <2>1 DEF Navigate, fleetVars
  <2>3. QED
    BY <2>1, <2>2, LeftDashboard DEF DashboardShape
<1>2. CASE Change
  <2>1. /\ changes < MaxChanges /\ changes' = changes + 1 /\ faults' = faults /\ page' = page
        /\ stream' = stream /\ wireUp' = wireUp /\ listed' = listed /\ dialog' = dialog
    BY <1>2 DEF Change
  <2>2. CASE UNCHANGED <<fleet, events>>
    BY <2>1, <2>2, BoundsAreNumbers, LenProperties DEF DashboardShape
  <2>3. ASSUME NEW a \in Agents, NEW flag \in Flag,
               fleet' = [fleet EXCEPT ![a] =
                            IF flag \in @ THEN IF flag = "registered" THEN {} ELSE @ \ {flag}
                            ELSE @ \cup {flag}],
               events' = IF wireUp THEN Append(events, [kind |-> "snapshot", fleet |-> fleet'])
                         ELSE events
        PROVE  DashboardShape'
    <3>1. fleet' \in Snapshot
      BY <2>3 DEF DashboardShape, Snapshot
    <3>2. [kind |-> "snapshot", fleet |-> fleet'] \in StreamEvent
      BY <3>1, EventIs
    <3>3. /\ events \in Seq(StreamEvent) /\ Len(events) \in Nat /\ Len(events) <= 1 + changes + faults
          /\ changes \in 0 .. MaxChanges /\ faults \in 0 .. MaxFaults
      BY LenProperties DEF DashboardShape
    <3>4. events' \in Seq(StreamEvent) /\ Len(events') <= Len(events) + 1
      BY <2>3, <3>2, <3>3, AppendProperties
    <3>5. changes' \in 0 .. MaxChanges /\ Len(events') <= 1 + changes' + faults'
      BY <2>1, <3>3, <3>4, BoundsAreNumbers, LenProperties
    <3>6. QED
      BY <2>1, <3>1, <3>4, <3>5 DEF DashboardShape
  <2>4. QED
    BY <1>2, <2>2, <2>3, Zenon DEF Change
<1>3. CASE StreamOpens
  <2>1. /\ events' = <<[kind |-> "snapshot", fleet |-> fleet]>> /\ wireUp' = TRUE /\ stream' = "connected"
        /\ fleet' = fleet /\ changes' = changes /\ faults' = faults /\ page' = page
        /\ listed' = listed /\ dialog' = dialog
    BY <1>3 DEF StreamOpens, fleetVars
  <2>2. events' \in Seq(StreamEvent) /\ Len(events') = 1
    BY <2>1, EventIs DEF DashboardShape
  <2>3. QED
    BY <2>1, <2>2, BoundsAreNumbers DEF DashboardShape
<1>4. CASE StreamFails
  <2>1. /\ faults < MaxFaults /\ faults' = faults + 1 /\ events' = <<>> /\ wireUp' = FALSE
        /\ stream' = "connectionError"
        /\ fleet' = fleet /\ changes' = changes /\ page' = page /\ listed' = listed
    BY <1>4 DEF StreamFails
  <2>2. dialog' \in AgentDialog
    BY <1>4, NoDialogIs DEF StreamFails, CloseWithButton, DashboardShape
  <2>3. events' \in Seq(StreamEvent) /\ Len(events') = 0
    BY <2>1, NothingIsOnItsWay
  <2>4. changes \in 0 .. MaxChanges /\ faults \in 0 .. MaxFaults
    BY DEF DashboardShape
  <2>5. faults' \in 0 .. MaxFaults /\ Len(events') <= 1 + changes' + faults'
    BY <2>1, <2>3, <2>4, BoundsAreNumbers
  <2>6. QED
    BY <2>1, <2>2, <2>3, <2>5 DEF DashboardShape
<1>5. CASE Garble
  <2>1. /\ faults < MaxFaults /\ faults' = faults + 1
        /\ events' = Append(events, [kind |-> "garbage", fleet |-> fleet])
        /\ wireUp' = wireUp /\ stream' = stream /\ dialog' = dialog
        /\ fleet' = fleet /\ changes' = changes /\ page' = page /\ listed' = listed
    BY <1>5 DEF Garble
  <2>2. [kind |-> "garbage", fleet |-> fleet] \in StreamEvent
    BY EventIs DEF DashboardShape
  <2>3. /\ events \in Seq(StreamEvent) /\ Len(events) \in Nat /\ Len(events) <= 1 + changes + faults
        /\ changes \in 0 .. MaxChanges /\ faults \in 0 .. MaxFaults
    BY LenProperties DEF DashboardShape
  <2>4. events' \in Seq(StreamEvent) /\ Len(events') = Len(events) + 1
    BY <2>1, <2>2, <2>3, AppendProperties
  <2>5. faults' \in 0 .. MaxFaults /\ Len(events') <= 1 + changes' + faults'
    BY <2>1, <2>3, <2>4, BoundsAreNumbers
  <2>6. QED
    BY <2>1, <2>4, <2>5 DEF DashboardShape
<1>6. CASE TakeEvent
  <2> DEFINE event == Head(events)
  <2>1. /\ events \in Seq(StreamEvent) /\ Len(events) \in Nat /\ Len(events) <= 1 + changes + faults
        /\ changes \in 0 .. MaxChanges /\ faults \in 0 .. MaxFaults
    BY LenProperties DEF DashboardShape
  <2>2. /\ events # <<>> /\ events' = Tail(events)
        /\ fleet' = fleet /\ changes' = changes /\ faults' = faults /\ page' = page /\ wireUp' = wireUp
    BY <1>6 DEF TakeEvent, fleetVars
  <2>3. event \in StreamEvent /\ events' \in Seq(StreamEvent) /\ Len(events') = Len(events) - 1
    BY <2>1, <2>2, HeadTailProperties
  <2>4. /\ stream' \in {"deserializationError", "dataSnapshot"}
        /\ listed' \in {listed, event.fleet}
        /\ dialog' \in {dialog, NoDialog}
    <3>1. IF event.kind = "garbage"
          THEN /\ stream' = "deserializationError"
               /\ CloseWithButton(FALSE)
               /\ UNCHANGED listed
          ELSE /\ stream' = "dataSnapshot"
               /\ listed' = event.fleet
               /\ CloseWithButton(HasButton(dialog, event.fleet))
      BY <1>6, Zenon DEF TakeEvent
    <3>2. \A visible : CloseWithButton(visible) => dialog' \in {dialog, NoDialog}
      BY DEF CloseWithButton
    <3> HIDE DEF event
    <3>3. CASE event.kind = "garbage"
      BY <3>1, <3>2, <3>3, Zenon
    <3>4. CASE event.kind # "garbage"
      BY <3>1, <3>2, <3>4, Zenon
    <3>5. QED
      BY <3>3, <3>4
  <2> HIDE DEF event
  <2>5. event.fleet \in Snapshot
    BY <2>3 DEF StreamEvent
  <2>6. Len(events') <= 1 + changes' + faults'
    BY <2>1, <2>2, <2>3
  <2>7. listed' \in Snapshot /\ dialog' \in AgentDialog
    BY <2>4, <2>5, NoDialogIs DEF DashboardShape
  <2>8. QED
    BY <2>2, <2>3, <2>4, <2>6, <2>7 DEF DashboardShape
<1>7. CASE OpenModelMetadata
  <2>1. PICK a \in Agents : OpenDialog("metadata", a)
    BY <1>7, Zenon DEF OpenModelMetadata
  <2>2. /\ dialog' = [kind |-> "metadata", agent |-> a]
        /\ UNCHANGED <<fleetVars, page, stream, wireUp, events, listed>>
    BY <2>1 DEF OpenDialog
  <2>3. dialog' \in AgentDialog
    BY <2>2 DEF AgentDialog
  <2>4. QED
    BY <2>2, <2>3 DEF DashboardShape, fleetVars
<1>8. CASE OpenChatTemplateOverride
  <2>1. PICK a \in Agents : OpenDialog("template", a)
    BY <1>8, Zenon DEF OpenChatTemplateOverride
  <2>2. /\ dialog' = [kind |-> "template", agent |-> a]
        /\ UNCHANGED <<fleetVars, page, stream, wireUp, events, listed>>
    BY <2>1 DEF OpenDialog
  <2>3. dialog' \in AgentDialog
    BY <2>2 DEF AgentDialog
  <2>4. QED
    BY <2>2, <2>3 DEF DashboardShape, fleetVars
<1>9. CASE OpenAgentIssues
  <2>1. PICK a \in Agents : OpenDialog("issues", a)
    BY <1>9, Zenon DEF OpenAgentIssues
  <2>2. /\ dialog' = [kind |-> "issues", agent |-> a]
        /\ UNCHANGED <<fleetVars, page, stream, wireUp, events, listed>>
    BY <2>1 DEF OpenDialog
  <2>3. dialog' \in AgentDialog
    BY <2>2 DEF AgentDialog
  <2>4. QED
    BY <2>2, <2>3 DEF DashboardShape, fleetVars
<1>10. CASE CloseDialog
  BY <1>10, NoDialogIs DEF CloseDialog, fleetVars, dashboardVars, fetchVars, formVars,
     DashboardShape
<1>11. CASE EditUri
  BY <1>11, NoDialogIs DEF EditUri, fleetVars, dashboardVars, fetchVars, formVars,
     DashboardShape
<1>12. CASE InputParameter
  BY <1>12, NoDialogIs DEF InputParameter, ChangeParameter, fleetVars, dashboardVars,
     fetchVars, formVars, DashboardShape
<1>13. CASE CheckParameter
  BY <1>13, NoDialogIs DEF CheckParameter, ChangeParameter, fleetVars, dashboardVars,
     fetchVars, formVars, DashboardShape
<1>14. CASE ChooseTemplate
  BY <1>14, NoDialogIs DEF ChooseTemplate, fleetVars, dashboardVars, fetchVars,
     formVars, DashboardShape
<1>15. CASE OpenEditor
  BY <1>15, NoDialogIs DEF OpenEditor, fleetVars, dashboardVars, fetchVars, formVars,
     DashboardShape
<1>16. CASE TypeTemplate
  BY <1>16, NoDialogIs DEF TypeTemplate, fleetVars, dashboardVars, fetchVars,
     formVars, DashboardShape
<1>17. CASE SaveTemplate
  BY <1>17, NoDialogIs DEF SaveTemplate, fleetVars, dashboardVars, fetchVars,
     formVars, DashboardShape
<1>18. CASE CloseEditor
  BY <1>18, NoDialogIs DEF CloseEditor, fleetVars, dashboardVars, fetchVars, formVars,
     DashboardShape
<1>19. CASE SubmitForm
  BY <1>19, NoDialogIs DEF SubmitForm, fleetVars, dashboardVars, fetchVars, formVars,
     DashboardShape
<1>20. ASSUME NEW f \in Fetch, Answer(f) PROVE DashboardShape'
  BY <1>20, NoDialogIs DEF Answer, fleetVars, dashboardVars, fetchVars, formVars,
     DashboardShape
<1>21. ASSUME NEW f \in Fetch, TakeAnswer(f) PROVE DashboardShape'
  BY <1>21, NoDialogIs DEF TakeAnswer, fleetVars, dashboardVars, fetchVars, formVars,
     DashboardShape
<1>22. ASSUME NEW p \in Put, ServePut(p) PROVE DashboardShape'
  BY <1>22, NoDialogIs DEF ServePut, fleetVars, dashboardVars, fetchVars, formVars,
     DashboardShape
<1>23. ASSUME NEW p \in Put, PutAnswered(p) PROVE DashboardShape'
  <2>1. fleet' = fleet /\ changes' = changes /\ faults' = faults
    BY <1>23 DEF PutAnswered, fleetVars
  <2>2. CASE Navigate("/")
    <3>1. page' = "/" /\ LeaveDashboard
      BY <2>2 DEF Navigate
    <3>2. QED
      BY <2>1, <3>1, LeftDashboard DEF DashboardShape
  <2>3. CASE UNCHANGED <<page, dashboardVars, fetchVars, form, editing, temporary, wanted>>
    BY <2>1, <2>3 DEF DashboardShape, dashboardVars
  <2>4. QED
    BY <1>23, <2>2, <2>3, Zenon DEF PutAnswered
<1>24. QED
  BY <1>1, <1>2, <1>3, <1>4, <1>5, <1>6, <1>7, <1>8, <1>9, <1>10, <1>11, <1>12, <1>13,
     <1>14, <1>15, <1>16, <1>17, <1>18, <1>19, <1>20, <1>21, <1>22, <1>23 DEF
     AdminNext

\* Requests keep their shape.
LEMMA FetchStep ==
    ASSUME FetchShape, SubmissionShape, AdminNext
    PROVE  FetchShape'
<1>1. CASE VisitPage
  <2>1. PICK to \in {"/", "/model", "/prompt"} : Navigate(to)
    BY <1>1, Zenon DEF VisitPage
  <2>2. CASE to = "/model"
    <3>1. StartFetch("form", NoDialog.agent)
      BY <2>1, <2>2, Zenon DEF Navigate, FetchBalancerDesiredState
    <3>2. QED
      BY <3>1, NoDialogIs, StartKeepsShape DEF FetchPurpose
  <2>3. CASE to # "/model"
    BY <2>1, <2>3, UnmountKeepsShape, Zenon DEF Navigate
  <2>4. QED
    BY <2>2, <2>3
<1>2. CASE Change
  BY <1>2 DEF Change, fleetVars, dashboardVars, fetchVars, formVars, FetchShape
<1>3. CASE StreamOpens
  BY <1>3 DEF StreamOpens, fleetVars, dashboardVars, fetchVars, formVars, FetchShape
<1>4. CASE StreamFails
  <2>1. ASSUME NEW visible, CloseWithButton(visible) PROVE FetchShape'
    <3>1. UNCHANGED fetchVars \/ Unmount
      BY <2>1, Zenon DEF CloseWithButton
    <3>2. CASE UNCHANGED fetchVars
      BY <3>2 DEF FetchShape, fetchVars
    <3>3. CASE Unmount
      BY <3>3, UnmountKeepsShape
    <3>4. QED
      BY <3>1, <3>2, <3>3, Zenon
  <2>2. QED
    BY <1>4, <2>1, Zenon DEF StreamFails
<1>5. CASE Garble
  BY <1>5 DEF Garble, fleetVars, dashboardVars, fetchVars, formVars, FetchShape
<1>6. CASE TakeEvent
  <2>1. ASSUME NEW visible, CloseWithButton(visible) PROVE FetchShape'
    <3>1. UNCHANGED fetchVars \/ Unmount
      BY <2>1, Zenon DEF CloseWithButton
    <3>2. CASE UNCHANGED fetchVars
      BY <3>2 DEF FetchShape, fetchVars
    <3>3. CASE Unmount
      BY <3>3, UnmountKeepsShape
    <3>4. QED
      BY <3>1, <3>2, <3>3, Zenon
  <2>2. QED
    BY <1>6, <2>1, Zenon DEF TakeEvent
<1>7. CASE OpenModelMetadata
  <2>1. PICK a \in Agents : StartFetch("metadata", a)
    BY <1>7, Zenon DEF OpenModelMetadata, FetchModelMetadata
  <2>2. QED
    BY <2>1, StartKeepsShape DEF FetchPurpose
<1>8. CASE OpenChatTemplateOverride
  <2>1. PICK a \in Agents : StartFetch("template", a)
    BY <1>8, Zenon DEF OpenChatTemplateOverride, FetchChatTemplateOverride
  <2>2. QED
    BY <2>1, StartKeepsShape DEF FetchPurpose
<1>9. CASE OpenAgentIssues
  BY <1>9 DEF OpenAgentIssues, OpenDialog, fleetVars, dashboardVars, fetchVars,
     formVars, FetchShape
<1>10. CASE CloseDialog
  <2>1. Unmount
    BY <1>10 DEF CloseDialog
  <2>2. QED
    BY <2>1, UnmountKeepsShape
<1>11. CASE EditUri
  BY <1>11 DEF EditUri, fleetVars, dashboardVars, fetchVars, formVars, FetchShape
<1>12. CASE InputParameter
  BY <1>12 DEF InputParameter, ChangeParameter, fleetVars, dashboardVars, fetchVars,
     formVars, FetchShape
<1>13. CASE CheckParameter
  BY <1>13 DEF CheckParameter, ChangeParameter, fleetVars, dashboardVars, fetchVars,
     formVars, FetchShape
<1>14. CASE ChooseTemplate
  BY <1>14 DEF ChooseTemplate, fleetVars, dashboardVars, fetchVars, formVars,
     FetchShape
<1>15. CASE OpenEditor
  BY <1>15 DEF OpenEditor, fleetVars, dashboardVars, fetchVars, formVars, FetchShape
<1>16. CASE TypeTemplate
  BY <1>16 DEF TypeTemplate, fleetVars, dashboardVars, fetchVars, formVars, FetchShape
<1>17. CASE SaveTemplate
  BY <1>17 DEF SaveTemplate, fleetVars, dashboardVars, fetchVars, formVars, FetchShape
<1>18. CASE CloseEditor
  BY <1>18 DEF CloseEditor, fleetVars, dashboardVars, fetchVars, formVars, FetchShape
<1>19. CASE SubmitForm
  BY <1>19 DEF SubmitForm, fleetVars, dashboardVars, fetchVars, formVars, FetchShape
<1>20. ASSUME NEW f \in Fetch, Answer(f) PROVE FetchShape'
  <2>1. mounted' = mounted /\ fetchState' = fetchState /\ fetches[f] \in FetchRecord
    BY <1>20 DEF Answer, FetchShape
  <2>2. CASE fetches' = [fetches EXCEPT ![f].status = "failed"]
    <3>1. [fetches[f] EXCEPT !.status = "failed"] \in FetchRecord
      BY <2>1 DEF FetchRecord, RequestStatus
    <3>2. QED
      BY <2>1, <2>2, <3>1 DEF FetchShape
  <2>3. CASE fetches' = [fetches EXCEPT ![f].status = "ok", ![f].value = desired]
    <3> DEFINE answered == [[fetches[f] EXCEPT !.status = "ok"] EXCEPT !.value = desired]
    <3>1. [fetches[f] EXCEPT !.status = "ok"] \in FetchRecord
      BY <2>1 DEF FetchRecord, RequestStatus
    <3>2. answered \in FetchRecord
      BY <3>1 DEF FetchRecord, SubmissionShape
    <3> HIDE DEF answered
    <3>3. fetches' = [fetches EXCEPT ![f] = answered]
      BY <2>3, Zenon DEF answered, FetchShape
    <3>4. QED
      BY <2>1, <3>2, <3>3 DEF FetchShape
  <2>4. QED
    BY <1>20, <2>2, <2>3, Zenon DEF Answer
<1>21. ASSUME NEW f \in Fetch, TakeAnswer(f) PROVE FetchShape'
  <2>1. mounted' = mounted /\ fetches[f] \in FetchRecord
    BY <1>21 DEF TakeAnswer, FetchShape
  <2>2. fetchState' \in {"ok", "error", fetchState}
    BY <1>21 DEF TakeAnswer, ShowAnswer
  <2> DEFINE taken == [[fetches[f] EXCEPT !.status = "over"] EXCEPT !.value = EmptyState]
  <2>3. [fetches[f] EXCEPT !.status = "over"] \in FetchRecord
    BY <2>1 DEF FetchRecord, RequestStatus
  <2>4. taken \in FetchRecord
    BY <2>3, EmptyStateIs DEF FetchRecord
  <2>5. fetches' = [fetches EXCEPT ![f] = taken]
    BY <1>21, Zenon DEF TakeAnswer, FetchShape
  <2> HIDE DEF taken
  <2>6. QED
    BY <2>1, <2>2, <2>4, <2>5 DEF FetchShape
<1>22. ASSUME NEW p \in Put, ServePut(p) PROVE FetchShape'
  BY <1>22 DEF ServePut, fleetVars, dashboardVars, fetchVars, formVars, FetchShape
<1>23. ASSUME NEW p \in Put, PutAnswered(p) PROVE FetchShape'
  <2>1. CASE Navigate("/")
    BY <2>1, UnmountKeepsShape, Zenon DEF Navigate
  <2>2. CASE UNCHANGED <<page, dashboardVars, fetchVars, form, editing, temporary, wanted>>
    BY <2>2 DEF FetchShape, fetchVars
  <2>3. QED
    BY <1>23, <2>1, <2>2, Zenon DEF PutAnswered
<1>24. QED
  BY <1>1, <1>2, <1>3, <1>4, <1>5, <1>6, <1>7, <1>8, <1>9, <1>10, <1>11, <1>12, <1>13,
     <1>14, <1>15, <1>16, <1>17, <1>18, <1>19, <1>20, <1>21, <1>22, <1>23 DEF
     AdminNext

\* A form that is left is an empty one.
LEMMA LeftForm ==
    ASSUME LeaveForm
    PROVE  FormShape'
  BY EmptyFormIs, EmptyStateIs DEF LeaveForm, FormShape

\* One field of a desired state, and of a form, is changed.
LEMMA FieldOfState ==
    ASSUME NEW s \in DesiredState
    PROVE  /\ \A m \in DesiredModel : /\ [s EXCEPT !.model = m] \in DesiredState
                                      /\ [s EXCEPT !.projection = m] \in DesiredState
           /\ \A t \in {0, 1} : [s EXCEPT !.template = t] \in DesiredState
           /\ \A c \in BOOLEAN : [s EXCEPT !.useTemplate = c] \in DesiredState
           /\ \A p \in [Parameter -> {0, 1}] : [s EXCEPT !.parameters = p] \in DesiredState
  BY DEF DesiredState

\* A form with another value of a field is a form.
LEMMA FieldOfForm ==
    ASSUME NEW s \in FormData
    PROVE  /\ \A u \in [UriField -> Uri] : [s EXCEPT !.uri = u] \in FormData
           /\ \A t \in {0, 1} : [s EXCEPT !.template = t] \in FormData
           /\ \A c \in BOOLEAN : [s EXCEPT !.useTemplate = c] \in FormData
           /\ \A p \in [Parameter -> {0, 1}] : [s EXCEPT !.parameters = p] \in FormData
  BY DEF FormData

\* Another value of a parameter.
LEMMA OtherParameter ==
    ASSUME NEW p \in [Parameter -> {0, 1}], NEW name \in Parameter
    PROVE  [p EXCEPT ![name] = 1 - p[name]] \in [Parameter -> {0, 1}]
<1>1. 1 - p[name] \in {0, 1}
  BY DEF Parameter
<1>2. QED
  BY <1>1

\* What can be typed is a URI.
LEMMA TypedIsUri ==
    ASSUME NEW uri \in Typed
    PROVE  uri \in Uri
  BY AdminPagesAssumption

\* The form keeps its shape.
LEMMA FormStep ==
    ASSUME FormShape, FetchShape, AdminNext
    PROVE  FormShape'
<1>1. CASE VisitPage
  <2>1. LeaveForm
    BY <1>1, Zenon DEF VisitPage, Navigate
  <2>2. QED
    BY <2>1, LeftForm
<1>2. CASE Change
  BY <1>2 DEF Change, fleetVars, dashboardVars, fetchVars, formVars, FormShape
<1>3. CASE StreamOpens
  BY <1>3 DEF StreamOpens, fleetVars, dashboardVars, fetchVars, formVars, FormShape
<1>4. CASE StreamFails
  BY <1>4 DEF StreamFails, fleetVars, dashboardVars, fetchVars, formVars, FormShape
<1>5. CASE Garble
  BY <1>5 DEF Garble, fleetVars, dashboardVars, fetchVars, formVars, FormShape
<1>6. CASE TakeEvent
  BY <1>6 DEF TakeEvent, fleetVars, dashboardVars, fetchVars, formVars, FormShape
<1>7. CASE OpenModelMetadata
  BY <1>7 DEF OpenModelMetadata, OpenDialog, fleetVars, dashboardVars, fetchVars,
     formVars, FormShape
<1>8. CASE OpenChatTemplateOverride
  BY <1>8 DEF OpenChatTemplateOverride, OpenDialog, fleetVars, dashboardVars,
     fetchVars, formVars, FormShape
<1>9. CASE OpenAgentIssues
  BY <1>9 DEF OpenAgentIssues, OpenDialog, fleetVars, dashboardVars, fetchVars,
     formVars, FormShape
<1>10. CASE CloseDialog
  BY <1>10 DEF CloseDialog, fleetVars, dashboardVars, fetchVars, formVars, FormShape
<1>11. CASE EditUri
  <2>1. editing' = editing /\ temporary' = temporary
    BY <1>11 DEF EditUri
  <2>2. PICK field \in UriField, uri \in Typed :
          /\ form' = [form EXCEPT !.uri[field] = uri]
          /\ wanted' = [wanted EXCEPT ![field] = IF IsOk(uri) THEN agentDesiredModel(uri) ELSE @]
    BY <1>11, Zenon DEF EditUri
  <2>3. form.uri \in [UriField -> Uri] /\ wanted.model \in DesiredModel /\ wanted.projection \in DesiredModel
    BY DEF FormShape, FormData, DesiredState
  <2>4. form' \in FormData
    <3>1. [form.uri EXCEPT ![field] = uri] \in [UriField -> Uri]
      BY <2>2, <2>3, TypedIsUri
    <3>2. form' = [form EXCEPT !.uri = [form.uri EXCEPT ![field] = uri]]
      BY <2>2, Zenon
    <3>3. QED
      BY <3>1, <3>2, FieldOfForm DEF FormShape
  <2>5. wanted' \in DesiredState
    <3>1. CASE field = "model"
      <4> DEFINE m == IF IsOk(uri) THEN agentDesiredModel(uri) ELSE wanted.model
      <4>1. m \in DesiredModel
        BY <2>2, <2>3, TypedIsUri, ModelOfUri
      <4>2. wanted' = [wanted EXCEPT !.model = m]
        BY <2>2, <3>1
      <4> HIDE DEF m
      <4>3. QED
        BY <4>1, <4>2, FieldOfState DEF FormShape
    <3>2. CASE field = "projection"
      <4> DEFINE m == IF IsOk(uri) THEN agentDesiredModel(uri) ELSE wanted.projection
      <4>1. m \in DesiredModel
        BY <2>2, <2>3, TypedIsUri, ModelOfUri
      <4>2. wanted' = [wanted EXCEPT !.projection = m]
        BY <2>2, <3>2
      <4> HIDE DEF m
      <4>3. QED
        BY <4>1, <4>2, FieldOfState DEF FormShape
    <3>3. QED
      BY <2>2, <3>1, <3>2 DEF UriField
  <2>6. QED
    BY <2>1, <2>4, <2>5 DEF FormShape
<1>12. CASE InputParameter
  <2> DEFINE f == [form.parameters EXCEPT !["n_batch"] = 1 - form.parameters["n_batch"]]
             w == [wanted.parameters EXCEPT !["n_batch"] = 1 - wanted.parameters["n_batch"]]
  <2>1. /\ editing' = editing /\ temporary' = temporary
        /\ form' = [form EXCEPT !.parameters = f] /\ wanted' = [wanted EXCEPT !.parameters = w]
    BY <1>12, Zenon DEF InputParameter, ChangeParameter, setParameter
  <2>2. form.parameters \in [Parameter -> {0, 1}] /\ wanted.parameters \in [Parameter -> {0, 1}]
    BY DEF FormShape, FormData, DesiredState
  <2>3. f \in [Parameter -> {0, 1}] /\ w \in [Parameter -> {0, 1}]
    BY <2>2, OtherParameter DEF Parameter
  <2> HIDE DEF f, w
  <2>4. QED
    BY <2>1, <2>3, FieldOfForm, FieldOfState DEF FormShape
<1>13. CASE CheckParameter
  <2> DEFINE f == [form.parameters EXCEPT !["enable_embeddings"] = 1 - form.parameters["enable_embeddings"]]
             w == [wanted.parameters EXCEPT !["enable_embeddings"] = 1 - wanted.parameters["enable_embeddings"]]
  <2>1. /\ editing' = editing /\ temporary' = temporary
        /\ form' = [form EXCEPT !.parameters = f] /\ wanted' = [wanted EXCEPT !.parameters = w]
    BY <1>13, Zenon DEF CheckParameter, ChangeParameter, setParameter
  <2>2. form.parameters \in [Parameter -> {0, 1}] /\ wanted.parameters \in [Parameter -> {0, 1}]
    BY DEF FormShape, FormData, DesiredState
  <2>3. f \in [Parameter -> {0, 1}] /\ w \in [Parameter -> {0, 1}]
    BY <2>2, OtherParameter DEF Parameter
  <2> HIDE DEF f, w
  <2>4. QED
    BY <2>1, <2>3, FieldOfForm, FieldOfState DEF FormShape
<1>14. CASE ChooseTemplate
  <2>1. /\ editing' = editing /\ temporary' = temporary
        /\ form' = [form EXCEPT !.useTemplate = ~form.useTemplate]
        /\ wanted' = [wanted EXCEPT !.useTemplate = ~wanted.useTemplate]
    BY <1>14, Zenon DEF ChooseTemplate
  <2>2. (~form.useTemplate) \in BOOLEAN /\ (~wanted.useTemplate) \in BOOLEAN
    <3>1. form.useTemplate \in BOOLEAN /\ wanted.useTemplate \in BOOLEAN
      BY DEF FormShape, FormData, DesiredState
    <3>2. ASSUME NEW c \in BOOLEAN PROVE (~c) \in BOOLEAN
      OBVIOUS
    <3>3. QED
      BY <3>1, <3>2, Zenon
  <2>3. form' \in FormData /\ wanted' \in DesiredState
    BY <2>1, <2>2, FieldOfForm, FieldOfState, Zenon DEF FormShape
  <2>4. QED
    BY <2>1, <2>3 DEF FormShape
<1>15. CASE OpenEditor
  BY <1>15 DEF OpenEditor, fleetVars, dashboardVars, fetchVars, formVars, FormShape
<1>16. CASE TypeTemplate
  BY <1>16 DEF TypeTemplate, fleetVars, dashboardVars, fetchVars, formVars, FormShape
<1>17. CASE SaveTemplate
  <2>1. /\ editing' = FALSE /\ temporary' = temporary
        /\ form' = [form EXCEPT !.template = temporary]
        /\ wanted' = [wanted EXCEPT !.template = temporary]
    BY <1>17 DEF SaveTemplate
  <2>2. form' \in FormData /\ wanted' \in DesiredState
    BY <2>1, FieldOfForm, FieldOfState, Zenon DEF FormShape
  <2>3. QED
    BY <2>1, <2>2 DEF FormShape
<1>18. CASE CloseEditor
  <2>1. editing' = FALSE /\ temporary' = form.template /\ form' = form /\ wanted' = wanted
    BY <1>18 DEF CloseEditor
  <2>2. form.template \in {0, 1}
    BY DEF FormShape, FormData
  <2>3. QED
    BY <2>1, <2>2 DEF FormShape
<1>19. CASE SubmitForm
  BY <1>19 DEF SubmitForm, fleetVars, dashboardVars, fetchVars, formVars, FormShape
<1>20. ASSUME NEW f \in Fetch, Answer(f) PROVE FormShape'
  BY <1>20 DEF Answer, fleetVars, dashboardVars, fetchVars, formVars, FormShape
<1>21. ASSUME NEW f \in Fetch, TakeAnswer(f) PROVE FormShape'
  <2>1. editing' = editing /\ fetches[f] \in FetchRecord
    BY <1>21 DEF TakeAnswer, FetchShape
  <2>2. fetches[f].value \in DesiredState
    BY <2>1 DEF FetchRecord
  <2>3. CASE /\ form' = FormOf(fetches[f].value)
             /\ temporary' = fetches[f].value.template
             /\ wanted' = fetches[f].value
    <3>1. form' \in FormData
      BY <2>2, <2>3, FormOfState
    <3>2. temporary' \in {0, 1}
      BY <2>2, <2>3 DEF DesiredState
    <3>3. QED
      BY <2>1, <2>2, <2>3, <3>1, <3>2 DEF FormShape
  <2>4. CASE UNCHANGED <<form, temporary, wanted>>
    BY <2>1, <2>4 DEF FormShape
  <2>5. QED
    BY <1>21, <2>3, <2>4, Zenon DEF TakeAnswer, ShowAnswer
<1>22. ASSUME NEW p \in Put, ServePut(p) PROVE FormShape'
  BY <1>22 DEF ServePut, fleetVars, dashboardVars, fetchVars, formVars, FormShape
<1>23. ASSUME NEW p \in Put, PutAnswered(p) PROVE FormShape'
  <2>1. CASE Navigate("/")
    BY <2>1, LeftForm, Zenon DEF Navigate
  <2>2. CASE UNCHANGED <<page, dashboardVars, fetchVars, form, editing, temporary, wanted>>
    BY <2>2 DEF FormShape
  <2>3. QED
    BY <1>23, <2>1, <2>2, Zenon DEF PutAnswered
<1>24. QED
  BY <1>1, <1>2, <1>3, <1>4, <1>5, <1>6, <1>7, <1>8, <1>9, <1>10, <1>11, <1>12, <1>13,
     <1>14, <1>15, <1>16, <1>17, <1>18, <1>19, <1>20, <1>21, <1>22, <1>23 DEF
     AdminNext

\* Desired states and submissions keep their shape.
LEMMA SubmissionStep ==
    ASSUME SubmissionShape, FormShape, AdminNext
    PROVE  SubmissionShape'
<1>1. CASE VisitPage
  <2>1. desired' = desired /\ puts' = puts
    BY <1>1, Zenon DEF VisitPage, fleetVars
  <2>2. QED
    BY <2>1 DEF SubmissionShape
<1>2. CASE Change
  <2>1. puts' = puts
    BY <1>2 DEF Change
  <2>2. CASE desired' = desired
    BY <2>1, <2>2 DEF SubmissionShape
  <2>3. CASE desired' = [desired EXCEPT !.parameters["n_batch"] = 1 - @]
    <3> DEFINE w == [desired.parameters EXCEPT !["n_batch"] = 1 - desired.parameters["n_batch"]]
    <3>1. desired' = [desired EXCEPT !.parameters = w]
      BY <2>3, Zenon
    <3>2. desired.parameters \in [Parameter -> {0, 1}]
      BY DEF SubmissionShape, DesiredState
    <3>3. w \in [Parameter -> {0, 1}]
      BY <3>2, OtherParameter DEF Parameter
    <3> HIDE DEF w
    <3>4. QED
      BY <2>1, <3>1, <3>3, FieldOfState DEF SubmissionShape
  <2>4. QED
    BY <1>2, <2>2, <2>3, Zenon DEF Change
<1>3. CASE StreamOpens
  BY <1>3 DEF StreamOpens, fleetVars, dashboardVars, fetchVars, formVars,
     SubmissionShape
<1>4. CASE StreamFails
  BY <1>4 DEF StreamFails, fleetVars, dashboardVars, fetchVars, formVars,
     SubmissionShape
<1>5. CASE Garble
  BY <1>5 DEF Garble, fleetVars, dashboardVars, fetchVars, formVars, SubmissionShape
<1>6. CASE TakeEvent
  BY <1>6 DEF TakeEvent, fleetVars, dashboardVars, fetchVars, formVars,
     SubmissionShape
<1>7. CASE OpenModelMetadata
  BY <1>7 DEF OpenModelMetadata, OpenDialog, fleetVars, dashboardVars, fetchVars,
     formVars, SubmissionShape
<1>8. CASE OpenChatTemplateOverride
  BY <1>8 DEF OpenChatTemplateOverride, OpenDialog, fleetVars, dashboardVars,
     fetchVars, formVars, SubmissionShape
<1>9. CASE OpenAgentIssues
  BY <1>9 DEF OpenAgentIssues, OpenDialog, fleetVars, dashboardVars, fetchVars,
     formVars, SubmissionShape
<1>10. CASE CloseDialog
  BY <1>10 DEF CloseDialog, fleetVars, dashboardVars, fetchVars, formVars,
     SubmissionShape
<1>11. CASE EditUri
  BY <1>11 DEF EditUri, fleetVars, dashboardVars, fetchVars, formVars, SubmissionShape
<1>12. CASE InputParameter
  BY <1>12 DEF InputParameter, ChangeParameter, fleetVars, dashboardVars, fetchVars,
     formVars, SubmissionShape
<1>13. CASE CheckParameter
  BY <1>13 DEF CheckParameter, ChangeParameter, fleetVars, dashboardVars, fetchVars,
     formVars, SubmissionShape
<1>14. CASE ChooseTemplate
  BY <1>14 DEF ChooseTemplate, fleetVars, dashboardVars, fetchVars, formVars,
     SubmissionShape
<1>15. CASE OpenEditor
  BY <1>15 DEF OpenEditor, fleetVars, dashboardVars, fetchVars, formVars,
     SubmissionShape
<1>16. CASE TypeTemplate
  BY <1>16 DEF TypeTemplate, fleetVars, dashboardVars, fetchVars, formVars,
     SubmissionShape
<1>17. CASE SaveTemplate
  BY <1>17 DEF SaveTemplate, fleetVars, dashboardVars, fetchVars, formVars,
     SubmissionShape
<1>18. CASE CloseEditor
  BY <1>18 DEF CloseEditor, fleetVars, dashboardVars, fetchVars, formVars,
     SubmissionShape
<1>19. CASE SubmitForm
  <2>1. desired' = desired /\ Submittable
    BY <1>19 DEF SubmitForm, fleetVars
  <2>2. PICK p \in Put : puts' = [puts EXCEPT ![p] = [body |-> balancerDesiredState, status |-> "sent"]]
    BY <1>19, Zenon DEF SubmitForm
  <2>3. balancerDesiredState \in DesiredState
    BY <2>1, SubmittedIsState
  <2> DEFINE sent == [body |-> balancerDesiredState, status |-> "sent"]
  <2>4. sent \in PutRecord
    BY <2>3 DEF PutRecord, RequestStatus
  <2> HIDE DEF sent
  <2>5. QED
    BY <2>1, <2>2, <2>4 DEF SubmissionShape, sent
<1>20. ASSUME NEW f \in Fetch, Answer(f) PROVE SubmissionShape'
  BY <1>20 DEF Answer, fleetVars, dashboardVars, fetchVars, formVars, SubmissionShape
<1>21. ASSUME NEW f \in Fetch, TakeAnswer(f) PROVE SubmissionShape'
  BY <1>21 DEF TakeAnswer, fleetVars, dashboardVars, fetchVars, formVars,
     SubmissionShape
<1>22. ASSUME NEW p \in Put, ServePut(p) PROVE SubmissionShape'
  <2>1. puts[p] \in PutRecord /\ puts[p].body \in DesiredState
    BY DEF SubmissionShape, PutRecord
  <2>2. desired' \in {desired, puts[p].body}
    BY <1>22 DEF ServePut
  <2>3. \E status \in {"ok", "failed"} : puts' = [puts EXCEPT ![p].status = status]
    BY <1>22, Zenon DEF ServePut
  <2>4. ASSUME NEW status \in {"ok", "failed"} PROVE [puts[p] EXCEPT !.status = status] \in PutRecord
    BY <2>1 DEF PutRecord, RequestStatus
  <2>5. QED
    BY <2>1, <2>2, <2>3, <2>4 DEF SubmissionShape
<1>23. ASSUME NEW p \in Put, PutAnswered(p) PROVE SubmissionShape'
  <2>1. desired' = desired /\ puts' = [puts EXCEPT ![p] = [NoPut EXCEPT !.status = "over"]]
    BY <1>23 DEF PutAnswered, fleetVars
  <2>2. NoPut \in PutRecord
    BY EmptyStateIs DEF NoPut, PutRecord, RequestStatus
  <2>3. [NoPut EXCEPT !.status = "over"] \in PutRecord
    BY <2>2 DEF PutRecord, RequestStatus
  <2>4. QED
    BY <2>1, <2>3 DEF SubmissionShape
<1>24. QED
  BY <1>1, <1>2, <1>3, <1>4, <1>5, <1>6, <1>7, <1>8, <1>9, <1>10, <1>11, <1>12, <1>13,
     <1>14, <1>15, <1>16, <1>17, <1>18, <1>19, <1>20, <1>21, <1>22, <1>23 DEF
     AdminNext

\* What the form says is what is wanted.
LEMMA WantedStep ==
    ASSUME FetchShape, FormShape, FormIsWanted, AdminNext
    PROVE  FormIsWanted'
<1>1. CASE VisitPage
  <2>1. PICK to \in {"/", "/model", "/prompt"} : Navigate(to)
    BY <1>1, Zenon DEF VisitPage
  <2>2. fetchState' = "loading"
    <3>1. CASE to = "/model"
      BY <2>1, <3>1, FetchIsStarted, Zenon DEF Navigate, FetchBalancerDesiredState
    <3>2. CASE to # "/model"
      BY <2>1, <3>2, Zenon DEF Navigate, Unmount
    <3>3. QED
      BY <3>1, <3>2
  <2>3. QED
    BY <2>2 DEF FormIsWanted, FormShown
<1>2. CASE Change
  BY <1>2 DEF Change, fleetVars, dashboardVars, fetchVars, formVars, FormIsWanted,
     FormShown
<1>3. CASE StreamOpens
  BY <1>3 DEF StreamOpens, fleetVars, dashboardVars, fetchVars, formVars,
     FormIsWanted, FormShown
<1>4. CASE StreamFails
  <2>1. page' = "/"
    BY <1>4 DEF StreamFails
  <2>2. QED
    BY <2>1 DEF FormIsWanted, FormShown
<1>5. CASE Garble
  BY <1>5 DEF Garble, fleetVars, dashboardVars, fetchVars, formVars, FormIsWanted,
     FormShown
<1>6. CASE TakeEvent
  <2>1. page' = "/"
    BY <1>6 DEF TakeEvent
  <2>2. QED
    BY <2>1 DEF FormIsWanted, FormShown
<1>7. CASE OpenModelMetadata
  <2>1. page' = "/"
    BY <1>7 DEF OpenModelMetadata, OpenDialog, ListShown
  <2>2. QED
    BY <2>1 DEF FormIsWanted, FormShown
<1>8. CASE OpenChatTemplateOverride
  <2>1. page' = "/"
    BY <1>8 DEF OpenChatTemplateOverride, OpenDialog, ListShown
  <2>2. QED
    BY <2>1 DEF FormIsWanted, FormShown
<1>9. CASE OpenAgentIssues
  <2>1. page' = "/"
    BY <1>9 DEF OpenAgentIssues, OpenDialog, ListShown
  <2>2. QED
    BY <2>1 DEF FormIsWanted, FormShown
<1>10. CASE CloseDialog
  <2>1. fetchState' = "loading"
    BY <1>10 DEF CloseDialog, Unmount
  <2>2. QED
    BY <2>1 DEF FormIsWanted, FormShown
<1>11. CASE EditUri
  <2>1. page' = page /\ fetchState' = fetchState /\ FormShown
    BY <1>11, Zenon DEF EditUri, Editable, fetchVars
  <2>2. PICK field \in UriField, uri \in Typed :
          /\ form' = [form EXCEPT !.uri[field] = uri]
          /\ wanted' = [wanted EXCEPT ![field] = IF IsOk(uri) THEN agentDesiredModel(uri) ELSE @]
    BY <1>11, Zenon DEF EditUri
  <2>3. CASE field = "model"
    <3> DEFINE m == IF IsOk(uri) THEN agentDesiredModel(uri) ELSE wanted.model
    <3>1. wanted' = [wanted EXCEPT !.model = m] /\ form' = [form EXCEPT !.uri = [form.uri EXCEPT !["model"] = uri]]
      BY <2>2, <2>3
    <3>2. IsOk(uri) => agentDesiredModel(uri) = m
      OBVIOUS
    <3> HIDE DEF m
    <3>3. /\ wanted'.model = m /\ wanted'.projection = wanted.projection /\ wanted'.template = wanted.template
          /\ wanted'.useTemplate = wanted.useTemplate /\ wanted'.parameters = wanted.parameters
      BY <3>1 DEF FormShape, DesiredState
    <3>4. /\ form'.uri["model"] = uri /\ form'.uri["projection"] = form.uri["projection"]
          /\ form'.template = form.template /\ form'.useTemplate = form.useTemplate
          /\ form'.parameters = form.parameters
      BY <3>1 DEF FormShape, FormData, UriField
    <3>5. QED
      BY <2>1, <3>2, <3>3, <3>4 DEF FormIsWanted, FormShown
  <2>4. CASE field = "projection"
    <3> DEFINE m == IF IsOk(uri) THEN agentDesiredModel(uri) ELSE wanted.projection
    <3>1. wanted' = [wanted EXCEPT !.projection = m] /\ form' = [form EXCEPT !.uri = [form.uri EXCEPT !["projection"] = uri]]
      BY <2>2, <2>4
    <3>2. IsOk(uri) => agentDesiredModel(uri) = m
      OBVIOUS
    <3> HIDE DEF m
    <3>3. /\ wanted'.projection = m /\ wanted'.model = wanted.model /\ wanted'.template = wanted.template
          /\ wanted'.useTemplate = wanted.useTemplate /\ wanted'.parameters = wanted.parameters
      BY <3>1 DEF FormShape, DesiredState
    <3>4. /\ form'.uri["projection"] = uri /\ form'.uri["model"] = form.uri["model"]
          /\ form'.template = form.template /\ form'.useTemplate = form.useTemplate
          /\ form'.parameters = form.parameters
      BY <3>1 DEF FormShape, FormData, UriField
    <3>5. QED
      BY <2>1, <3>2, <3>3, <3>4 DEF FormIsWanted, FormShown
  <2>5. QED
    BY <2>2, <2>3, <2>4 DEF UriField
<1>12. CASE InputParameter
  <2> DEFINE f == [form.parameters EXCEPT !["n_batch"] = 1 - form.parameters["n_batch"]]
             w == [wanted.parameters EXCEPT !["n_batch"] = 1 - wanted.parameters["n_batch"]]
  <2>1. /\ page' = page /\ fetchState' = fetchState /\ FormShown
        /\ form' = [form EXCEPT !.parameters = f] /\ wanted' = [wanted EXCEPT !.parameters = w]
    BY <1>12, Zenon DEF InputParameter, ChangeParameter, setParameter, Editable, fetchVars
  <2>2. f = w
    BY <2>1 DEF FormIsWanted
  <2> HIDE DEF f, w
  <2>3. /\ form'.parameters = f /\ form'.uri = form.uri /\ form'.template = form.template
        /\ form'.useTemplate = form.useTemplate
    BY <2>1 DEF FormShape, FormData
  <2>4. /\ wanted'.parameters = w /\ wanted'.model = wanted.model
        /\ wanted'.projection = wanted.projection /\ wanted'.template = wanted.template
        /\ wanted'.useTemplate = wanted.useTemplate
    BY <2>1 DEF FormShape, DesiredState
  <2>5. QED
    BY <2>1, <2>2, <2>3, <2>4 DEF FormIsWanted, FormShown
<1>13. CASE CheckParameter
  <2> DEFINE f == [form.parameters EXCEPT !["enable_embeddings"] = 1 - form.parameters["enable_embeddings"]]
             w == [wanted.parameters EXCEPT !["enable_embeddings"] = 1 - wanted.parameters["enable_embeddings"]]
  <2>1. /\ page' = page /\ fetchState' = fetchState /\ FormShown
        /\ form' = [form EXCEPT !.parameters = f] /\ wanted' = [wanted EXCEPT !.parameters = w]
    BY <1>13, Zenon DEF CheckParameter, ChangeParameter, setParameter, Editable, fetchVars
  <2>2. f = w
    BY <2>1 DEF FormIsWanted
  <2> HIDE DEF f, w
  <2>3. /\ form'.parameters = f /\ form'.uri = form.uri /\ form'.template = form.template
        /\ form'.useTemplate = form.useTemplate
    BY <2>1 DEF FormShape, FormData
  <2>4. /\ wanted'.parameters = w /\ wanted'.model = wanted.model
        /\ wanted'.projection = wanted.projection /\ wanted'.template = wanted.template
        /\ wanted'.useTemplate = wanted.useTemplate
    BY <2>1 DEF FormShape, DesiredState
  <2>5. QED
    BY <2>1, <2>2, <2>3, <2>4 DEF FormIsWanted, FormShown
<1>14. CASE ChooseTemplate
  <2>1. /\ page' = page /\ fetchState' = fetchState /\ FormShown
        /\ form' = [form EXCEPT !.useTemplate = ~form.useTemplate]
        /\ wanted' = [wanted EXCEPT !.useTemplate = ~wanted.useTemplate]
    BY <1>14, Zenon DEF ChooseTemplate, Editable, fetchVars
  <2> DEFINE c == ~form.useTemplate
  <2>2. wanted' = [wanted EXCEPT !.useTemplate = c] /\ form' = [form EXCEPT !.useTemplate = c]
    BY <2>1 DEF FormIsWanted
  <2> HIDE DEF c
  <2>3. /\ form'.useTemplate = c /\ form'.uri = form.uri /\ form'.template = form.template
        /\ form'.parameters = form.parameters
    BY <2>2 DEF FormShape, FormData
  <2>4. /\ wanted'.useTemplate = c /\ wanted'.model = wanted.model
        /\ wanted'.projection = wanted.projection /\ wanted'.template = wanted.template
        /\ wanted'.parameters = wanted.parameters
    BY <2>2 DEF FormShape, DesiredState
  <2>5. QED
    BY <2>1, <2>3, <2>4 DEF FormIsWanted, FormShown
<1>15. CASE OpenEditor
  BY <1>15 DEF OpenEditor, fleetVars, dashboardVars, fetchVars, formVars,
     FormIsWanted, FormShown
<1>16. CASE TypeTemplate
  BY <1>16 DEF TypeTemplate, fleetVars, dashboardVars, fetchVars, formVars,
     FormIsWanted, FormShown
<1>17. CASE SaveTemplate
  <2>1. /\ page' = page /\ fetchState' = fetchState
        /\ form' = [form EXCEPT !.template = temporary]
        /\ wanted' = [wanted EXCEPT !.template = temporary]
    BY <1>17 DEF SaveTemplate, fetchVars
  <2>2. /\ form'.template = temporary /\ form'.uri = form.uri /\ form'.useTemplate = form.useTemplate
        /\ form'.parameters = form.parameters
    BY <2>1 DEF FormShape, FormData
  <2>3. /\ wanted'.template = temporary /\ wanted'.model = wanted.model
        /\ wanted'.projection = wanted.projection /\ wanted'.useTemplate = wanted.useTemplate
        /\ wanted'.parameters = wanted.parameters
    BY <2>1 DEF FormShape, DesiredState
  <2>4. QED
    BY <2>1, <2>2, <2>3 DEF FormIsWanted, FormShown
<1>18. CASE CloseEditor
  BY <1>18 DEF CloseEditor, fleetVars, dashboardVars, fetchVars, formVars,
     FormIsWanted, FormShown
<1>19. CASE SubmitForm
  BY <1>19 DEF SubmitForm, fleetVars, dashboardVars, fetchVars, formVars,
     FormIsWanted, FormShown
<1>20. ASSUME NEW f \in Fetch, Answer(f) PROVE FormIsWanted'
  BY <1>20 DEF Answer, fleetVars, dashboardVars, fetchVars, formVars, FormIsWanted,
     FormShown
<1>21. ASSUME NEW f \in Fetch, TakeAnswer(f) PROVE FormIsWanted'
  <2>1. page' = page /\ fetches[f].value \in DesiredState
    BY <1>21 DEF TakeAnswer, FetchShape, FetchRecord
  <2> DEFINE s == fetches[f].value
  <2>2. CASE f = mounted /\ page = "/model" /\ fetches[f].status = "ok"
    <3>1. form' = FormOf(s) /\ wanted' = s
      BY <1>21, <2>2, Zenon DEF TakeAnswer, ShowAnswer
    <3> HIDE DEF s
    <3>2. s \in DesiredState
      BY <2>1 DEF s
    <3>3. s.model \in DesiredModel /\ s.projection \in DesiredModel
      BY <3>2 DEF DesiredState
    <3>4. /\ Representable(s.model) => agentDesiredModel(modelSchemaToUrl(s.model)) = s.model
          /\ Representable(s.projection)
                => agentDesiredModel(modelSchemaToUrl(s.projection)) = s.projection
      BY <3>3, ModelIsReadBack
    <3>5. /\ form'.uri["model"] = modelSchemaToUrl(s.model)
          /\ form'.uri["projection"] = modelSchemaToUrl(s.projection)
          /\ form'.template = s.template /\ form'.useTemplate = s.useTemplate
          /\ form'.parameters = s.parameters
      BY <3>1, <3>2, FormOfState
    <3>6. QED
      BY <3>1, <3>4, <3>5 DEF FormIsWanted
  <2>3. CASE f = mounted /\ ~(page = "/model" /\ fetches[f].status = "ok")
    <3>1. page' # "/model" \/ fetchState' = "error"
      BY <1>21, <2>1, <2>3 DEF TakeAnswer, ShowAnswer
    <3>2. QED
      BY <3>1 DEF FormIsWanted, FormShown
  <2>4. CASE f # mounted
    <3>1. UNCHANGED <<fetchState, form, temporary, wanted>>
      BY <1>21, <2>4, Zenon DEF TakeAnswer
    <3>2. QED
      BY <2>1, <3>1 DEF FormIsWanted, FormShown
  <2>5. QED
    BY <2>2, <2>3, <2>4
<1>22. ASSUME NEW p \in Put, ServePut(p) PROVE FormIsWanted'
  BY <1>22 DEF ServePut, fleetVars, dashboardVars, fetchVars, formVars, FormIsWanted,
     FormShown
<1>23. ASSUME NEW p \in Put, PutAnswered(p) PROVE FormIsWanted'
  <2>1. CASE Navigate("/")
    BY <2>1 DEF Navigate, Unmount, FormIsWanted, FormShown
  <2>2. CASE UNCHANGED <<page, dashboardVars, fetchVars, form, editing, temporary, wanted>>
    BY <2>2 DEF fetchVars, FormIsWanted, FormShown
  <2>3. QED
    BY <1>23, <2>1, <2>2, Zenon DEF PutAnswered
<1>24. QED
  BY <1>1, <1>2, <1>3, <1>4, <1>5, <1>6, <1>7, <1>8, <1>9, <1>10, <1>11, <1>12, <1>13,
     <1>14, <1>15, <1>16, <1>17, <1>18, <1>19, <1>20, <1>21, <1>22, <1>23 DEF
     AdminNext

\* The editor has what was saved.
LEMMA EditorStep ==
    ASSUME FetchShape, FormShape, EditorShowsSaved, AdminNext
    PROVE  EditorShowsSaved'
<1>1. CASE VisitPage
  <2>1. PICK to \in {"/", "/model", "/prompt"} : Navigate(to)
    BY <1>1, Zenon DEF VisitPage
  <2>2. fetchState' = "loading"
    <3>1. CASE to = "/model"
      BY <2>1, <3>1, FetchIsStarted, Zenon DEF Navigate, FetchBalancerDesiredState
    <3>2. CASE to # "/model"
      BY <2>1, <3>2, Zenon DEF Navigate, Unmount
    <3>3. QED
      BY <3>1, <3>2
  <2>3. QED
    BY <2>2 DEF EditorShowsSaved, FormShown
<1>2. CASE Change
  BY <1>2 DEF Change, fleetVars, dashboardVars, fetchVars, formVars, EditorShowsSaved,
     FormShown
<1>3. CASE StreamOpens
  BY <1>3 DEF StreamOpens, fleetVars, dashboardVars, fetchVars, formVars,
     EditorShowsSaved, FormShown
<1>4. CASE StreamFails
  <2>1. page' = "/"
    BY <1>4 DEF StreamFails
  <2>2. QED
    BY <2>1 DEF EditorShowsSaved, FormShown
<1>5. CASE Garble
  BY <1>5 DEF Garble, fleetVars, dashboardVars, fetchVars, formVars, EditorShowsSaved,
     FormShown
<1>6. CASE TakeEvent
  <2>1. page' = "/"
    BY <1>6 DEF TakeEvent
  <2>2. QED
    BY <2>1 DEF EditorShowsSaved, FormShown
<1>7. CASE OpenModelMetadata
  <2>1. page' = "/"
    BY <1>7 DEF OpenModelMetadata, OpenDialog, ListShown
  <2>2. QED
    BY <2>1 DEF EditorShowsSaved, FormShown
<1>8. CASE OpenChatTemplateOverride
  <2>1. page' = "/"
    BY <1>8 DEF OpenChatTemplateOverride, OpenDialog, ListShown
  <2>2. QED
    BY <2>1 DEF EditorShowsSaved, FormShown
<1>9. CASE OpenAgentIssues
  <2>1. page' = "/"
    BY <1>9 DEF OpenAgentIssues, OpenDialog, ListShown
  <2>2. QED
    BY <2>1 DEF EditorShowsSaved, FormShown
<1>10. CASE CloseDialog
  <2>1. fetchState' = "loading"
    BY <1>10 DEF CloseDialog, Unmount
  <2>2. QED
    BY <2>1 DEF EditorShowsSaved, FormShown
<1>11. CASE EditUri
  <2>1. /\ page' = page /\ fetchState' = fetchState /\ editing' = editing /\ temporary' = temporary
        /\ form'.template = form.template
    BY <1>11 DEF EditUri, FormShape, FormData, fetchVars
  <2>2. QED
    BY <2>1 DEF EditorShowsSaved, FormShown
<1>12. CASE InputParameter
  <2>1. /\ page' = page /\ fetchState' = fetchState /\ editing' = editing /\ temporary' = temporary
        /\ form'.template = form.template
    BY <1>12 DEF InputParameter, ChangeParameter, setParameter, FormShape, FormData, fetchVars
  <2>2. QED
    BY <2>1 DEF EditorShowsSaved, FormShown
<1>13. CASE CheckParameter
  <2>1. /\ page' = page /\ fetchState' = fetchState /\ editing' = editing /\ temporary' = temporary
        /\ form'.template = form.template
    BY <1>13 DEF CheckParameter, ChangeParameter, setParameter, FormShape, FormData, fetchVars
  <2>2. QED
    BY <2>1 DEF EditorShowsSaved, FormShown
<1>14. CASE ChooseTemplate
  <2>1. /\ page' = page /\ fetchState' = fetchState /\ editing' = editing /\ temporary' = temporary
        /\ form'.template = form.template
    BY <1>14 DEF ChooseTemplate, FormShape, FormData, fetchVars
  <2>2. QED
    BY <2>1 DEF EditorShowsSaved, FormShown
<1>15. CASE OpenEditor
  BY <1>15 DEF OpenEditor, fleetVars, dashboardVars, fetchVars, formVars,
     EditorShowsSaved, FormShown
<1>16. CASE TypeTemplate
  <2>1. editing /\ editing' = editing
    BY <1>16 DEF TypeTemplate
  <2>2. QED
    BY <2>1 DEF EditorShowsSaved
<1>17. CASE SaveTemplate
  <2>1. temporary' = temporary /\ form'.template = temporary
    BY <1>17 DEF SaveTemplate, FormShape, FormData
  <2>2. QED
    BY <2>1 DEF EditorShowsSaved
<1>18. CASE CloseEditor
  BY <1>18 DEF CloseEditor, fleetVars, dashboardVars, fetchVars, formVars,
     EditorShowsSaved, FormShown
<1>19. CASE SubmitForm
  BY <1>19 DEF SubmitForm, fleetVars, dashboardVars, fetchVars, formVars,
     EditorShowsSaved, FormShown
<1>20. ASSUME NEW f \in Fetch, Answer(f) PROVE EditorShowsSaved'
  BY <1>20 DEF Answer, fleetVars, dashboardVars, fetchVars, formVars,
     EditorShowsSaved, FormShown
<1>21. ASSUME NEW f \in Fetch, TakeAnswer(f) PROVE EditorShowsSaved'
  <2>1. page' = page /\ editing' = editing /\ fetches[f].value \in DesiredState
    BY <1>21 DEF TakeAnswer, FetchShape, FetchRecord
  <2>2. CASE f = mounted /\ page = "/model" /\ fetches[f].status = "ok"
    <3>1. form' = FormOf(fetches[f].value) /\ temporary' = fetches[f].value.template
      BY <1>21, <2>2, Zenon DEF TakeAnswer, ShowAnswer
    <3>2. temporary' = form'.template
      BY <2>1, <3>1, FormOfState
    <3>3. QED
      BY <3>2 DEF EditorShowsSaved
  <2>3. CASE f = mounted /\ ~(page = "/model" /\ fetches[f].status = "ok")
    <3>1. page' # "/model" \/ fetchState' = "error"
      BY <1>21, <2>1, <2>3 DEF TakeAnswer, ShowAnswer
    <3>2. QED
      BY <3>1 DEF EditorShowsSaved, FormShown
  <2>4. CASE f # mounted
    <3>1. UNCHANGED <<fetchState, form, temporary, wanted>>
      BY <1>21, <2>4, Zenon DEF TakeAnswer
    <3>2. QED
      BY <2>1, <3>1 DEF EditorShowsSaved, FormShown
  <2>5. QED
    BY <2>2, <2>3, <2>4
<1>22. ASSUME NEW p \in Put, ServePut(p) PROVE EditorShowsSaved'
  BY <1>22 DEF ServePut, fleetVars, dashboardVars, fetchVars, formVars,
     EditorShowsSaved, FormShown
<1>23. ASSUME NEW p \in Put, PutAnswered(p) PROVE EditorShowsSaved'
  <2>1. CASE Navigate("/")
    BY <2>1 DEF Navigate, Unmount, EditorShowsSaved, FormShown
  <2>2. CASE UNCHANGED <<page, dashboardVars, fetchVars, form, editing, temporary, wanted>>
    BY <2>2 DEF fetchVars, EditorShowsSaved, FormShown
  <2>3. QED
    BY <1>23, <2>1, <2>2, Zenon DEF PutAnswered
<1>24. QED
  BY <1>1, <1>2, <1>3, <1>4, <1>5, <1>6, <1>7, <1>8, <1>9, <1>10, <1>11, <1>12, <1>13,
     <1>14, <1>15, <1>16, <1>17, <1>18, <1>19, <1>20, <1>21, <1>22, <1>23 DEF
     AdminNext

\* A dialog shows its own agent.
LEMMA DialogStep ==
    ASSUME FetchShape, DialogShowsOwn, AdminNext
    PROVE  DialogShowsOwn'
<1>1. CASE VisitPage
  <2>1. dialog' = NoDialog
    BY <1>1, Zenon DEF VisitPage, Navigate, LeaveDashboard
  <2>2. QED
    BY <2>1, NoDialogIs DEF DialogShowsOwn
<1>2. CASE Change
  BY <1>2 DEF Change, fleetVars, dashboardVars, fetchVars, formVars, DialogShowsOwn,
     DialogView
<1>3. CASE StreamOpens
  BY <1>3 DEF StreamOpens, fleetVars, dashboardVars, fetchVars, formVars,
     DialogShowsOwn, DialogView
<1>4. CASE StreamFails
  <2>1. ASSUME NEW visible, CloseWithButton(visible) PROVE DialogShowsOwn'
    <3>1. UNCHANGED <<dialog, fetchVars>> \/ dialog' = NoDialog
      BY <2>1, Zenon DEF CloseWithButton
    <3>2. QED
      BY <3>1, NoDialogIs DEF DialogShowsOwn, DialogView, fetchVars
  <2>2. QED
    BY <1>4, <2>1, Zenon DEF StreamFails
<1>5. CASE Garble
  BY <1>5 DEF Garble, fleetVars, dashboardVars, fetchVars, formVars, DialogShowsOwn,
     DialogView
<1>6. CASE TakeEvent
  <2>1. ASSUME NEW visible, CloseWithButton(visible) PROVE DialogShowsOwn'
    <3>1. UNCHANGED <<dialog, fetchVars>> \/ dialog' = NoDialog
      BY <2>1, Zenon DEF CloseWithButton
    <3>2. QED
      BY <3>1, NoDialogIs DEF DialogShowsOwn, DialogView, fetchVars
  <2>2. QED
    BY <1>6, <2>1, Zenon DEF TakeEvent
<1>7. CASE OpenModelMetadata
  <2>1. PICK a \in Agents : OpenDialog("metadata", a) /\ StartFetch("metadata", a)
    BY <1>7, Zenon DEF OpenModelMetadata, FetchModelMetadata
  <2>2. dialog' = [kind |-> "metadata", agent |-> a]
    BY <2>1 DEF OpenDialog
  <2> DEFINE asked == [for |-> "metadata", agent |-> a, status |-> "sent", value |-> EmptyState]
  <2>3. PICK f \in Fetch : mounted' = f /\ fetches' = [fetches EXCEPT ![f] = asked]
    BY <2>1, FetchIsStarted, Zenon
  <2>4. asked.for = "metadata" /\ asked.agent = a
    OBVIOUS
  <2> HIDE DEF asked
  <2>5. fetches'[mounted'] = asked /\ mounted' # 0
    BY <2>3, BoundsAreNumbers DEF FetchShape
  <2>6. dialog'.kind = "metadata" /\ dialog'.agent = a
    BY <2>2
  <2>7. QED
    BY <2>4, <2>5, <2>6 DEF DialogShowsOwn, DialogView
<1>8. CASE OpenChatTemplateOverride
  <2>1. PICK a \in Agents : OpenDialog("template", a) /\ StartFetch("template", a)
    BY <1>8, Zenon DEF OpenChatTemplateOverride, FetchChatTemplateOverride
  <2>2. dialog' = [kind |-> "template", agent |-> a]
    BY <2>1 DEF OpenDialog
  <2> DEFINE asked == [for |-> "template", agent |-> a, status |-> "sent", value |-> EmptyState]
  <2>3. PICK f \in Fetch : mounted' = f /\ fetches' = [fetches EXCEPT ![f] = asked]
    BY <2>1, FetchIsStarted, Zenon
  <2>4. asked.for = "template" /\ asked.agent = a
    OBVIOUS
  <2> HIDE DEF asked
  <2>5. fetches'[mounted'] = asked /\ mounted' # 0
    BY <2>3, BoundsAreNumbers DEF FetchShape
  <2>6. dialog'.kind = "template" /\ dialog'.agent = a
    BY <2>2
  <2>7. QED
    BY <2>4, <2>5, <2>6 DEF DialogShowsOwn, DialogView
<1>9. CASE OpenAgentIssues
  <2>1. PICK a \in Agents : dialog' = [kind |-> "issues", agent |-> a]
    BY <1>9, Zenon DEF OpenAgentIssues, OpenDialog
  <2>2. dialog'.kind = "issues"
    BY <2>1
  <2>3. QED
    BY <2>2 DEF DialogShowsOwn
<1>10. CASE CloseDialog
  <2>1. dialog' = NoDialog
    BY <1>10 DEF CloseDialog
  <2>2. QED
    BY <2>1, NoDialogIs DEF DialogShowsOwn
<1>11. CASE EditUri
  BY <1>11 DEF EditUri, fleetVars, dashboardVars, fetchVars, formVars, DialogShowsOwn,
     DialogView
<1>12. CASE InputParameter
  BY <1>12 DEF InputParameter, ChangeParameter, fleetVars, dashboardVars, fetchVars,
     formVars, DialogShowsOwn, DialogView
<1>13. CASE CheckParameter
  BY <1>13 DEF CheckParameter, ChangeParameter, fleetVars, dashboardVars, fetchVars,
     formVars, DialogShowsOwn, DialogView
<1>14. CASE ChooseTemplate
  BY <1>14 DEF ChooseTemplate, fleetVars, dashboardVars, fetchVars, formVars,
     DialogShowsOwn, DialogView
<1>15. CASE OpenEditor
  BY <1>15 DEF OpenEditor, fleetVars, dashboardVars, fetchVars, formVars,
     DialogShowsOwn, DialogView
<1>16. CASE TypeTemplate
  BY <1>16 DEF TypeTemplate, fleetVars, dashboardVars, fetchVars, formVars,
     DialogShowsOwn, DialogView
<1>17. CASE SaveTemplate
  BY <1>17 DEF SaveTemplate, fleetVars, dashboardVars, fetchVars, formVars,
     DialogShowsOwn, DialogView
<1>18. CASE CloseEditor
  BY <1>18 DEF CloseEditor, fleetVars, dashboardVars, fetchVars, formVars,
     DialogShowsOwn, DialogView
<1>19. CASE SubmitForm
  BY <1>19 DEF SubmitForm, fleetVars, dashboardVars, fetchVars, formVars,
     DialogShowsOwn, DialogView
<1>20. ASSUME NEW f \in Fetch, Answer(f) PROVE DialogShowsOwn'
  <2>1. mounted' = mounted /\ dialog' = dialog /\ mounted \in 0 .. MaxFetches
    BY <1>20 DEF Answer, dashboardVars, FetchShape
  <2>2. ASSUME mounted # 0
        PROVE  /\ fetches'[mounted].for = fetches[mounted].for
               /\ fetches'[mounted].agent = fetches[mounted].agent
    <3>1. mounted \in Fetch /\ fetches[mounted] \in FetchRecord /\ fetches[f] \in FetchRecord
      BY <2>1, <2>2, BoundsAreNumbers DEF Fetch, FetchShape
    <3>2. CASE mounted # f
      BY <1>20, <3>1, <3>2 DEF Answer, FetchShape
    <3>3. CASE mounted = f
      <4>1. \/ fetches' = [fetches EXCEPT ![f] = [[fetches[f] EXCEPT !.status = "ok"] EXCEPT !.value = desired]]
            \/ fetches' = [fetches EXCEPT ![f] = [fetches[f] EXCEPT !.status = "failed"]]
        BY <1>20, Zenon DEF Answer
      <4>2. QED
        BY <3>1, <3>3, <4>1 DEF FetchShape, FetchRecord
    <3>4. QED
      BY <3>2, <3>3
  <2>3. QED
    BY <2>1, <2>2 DEF DialogShowsOwn, DialogView
<1>21. ASSUME NEW f \in Fetch, TakeAnswer(f) PROVE DialogShowsOwn'
  <2>1. mounted' = mounted /\ dialog' = dialog /\ mounted \in 0 .. MaxFetches
    BY <1>21 DEF TakeAnswer, dashboardVars, FetchShape
  <2>2. ASSUME mounted # 0
        PROVE  /\ fetches'[mounted].for = fetches[mounted].for
               /\ fetches'[mounted].agent = fetches[mounted].agent
    <3>1. mounted \in Fetch /\ fetches[mounted] \in FetchRecord /\ fetches[f] \in FetchRecord
      BY <2>1, <2>2, BoundsAreNumbers DEF Fetch, FetchShape
    <3>2. CASE mounted # f
      BY <1>21, <3>1, <3>2 DEF TakeAnswer, FetchShape
    <3>3. CASE mounted = f
      <4>1. fetches' = [fetches EXCEPT ![f] = [[fetches[f] EXCEPT !.status = "over"] EXCEPT !.value = EmptyState]]
        BY <1>21, Zenon DEF TakeAnswer
      <4>2. QED
        BY <3>1, <3>3, <4>1 DEF FetchShape, FetchRecord
    <3>4. QED
      BY <3>2, <3>3
  <2>3. QED
    BY <2>1, <2>2 DEF DialogShowsOwn, DialogView
<1>22. ASSUME NEW p \in Put, ServePut(p) PROVE DialogShowsOwn'
  BY <1>22 DEF ServePut, fleetVars, dashboardVars, fetchVars, formVars,
     DialogShowsOwn, DialogView
<1>23. ASSUME NEW p \in Put, PutAnswered(p) PROVE DialogShowsOwn'
  <2>1. CASE Navigate("/")
    BY <2>1, NoDialogIs DEF Navigate, LeaveDashboard, DialogShowsOwn
  <2>2. CASE UNCHANGED <<page, dashboardVars, fetchVars, form, editing, temporary, wanted>>
    BY <2>2 DEF dashboardVars, fetchVars, DialogShowsOwn, DialogView
  <2>3. QED
    BY <1>23, <2>1, <2>2, Zenon DEF PutAnswered
<1>24. QED
  BY <1>1, <1>2, <1>3, <1>4, <1>5, <1>6, <1>7, <1>8, <1>9, <1>10, <1>11, <1>12, <1>13,
     <1>14, <1>15, <1>16, <1>17, <1>18, <1>19, <1>20, <1>21, <1>22, <1>23 DEF
     AdminNext

-----------------------------------------------------------------------------
(***************************************************************************)
(* What the pages begin with.                                              *)
(***************************************************************************)
\* What can be saved before the pages are opened.
LEMMA SavedAreModels ==
    ASSUME NEW m \in SavedModels
    PROVE  m[1] \in DesiredModel /\ m[2] \in DesiredModel
  BY AdminPagesAssumption

\* The pages begin so.
LEMMA PagesBegin ==
    ASSUME AdminPagesInit
    PROVE  AdminInv
<1>1. DashboardShape
  <2>1. fleet \in Snapshot /\ listed \in Snapshot
    BY DEF AdminPagesInit, Snapshot
  <2>2. events \in Seq(StreamEvent) /\ Len(events) = 0
    BY NothingIsOnItsWay DEF AdminPagesInit
  <2>3. changes = 0 /\ faults = 0
    BY DEF AdminPagesInit
  <2>4. /\ changes \in 0 .. MaxChanges /\ faults \in 0 .. MaxFaults
        /\ Len(events) <= 1 + changes + faults
    BY <2>2, <2>3, BoundsAreNumbers
  <2>5. /\ page \in {"/", "/model", "/prompt"} /\ stream = "initial" /\ wireUp \in BOOLEAN
        /\ dialog \in AgentDialog
    BY NoDialogIs DEF AdminPagesInit
  <2>6. QED
    BY <2>1, <2>2, <2>4, <2>5 DEF DashboardShape
<1>2. FetchShape
  <2>1. NoFetch \in FetchRecord
    BY EmptyStateIs, NoDialogIs, Zenon DEF NoFetch, FetchRecord, RequestStatus, FetchPurpose
  <2>2. fetches \in [Fetch -> FetchRecord]
    BY <2>1, Zenon DEF AdminPagesInit
  <2>3. QED
    BY <2>2, BoundsAreNumbers DEF AdminPagesInit, FetchShape
<1>3. FormShape
  BY EmptyFormIs, EmptyStateIs DEF AdminPagesInit, FormShape
<1>4. SubmissionShape
  <2>1. PICK m \in SavedModels :
            desired = [EmptyState EXCEPT !.model = m[1], !.projection = m[2],
                                         !.useTemplate = m[1].kind = "Url"]
    BY Zenon DEF AdminPagesInit
  <2> DEFINE c == m[1].kind = "Url"
             s1 == [EmptyState EXCEPT !.model = m[1]]
             s2 == [s1 EXCEPT !.projection = m[2]]
             s3 == [s2 EXCEPT !.useTemplate = c]
  <2>2. c \in BOOLEAN
    BY Zenon
  <2>3. desired = s3
    BY <2>1, Zenon
  <2> HIDE DEF c
  <2>4. s1 \in DesiredState
    BY <2>1, EmptyStateIs, SavedAreModels, FieldOfState, Zenon
  <2> HIDE DEF s1
  <2>5. s2 \in DesiredState
    BY <2>1, <2>4, SavedAreModels, FieldOfState, Zenon
  <2> HIDE DEF s2
  <2>6. desired \in DesiredState
    BY <2>2, <2>3, <2>5, FieldOfState, Zenon
  <2>7. NoPut \in PutRecord
    BY EmptyStateIs DEF NoPut, PutRecord, RequestStatus
  <2>8. puts \in [Put -> PutRecord]
    BY <2>7, Zenon DEF AdminPagesInit
  <2>9. QED
    BY <2>6, <2>8 DEF SubmissionShape
<1>5. FormIsWanted /\ EditorShowsSaved
  BY DEF AdminPagesInit, FormIsWanted, EditorShowsSaved, FormShown
<1>6. DialogShowsOwn
  BY NoDialogIs DEF AdminPagesInit, DialogShowsOwn
<1>7. QED
  BY <1>1, <1>2, <1>3, <1>4, <1>5, <1>6 DEF AdminInv

\* The user, the browser and the balancer keep it.
LEMMA PagesGoOn ==
    ASSUME AdminInv, AdminNext
    PROVE  AdminInv'
  BY DashboardStep, FetchStep, FormStep, SubmissionStep, WantedStep, EditorStep, DialogStep, Zenon
     DEF AdminInv

\* The desktop application leaves it alone.
LEMMA PagesStay ==
    ASSUME AdminInv, UNCHANGED adminVars
    PROVE  AdminInv'
  BY DEF AdminInv, DashboardShape, FetchShape, FormShape, SubmissionShape, FormIsWanted,
         EditorShowsSaved, DialogShowsOwn, DialogView, FormShown, adminVars

\* The invariant of the pages is enough for their properties.
LEMMA PagesAreTrue ==
    ASSUME AdminInv
    PROVE  AdminPagesTypeOK /\ PutIsWanted /\ EditorShowsSaved /\ DialogShowsOwn
<1>1. AdminPagesTypeOK
  <2>1. Len(events) <= MaxChanges + MaxFaults + 1
    BY BoundsAreNumbers, LenProperties DEF AdminInv, DashboardShape
  <2>2. {temporary, form.template, desired.template} \subseteq {0, 1}
    BY DEF AdminInv, FormShape, SubmissionShape, FormData, DesiredState
  <2>3. dialog.agent \in Agents
    BY DEF AdminInv, DashboardShape, AgentDialog
  <2>4. \A f \in Fetch : fetches[f].status \in {"none", "sent", "ok", "failed", "over"}
    BY DEF AdminInv, FetchShape, FetchRecord, RequestStatus
  <2>5. \A p \in Put : puts[p].status \in {"none", "sent", "ok", "failed", "over"}
    BY DEF AdminInv, SubmissionShape, PutRecord, RequestStatus
  <2>6. QED
    BY <2>1, <2>2, <2>3, <2>4, <2>5
       DEF AdminInv, DashboardShape, FetchShape, FormShape, AdminPagesTypeOK, Snapshot
<1>2. PutIsWanted
  <2>1. SUFFICES ASSUME FormShown, Submittable
                 PROVE  /\ \A field \in UriField :
                              /\ Representable(wanted[field]) => balancerDesiredState[field] = wanted[field]
                              /\ Representable(balancerDesiredState[field])
                        /\ \A field \in {"template", "useTemplate", "parameters"} :
                              balancerDesiredState[field] = wanted[field]
    BY DEF PutIsWanted
  <2>2. IsOk(form.uri["model"]) /\ IsOk(form.uri["projection"])
    BY <2>1, Zenon DEF Submittable, UriField
  <2> DEFINE a == agentDesiredModel(form.uri["model"])
             b == agentDesiredModel(form.uri["projection"])
  <2>3. /\ form.template = wanted.template /\ form.useTemplate = wanted.useTemplate
        /\ form.parameters = wanted.parameters
        /\ Representable(wanted.model) => a = wanted.model
        /\ Representable(wanted.projection) => b = wanted.projection
    BY <2>1, <2>2, Zenon DEF AdminInv, FormIsWanted
  <2>7. form.uri["model"] \in Uri /\ form.uri["projection"] \in Uri
    BY DEF AdminInv, FormShape, FormData, UriField
  <2>8. Representable(a) /\ Representable(b)
    BY <2>2, <2>7, ModelOfUri
  <2>4. balancerDesiredState = [model |-> a, projection |-> b, template |-> form.template,
                                useTemplate |-> form.useTemplate, parameters |-> form.parameters]
    BY DEF balancerDesiredState
  <2> HIDE DEF a, b
  <2>5. /\ balancerDesiredState["model"] = a /\ balancerDesiredState["projection"] = b
        /\ balancerDesiredState["template"] = form.template
        /\ balancerDesiredState["useTemplate"] = form.useTemplate
        /\ balancerDesiredState["parameters"] = form.parameters
    <3>1. ASSUME NEW t, NEW c, NEW p,
                 balancerDesiredState = [model |-> a, projection |-> b, template |-> t,
                                         useTemplate |-> c, parameters |-> p]
          PROVE  /\ balancerDesiredState["model"] = a /\ balancerDesiredState["projection"] = b
                 /\ balancerDesiredState["template"] = t /\ balancerDesiredState["useTemplate"] = c
                 /\ balancerDesiredState["parameters"] = p
      BY <3>1
    <3>2. QED
      BY <2>4, <3>1, Zenon
  <2>6. QED
    BY <2>3, <2>5, <2>8 DEF UriField
<1>3. QED
  BY <1>1, <1>2 DEF AdminInv
-----------------------------------------------------------------------------
(***************************************************************************)
(* Both interfaces.                                                        *)
(***************************************************************************)
\* What holds on every screen of both interfaces in every state: that of the desktop
\* application, whose runners are followed by tasks that post what they see, and
\* that of the pages, whose requests are answered after what asked is gone.
THEOREM ScreensAreSound == InterfacesSpec => [](DesktopInv /\ AdminInv)
<1>1. InterfacesInit => DesktopInv /\ AdminInv
  BY DesktopBegins, PagesBegin, Zenon DEF InterfacesInit
<1>2. ASSUME DesktopInv /\ AdminInv, [InterfacesNext]_<<interface, vars, adminVars>>
      PROVE  DesktopInv' /\ AdminInv'
  <2>1. CASE Next /\ UNCHANGED adminVars
    BY <1>2, <2>1, DesktopGoesOn, PagesStay, Zenon
  <2>2. CASE AdminNext /\ UNCHANGED vars
    BY <1>2, <2>2, DesktopStays, PagesGoOn, Zenon
  <2>3. CASE UNCHANGED <<vars, adminVars>>
    <3>1. UNCHANGED vars /\ UNCHANGED adminVars
      BY <2>3, Zenon
    <3>2. QED
      BY <1>2, <3>1, DesktopStays, PagesStay, Zenon
  <2>4. QED
    BY <1>2, <2>1, <2>2, <2>3, Zenon DEF InterfacesNext
<1>3. QED
  BY <1>1, <1>2, PTL DEF InterfacesSpec

\* What is on the screen is so: in the desktop application (App::update) what runs
\* can be stopped from the screen that is shown, the screen is about the runner it would
\* stop, and an error is about what its field holds; in the web admin panel the form
\* puts what was loaded with what the user changed (ChangeModelForm), the template
\* editor has what was saved, and a dialog is about its own agent.
THEOREM ScreensAreAlwaysTrue == InterfacesSpec => []ScreensAreTrue
<1>1. DesktopInv /\ AdminInv => ScreensAreTrue
  BY PagesAreTrue, Zenon DEF DesktopInv, ScreensAreTrue
<1>2. QED
  BY <1>1, ScreensAreSound, PTL
=============================================================================
