----------------------------- MODULE PageProofs -----------------------------
(***************************************************************************)
(* That the prompt page tells the truth: for any number of sockets,        *)
(* requests, prompts, mode changes and failures, and for any other client  *)
(* of the balancer's inference sockets.                                    *)
(*                                                                         *)
(* Two chains carry the argument.  An answer is shown by way of the        *)
(* subscription, which is of the newest request alone (NewestIsAsked).     *)
(* The notice follows the mode over three hands: the watcher of the socket *)
(* has the mode once it has seen the version and waits (WatcherIsCurrent), *)
(* and what it has last told, in the frames on their way or on the page,   *)
(* is what it has (NoticeFollows).                                         *)
(***************************************************************************)
EXTENDS PromptPage, SequenceTheorems, TLAPS

\* A version of the mode for every change of it, and one to come while it is being set.
VersionsAreCounted ==
    /\ modeVersion + (IF setting THEN 1 ELSE 0) <= disturbances
    /\ \A s \in Socket : seen[s] <= modeVersion

\* Messages that end the connection or do not parse have no task.
HandlersAreSpawned ==
    \A s \in Socket : \A i \in DOMAIN handlers[s] :
        handlers[s][i].kind \in {"request", "stop", "invalid"}

\* A request that runs has a connection and an id.
RunningHasPlace ==
    \A t \in Task : task[t].status = "running" => task[t].socket \in Socket /\ task[t].id \in Id

\* The browser's end of the socket, and what is known of the sockets to come.
SocketShape ==
    /\ webSocket # 0
    /\ socketState = "connected" => wire[webSocket] = "open"
    /\ timer => wire[webSocket] \in {"errored", "closed"}
    /\ \A s \in Socket : s > webSocket =>
          conn[s] = "none" /\ watcher[s] = "none" /\ outbox[s] = <<>>
    /\ \A s \in Socket : conn[s] \in {"none", "connecting"} => watcher[s] = "none"

\* The newest request is asked for by a prompt or by a socket that replaced another;
\* only its frames are taken, and no later request has an answer yet.
NewestIsAsked ==
    /\ prompt = 0 => newest = 0
    /\ prompt # 0 => newest + (IF wire[webSocket] = "connecting" THEN 1 ELSE 0)
                        <= prompt + webSocket - 1
    /\ subscribed \subseteq {newest} \ {0}
    /\ \A i \in Id : answer[i] # "empty" => i <= newest

\* A watcher that has seen the last version and waits has read the mode of that version.
WatcherIsCurrent ==
    \A s \in Socket :
        watcher[s] = "wait" /\ seen[s] = modeVersion /\ ~setting => lastMode[s] = mode

\* No notification is among these frames.
NoNotification(frames) == \A i \in DOMAIN frames : frames[i].id # 0

\* With these frames on their way and the notice d, mode m is what was told last.
ToldLast(frames, d, m) ==
    IF NoNotification(frames) THEN d = (m = "DisabledForEmbeddings")
    ELSE \E i \in DOMAIN frames :
            /\ frames[i] = NotificationOf(m)
            /\ \A j \in DOMAIN frames : j > i => frames[j].id # 0

\* Of the page's socket: nothing is told before the mode was read, and from then on
\* what was told last is the mode that was read last.
NoticeFollows ==
    \A s \in Socket : s = webSocket =>
        /\ watcher[s] \in {"none", "start", "read"} => NoNotification(outbox[s]) /\ disabled = FALSE
        /\ conn[s] = "open" /\ watcher[s] \in {"wait", "reread"} =>
              ToldLast(outbox[s], disabled, lastMode[s])

PageInv ==
    /\ TypeOK /\ VersionsAreCounted /\ HandlersAreSpawned /\ RunningHasPlace /\ SocketShape
    /\ NewestIsAsked /\ WatcherIsCurrent /\ NoticeFollows
    /\ RunningIsStoppable /\ AnswerBelongsToPrompt

-----------------------------------------------------------------------------
(***************************************************************************)
(* The parts of the types, and of a step.                                  *)
(***************************************************************************)
ServerTypes ==
    /\ mode \in Mode /\ modeVersion \in Nat /\ setting \in BOOLEAN /\ shutdown \in BOOLEAN
    /\ conn \in [Socket -> {"none", "connecting", "open", "lost", "closed"}]
    /\ closing \in [Socket -> BOOLEAN]
    /\ watcher \in [Socket -> {"none", "start", "read", "wait", "reread", "over"}]
    /\ seen \in [Socket -> Nat]
    /\ lastMode \in [Socket -> Mode]
    /\ disturbances \in 0 .. MaxDisturbances

QueueTypes ==
    /\ inbox \in [Socket -> Seq(Message)]
    /\ handlers \in [Socket -> Seq(Message)]
    /\ outbox \in [Socket -> Seq(Frame)]

TaskTypes ==
    /\ registry \in [Socket -> [Id -> 0 .. MaxTasks]]
    /\ task \in [Task -> [socket : 0 .. MaxSockets, id : 0 .. MaxTasks, sent : 0 .. 1,
                          status : {"none", "running", "ended"}, cancelled : BOOLEAN]]

PageTypes ==
    /\ client \in {"page", "any"} /\ open \in BOOLEAN
    /\ webSocket \in 0 .. MaxSockets
    /\ socketState \in {"connecting", "connected", "connectionClosed", "connectionError"}
    /\ wire \in [Socket -> {"none", "connecting", "open", "errored", "closed"}]
    /\ timer \in BOOLEAN /\ attempts \in 0 .. MAX_RECONNECT_DEBOUNCE_TIME_INCREASE
    /\ prompt \in 0 .. MaxPrompts /\ newest \in 0 .. MaxTasks
    /\ subscribed \subseteq Id
    /\ answer \in [Id -> {"empty", "filled", "over"}]
    /\ shown \in 0 .. MaxTasks
    /\ broken \in BOOLEAN /\ disabled \in BOOLEAN /\ sent \in 0 .. MaxMessages

\* Versions are bounded by the disturbances that make them.
LEMMA TypeParts ==
    ASSUME VersionsAreCounted
    PROVE  TypeOK <=> ServerTypes /\ QueueTypes /\ TaskTypes /\ PageTypes
<1>1. ASSUME ServerTypes PROVE modeVersion \in 0 .. MaxDisturbances
                               /\ seen \in [Socket -> 0 .. MaxDisturbances]
  <2>1. modeVersion <= MaxDisturbances
    BY <1>1, InferenceSocketAssumption DEF ServerTypes, VersionsAreCounted
  <2>2. \A s \in Socket : seen[s] \in 0 .. MaxDisturbances
    BY <1>1, <2>1, InferenceSocketAssumption DEF ServerTypes, VersionsAreCounted
  <2>3. QED
    BY <1>1, <2>1, <2>2, InferenceSocketAssumption DEF ServerTypes
<1>2. ASSUME InferenceSocketTypeOK PROVE modeVersion \in Nat /\ seen \in [Socket -> Nat]
  BY <1>2, InferenceSocketAssumption DEF InferenceSocketTypeOK
<1>3. QED
  BY <1>1, <1>2, Zenon DEF TypeOK, InferenceSocketTypeOK, ServerTypes, QueueTypes, TaskTypes, PageTypes

\* A connection that is being made is refused.
RefuseConnection(s) ==
    /\ conn[s] = "connecting" /\ Disturb
    /\ conn' = [conn EXCEPT ![s] = "closed"]
    /\ UNCHANGED <<mode, modeVersion, setting, shutdown, closing, inbox, handlers,
                   registry, outbox, watcher, seen, lastMode, task, pageVars>>

\* What a task of handle_text_message does, by the kind of its message.
HandlesMessage(s) ==
    /\ handlers[s] # <<>>
    /\ handlers' = [handlers EXCEPT ![s] = Tail(@)]
    /\ \/ \E id \in Id : HandleRequest(s, id)
       \/ \E id \in Id : HandleStop(s, id)
       \/ HandleInvalid(s)
    /\ UNCHANGED <<mode, modeVersion, setting, shutdown, conn, inbox, watcher, seen, lastMode,
                   disturbances>>

\* The first of a queue is one of its elements, and what follows it is a queue.
LEMMA QueueHead ==
    ASSUME NEW S, NEW q \in Seq(S), q # <<>>
    PROVE  /\ Head(q) \in S /\ Head(q) = q[1] /\ 1 \in DOMAIN q
           /\ Tail(q) \in Seq(S)
           /\ \A i \in DOMAIN Tail(q) : i + 1 \in DOMAIN q /\ Tail(q)[i] = q[i + 1]
           /\ \A i \in DOMAIN q : i # 1 => i - 1 \in DOMAIN Tail(q) /\ Tail(q)[i - 1] = q[i]
           /\ DOMAIN q \subseteq Nat \ {0} /\ DOMAIN Tail(q) \subseteq Nat \ {0}
BY EmptySeq, LenProperties

\* What is appended comes last.
LEMMA QueueEnd ==
    ASSUME NEW S, NEW q \in Seq(S), NEW e \in S
    PROVE  /\ Append(q, e) \in Seq(S)
           /\ DOMAIN Append(q, e) = DOMAIN q \cup {Len(q) + 1}
           /\ \A i \in DOMAIN q : Append(q, e)[i] = q[i] /\ i < Len(q) + 1
           /\ Append(q, e)[Len(q) + 1] = e
           /\ DOMAIN q \subseteq Nat \ {0} /\ Len(q) \in Nat
BY EmptySeq, LenProperties

\* Queues of sockets stay queues when one of them gains or loses an element.
LEMMA QueuesStay ==
    ASSUME NEW S, NEW queues \in [Socket -> Seq(S)], NEW s \in Socket
    PROVE  /\ \A e \in S : [queues EXCEPT ![s] = Append(@, e)] \in [Socket -> Seq(S)]
           /\ queues[s] # <<>> => [queues EXCEPT ![s] = Tail(@)] \in [Socket -> Seq(S)]
           /\ [queues EXCEPT ![s] = <<>>] \in [Socket -> Seq(S)]
<1>1. queues[s] \in Seq(S)
  OBVIOUS
<1>2. \A e \in S : Append(queues[s], e) \in Seq(S)
  BY <1>1, QueueEnd
<1>3. queues[s] # <<>> => Tail(queues[s]) \in Seq(S)
  BY <1>1, QueueHead
<1>4. QED
  BY <1>2, <1>3, EmptySeq

\* A message that has a task is a request, a stop or an invalid one.
LEMMA MessageIsHandled ==
    ASSUME QueueTypes, HandlersAreSpawned, NEW s \in Socket, HandleMessage(s)
    PROVE  HandlesMessage(s)
<1> DEFINE message == Head(handlers[s])
<1>1. message \in Message /\ message.kind \in {"request", "stop", "invalid"}
  BY QueueHead DEF QueueTypes, HandlersAreSpawned, HandleMessage
<1>2. message.kind # "invalid" => message.id \in Id
  BY <1>1 DEF Message
<1>3. CASE message.kind = "request"
  BY <1>2, <1>3 DEF HandleMessage, HandlesMessage
<1>4. CASE message.kind = "stop"
  BY <1>2, <1>4 DEF HandleMessage, HandlesMessage
<1>5. CASE message.kind = "invalid"
  BY <1>5 DEF HandleMessage, HandlesMessage
<1>6. QED
  BY <1>1, <1>3, <1>4, <1>5

\* The balancer's state has its types.
LEMMA ServerTypesStep ==
    ASSUME ServerTypes, QueueTypes, HandlersAreSpawned, TaskTypes, PageTypes, Next
    PROVE  ServerTypes'
<1>1. CASE SetMode /\ UNCHANGED pageVars
  BY <1>1, InferenceSocketAssumption DEF SetMode, Disturb, socketVars, pageVars,
     ServerTypes, Mode
<1>2. CASE NotifyMode /\ UNCHANGED pageVars
  <2>1. modeVersion' = modeVersion + 1 /\ setting' = FALSE
    BY <1>2, Zenon DEF NotifyMode
  <2>2. modeVersion' \in Nat
    BY <2>1 DEF ServerTypes
  <2>3. QED
    BY <1>2, <2>1, <2>2, Zenon DEF NotifyMode, socketVars, ServerTypes
<1>3. CASE Shutdown /\ UNCHANGED pageVars
  BY <1>3, InferenceSocketAssumption DEF Shutdown, Disturb, socketVars, pageVars,
     ServerTypes
<1>4. ASSUME NEW s \in Socket, SubscribeToMode(s) /\ UNCHANGED pageVars PROVE ServerTypes'
  BY <1>4, InferenceSocketAssumption DEF SubscribeToMode, pageVars, ServerTypes
<1>5. ASSUME NEW s \in Socket, ReadMode(s) /\ UNCHANGED pageVars PROVE ServerTypes'
  BY <1>5, InferenceSocketAssumption DEF ReadMode, Written, NotificationOf, pageVars,
     ServerTypes, Mode
<1>6. ASSUME NEW s \in Socket, ModeChanged(s) /\ UNCHANGED pageVars PROVE ServerTypes'
  BY <1>6, InferenceSocketAssumption DEF ModeChanged, pageVars, ServerTypes
<1>7. ASSUME NEW s \in Socket, RereadMode(s) /\ UNCHANGED pageVars PROVE ServerTypes'
  BY <1>7, InferenceSocketAssumption DEF RereadMode, Written, NotificationOf,
     pageVars, ServerTypes, Mode
<1>8. ASSUME NEW s \in Socket, EndWatcher(s) /\ UNCHANGED pageVars PROVE ServerTypes'
  BY <1>8, InferenceSocketAssumption DEF EndWatcher, pageVars, ServerTypes
<1>9. ASSUME NEW s \in Socket, Accept(s) /\ UNCHANGED pageVars PROVE ServerTypes'
  BY <1>9, InferenceSocketAssumption DEF Accept, pageVars, ServerTypes
<1>10. ASSUME NEW s \in Socket, ReceiveMessage(s) /\ UNCHANGED pageVars PROVE ServerTypes'
  BY <1>10, InferenceSocketAssumption DEF ReceiveMessage, Serving, EndLoop, pageVars,
     ServerTypes
<1>11. ASSUME NEW s \in Socket, PingFails(s) /\ UNCHANGED pageVars PROVE ServerTypes'
  BY <1>11, InferenceSocketAssumption DEF PingFails, EndLoop, pageVars, ServerTypes
<1>12. ASSUME NEW s \in Socket, CloseCancelled(s) /\ UNCHANGED pageVars PROVE ServerTypes'
  BY <1>12, InferenceSocketAssumption DEF CloseCancelled, Serving, EndLoop, pageVars,
     ServerTypes
<1>13. ASSUME NEW s \in Socket, ShutdownCancelled(s) /\ UNCHANGED pageVars PROVE ServerTypes'
  BY <1>13, InferenceSocketAssumption DEF ShutdownCancelled, Serving, EndLoop,
     pageVars, ServerTypes
<1>14. ASSUME NEW s \in Socket, HandleMessage(s) /\ UNCHANGED pageVars PROVE ServerTypes'
  BY <1>14, InferenceSocketAssumption, MessageIsHandled DEF HandlesMessage,
     HandleRequest, Register, HandleStop, HandleInvalid, Written, pageVars,
     ServerTypes
<1>15. ASSUME NEW t \in Task, Generate(t) /\ UNCHANGED pageVars PROVE ServerTypes'
  BY <1>15, InferenceSocketAssumption DEF Generate, EndTask, Written, pageVars,
     ServerTypes
<1>16. ASSUME NEW t \in Task, StopTask(t) /\ UNCHANGED pageVars PROVE ServerTypes'
  BY <1>16, InferenceSocketAssumption DEF StopTask, EndTask, pageVars, ServerTypes
<1>17. CASE SocketOpens
  BY <1>17, InferenceSocketAssumption DEF SocketOpens, Ask, ServerTypes
<1>18. CASE SocketError
  BY <1>18, InferenceSocketAssumption DEF SocketError, Reconnect, serverVars,
     ServerTypes
<1>19. CASE SocketCloses
  BY <1>19, InferenceSocketAssumption DEF SocketCloses, Reconnect, serverVars,
     ServerTypes
<1>20. CASE ConnectAgain
  BY <1>20, InferenceSocketAssumption DEF ConnectAgain, ServerTypes, PageTypes
<1>21. CASE Submit
  BY <1>21, InferenceSocketAssumption DEF Submit, Ask, ServerTypes
<1>22. CASE TakeFrame
  BY <1>22, InferenceSocketAssumption DEF TakeFrame, TakeNotification, TakeResponse,
     Scan, ServerTypes
<1>23. CASE LeavePage
  <2>1. conn' \in [Socket -> {"none", "connecting", "open", "lost", "closed"}]
    <3> DEFINE next == CASE conn[webSocket] = "connecting" -> "closed"
                         [] conn[webSocket] = "open" -> "lost"
                         [] OTHER -> conn[webSocket]
    <3>1. CASE webSocket \in Socket
      <4>1. next \in {"none", "connecting", "open", "lost", "closed"}
        BY <3>1 DEF ServerTypes
      <4>2. conn' = [conn EXCEPT ![webSocket] = next]
        BY <1>23 DEF LeavePage
      <4>3. QED
        BY <4>1, <4>2 DEF ServerTypes
    <3>2. CASE webSocket \notin Socket
      BY <1>23, <3>2 DEF LeavePage, ServerTypes
    <3>3. QED
      BY <3>1, <3>2
  <2>2. disturbances' \in 0 .. MaxDisturbances
    BY <1>23, InferenceSocketAssumption DEF LeavePage, Disturb, ServerTypes
  <2>3. QED
    BY <1>23, <2>1, <2>2 DEF LeavePage, ServerTypes
<1>24. CASE AnyClientSends
  BY <1>24, InferenceSocketAssumption DEF AnyClientSends, ServerTypes
<1>25. ASSUME NEW s \in Socket, LoseConnection(s) /\ UNCHANGED pageVars PROVE ServerTypes'
  BY <1>25, InferenceSocketAssumption DEF LoseConnection, Disturb, pageVars,
     ServerTypes
<1>26. ASSUME NEW s \in Socket, RefuseConnection(s) PROVE ServerTypes'
  BY <1>26, InferenceSocketAssumption DEF RefuseConnection, Disturb, pageVars,
     ServerTypes
<1>27. QED
  BY <1>1, <1>2, <1>3, <1>4, <1>5, <1>6, <1>7, <1>8, <1>9, <1>10, <1>11, <1>12, <1>13,
     <1>14, <1>15, <1>16, <1>17, <1>18, <1>19, <1>20, <1>21, <1>22, <1>23, <1>24,
     <1>25, <1>26 DEF Next, PageNext, ServerNext, NetworkFails, RefuseConnection,
     socketVars

\* Messages that end the connection or do not parse get no task.
LEMMA HandlersStep ==
    ASSUME QueueTypes, HandlersAreSpawned, Next
    PROVE  HandlersAreSpawned'
<1>1. CASE SetMode /\ UNCHANGED pageVars
  BY <1>1 DEF SetMode, Disturb, socketVars, pageVars, QueueTypes, HandlersAreSpawned
<1>2. CASE NotifyMode /\ UNCHANGED pageVars
  BY <1>2 DEF NotifyMode, socketVars, pageVars, QueueTypes, HandlersAreSpawned
<1>3. CASE Shutdown /\ UNCHANGED pageVars
  BY <1>3 DEF Shutdown, Disturb, socketVars, pageVars, QueueTypes, HandlersAreSpawned
<1>4. ASSUME NEW s \in Socket, SubscribeToMode(s) /\ UNCHANGED pageVars PROVE HandlersAreSpawned'
  BY <1>4 DEF SubscribeToMode, pageVars, QueueTypes, HandlersAreSpawned
<1>5. ASSUME NEW s \in Socket, ReadMode(s) /\ UNCHANGED pageVars PROVE HandlersAreSpawned'
  BY <1>5 DEF ReadMode, Written, NotificationOf, pageVars, QueueTypes,
     HandlersAreSpawned
<1>6. ASSUME NEW s \in Socket, ModeChanged(s) /\ UNCHANGED pageVars PROVE HandlersAreSpawned'
  BY <1>6 DEF ModeChanged, pageVars, QueueTypes, HandlersAreSpawned
<1>7. ASSUME NEW s \in Socket, RereadMode(s) /\ UNCHANGED pageVars PROVE HandlersAreSpawned'
  BY <1>7 DEF RereadMode, Written, NotificationOf, pageVars, QueueTypes,
     HandlersAreSpawned
<1>8. ASSUME NEW s \in Socket, EndWatcher(s) /\ UNCHANGED pageVars PROVE HandlersAreSpawned'
  BY <1>8 DEF EndWatcher, pageVars, QueueTypes, HandlersAreSpawned
<1>9. ASSUME NEW s \in Socket, Accept(s) /\ UNCHANGED pageVars PROVE HandlersAreSpawned'
  BY <1>9 DEF Accept, pageVars, QueueTypes, HandlersAreSpawned
<1>10. ASSUME NEW s \in Socket, ReceiveMessage(s) /\ UNCHANGED pageVars PROVE HandlersAreSpawned'
  <2> DEFINE message == Head(inbox[s])
  <2>1. handlers[s] \in Seq(Message) /\ message \in Message
    BY <1>10, QueueHead DEF ReceiveMessage, QueueTypes
  <2>2. CASE message.kind \in {"close", "oversize", "malformed"}
    BY <1>10, <2>2 DEF ReceiveMessage, EndLoop, HandlersAreSpawned
  <2>3. CASE message.kind \notin {"close", "oversize", "malformed"}
    <3>1. message.kind \in {"request", "stop", "invalid"}
      BY <2>1, <2>3 DEF Message
    <3>2. handlers' = [handlers EXCEPT ![s] = Append(handlers[s], message)]
      BY <1>10, <2>3 DEF ReceiveMessage
    <3>3. ASSUME NEW i \in DOMAIN Append(handlers[s], message)
          PROVE  Append(handlers[s], message)[i].kind \in {"request", "stop", "invalid"}
      BY <2>1, <3>1, QueueEnd DEF HandlersAreSpawned
    <3>4. QED
      BY <3>2, <3>3 DEF HandlersAreSpawned, QueueTypes
  <2>4. QED
    BY <2>2, <2>3
<1>11. ASSUME NEW s \in Socket, PingFails(s) /\ UNCHANGED pageVars PROVE HandlersAreSpawned'
  BY <1>11 DEF PingFails, EndLoop, pageVars, QueueTypes, HandlersAreSpawned
<1>12. ASSUME NEW s \in Socket, CloseCancelled(s) /\ UNCHANGED pageVars PROVE HandlersAreSpawned'
  BY <1>12 DEF CloseCancelled, Serving, EndLoop, pageVars, QueueTypes,
     HandlersAreSpawned
<1>13. ASSUME NEW s \in Socket, ShutdownCancelled(s) /\ UNCHANGED pageVars PROVE HandlersAreSpawned'
  BY <1>13 DEF ShutdownCancelled, Serving, EndLoop, pageVars, QueueTypes,
     HandlersAreSpawned
<1>14. ASSUME NEW s \in Socket, HandleMessage(s) /\ UNCHANGED pageVars PROVE HandlersAreSpawned'
  <2>1. handlers[s] \in Seq(Message) /\ handlers[s] # <<>>
    BY <1>14 DEF HandleMessage, QueueTypes
  <2>2. \A i \in DOMAIN Tail(handlers[s]) :
           Tail(handlers[s])[i].kind \in {"request", "stop", "invalid"}
    BY <2>1, QueueHead DEF HandlersAreSpawned
  <2>3. QED
    BY <1>14, <2>2 DEF HandleMessage, HandlersAreSpawned, QueueTypes
<1>15. ASSUME NEW t \in Task, Generate(t) /\ UNCHANGED pageVars PROVE HandlersAreSpawned'
  BY <1>15 DEF Generate, EndTask, Written, pageVars, QueueTypes, HandlersAreSpawned
<1>16. ASSUME NEW t \in Task, StopTask(t) /\ UNCHANGED pageVars PROVE HandlersAreSpawned'
  BY <1>16 DEF StopTask, EndTask, pageVars, QueueTypes, HandlersAreSpawned
<1>17. CASE SocketOpens
  BY <1>17 DEF SocketOpens, Ask, QueueTypes, HandlersAreSpawned
<1>18. CASE SocketError
  BY <1>18 DEF SocketError, Reconnect, serverVars, QueueTypes, HandlersAreSpawned
<1>19. CASE SocketCloses
  BY <1>19 DEF SocketCloses, Reconnect, serverVars, QueueTypes, HandlersAreSpawned
<1>20. CASE ConnectAgain
  BY <1>20 DEF ConnectAgain, QueueTypes, HandlersAreSpawned
<1>21. CASE Submit
  BY <1>21 DEF Submit, Ask, QueueTypes, HandlersAreSpawned
<1>22. CASE TakeFrame
  BY <1>22 DEF TakeFrame, TakeNotification, TakeResponse, Scan, QueueTypes,
     HandlersAreSpawned
<1>23. CASE LeavePage
  BY <1>23 DEF LeavePage, Disturb, QueueTypes, HandlersAreSpawned
<1>24. CASE AnyClientSends
  BY <1>24 DEF AnyClientSends, QueueTypes, HandlersAreSpawned
<1>25. ASSUME NEW s \in Socket, LoseConnection(s) /\ UNCHANGED pageVars PROVE HandlersAreSpawned'
  BY <1>25 DEF LoseConnection, Disturb, pageVars, QueueTypes, HandlersAreSpawned
<1>26. ASSUME NEW s \in Socket, RefuseConnection(s) PROVE HandlersAreSpawned'
  BY <1>26 DEF RefuseConnection, Disturb, pageVars, QueueTypes, HandlersAreSpawned
<1>27. QED
  BY <1>1, <1>2, <1>3, <1>4, <1>5, <1>6, <1>7, <1>8, <1>9, <1>10, <1>11, <1>12, <1>13,
     <1>14, <1>15, <1>16, <1>17, <1>18, <1>19, <1>20, <1>21, <1>22, <1>23, <1>24,
     <1>25, <1>26 DEF Next, PageNext, ServerNext, NetworkFails, RefuseConnection,
     socketVars

\* There is a version for every change of the mode.
LEMMA VersionsStep ==
    ASSUME ServerTypes, QueueTypes, HandlersAreSpawned, VersionsAreCounted, Next
    PROVE  VersionsAreCounted'
<1>1. CASE SetMode /\ UNCHANGED pageVars
  BY <1>1 DEF SetMode, Disturb, socketVars, pageVars, ServerTypes, VersionsAreCounted
<1>2. CASE NotifyMode /\ UNCHANGED pageVars
  BY <1>2 DEF NotifyMode, socketVars, pageVars, ServerTypes, VersionsAreCounted
<1>3. CASE Shutdown /\ UNCHANGED pageVars
  BY <1>3 DEF Shutdown, Disturb, socketVars, pageVars, ServerTypes, VersionsAreCounted
<1>4. ASSUME NEW s \in Socket, SubscribeToMode(s) /\ UNCHANGED pageVars PROVE VersionsAreCounted'
  BY <1>4 DEF SubscribeToMode, pageVars, ServerTypes, VersionsAreCounted
<1>5. ASSUME NEW s \in Socket, ReadMode(s) /\ UNCHANGED pageVars PROVE VersionsAreCounted'
  BY <1>5 DEF ReadMode, Written, NotificationOf, pageVars, ServerTypes,
     VersionsAreCounted
<1>6. ASSUME NEW s \in Socket, ModeChanged(s) /\ UNCHANGED pageVars PROVE VersionsAreCounted'
  BY <1>6 DEF ModeChanged, pageVars, ServerTypes, VersionsAreCounted
<1>7. ASSUME NEW s \in Socket, RereadMode(s) /\ UNCHANGED pageVars PROVE VersionsAreCounted'
  BY <1>7 DEF RereadMode, Written, NotificationOf, pageVars, ServerTypes,
     VersionsAreCounted
<1>8. ASSUME NEW s \in Socket, EndWatcher(s) /\ UNCHANGED pageVars PROVE VersionsAreCounted'
  BY <1>8 DEF EndWatcher, pageVars, ServerTypes, VersionsAreCounted
<1>9. ASSUME NEW s \in Socket, Accept(s) /\ UNCHANGED pageVars PROVE VersionsAreCounted'
  BY <1>9 DEF Accept, pageVars, ServerTypes, VersionsAreCounted
<1>10. ASSUME NEW s \in Socket, ReceiveMessage(s) /\ UNCHANGED pageVars PROVE VersionsAreCounted'
  BY <1>10 DEF ReceiveMessage, Serving, EndLoop, pageVars, ServerTypes,
     VersionsAreCounted
<1>11. ASSUME NEW s \in Socket, PingFails(s) /\ UNCHANGED pageVars PROVE VersionsAreCounted'
  BY <1>11 DEF PingFails, EndLoop, pageVars, ServerTypes, VersionsAreCounted
<1>12. ASSUME NEW s \in Socket, CloseCancelled(s) /\ UNCHANGED pageVars PROVE VersionsAreCounted'
  BY <1>12 DEF CloseCancelled, Serving, EndLoop, pageVars, ServerTypes,
     VersionsAreCounted
<1>13. ASSUME NEW s \in Socket, ShutdownCancelled(s) /\ UNCHANGED pageVars PROVE VersionsAreCounted'
  BY <1>13 DEF ShutdownCancelled, Serving, EndLoop, pageVars, ServerTypes,
     VersionsAreCounted
<1>14. ASSUME NEW s \in Socket, HandleMessage(s) /\ UNCHANGED pageVars PROVE VersionsAreCounted'
  BY <1>14, MessageIsHandled DEF HandlesMessage, HandleRequest, Register, HandleStop,
     HandleInvalid, Written, pageVars, ServerTypes, VersionsAreCounted
<1>15. ASSUME NEW t \in Task, Generate(t) /\ UNCHANGED pageVars PROVE VersionsAreCounted'
  BY <1>15 DEF Generate, EndTask, Written, pageVars, ServerTypes, VersionsAreCounted
<1>16. ASSUME NEW t \in Task, StopTask(t) /\ UNCHANGED pageVars PROVE VersionsAreCounted'
  BY <1>16 DEF StopTask, EndTask, pageVars, ServerTypes, VersionsAreCounted
<1>17. CASE SocketOpens
  BY <1>17 DEF SocketOpens, Ask, ServerTypes, VersionsAreCounted
<1>18. CASE SocketError
  BY <1>18 DEF SocketError, Reconnect, serverVars, ServerTypes, VersionsAreCounted
<1>19. CASE SocketCloses
  BY <1>19 DEF SocketCloses, Reconnect, serverVars, ServerTypes, VersionsAreCounted
<1>20. CASE ConnectAgain
  BY <1>20 DEF ConnectAgain, ServerTypes, VersionsAreCounted
<1>21. CASE Submit
  BY <1>21 DEF Submit, Ask, ServerTypes, VersionsAreCounted
<1>22. CASE TakeFrame
  BY <1>22 DEF TakeFrame, TakeNotification, TakeResponse, Scan, ServerTypes,
     VersionsAreCounted
<1>23. CASE LeavePage
  BY <1>23 DEF LeavePage, Disturb, ServerTypes, VersionsAreCounted
<1>24. CASE AnyClientSends
  BY <1>24 DEF AnyClientSends, ServerTypes, VersionsAreCounted
<1>25. ASSUME NEW s \in Socket, LoseConnection(s) /\ UNCHANGED pageVars PROVE VersionsAreCounted'
  BY <1>25 DEF LoseConnection, Disturb, pageVars, ServerTypes, VersionsAreCounted
<1>26. ASSUME NEW s \in Socket, RefuseConnection(s) PROVE VersionsAreCounted'
  BY <1>26 DEF RefuseConnection, Disturb, pageVars, ServerTypes, VersionsAreCounted
<1>27. QED
  BY <1>1, <1>2, <1>3, <1>4, <1>5, <1>6, <1>7, <1>8, <1>9, <1>10, <1>11, <1>12, <1>13,
     <1>14, <1>15, <1>16, <1>17, <1>18, <1>19, <1>20, <1>21, <1>22, <1>23, <1>24,
     <1>25, <1>26 DEF Next, PageNext, ServerNext, NetworkFails, RefuseConnection,
     socketVars

\* A frame that is written, or lost, leaves the frames frames.
LEMMA FrameIsWritten ==
    ASSUME QueueTypes, NEW s \in Socket, NEW frame \in Frame
    PROVE  Written(s, frame) \in [Socket -> Seq(Frame)]
BY QueuesStay DEF QueueTypes, Written

\* The request that is asked for is a message.
LEMMA RequestIsSent ==
    ASSUME QueueTypes, NEW s \in Socket, newest + 1 \in Id, Ask(s)
    PROVE  inbox' \in [Socket -> Seq(Message)]
<1> DEFINE message == [kind |-> "request", id |-> newest + 1]
<1>1. message \in Message
  BY DEF Message
<1>2. inbox' = inbox \/ inbox' = [inbox EXCEPT ![s] = Append(@, message)]
  BY DEF Ask
<1> HIDE DEF message
<1>3. [inbox EXCEPT ![s] = Append(@, message)] \in [Socket -> Seq(Message)]
  BY <1>1, QueuesStay DEF QueueTypes
<1>4. QED
  BY <1>2, <1>3 DEF QueueTypes

\* The request a prompt or a new socket asks for is within the bound.
LEMMA AskedIsCounted ==
    ASSUME PageTypes, SocketShape, NewestIsAsked,
           prompt < MaxPrompts \/ (prompt # 0 /\ wire[webSocket] = "connecting")
    PROVE  newest + 1 \in Id /\ newest + 1 \in 0 .. MaxTasks
<1>1. webSocket \in Nat /\ prompt \in Nat /\ newest \in Nat /\ webSocket >= 1
  BY PromptPageAssumption, InferenceSocketAssumption DEF PageTypes, SocketShape
<1>2. CASE prompt < MaxPrompts
  <2>1. prompt + 1 <= MaxPrompts /\ webSocket <= MaxSockets
    BY <1>2, PromptPageAssumption, InferenceSocketAssumption DEF PageTypes
  <2>2. newest <= prompt + webSocket - 1
    BY <1>1 DEF NewestIsAsked
  <2>3. QED
    BY <1>1, <2>1, <2>2, PromptPageAssumption, InferenceSocketAssumption DEF Id
<1>3. CASE prompt # 0 /\ wire[webSocket] = "connecting"
  <2>1. prompt <= MaxPrompts /\ webSocket <= MaxSockets
    BY PromptPageAssumption, InferenceSocketAssumption DEF PageTypes
  <2>2. newest + 1 <= prompt + webSocket - 1
    BY <1>1, <1>3 DEF NewestIsAsked
  <2>3. QED
    BY <1>1, <2>1, <2>2, PromptPageAssumption, InferenceSocketAssumption DEF Id
<1>4. QED
  BY <1>2, <1>3

\* The queues hold messages and frames.
LEMMA QueueTypesStep ==
    ASSUME ServerTypes, QueueTypes, TaskTypes, PageTypes, HandlersAreSpawned,
           SocketShape, NewestIsAsked, RunningHasPlace, Next
    PROVE  QueueTypes'
<1>1. CASE SetMode /\ UNCHANGED pageVars
  BY <1>1 DEF SetMode, Disturb, socketVars, pageVars, QueueTypes
<1>2. CASE NotifyMode /\ UNCHANGED pageVars
  BY <1>2 DEF NotifyMode, socketVars, pageVars, QueueTypes
<1>3. CASE Shutdown /\ UNCHANGED pageVars
  BY <1>3 DEF Shutdown, Disturb, socketVars, pageVars, QueueTypes
<1>4. ASSUME NEW s \in Socket, SubscribeToMode(s) /\ UNCHANGED pageVars PROVE QueueTypes'
  BY <1>4 DEF SubscribeToMode, pageVars, QueueTypes
<1>5. ASSUME NEW s \in Socket, ReadMode(s) /\ UNCHANGED pageVars PROVE QueueTypes'
  <2>0. \A m \in Mode : NotificationOf(m) \in Frame
    BY DEF NotificationOf, Frame
  <2>1. QED
    BY <1>5, <2>0, FrameIsWritten DEF ReadMode, QueueTypes, ServerTypes
<1>6. ASSUME NEW s \in Socket, ModeChanged(s) /\ UNCHANGED pageVars PROVE QueueTypes'
  BY <1>6 DEF ModeChanged, pageVars, QueueTypes
<1>7. ASSUME NEW s \in Socket, RereadMode(s) /\ UNCHANGED pageVars PROVE QueueTypes'
  <2>0. \A m \in Mode : NotificationOf(m) \in Frame
    BY DEF NotificationOf, Frame
  <2>1. QED
    BY <1>7, <2>0, FrameIsWritten DEF RereadMode, QueueTypes, ServerTypes
<1>8. ASSUME NEW s \in Socket, EndWatcher(s) /\ UNCHANGED pageVars PROVE QueueTypes'
  BY <1>8 DEF EndWatcher, pageVars, QueueTypes
<1>9. ASSUME NEW s \in Socket, Accept(s) /\ UNCHANGED pageVars PROVE QueueTypes'
  BY <1>9 DEF Accept, pageVars, QueueTypes
<1>10. ASSUME NEW s \in Socket, ReceiveMessage(s) /\ UNCHANGED pageVars PROVE QueueTypes'
  <2>1. Head(inbox[s]) \in Message
    BY <1>10, QueueHead DEF ReceiveMessage, QueueTypes
  <2>2. inbox' \in [Socket -> Seq(Message)]
    BY <1>10, QueuesStay DEF ReceiveMessage, QueueTypes
  <2>3. handlers' \in [Socket -> Seq(Message)]
    <3>1. handlers' = handlers \/ handlers' = [handlers EXCEPT ![s] = Append(@, Head(inbox[s]))]
      BY <1>10 DEF ReceiveMessage, EndLoop
    <3>2. \A message \in Message :
             [handlers EXCEPT ![s] = Append(@, message)] \in [Socket -> Seq(Message)]
      BY QueuesStay DEF QueueTypes
    <3>3. QED
      BY <2>1, <3>1, <3>2 DEF QueueTypes
  <2>4. QED
    BY <1>10, <2>2, <2>3 DEF ReceiveMessage, EndLoop, QueueTypes
<1>11. ASSUME NEW s \in Socket, PingFails(s) /\ UNCHANGED pageVars PROVE QueueTypes'
  BY <1>11 DEF PingFails, EndLoop, pageVars, QueueTypes
<1>12. ASSUME NEW s \in Socket, CloseCancelled(s) /\ UNCHANGED pageVars PROVE QueueTypes'
  BY <1>12 DEF CloseCancelled, Serving, EndLoop, pageVars, QueueTypes
<1>13. ASSUME NEW s \in Socket, ShutdownCancelled(s) /\ UNCHANGED pageVars PROVE QueueTypes'
  BY <1>13 DEF ShutdownCancelled, Serving, EndLoop, pageVars, QueueTypes
<1>14. ASSUME NEW s \in Socket, HandleMessage(s) /\ UNCHANGED pageVars PROVE QueueTypes'
  <2>1. HandlesMessage(s)
    BY <1>14, MessageIsHandled
  <2>2. handlers' \in [Socket -> Seq(Message)]
    BY <2>1, QueuesStay DEF HandlesMessage, QueueTypes
  <2>3. \A id \in Id : [kind |-> "error", id |-> id] \in Frame
                       /\ [kind |-> "disabled", id |-> id] \in Frame
    BY DEF Frame, Terminal
  <2>4. outbox' \in [Socket -> Seq(Frame)]
    <3>1. \/ outbox' = outbox
          \/ \E id \in Id : \/ outbox' = Written(s, [kind |-> "error", id |-> id])
                            \/ outbox' = Written(s, [kind |-> "disabled", id |-> id])
      BY <2>1 DEF HandlesMessage, HandleRequest, Register, HandleStop, HandleInvalid
    <3>2. QED
      BY <2>3, <3>1, FrameIsWritten DEF QueueTypes
  <2>5. QED
    BY <2>1, <2>2, <2>4 DEF HandlesMessage, QueueTypes
<1>15. ASSUME NEW t \in Task, Generate(t) /\ UNCHANGED pageVars PROVE QueueTypes'
  <2>1. task[t].socket \in Socket /\ task[t].id \in Id
    BY <1>15 DEF Generate, RunningHasPlace
  <2>2. \A kind \in {"token", "done", "foreign"} : [kind |-> kind, id |-> task[t].id] \in Frame
    BY <2>1 DEF Frame, Terminal
  <2>3. outbox' \in [Socket -> Seq(Frame)]
    BY <1>15, <2>1, <2>2, FrameIsWritten DEF Generate
  <2>4. QED
    BY <1>15, <2>3 DEF Generate, QueueTypes
<1>16. ASSUME NEW t \in Task, StopTask(t) /\ UNCHANGED pageVars PROVE QueueTypes'
  BY <1>16 DEF StopTask, EndTask, pageVars, QueueTypes
<1>17. CASE SocketOpens
  <2>1. CASE prompt = 0
    BY <1>17, <2>1 DEF SocketOpens, QueueTypes
  <2>2. CASE prompt # 0
    <3>1. newest + 1 \in Id /\ Ask(webSocket)
      BY <1>17, <2>2, AskedIsCounted DEF SocketOpens
    <3>2. webSocket \in Socket
      BY DEF PageTypes, SocketShape, Socket
    <3>3. inbox' \in [Socket -> Seq(Message)]
      BY <3>1, <3>2, RequestIsSent
    <3>4. QED
      BY <1>17, <3>3 DEF SocketOpens, QueueTypes
  <2>3. QED
    BY <2>1, <2>2
<1>18. CASE SocketError
  BY <1>18 DEF SocketError, Reconnect, serverVars, QueueTypes
<1>19. CASE SocketCloses
  BY <1>19 DEF SocketCloses, Reconnect, serverVars, QueueTypes
<1>20. CASE ConnectAgain
  BY <1>20 DEF ConnectAgain, QueueTypes
<1>21. CASE Submit
  <2>0. newest + 1 \in Id
    BY <1>21, AskedIsCounted DEF Submit
  <2>1. newest + 1 \in Id /\ Ask(webSocket)
    BY <1>21, <2>0 DEF Submit
  <2>2. webSocket \in Socket
    BY DEF PageTypes, SocketShape, Socket
  <2>3. inbox' \in [Socket -> Seq(Message)]
    BY <2>1, <2>2, RequestIsSent
  <2>4. QED
    BY <1>21, <2>3 DEF Submit, QueueTypes
<1>22. CASE TakeFrame
  <2>1. webSocket \in Socket
    BY DEF PageTypes, SocketShape, Socket
  <2>2. outbox' \in [Socket -> Seq(Frame)]
    BY <1>22, <2>1, QueuesStay DEF TakeFrame, QueueTypes
  <2>3. QED
    BY <1>22, <2>2 DEF TakeFrame, QueueTypes
<1>23. CASE LeavePage
  <2>1. webSocket \in Socket
    BY DEF PageTypes, SocketShape, Socket
  <2>2. [kind |-> "close", id |-> 0] \in Message
    BY DEF Message
  <2>3. inbox' \in [Socket -> Seq(Message)] /\ outbox' \in [Socket -> Seq(Frame)]
    BY <1>23, <2>1, <2>2, QueuesStay DEF LeavePage, QueueTypes
  <2>4. QED
    BY <1>23, <2>3 DEF LeavePage, QueueTypes
<1>24. CASE AnyClientSends
  <2>1. 1 \in Socket
    BY InferenceSocketAssumption DEF Socket
  <2>2. inbox' \in [Socket -> Seq(Message)]
    BY <1>24, <2>1, QueuesStay DEF AnyClientSends, QueueTypes
  <2>3. QED
    BY <1>24, <2>2 DEF AnyClientSends, QueueTypes
<1>25. ASSUME NEW s \in Socket, LoseConnection(s) /\ UNCHANGED pageVars PROVE QueueTypes'
  BY <1>25, QueuesStay DEF LoseConnection, QueueTypes
<1>26. ASSUME NEW s \in Socket, RefuseConnection(s) PROVE QueueTypes'
  BY <1>26 DEF RefuseConnection, Disturb, pageVars, QueueTypes
<1>27. QED
  BY <1>1, <1>2, <1>3, <1>4, <1>5, <1>6, <1>7, <1>8, <1>9, <1>10, <1>11, <1>12, <1>13,
     <1>14, <1>15, <1>16, <1>17, <1>18, <1>19, <1>20, <1>21, <1>22, <1>23, <1>24,
     <1>25, <1>26 DEF Next, PageNext, ServerNext, NetworkFails, RefuseConnection,
     socketVars

\* A task that ends leaves the registry.
LEMMA EndedTask ==
    ASSUME TaskTypes, RunningHasPlace, NEW t \in Task, task[t].status = "running", EndTask(t)
    PROVE  TaskTypes' /\ RunningHasPlace'
<1>1. registry' \in [Socket -> [Id -> 0 .. MaxTasks]]
  <2>1. 0 \in 0 .. MaxTasks
    BY InferenceSocketAssumption
  <2>2. QED
    BY <2>1 DEF TaskTypes, RunningHasPlace, EndTask
<1> DEFINE State == [socket : 0 .. MaxSockets, id : 0 .. MaxTasks, sent : 0 .. 1,
                     status : {"none", "running", "ended"}, cancelled : BOOLEAN]
<1>2. [task[t] EXCEPT !.status = "ended", !.sent = 0, !.cancelled = FALSE] \in State
  <2>1. ASSUME NEW r \in State
        PROVE  [r EXCEPT !.status = "ended", !.sent = 0, !.cancelled = FALSE] \in State
    <3>1. [r EXCEPT !.status = "ended", !.sent = 0, !.cancelled = FALSE] =
             [[[r EXCEPT !.status = "ended"] EXCEPT !.sent = 0] EXCEPT !.cancelled = FALSE]
      OBVIOUS
    <3>2. \A q \in State : [q EXCEPT !.status = "ended"] \in State
      OBVIOUS
    <3>3. \A q \in State : [q EXCEPT !.sent = 0] \in State
      OBVIOUS
    <3>4. \A q \in State : [q EXCEPT !.cancelled = FALSE] \in State
      OBVIOUS
    <3>5. QED
      BY <3>1, <3>2, <3>3, <3>4, Zenon
  <2>2. task[t] \in State
    BY DEF TaskTypes
  <2>3. QED
    BY <2>1, <2>2
<1>3. QED
  BY <1>1, <1>2 DEF TaskTypes, RunningHasPlace, EndTask

\* Tasks and the registry have their types.
LEMMA TaskTypesStep ==
    ASSUME QueueTypes, TaskTypes, HandlersAreSpawned, RunningHasPlace, Next
    PROVE  TaskTypes' /\ RunningHasPlace'
<1>1. CASE SetMode /\ UNCHANGED pageVars
  BY <1>1 DEF SetMode, Disturb, socketVars, pageVars, TaskTypes, RunningHasPlace
<1>2. CASE NotifyMode /\ UNCHANGED pageVars
  BY <1>2 DEF NotifyMode, socketVars, pageVars, TaskTypes, RunningHasPlace
<1>3. CASE Shutdown /\ UNCHANGED pageVars
  BY <1>3 DEF Shutdown, Disturb, socketVars, pageVars, TaskTypes, RunningHasPlace
<1>4. ASSUME NEW s \in Socket, SubscribeToMode(s) /\ UNCHANGED pageVars PROVE TaskTypes' /\ RunningHasPlace'
  BY <1>4 DEF SubscribeToMode, pageVars, TaskTypes, RunningHasPlace
<1>5. ASSUME NEW s \in Socket, ReadMode(s) /\ UNCHANGED pageVars PROVE TaskTypes' /\ RunningHasPlace'
  BY <1>5 DEF ReadMode, Written, NotificationOf, pageVars, TaskTypes, RunningHasPlace
<1>6. ASSUME NEW s \in Socket, ModeChanged(s) /\ UNCHANGED pageVars PROVE TaskTypes' /\ RunningHasPlace'
  BY <1>6 DEF ModeChanged, pageVars, TaskTypes, RunningHasPlace
<1>7. ASSUME NEW s \in Socket, RereadMode(s) /\ UNCHANGED pageVars PROVE TaskTypes' /\ RunningHasPlace'
  BY <1>7 DEF RereadMode, Written, NotificationOf, pageVars, TaskTypes,
     RunningHasPlace
<1>8. ASSUME NEW s \in Socket, EndWatcher(s) /\ UNCHANGED pageVars PROVE TaskTypes' /\ RunningHasPlace'
  BY <1>8 DEF EndWatcher, pageVars, TaskTypes, RunningHasPlace
<1>9. ASSUME NEW s \in Socket, Accept(s) /\ UNCHANGED pageVars PROVE TaskTypes' /\ RunningHasPlace'
  BY <1>9 DEF Accept, pageVars, TaskTypes, RunningHasPlace
<1>10. ASSUME NEW s \in Socket, ReceiveMessage(s) /\ UNCHANGED pageVars PROVE TaskTypes' /\ RunningHasPlace'
  BY <1>10 DEF ReceiveMessage, Serving, EndLoop, pageVars, TaskTypes, RunningHasPlace
<1>11. ASSUME NEW s \in Socket, PingFails(s) /\ UNCHANGED pageVars PROVE TaskTypes' /\ RunningHasPlace'
  BY <1>11 DEF PingFails, EndLoop, pageVars, TaskTypes, RunningHasPlace
<1>12. ASSUME NEW s \in Socket, CloseCancelled(s) /\ UNCHANGED pageVars PROVE TaskTypes' /\ RunningHasPlace'
  BY <1>12 DEF CloseCancelled, Serving, EndLoop, pageVars, TaskTypes, RunningHasPlace
<1>13. ASSUME NEW s \in Socket, ShutdownCancelled(s) /\ UNCHANGED pageVars PROVE TaskTypes' /\ RunningHasPlace'
  BY <1>13 DEF ShutdownCancelled, Serving, EndLoop, pageVars, TaskTypes,
     RunningHasPlace
<1>14. ASSUME NEW s \in Socket, HandleMessage(s) /\ UNCHANGED pageVars PROVE TaskTypes' /\ RunningHasPlace'
  <2>1. HandlesMessage(s)
    BY <1>14, MessageIsHandled
  <2>2. CASE UNCHANGED <<registry, task>>
    BY <2>2 DEF TaskTypes, RunningHasPlace
  <2>3. CASE \E id \in Id : HandleStop(s, id)
    <3>1. PICK id \in Id : HandleStop(s, id)
      BY <2>3
    <3>2. CASE registry[s][id] = 0
      BY <3>1, <3>2 DEF HandleStop, TaskTypes, RunningHasPlace
    <3>3. CASE registry[s][id] # 0
      <4>1. PICK u \in Task : u = registry[s][id]
        BY <3>3 DEF TaskTypes, Task
      <4>2. task' = [task EXCEPT ![u].cancelled = TRUE] /\ registry' = registry
        BY <3>1, <3>3, <4>1 DEF HandleStop
      <4>3. QED
        BY <4>2 DEF TaskTypes, RunningHasPlace
    <3>4. QED
      BY <3>2, <3>3
  <2>4. CASE \E id \in Id : HandleRequest(s, id) /\ ~UNCHANGED <<registry, task>>
    <3>1. PICK id \in Id, u \in Task :
             /\ registry' = [registry EXCEPT ![s][id] = u]
             /\ task' = [task EXCEPT ![u] = [socket |-> s, id |-> id, sent |-> 0,
                                             status |-> "running", cancelled |-> FALSE]]
      BY <2>4 DEF HandleRequest, Register
    <3>2. registry' \in [Socket -> [Id -> 0 .. MaxTasks]]
      BY <3>1 DEF TaskTypes, Task
    <3>3. [socket |-> s, id |-> id, sent |-> 0, status |-> "running", cancelled |-> FALSE] \in
             [socket : 0 .. MaxSockets, id : 0 .. MaxTasks, sent : 0 .. 1,
              status : {"none", "running", "ended"}, cancelled : BOOLEAN]
      BY InferenceSocketAssumption DEF Socket, Id
    <3>4. QED
      BY <3>1, <3>2, <3>3 DEF TaskTypes, RunningHasPlace
  <2>5. QED
    BY <2>1, <2>2, <2>3, <2>4 DEF HandlesMessage, HandleInvalid
<1>15. ASSUME NEW t \in Task, Generate(t) /\ UNCHANGED pageVars PROVE TaskTypes' /\ RunningHasPlace'
  <2>1. CASE task' = [task EXCEPT ![t].sent = 1] /\ UNCHANGED registry
    BY <2>1 DEF TaskTypes, RunningHasPlace
  <2>2. CASE EndTask(t)
    BY <1>15, <2>2, EndedTask DEF Generate
  <2>3. QED
    BY <1>15, <2>1, <2>2 DEF Generate
<1>16. ASSUME NEW t \in Task, StopTask(t) /\ UNCHANGED pageVars PROVE TaskTypes' /\ RunningHasPlace'
  BY <1>16, EndedTask DEF StopTask
<1>17. CASE SocketOpens
  BY <1>17 DEF SocketOpens, Ask, TaskTypes, RunningHasPlace
<1>18. CASE SocketError
  BY <1>18 DEF SocketError, Reconnect, serverVars, TaskTypes, RunningHasPlace
<1>19. CASE SocketCloses
  BY <1>19 DEF SocketCloses, Reconnect, serverVars, TaskTypes, RunningHasPlace
<1>20. CASE ConnectAgain
  BY <1>20 DEF ConnectAgain, TaskTypes, RunningHasPlace
<1>21. CASE Submit
  BY <1>21 DEF Submit, Ask, TaskTypes, RunningHasPlace
<1>22. CASE TakeFrame
  BY <1>22 DEF TakeFrame, TakeNotification, TakeResponse, Scan, TaskTypes,
     RunningHasPlace
<1>23. CASE LeavePage
  BY <1>23 DEF LeavePage, Disturb, TaskTypes, RunningHasPlace
<1>24. CASE AnyClientSends
  BY <1>24 DEF AnyClientSends, TaskTypes, RunningHasPlace
<1>25. ASSUME NEW s \in Socket, LoseConnection(s) /\ UNCHANGED pageVars PROVE TaskTypes' /\ RunningHasPlace'
  BY <1>25 DEF LoseConnection, Disturb, pageVars, TaskTypes, RunningHasPlace
<1>26. ASSUME NEW s \in Socket, RefuseConnection(s) PROVE TaskTypes' /\ RunningHasPlace'
  BY <1>26 DEF RefuseConnection, Disturb, pageVars, TaskTypes, RunningHasPlace
<1>27. QED
  BY <1>1, <1>2, <1>3, <1>4, <1>5, <1>6, <1>7, <1>8, <1>9, <1>10, <1>11, <1>12, <1>13,
     <1>14, <1>15, <1>16, <1>17, <1>18, <1>19, <1>20, <1>21, <1>22, <1>23, <1>24,
     <1>25, <1>26 DEF Next, PageNext, ServerNext, NetworkFails, RefuseConnection,
     socketVars

\* What the page keeps has its types.
LEMMA PageTypesStep ==
    ASSUME QueueTypes, PageTypes, SocketShape, NewestIsAsked, Next
    PROVE  PageTypes'
<1>1. CASE SetMode /\ UNCHANGED pageVars
  BY <1>1 DEF SetMode, Disturb, socketVars, pageVars, PageTypes
<1>2. CASE NotifyMode /\ UNCHANGED pageVars
  BY <1>2 DEF NotifyMode, socketVars, pageVars, PageTypes
<1>3. CASE Shutdown /\ UNCHANGED pageVars
  BY <1>3 DEF Shutdown, Disturb, socketVars, pageVars, PageTypes
<1>4. ASSUME NEW s \in Socket, SubscribeToMode(s) /\ UNCHANGED pageVars PROVE PageTypes'
  BY <1>4 DEF SubscribeToMode, pageVars, PageTypes
<1>5. ASSUME NEW s \in Socket, ReadMode(s) /\ UNCHANGED pageVars PROVE PageTypes'
  BY <1>5 DEF ReadMode, Written, NotificationOf, pageVars, PageTypes
<1>6. ASSUME NEW s \in Socket, ModeChanged(s) /\ UNCHANGED pageVars PROVE PageTypes'
  BY <1>6 DEF ModeChanged, pageVars, PageTypes
<1>7. ASSUME NEW s \in Socket, RereadMode(s) /\ UNCHANGED pageVars PROVE PageTypes'
  BY <1>7 DEF RereadMode, Written, NotificationOf, pageVars, PageTypes
<1>8. ASSUME NEW s \in Socket, EndWatcher(s) /\ UNCHANGED pageVars PROVE PageTypes'
  BY <1>8 DEF EndWatcher, pageVars, PageTypes
<1>9. ASSUME NEW s \in Socket, Accept(s) /\ UNCHANGED pageVars PROVE PageTypes'
  BY <1>9 DEF Accept, pageVars, PageTypes
<1>10. ASSUME NEW s \in Socket, ReceiveMessage(s) /\ UNCHANGED pageVars PROVE PageTypes'
  BY <1>10 DEF ReceiveMessage, Serving, EndLoop, pageVars, PageTypes
<1>11. ASSUME NEW s \in Socket, PingFails(s) /\ UNCHANGED pageVars PROVE PageTypes'
  BY <1>11 DEF PingFails, EndLoop, pageVars, PageTypes
<1>12. ASSUME NEW s \in Socket, CloseCancelled(s) /\ UNCHANGED pageVars PROVE PageTypes'
  BY <1>12 DEF CloseCancelled, Serving, EndLoop, pageVars, PageTypes
<1>13. ASSUME NEW s \in Socket, ShutdownCancelled(s) /\ UNCHANGED pageVars PROVE PageTypes'
  BY <1>13 DEF ShutdownCancelled, Serving, EndLoop, pageVars, PageTypes
<1>14. ASSUME NEW s \in Socket, HandleMessage(s) /\ UNCHANGED pageVars PROVE PageTypes'
  BY <1>14 DEF HandlesMessage, HandleRequest, Register, HandleStop, HandleInvalid,
     Written, pageVars, PageTypes
<1>15. ASSUME NEW t \in Task, Generate(t) /\ UNCHANGED pageVars PROVE PageTypes'
  BY <1>15 DEF Generate, EndTask, Written, pageVars, PageTypes
<1>16. ASSUME NEW t \in Task, StopTask(t) /\ UNCHANGED pageVars PROVE PageTypes'
  BY <1>16 DEF StopTask, EndTask, pageVars, PageTypes
<1>17. CASE SocketOpens
  <2>1. newest' \in 0 .. MaxTasks /\ subscribed' \subseteq Id
    <3>1. CASE prompt = 0
      BY <1>17, <3>1 DEF SocketOpens, PageTypes
    <3>2. CASE prompt # 0
      BY <1>17, <3>2, AskedIsCounted DEF SocketOpens, Ask
    <3>3. QED
      BY <3>1, <3>2
  <2>2. 0 \in 0 .. MaxTasks /\ attempts' \in 0 .. MAX_RECONNECT_DEBOUNCE_TIME_INCREASE
    BY <1>17, InferenceSocketAssumption DEF SocketOpens, MAX_RECONNECT_DEBOUNCE_TIME_INCREASE
  <2>3. QED
    BY <1>17, <2>1, <2>2 DEF SocketOpens, PageTypes
<1>18. CASE SocketError
  <2>1. attempts' \in 0 .. MAX_RECONNECT_DEBOUNCE_TIME_INCREASE
    <3>1. attempts' = IF attempts < MAX_RECONNECT_DEBOUNCE_TIME_INCREASE THEN attempts + 1 ELSE attempts
      BY <1>18 DEF SocketError, Reconnect
    <3>2. attempts \in 0 .. MAX_RECONNECT_DEBOUNCE_TIME_INCREASE
      BY DEF PageTypes
    <3>3. QED
      BY <3>1, <3>2 DEF MAX_RECONNECT_DEBOUNCE_TIME_INCREASE
  <2>2. QED
    BY <1>18, <2>1 DEF SocketError, Reconnect, PageTypes
<1>19. CASE SocketCloses
  <2>1. attempts' \in 0 .. MAX_RECONNECT_DEBOUNCE_TIME_INCREASE
    <3>1. attempts' = IF attempts < MAX_RECONNECT_DEBOUNCE_TIME_INCREASE THEN attempts + 1 ELSE attempts
      BY <1>19 DEF SocketCloses, Reconnect
    <3>2. attempts \in 0 .. MAX_RECONNECT_DEBOUNCE_TIME_INCREASE
      BY DEF PageTypes
    <3>3. QED
      BY <3>1, <3>2 DEF MAX_RECONNECT_DEBOUNCE_TIME_INCREASE
  <2>2. QED
    BY <1>19, <2>1 DEF SocketCloses, Reconnect, PageTypes
<1>20. CASE ConnectAgain
  <2>1. webSocket + 1 \in Socket /\ webSocket' = webSocket + 1
        /\ wire' = [wire EXCEPT ![webSocket + 1] = "connecting",
                                ![webSocket] = IF @ = "errored" THEN "closed" ELSE @]
    BY <1>20 DEF ConnectAgain
  <2>2. webSocket' \in 0 .. MaxSockets
    BY <2>1, InferenceSocketAssumption DEF Socket
  <2>3. wire' \in [Socket -> {"none", "connecting", "open", "errored", "closed"}]
    BY <2>1 DEF PageTypes
  <2>4. QED
    BY <1>20, <2>2, <2>3 DEF ConnectAgain, PageTypes
<1>21. CASE Submit
  <2>0. newest + 1 \in Id /\ newest + 1 \in 0 .. MaxTasks
    BY <1>21, AskedIsCounted DEF Submit
  <2>1. newest' \in 0 .. MaxTasks /\ subscribed' \subseteq Id
    BY <1>21, <2>0 DEF Submit, Ask
  <2>2. prompt' \in 0 .. MaxPrompts
    BY <1>21, PromptPageAssumption DEF Submit, PageTypes
  <2>3. QED
    BY <1>21, <2>1, <2>2 DEF Submit, PageTypes
<1>22. CASE TakeFrame
  <2> DEFINE frame == Head(outbox[webSocket])
  <2>1. disabled' \in BOOLEAN /\ broken' \in BOOLEAN
    <3>1. disabled' = disabled \/ disabled' = (frame.kind = "TokenGenerationDisabled")
      BY <1>22 DEF TakeFrame, TakeNotification, TakeResponse
    <3>2. broken' = broken \/ broken' = (broken \/ subscribed # {})
      BY <1>22 DEF TakeFrame, TakeNotification, TakeResponse
    <3>3. QED
      BY <3>1, <3>2, Zenon DEF PageTypes
  <2>2. subscribed' \subseteq Id
    BY <1>22 DEF TakeFrame, TakeNotification, TakeResponse, PageTypes
  <2>3. \/ UNCHANGED <<answer, shown>>
        \/ /\ answer' = [answer EXCEPT ![frame.id] = Scan(frame)]
           /\ shown' = frame.id
           /\ frame.id \in subscribed
    BY <1>22 DEF TakeFrame, TakeNotification, TakeResponse
  <2>4. Scan(frame) \in {"empty", "filled", "over"}
    BY DEF Scan
  <2>6. frame.id \in subscribed => frame.id \in Id /\ frame.id \in 0 .. MaxTasks
    <3>1. subscribed \subseteq Id
      BY DEF PageTypes
    <3>2. \A i \in Id : i \in 0 .. MaxTasks
      BY InferenceSocketAssumption DEF Id
    <3>3. QED
      BY <3>1, <3>2
  <2>7. answer' \in [Id -> {"empty", "filled", "over"}] /\ shown' \in 0 .. MaxTasks
    BY <2>3, <2>4, <2>6 DEF PageTypes
  <2>5. QED
    BY <1>22, <2>1, <2>2, <2>7 DEF TakeFrame, PageTypes
<1>23. CASE LeavePage
  BY <1>23 DEF LeavePage, Disturb, PageTypes
<1>24. CASE AnyClientSends
  BY <1>24, PromptPageAssumption DEF AnyClientSends, PageTypes
<1>25. ASSUME NEW s \in Socket, LoseConnection(s) /\ UNCHANGED pageVars PROVE PageTypes'
  BY <1>25 DEF LoseConnection, Disturb, pageVars, PageTypes
<1>26. ASSUME NEW s \in Socket, RefuseConnection(s) PROVE PageTypes'
  BY <1>26 DEF RefuseConnection, Disturb, pageVars, PageTypes
<1>27. QED
  BY <1>1, <1>2, <1>3, <1>4, <1>5, <1>6, <1>7, <1>8, <1>9, <1>10, <1>11, <1>12, <1>13,
     <1>14, <1>15, <1>16, <1>17, <1>18, <1>19, <1>20, <1>21, <1>22, <1>23, <1>24,
     <1>25, <1>26 DEF Next, PageNext, ServerNext, NetworkFails, RefuseConnection,
     socketVars

\* A frame reaches the one connection that is open.
LEMMA WrittenToOpen ==
    ASSUME QueueTypes, NEW s \in Socket, NEW frame, outbox' = Written(s, frame) \/ outbox' = outbox,
           NEW other \in Socket, conn[other] # "open" \/ other # s
    PROVE  outbox'[other] = outbox[other]
BY DEF QueueTypes, Written

\* What a step of a task writes is a frame to its own connection, about a request.
LEMMA TaskWrites ==
    ASSUME QueueTypes, HandlersAreSpawned, RunningHasPlace, NEW s \in Socket,
           HandleMessage(s) \/ \E t \in Task : (Generate(t) \/ StopTask(t)) /\ task[t].socket = s
    PROVE  /\ \/ outbox' = outbox
              \/ \E frame \in Frame : frame.id # 0 /\ outbox' = Written(s, frame)
           /\ UNCHANGED <<conn, watcher, seen, mode, modeVersion, setting, lastMode>>
<1>1. CASE HandleMessage(s)
  <2>1. HandlesMessage(s)
    BY <1>1, MessageIsHandled
  <2>2. \/ outbox' = outbox
        \/ \E id \in Id : \/ outbox' = Written(s, [kind |-> "error", id |-> id])
                          \/ outbox' = Written(s, [kind |-> "disabled", id |-> id])
    BY <2>1 DEF HandlesMessage, HandleRequest, Register, HandleStop, HandleInvalid
  <2>3. \A id \in Id, kind \in {"error", "disabled"} :
           [kind |-> kind, id |-> id] \in Frame /\ [kind |-> kind, id |-> id].id # 0
    BY DEF Frame, Terminal, Id
  <2>4. QED
    BY <2>1, <2>2, <2>3 DEF HandlesMessage
<1>2. ASSUME NEW t \in Task, Generate(t), task[t].socket = s
      PROVE  \/ outbox' = outbox
             \/ \E frame \in Frame : frame.id # 0 /\ outbox' = Written(s, frame)
  <2>1. task[t].id \in Id
    BY <1>2 DEF Generate, RunningHasPlace
  <2>2. \E kind \in {"token", "done", "foreign"} :
           outbox' = Written(s, [kind |-> kind, id |-> task[t].id])
    BY <1>2 DEF Generate
  <2>3. \A kind \in {"token", "done", "foreign"} :
           /\ [kind |-> kind, id |-> task[t].id] \in Frame
           /\ [kind |-> kind, id |-> task[t].id].id # 0
    BY <2>1 DEF Frame, Terminal, Id
  <2>4. QED
    BY <2>2, <2>3
<1>3. QED
  BY <1>1, <1>2 DEF Generate, StopTask

\* The browser keeps track of its socket, and later ones are untouched.
LEMMA SocketShapeStep ==
    ASSUME ServerTypes, QueueTypes, TaskTypes, PageTypes, HandlersAreSpawned,
           RunningHasPlace, SocketShape, Next
    PROVE  SocketShape'
<1>1. CASE SetMode /\ UNCHANGED pageVars
  BY <1>1 DEF SetMode, Disturb, socketVars, pageVars, SocketShape, PageTypes,
     ServerTypes
<1>2. CASE NotifyMode /\ UNCHANGED pageVars
  BY <1>2 DEF NotifyMode, socketVars, pageVars, SocketShape, PageTypes, ServerTypes
<1>3. CASE Shutdown /\ UNCHANGED pageVars
  BY <1>3 DEF Shutdown, Disturb, socketVars, pageVars, SocketShape, PageTypes,
     ServerTypes
<1>4. ASSUME NEW s \in Socket, SubscribeToMode(s) /\ UNCHANGED pageVars PROVE SocketShape'
  BY <1>4 DEF SubscribeToMode, pageVars, SocketShape, PageTypes, ServerTypes
<1>5. ASSUME NEW s \in Socket, ReadMode(s) /\ UNCHANGED pageVars PROVE SocketShape'
  BY <1>5 DEF ReadMode, Written, NotificationOf, pageVars, SocketShape, PageTypes,
     ServerTypes
<1>6. ASSUME NEW s \in Socket, ModeChanged(s) /\ UNCHANGED pageVars PROVE SocketShape'
  BY <1>6 DEF ModeChanged, pageVars, SocketShape, PageTypes, ServerTypes
<1>7. ASSUME NEW s \in Socket, RereadMode(s) /\ UNCHANGED pageVars PROVE SocketShape'
  BY <1>7 DEF RereadMode, Written, NotificationOf, pageVars, SocketShape, PageTypes,
     ServerTypes
<1>8. ASSUME NEW s \in Socket, EndWatcher(s) /\ UNCHANGED pageVars PROVE SocketShape'
  BY <1>8 DEF EndWatcher, pageVars, SocketShape, PageTypes, ServerTypes
<1>9. ASSUME NEW s \in Socket, Accept(s) /\ UNCHANGED pageVars PROVE SocketShape'
  BY <1>9 DEF Accept, pageVars, SocketShape, PageTypes, ServerTypes
<1>10. ASSUME NEW s \in Socket, ReceiveMessage(s) /\ UNCHANGED pageVars PROVE SocketShape'
  BY <1>10 DEF ReceiveMessage, Serving, EndLoop, pageVars, SocketShape, PageTypes,
     ServerTypes
<1>11. ASSUME NEW s \in Socket, PingFails(s) /\ UNCHANGED pageVars PROVE SocketShape'
  BY <1>11 DEF PingFails, EndLoop, pageVars, SocketShape, PageTypes, ServerTypes
<1>12. ASSUME NEW s \in Socket, CloseCancelled(s) /\ UNCHANGED pageVars PROVE SocketShape'
  BY <1>12 DEF CloseCancelled, Serving, EndLoop, pageVars, SocketShape, PageTypes,
     ServerTypes
<1>13. ASSUME NEW s \in Socket, ShutdownCancelled(s) /\ UNCHANGED pageVars PROVE SocketShape'
  BY <1>13 DEF ShutdownCancelled, Serving, EndLoop, pageVars, SocketShape, PageTypes,
     ServerTypes
<1>14. ASSUME NEW s \in Socket, HandleMessage(s) /\ UNCHANGED pageVars PROVE SocketShape'
  <2>1. UNCHANGED <<conn, watcher>>
    BY <1>14 DEF HandleMessage
  <2>2. ASSUME NEW other \in Socket, other > webSocket PROVE outbox'[other] = outbox[other]
    <3>1. conn[other] # "open"
      BY <2>2 DEF SocketShape
    <3>2. QED
      BY <1>14, <3>1, TaskWrites, WrittenToOpen
  <2>3. QED
    BY <1>14, <2>1, <2>2 DEF pageVars, SocketShape
<1>15. ASSUME NEW t \in Task, Generate(t) /\ UNCHANGED pageVars PROVE SocketShape'
  <2>0. task[t].socket \in Socket
    BY <1>15 DEF Generate, RunningHasPlace
  <2>1. UNCHANGED <<conn, watcher>>
    BY <1>15 DEF Generate
  <2>2. ASSUME NEW other \in Socket, other > webSocket PROVE outbox'[other] = outbox[other]
    <3>1. conn[other] # "open"
      BY <2>2 DEF SocketShape
    <3>2. QED
      BY <1>15, <3>1, <2>0, TaskWrites, WrittenToOpen
  <2>3. QED
    BY <1>15, <2>1, <2>2 DEF pageVars, SocketShape
<1>16. ASSUME NEW t \in Task, StopTask(t) /\ UNCHANGED pageVars PROVE SocketShape'
  BY <1>16 DEF StopTask, EndTask, pageVars, SocketShape, PageTypes, ServerTypes
<1>17. CASE SocketOpens
  BY <1>17 DEF SocketOpens, SocketShape, PageTypes, Socket
<1>18. CASE SocketError
  BY <1>18 DEF SocketError, Reconnect, serverVars, SocketShape, PageTypes,
     ServerTypes, Socket
<1>19. CASE SocketCloses
  BY <1>19 DEF SocketCloses, Reconnect, serverVars, SocketShape, PageTypes,
     ServerTypes, Socket
<1>20. CASE ConnectAgain
  BY <1>20 DEF ConnectAgain, SocketShape, PageTypes, ServerTypes
<1>21. CASE Submit
  BY <1>21 DEF Submit, Ask, SocketShape, PageTypes, ServerTypes
<1>22. CASE TakeFrame
  BY <1>22 DEF TakeFrame, TakeNotification, TakeResponse, Scan, SocketShape,
     PageTypes, ServerTypes
<1>23. CASE LeavePage
  BY <1>23 DEF LeavePage, Disturb, SocketShape, PageTypes, ServerTypes
<1>24. CASE AnyClientSends
  BY <1>24 DEF AnyClientSends, SocketShape, PageTypes, ServerTypes
<1>25. ASSUME NEW s \in Socket, LoseConnection(s) /\ UNCHANGED pageVars PROVE SocketShape'
  BY <1>25 DEF LoseConnection, Disturb, pageVars, SocketShape, PageTypes, ServerTypes
<1>26. ASSUME NEW s \in Socket, RefuseConnection(s) PROVE SocketShape'
  BY <1>26 DEF RefuseConnection, Disturb, pageVars, SocketShape, PageTypes,
     ServerTypes
<1>27. QED
  BY <1>1, <1>2, <1>3, <1>4, <1>5, <1>6, <1>7, <1>8, <1>9, <1>10, <1>11, <1>12, <1>13,
     <1>14, <1>15, <1>16, <1>17, <1>18, <1>19, <1>20, <1>21, <1>22, <1>23, <1>24,
     <1>25, <1>26 DEF Next, PageNext, ServerNext, NetworkFails, RefuseConnection,
     socketVars

\* Only the frames of the newest request are taken.
LEMMA NewestStep ==
    ASSUME QueueTypes, PageTypes, SocketShape, NewestIsAsked, Next
    PROVE  NewestIsAsked'
<1>1. CASE SetMode /\ UNCHANGED pageVars
  BY <1>1 DEF SetMode, Disturb, socketVars, pageVars, NewestIsAsked, PageTypes,
     SocketShape
<1>2. CASE NotifyMode /\ UNCHANGED pageVars
  BY <1>2 DEF NotifyMode, socketVars, pageVars, NewestIsAsked, PageTypes, SocketShape
<1>3. CASE Shutdown /\ UNCHANGED pageVars
  BY <1>3 DEF Shutdown, Disturb, socketVars, pageVars, NewestIsAsked, PageTypes,
     SocketShape
<1>4. ASSUME NEW s \in Socket, SubscribeToMode(s) /\ UNCHANGED pageVars PROVE NewestIsAsked'
  BY <1>4 DEF SubscribeToMode, pageVars, NewestIsAsked, PageTypes, SocketShape
<1>5. ASSUME NEW s \in Socket, ReadMode(s) /\ UNCHANGED pageVars PROVE NewestIsAsked'
  BY <1>5 DEF ReadMode, Written, NotificationOf, pageVars, NewestIsAsked, PageTypes,
     SocketShape
<1>6. ASSUME NEW s \in Socket, ModeChanged(s) /\ UNCHANGED pageVars PROVE NewestIsAsked'
  BY <1>6 DEF ModeChanged, pageVars, NewestIsAsked, PageTypes, SocketShape
<1>7. ASSUME NEW s \in Socket, RereadMode(s) /\ UNCHANGED pageVars PROVE NewestIsAsked'
  BY <1>7 DEF RereadMode, Written, NotificationOf, pageVars, NewestIsAsked, PageTypes,
     SocketShape
<1>8. ASSUME NEW s \in Socket, EndWatcher(s) /\ UNCHANGED pageVars PROVE NewestIsAsked'
  BY <1>8 DEF EndWatcher, pageVars, NewestIsAsked, PageTypes, SocketShape
<1>9. ASSUME NEW s \in Socket, Accept(s) /\ UNCHANGED pageVars PROVE NewestIsAsked'
  BY <1>9 DEF Accept, pageVars, NewestIsAsked, PageTypes, SocketShape
<1>10. ASSUME NEW s \in Socket, ReceiveMessage(s) /\ UNCHANGED pageVars PROVE NewestIsAsked'
  BY <1>10 DEF ReceiveMessage, Serving, EndLoop, pageVars, NewestIsAsked, PageTypes,
     SocketShape
<1>11. ASSUME NEW s \in Socket, PingFails(s) /\ UNCHANGED pageVars PROVE NewestIsAsked'
  BY <1>11 DEF PingFails, EndLoop, pageVars, NewestIsAsked, PageTypes, SocketShape
<1>12. ASSUME NEW s \in Socket, CloseCancelled(s) /\ UNCHANGED pageVars PROVE NewestIsAsked'
  BY <1>12 DEF CloseCancelled, Serving, EndLoop, pageVars, NewestIsAsked, PageTypes,
     SocketShape
<1>13. ASSUME NEW s \in Socket, ShutdownCancelled(s) /\ UNCHANGED pageVars PROVE NewestIsAsked'
  BY <1>13 DEF ShutdownCancelled, Serving, EndLoop, pageVars, NewestIsAsked,
     PageTypes, SocketShape
<1>14. ASSUME NEW s \in Socket, HandleMessage(s) /\ UNCHANGED pageVars PROVE NewestIsAsked'
  BY <1>14 DEF HandlesMessage, HandleRequest, Register, HandleStop, HandleInvalid,
     Written, pageVars, NewestIsAsked, PageTypes, SocketShape
<1>15. ASSUME NEW t \in Task, Generate(t) /\ UNCHANGED pageVars PROVE NewestIsAsked'
  BY <1>15 DEF Generate, EndTask, Written, pageVars, NewestIsAsked, PageTypes,
     SocketShape
<1>16. ASSUME NEW t \in Task, StopTask(t) /\ UNCHANGED pageVars PROVE NewestIsAsked'
  BY <1>16 DEF StopTask, EndTask, pageVars, NewestIsAsked, PageTypes, SocketShape
<1>17. CASE SocketOpens
  <2>1. CASE prompt = 0
    BY <1>17, <2>1 DEF SocketOpens, NewestIsAsked
  <2>2. CASE prompt # 0
    <3>1. newest \in Nat /\ wire'[webSocket] = "open"
      BY <1>17, InferenceSocketAssumption DEF SocketOpens, PageTypes, Socket
    <3>2. newest' = newest + 1 /\ subscribed' = {newest + 1} /\ UNCHANGED <<answer, prompt, webSocket>>
      BY <1>17, <2>2 DEF SocketOpens, Ask
    <3>3. newest + 1 <= prompt + webSocket - 1
      BY <1>17, <2>2, <3>1 DEF SocketOpens, NewestIsAsked
    <3>4. \A i \in Id : answer[i] # "empty" => i <= newest + 1
      BY <3>1 DEF NewestIsAsked, Id
    <3>5. QED
      BY <2>2, <3>1, <3>2, <3>3, <3>4 DEF NewestIsAsked
  <2>3. QED
    BY <2>1, <2>2
<1>18. CASE SocketError
  BY <1>18 DEF SocketError, Reconnect, serverVars, NewestIsAsked, PageTypes,
     SocketShape
<1>19. CASE SocketCloses
  BY <1>19 DEF SocketCloses, Reconnect, serverVars, NewestIsAsked, PageTypes,
     SocketShape
<1>20. CASE ConnectAgain
  BY <1>20 DEF ConnectAgain, NewestIsAsked, PageTypes, SocketShape
<1>21. CASE Submit
  BY <1>21 DEF Submit, Ask, NewestIsAsked, PageTypes, SocketShape
<1>22. CASE TakeFrame
  <2>1. subscribed' \subseteq subscribed
    BY <1>22 DEF TakeFrame, TakeNotification, TakeResponse
  <2> DEFINE frame == Head(outbox[webSocket])
  <2>2. \/ answer' = answer
        \/ frame.id \in subscribed /\ answer' = [answer EXCEPT ![frame.id] = Scan(frame)]
    BY <1>22 DEF TakeFrame, TakeNotification, TakeResponse
  <2>3. UNCHANGED <<newest, prompt, wire, webSocket>>
    BY <1>22 DEF TakeFrame
  <2> HIDE DEF frame
  <2>4. \A i \in Id : answer'[i] # "empty" => i <= newest
    <3>1. frame.id \in subscribed => frame.id = newest
      BY DEF NewestIsAsked
    <3>2. newest \in Nat
      BY InferenceSocketAssumption DEF PageTypes
    <3>3. \A i \in Id : i # newest => answer'[i] = answer[i]
      BY <2>2, <3>1 DEF PageTypes
    <3>4. QED
      BY <3>2, <3>3 DEF NewestIsAsked, Id
  <2>5. QED
    BY <2>1, <2>3, <2>4 DEF NewestIsAsked
<1>23. CASE LeavePage
  BY <1>23 DEF LeavePage, Disturb, NewestIsAsked, PageTypes, SocketShape
<1>24. CASE AnyClientSends
  BY <1>24 DEF AnyClientSends, NewestIsAsked, PageTypes, SocketShape
<1>25. ASSUME NEW s \in Socket, LoseConnection(s) /\ UNCHANGED pageVars PROVE NewestIsAsked'
  BY <1>25 DEF LoseConnection, Disturb, pageVars, NewestIsAsked, PageTypes,
     SocketShape
<1>26. ASSUME NEW s \in Socket, RefuseConnection(s) PROVE NewestIsAsked'
  BY <1>26 DEF RefuseConnection, Disturb, pageVars, NewestIsAsked, PageTypes,
     SocketShape
<1>27. QED
  BY <1>1, <1>2, <1>3, <1>4, <1>5, <1>6, <1>7, <1>8, <1>9, <1>10, <1>11, <1>12, <1>13,
     <1>14, <1>15, <1>16, <1>17, <1>18, <1>19, <1>20, <1>21, <1>22, <1>23, <1>24,
     <1>25, <1>26 DEF Next, PageNext, ServerNext, NetworkFails, RefuseConnection,
     socketVars

\* The registry loses the task that ends.
LEMMA EndedIsGone ==
    ASSUME TaskTypes, RunningHasPlace, RunningIsStoppable, NEW t \in Task,
           task[t].status = "running", EndTask(t)
    PROVE  RunningIsStoppable'
<1> SUFFICES ASSUME NEW s \in Socket, NEW i \in Id, NEW u \in Task
             PROVE  (registry'[s][i] = u) <=> (task'[u].status = "running" /\ task'[u].socket = s
                                               /\ task'[u].id = i)
  BY DEF RunningIsStoppable
<1>1. task[t].socket \in Socket /\ task[t].id \in Id
  BY DEF RunningHasPlace
<1>2. registry[task[t].socket][task[t].id] = t
  BY <1>1 DEF RunningIsStoppable
<1>3. CASE u = t
  <2>1. task'[u].status = "ended"
    BY <1>3 DEF EndTask, TaskTypes
  <2>2. registry'[s][i] # u
    <3>1. CASE s = task[t].socket /\ i = task[t].id
      <4>1. registry'[s][i] = 0
        BY <1>1, <3>1 DEF EndTask, TaskTypes
      <4>2. QED
        BY <4>1 DEF Task
    <3>2. CASE ~(s = task[t].socket /\ i = task[t].id)
      <4>1. registry'[s][i] = registry[s][i]
        BY <1>1, <3>2 DEF EndTask, TaskTypes
      <4>2. QED
        BY <1>3, <3>2, <4>1 DEF RunningIsStoppable
    <3>3. QED
      BY <3>1, <3>2
  <2>3. QED
    BY <2>1, <2>2
<1>4. CASE u # t
  <2>1. task'[u] = task[u]
    BY <1>4 DEF EndTask, TaskTypes
  <2>2. (registry'[s][i] = u) <=> (registry[s][i] = u)
    <3>1. CASE s = task[t].socket /\ i = task[t].id
      <4>1. registry'[s][i] = 0 /\ registry[s][i] = t
        BY <1>1, <1>2, <3>1 DEF EndTask, TaskTypes
      <4>2. QED
        BY <1>4, <4>1 DEF Task
    <3>2. CASE ~(s = task[t].socket /\ i = task[t].id)
      BY <1>1, <3>2 DEF EndTask, TaskTypes
    <3>3. QED
      BY <3>1, <3>2
  <2>3. QED
    BY <2>1, <2>2 DEF RunningIsStoppable
<1>5. QED
  BY <1>3, <1>4

\* The registry has the tasks that run.
LEMMA RegistryStep ==
    ASSUME QueueTypes, TaskTypes, HandlersAreSpawned, RunningHasPlace,
           RunningIsStoppable, Next
    PROVE  RunningIsStoppable'
<1>1. CASE SetMode /\ UNCHANGED pageVars
  BY <1>1 DEF SetMode, Disturb, socketVars, pageVars, RunningIsStoppable
<1>2. CASE NotifyMode /\ UNCHANGED pageVars
  BY <1>2 DEF NotifyMode, socketVars, pageVars, RunningIsStoppable
<1>3. CASE Shutdown /\ UNCHANGED pageVars
  BY <1>3 DEF Shutdown, Disturb, socketVars, pageVars, RunningIsStoppable
<1>4. ASSUME NEW s \in Socket, SubscribeToMode(s) /\ UNCHANGED pageVars PROVE RunningIsStoppable'
  BY <1>4 DEF SubscribeToMode, pageVars, RunningIsStoppable
<1>5. ASSUME NEW s \in Socket, ReadMode(s) /\ UNCHANGED pageVars PROVE RunningIsStoppable'
  BY <1>5 DEF ReadMode, Written, NotificationOf, pageVars, RunningIsStoppable
<1>6. ASSUME NEW s \in Socket, ModeChanged(s) /\ UNCHANGED pageVars PROVE RunningIsStoppable'
  BY <1>6 DEF ModeChanged, pageVars, RunningIsStoppable
<1>7. ASSUME NEW s \in Socket, RereadMode(s) /\ UNCHANGED pageVars PROVE RunningIsStoppable'
  BY <1>7 DEF RereadMode, Written, NotificationOf, pageVars, RunningIsStoppable
<1>8. ASSUME NEW s \in Socket, EndWatcher(s) /\ UNCHANGED pageVars PROVE RunningIsStoppable'
  BY <1>8 DEF EndWatcher, pageVars, RunningIsStoppable
<1>9. ASSUME NEW s \in Socket, Accept(s) /\ UNCHANGED pageVars PROVE RunningIsStoppable'
  BY <1>9 DEF Accept, pageVars, RunningIsStoppable
<1>10. ASSUME NEW s \in Socket, ReceiveMessage(s) /\ UNCHANGED pageVars PROVE RunningIsStoppable'
  BY <1>10 DEF ReceiveMessage, Serving, EndLoop, pageVars, RunningIsStoppable
<1>11. ASSUME NEW s \in Socket, PingFails(s) /\ UNCHANGED pageVars PROVE RunningIsStoppable'
  BY <1>11 DEF PingFails, EndLoop, pageVars, RunningIsStoppable
<1>12. ASSUME NEW s \in Socket, CloseCancelled(s) /\ UNCHANGED pageVars PROVE RunningIsStoppable'
  BY <1>12 DEF CloseCancelled, Serving, EndLoop, pageVars, RunningIsStoppable
<1>13. ASSUME NEW s \in Socket, ShutdownCancelled(s) /\ UNCHANGED pageVars PROVE RunningIsStoppable'
  BY <1>13 DEF ShutdownCancelled, Serving, EndLoop, pageVars, RunningIsStoppable
<1>14. ASSUME NEW s \in Socket, HandleMessage(s) /\ UNCHANGED pageVars PROVE RunningIsStoppable'
  <2>1. HandlesMessage(s)
    BY <1>14, MessageIsHandled
  <2>2. CASE UNCHANGED <<registry, task>>
    BY <2>2 DEF RunningIsStoppable
  <2>3. CASE \E id \in Id : HandleStop(s, id)
    <3>1. PICK id \in Id : HandleStop(s, id)
      BY <2>3
    <3>2. registry' = registry
      BY <3>1 DEF HandleStop
    <3>3. \A u \in Task : /\ task'[u].status = task[u].status /\ task'[u].socket = task[u].socket
                          /\ task'[u].id = task[u].id
      BY <3>1 DEF HandleStop, TaskTypes
    <3>4. QED
      BY <3>2, <3>3 DEF RunningIsStoppable
  <2>4. CASE \E id \in Id : HandleRequest(s, id) /\ ~UNCHANGED <<registry, task>>
    <3>1. PICK id \in Id, u \in Task :
             /\ registry[s][id] = 0 /\ task[u].status = "none"
             /\ registry' = [registry EXCEPT ![s][id] = u]
             /\ task' = [task EXCEPT ![u] = [socket |-> s, id |-> id, sent |-> 0,
                                             status |-> "running", cancelled |-> FALSE]]
      BY <2>4 DEF HandleRequest, Register, Fresh
    <3>2. ASSUME NEW other \in Socket, NEW i \in Id, NEW w \in Task
          PROVE  (registry'[other][i] = w) <=>
                 (task'[w].status = "running" /\ task'[w].socket = other /\ task'[w].id = i)
      <4>1. CASE w = u
        <5>1. task'[w].status = "running" /\ task'[w].socket = s /\ task'[w].id = id
          BY <3>1, <4>1 DEF TaskTypes
        <5>2. registry[other][i] # w
          BY <3>1, <4>1 DEF RunningIsStoppable
        <5>3. QED
          BY <3>1, <4>1, <5>1, <5>2 DEF TaskTypes
      <4>2. CASE w # u
        <5>1. task'[w] = task[w]
          BY <3>1, <4>2 DEF TaskTypes
        <5>2. w # 0
          BY DEF Task
        <5>3. (registry'[other][i] = w) <=> (registry[other][i] = w)
          BY <3>1, <4>2, <5>2 DEF TaskTypes
        <5>4. QED
          BY <5>1, <5>3 DEF RunningIsStoppable
      <4>3. QED
        BY <4>1, <4>2
    <3>3. QED
      BY <3>2 DEF RunningIsStoppable
  <2>5. QED
    BY <2>1, <2>2, <2>3, <2>4 DEF HandlesMessage, HandleInvalid
<1>15. ASSUME NEW t \in Task, Generate(t) /\ UNCHANGED pageVars PROVE RunningIsStoppable'
  <2>1. CASE task' = [task EXCEPT ![t].sent = 1] /\ UNCHANGED registry
    BY <2>1 DEF TaskTypes, RunningIsStoppable
  <2>2. CASE EndTask(t)
    BY <1>15, <2>2, EndedIsGone DEF Generate
  <2>3. QED
    BY <1>15, <2>1, <2>2 DEF Generate
<1>16. ASSUME NEW t \in Task, StopTask(t) /\ UNCHANGED pageVars PROVE RunningIsStoppable'
  BY <1>16, EndedIsGone DEF StopTask
<1>17. CASE SocketOpens
  BY <1>17 DEF SocketOpens, Ask, RunningIsStoppable
<1>18. CASE SocketError
  BY <1>18 DEF SocketError, Reconnect, serverVars, RunningIsStoppable
<1>19. CASE SocketCloses
  BY <1>19 DEF SocketCloses, Reconnect, serverVars, RunningIsStoppable
<1>20. CASE ConnectAgain
  <2>1. UNCHANGED <<registry, task>>
    BY <1>20 DEF ConnectAgain
  <2>2. QED
    BY <2>1 DEF RunningIsStoppable
<1>21. CASE Submit
  BY <1>21 DEF Submit, Ask, RunningIsStoppable
<1>22. CASE TakeFrame
  BY <1>22 DEF TakeFrame, TakeNotification, TakeResponse, Scan, RunningIsStoppable
<1>23. CASE LeavePage
  BY <1>23 DEF LeavePage, Disturb, RunningIsStoppable
<1>24. CASE AnyClientSends
  BY <1>24 DEF AnyClientSends, RunningIsStoppable
<1>25. ASSUME NEW s \in Socket, LoseConnection(s) /\ UNCHANGED pageVars PROVE RunningIsStoppable'
  BY <1>25 DEF LoseConnection, Disturb, pageVars, RunningIsStoppable
<1>26. ASSUME NEW s \in Socket, RefuseConnection(s) PROVE RunningIsStoppable'
  BY <1>26 DEF RefuseConnection, Disturb, pageVars, RunningIsStoppable
<1>27. QED
  BY <1>1, <1>2, <1>3, <1>4, <1>5, <1>6, <1>7, <1>8, <1>9, <1>10, <1>11, <1>12, <1>13,
     <1>14, <1>15, <1>16, <1>17, <1>18, <1>19, <1>20, <1>21, <1>22, <1>23, <1>24,
     <1>25, <1>26 DEF Next, PageNext, ServerNext, NetworkFails, RefuseConnection,
     socketVars

\* The answer that is shown is the newest prompt's.
LEMMA AnswerStep ==
    ASSUME QueueTypes, PageTypes, SocketShape, NewestIsAsked, AnswerBelongsToPrompt,
           Next
    PROVE  AnswerBelongsToPrompt'
<1>1. CASE SetMode /\ UNCHANGED pageVars
  BY <1>1 DEF SetMode, Disturb, socketVars, pageVars, AnswerBelongsToPrompt,
     NewestIsAsked, PageTypes
<1>2. CASE NotifyMode /\ UNCHANGED pageVars
  BY <1>2 DEF NotifyMode, socketVars, pageVars, AnswerBelongsToPrompt, NewestIsAsked,
     PageTypes
<1>3. CASE Shutdown /\ UNCHANGED pageVars
  BY <1>3 DEF Shutdown, Disturb, socketVars, pageVars, AnswerBelongsToPrompt,
     NewestIsAsked, PageTypes
<1>4. ASSUME NEW s \in Socket, SubscribeToMode(s) /\ UNCHANGED pageVars PROVE AnswerBelongsToPrompt'
  BY <1>4 DEF SubscribeToMode, pageVars, AnswerBelongsToPrompt, NewestIsAsked,
     PageTypes
<1>5. ASSUME NEW s \in Socket, ReadMode(s) /\ UNCHANGED pageVars PROVE AnswerBelongsToPrompt'
  BY <1>5 DEF ReadMode, Written, NotificationOf, pageVars, AnswerBelongsToPrompt,
     NewestIsAsked, PageTypes
<1>6. ASSUME NEW s \in Socket, ModeChanged(s) /\ UNCHANGED pageVars PROVE AnswerBelongsToPrompt'
  BY <1>6 DEF ModeChanged, pageVars, AnswerBelongsToPrompt, NewestIsAsked, PageTypes
<1>7. ASSUME NEW s \in Socket, RereadMode(s) /\ UNCHANGED pageVars PROVE AnswerBelongsToPrompt'
  BY <1>7 DEF RereadMode, Written, NotificationOf, pageVars, AnswerBelongsToPrompt,
     NewestIsAsked, PageTypes
<1>8. ASSUME NEW s \in Socket, EndWatcher(s) /\ UNCHANGED pageVars PROVE AnswerBelongsToPrompt'
  BY <1>8 DEF EndWatcher, pageVars, AnswerBelongsToPrompt, NewestIsAsked, PageTypes
<1>9. ASSUME NEW s \in Socket, Accept(s) /\ UNCHANGED pageVars PROVE AnswerBelongsToPrompt'
  BY <1>9 DEF Accept, pageVars, AnswerBelongsToPrompt, NewestIsAsked, PageTypes
<1>10. ASSUME NEW s \in Socket, ReceiveMessage(s) /\ UNCHANGED pageVars PROVE AnswerBelongsToPrompt'
  BY <1>10 DEF ReceiveMessage, Serving, EndLoop, pageVars, AnswerBelongsToPrompt,
     NewestIsAsked, PageTypes
<1>11. ASSUME NEW s \in Socket, PingFails(s) /\ UNCHANGED pageVars PROVE AnswerBelongsToPrompt'
  BY <1>11 DEF PingFails, EndLoop, pageVars, AnswerBelongsToPrompt, NewestIsAsked,
     PageTypes
<1>12. ASSUME NEW s \in Socket, CloseCancelled(s) /\ UNCHANGED pageVars PROVE AnswerBelongsToPrompt'
  BY <1>12 DEF CloseCancelled, Serving, EndLoop, pageVars, AnswerBelongsToPrompt,
     NewestIsAsked, PageTypes
<1>13. ASSUME NEW s \in Socket, ShutdownCancelled(s) /\ UNCHANGED pageVars PROVE AnswerBelongsToPrompt'
  BY <1>13 DEF ShutdownCancelled, Serving, EndLoop, pageVars, AnswerBelongsToPrompt,
     NewestIsAsked, PageTypes
<1>14. ASSUME NEW s \in Socket, HandleMessage(s) /\ UNCHANGED pageVars PROVE AnswerBelongsToPrompt'
  BY <1>14 DEF HandlesMessage, HandleRequest, Register, HandleStop, HandleInvalid,
     Written, pageVars, AnswerBelongsToPrompt, NewestIsAsked, PageTypes
<1>15. ASSUME NEW t \in Task, Generate(t) /\ UNCHANGED pageVars PROVE AnswerBelongsToPrompt'
  BY <1>15 DEF Generate, EndTask, Written, pageVars, AnswerBelongsToPrompt,
     NewestIsAsked, PageTypes
<1>16. ASSUME NEW t \in Task, StopTask(t) /\ UNCHANGED pageVars PROVE AnswerBelongsToPrompt'
  BY <1>16 DEF StopTask, EndTask, pageVars, AnswerBelongsToPrompt, NewestIsAsked,
     PageTypes
<1>17. CASE SocketOpens
  <2>1. CASE prompt = 0
    BY <1>17, <2>1 DEF SocketOpens, NewestIsAsked, AnswerBelongsToPrompt
  <2>2. CASE prompt # 0
    <3>1. newest' = newest + 1 /\ answer' = answer /\ newest \in Nat /\ newest + 1 \in Id
      BY <1>17, <2>2, AskedIsCounted, InferenceSocketAssumption DEF SocketOpens, Ask, PageTypes
    <3>2. answer[newest + 1] = "empty"
      BY <3>1 DEF NewestIsAsked
    <3>3. QED
      BY <3>1, <3>2 DEF AnswerBelongsToPrompt
  <2>3. QED
    BY <2>1, <2>2
<1>18. CASE SocketError
  BY <1>18 DEF SocketError, Reconnect, serverVars, AnswerBelongsToPrompt,
     NewestIsAsked, PageTypes
<1>19. CASE SocketCloses
  BY <1>19 DEF SocketCloses, Reconnect, serverVars, AnswerBelongsToPrompt,
     NewestIsAsked, PageTypes
<1>20. CASE ConnectAgain
  BY <1>20 DEF ConnectAgain, AnswerBelongsToPrompt, NewestIsAsked, PageTypes
<1>21. CASE Submit
  <2>1. newest' = newest + 1 /\ answer' = answer /\ newest \in Nat /\ newest + 1 \in Id
    BY <1>21, AskedIsCounted, InferenceSocketAssumption DEF Submit, Ask, PageTypes
  <2>2. answer[newest + 1] = "empty"
    BY <2>1 DEF NewestIsAsked
  <2>3. QED
    BY <2>1, <2>2 DEF AnswerBelongsToPrompt
<1>22. CASE TakeFrame
  <2> DEFINE frame == Head(outbox[webSocket])
  <2>1. \/ answer' = answer /\ shown' = shown
        \/ frame.id \in subscribed /\ shown' = frame.id
    BY <1>22 DEF TakeFrame, TakeNotification, TakeResponse
  <2>2. UNCHANGED <<newest, socketState>>
    BY <1>22 DEF TakeFrame
  <2>3. frame.id \in subscribed => frame.id = newest
    BY DEF NewestIsAsked
  <2> HIDE DEF frame
  <2>4. QED
    BY <2>1, <2>2, <2>3 DEF AnswerBelongsToPrompt
<1>23. CASE LeavePage
  BY <1>23 DEF LeavePage, Disturb, AnswerBelongsToPrompt, NewestIsAsked, PageTypes
<1>24. CASE AnyClientSends
  BY <1>24 DEF AnyClientSends, AnswerBelongsToPrompt, NewestIsAsked, PageTypes
<1>25. ASSUME NEW s \in Socket, LoseConnection(s) /\ UNCHANGED pageVars PROVE AnswerBelongsToPrompt'
  BY <1>25 DEF LoseConnection, Disturb, pageVars, AnswerBelongsToPrompt,
     NewestIsAsked, PageTypes
<1>26. ASSUME NEW s \in Socket, RefuseConnection(s) PROVE AnswerBelongsToPrompt'
  BY <1>26 DEF RefuseConnection, Disturb, pageVars, AnswerBelongsToPrompt,
     NewestIsAsked, PageTypes
<1>27. QED
  BY <1>1, <1>2, <1>3, <1>4, <1>5, <1>6, <1>7, <1>8, <1>9, <1>10, <1>11, <1>12, <1>13,
     <1>14, <1>15, <1>16, <1>17, <1>18, <1>19, <1>20, <1>21, <1>22, <1>23, <1>24,
     <1>25, <1>26 DEF Next, PageNext, ServerNext, NetworkFails, RefuseConnection,
     socketVars

\* A watcher that waits has the mode of the version it has seen.
LEMMA WatcherStep ==
    ASSUME ServerTypes, VersionsAreCounted, WatcherIsCurrent, Next
    PROVE  WatcherIsCurrent'
<1>1. CASE SetMode /\ UNCHANGED pageVars
  BY <1>1 DEF SetMode, Disturb, socketVars, pageVars, WatcherIsCurrent, ServerTypes
<1>2. CASE NotifyMode /\ UNCHANGED pageVars
  <2>1. \A s \in Socket : seen'[s] # modeVersion'
    <3>1. modeVersion' = modeVersion + 1 /\ seen' = seen
      BY <1>2 DEF NotifyMode, socketVars
    <3>2. QED
      BY <3>1 DEF VersionsAreCounted, ServerTypes
  <2>2. QED
    BY <2>1 DEF WatcherIsCurrent
<1>3. CASE Shutdown /\ UNCHANGED pageVars
  BY <1>3 DEF Shutdown, Disturb, socketVars, pageVars, WatcherIsCurrent, ServerTypes
<1>4. ASSUME NEW s \in Socket, SubscribeToMode(s) /\ UNCHANGED pageVars PROVE WatcherIsCurrent'
  BY <1>4 DEF SubscribeToMode, pageVars, WatcherIsCurrent, ServerTypes
<1>5. ASSUME NEW s \in Socket, ReadMode(s) /\ UNCHANGED pageVars PROVE WatcherIsCurrent'
  BY <1>5 DEF ReadMode, Written, NotificationOf, pageVars, WatcherIsCurrent,
     ServerTypes
<1>6. ASSUME NEW s \in Socket, ModeChanged(s) /\ UNCHANGED pageVars PROVE WatcherIsCurrent'
  BY <1>6 DEF ModeChanged, pageVars, WatcherIsCurrent, ServerTypes
<1>7. ASSUME NEW s \in Socket, RereadMode(s) /\ UNCHANGED pageVars PROVE WatcherIsCurrent'
  BY <1>7 DEF RereadMode, Written, NotificationOf, pageVars, WatcherIsCurrent,
     ServerTypes
<1>8. ASSUME NEW s \in Socket, EndWatcher(s) /\ UNCHANGED pageVars PROVE WatcherIsCurrent'
  BY <1>8 DEF EndWatcher, pageVars, WatcherIsCurrent, ServerTypes
<1>9. ASSUME NEW s \in Socket, Accept(s) /\ UNCHANGED pageVars PROVE WatcherIsCurrent'
  BY <1>9 DEF Accept, pageVars, WatcherIsCurrent, ServerTypes
<1>10. ASSUME NEW s \in Socket, ReceiveMessage(s) /\ UNCHANGED pageVars PROVE WatcherIsCurrent'
  BY <1>10 DEF ReceiveMessage, Serving, EndLoop, pageVars, WatcherIsCurrent,
     ServerTypes
<1>11. ASSUME NEW s \in Socket, PingFails(s) /\ UNCHANGED pageVars PROVE WatcherIsCurrent'
  BY <1>11 DEF PingFails, EndLoop, pageVars, WatcherIsCurrent, ServerTypes
<1>12. ASSUME NEW s \in Socket, CloseCancelled(s) /\ UNCHANGED pageVars PROVE WatcherIsCurrent'
  BY <1>12 DEF CloseCancelled, Serving, EndLoop, pageVars, WatcherIsCurrent,
     ServerTypes
<1>13. ASSUME NEW s \in Socket, ShutdownCancelled(s) /\ UNCHANGED pageVars PROVE WatcherIsCurrent'
  BY <1>13 DEF ShutdownCancelled, Serving, EndLoop, pageVars, WatcherIsCurrent,
     ServerTypes
<1>14. ASSUME NEW s \in Socket, HandleMessage(s) /\ UNCHANGED pageVars PROVE WatcherIsCurrent'
  BY <1>14 DEF HandleMessage, WatcherIsCurrent
<1>15. ASSUME NEW t \in Task, Generate(t) /\ UNCHANGED pageVars PROVE WatcherIsCurrent'
  BY <1>15 DEF Generate, EndTask, Written, pageVars, WatcherIsCurrent, ServerTypes
<1>16. ASSUME NEW t \in Task, StopTask(t) /\ UNCHANGED pageVars PROVE WatcherIsCurrent'
  BY <1>16 DEF StopTask, EndTask, pageVars, WatcherIsCurrent, ServerTypes
<1>17. CASE SocketOpens
  BY <1>17 DEF SocketOpens, Ask, WatcherIsCurrent, ServerTypes
<1>18. CASE SocketError
  BY <1>18 DEF SocketError, Reconnect, serverVars, WatcherIsCurrent, ServerTypes
<1>19. CASE SocketCloses
  BY <1>19 DEF SocketCloses, Reconnect, serverVars, WatcherIsCurrent, ServerTypes
<1>20. CASE ConnectAgain
  BY <1>20 DEF ConnectAgain, WatcherIsCurrent, ServerTypes
<1>21. CASE Submit
  BY <1>21 DEF Submit, Ask, WatcherIsCurrent, ServerTypes
<1>22. CASE TakeFrame
  BY <1>22 DEF TakeFrame, TakeNotification, TakeResponse, Scan, WatcherIsCurrent,
     ServerTypes
<1>23. CASE LeavePage
  BY <1>23 DEF LeavePage, Disturb, WatcherIsCurrent, ServerTypes
<1>24. CASE AnyClientSends
  BY <1>24 DEF AnyClientSends, WatcherIsCurrent, ServerTypes
<1>25. ASSUME NEW s \in Socket, LoseConnection(s) /\ UNCHANGED pageVars PROVE WatcherIsCurrent'
  BY <1>25 DEF LoseConnection, Disturb, pageVars, WatcherIsCurrent, ServerTypes
<1>26. ASSUME NEW s \in Socket, RefuseConnection(s) PROVE WatcherIsCurrent'
  BY <1>26 DEF RefuseConnection, Disturb, pageVars, WatcherIsCurrent, ServerTypes
<1>27. QED
  BY <1>1, <1>2, <1>3, <1>4, <1>5, <1>6, <1>7, <1>8, <1>9, <1>10, <1>11, <1>12, <1>13,
     <1>14, <1>15, <1>16, <1>17, <1>18, <1>19, <1>20, <1>21, <1>22, <1>23, <1>24,
     <1>25, <1>26 DEF Next, PageNext, ServerNext, NetworkFails, RefuseConnection,
     socketVars

\* What is told last stays so when a frame of a request is appended.
LEMMA ToldBeforeFrame ==
    ASSUME NEW frames \in Seq(Frame), NEW d, NEW m, NEW frame \in Frame, frame.id # 0
    PROVE  /\ ToldLast(frames, d, m) => ToldLast(Append(frames, frame), d, m)
           /\ NoNotification(frames) => NoNotification(Append(frames, frame))
<1> DEFINE more == Append(frames, frame)
<1>1. /\ DOMAIN more = DOMAIN frames \cup {Len(frames) + 1}
      /\ \A i \in DOMAIN frames : more[i] = frames[i]
      /\ more[Len(frames) + 1] = frame
  BY QueueEnd
<1> HIDE DEF more
<1>2. NoNotification(more) <=> NoNotification(frames)
  BY <1>1 DEF NoNotification
<1>3. ASSUME NEW i \in DOMAIN frames, frames[i] = NotificationOf(m),
             \A j \in DOMAIN frames : j > i => frames[j].id # 0
      PROVE  i \in DOMAIN more /\ more[i] = NotificationOf(m)
             /\ \A j \in DOMAIN more : j > i => more[j].id # 0
  BY <1>1, <1>3
<1>4. ToldLast(frames, d, m) => ToldLast(more, d, m)
  BY <1>2, <1>3 DEF ToldLast
<1>5. QED
  BY <1>2, <1>4 DEF more

\* The notification that is appended is what is told last.
LEMMA ToldByNotification ==
    ASSUME NEW frames \in Seq(Frame), NEW d, NEW m \in Mode
    PROVE  ToldLast(Append(frames, NotificationOf(m)), d, m)
<1> DEFINE more == Append(frames, NotificationOf(m))
<1>1. NotificationOf(m) \in Frame /\ NotificationOf(m).id = 0
  BY DEF NotificationOf, Frame
<1>2. /\ DOMAIN more = DOMAIN frames \cup {Len(frames) + 1}
      /\ \A i \in DOMAIN frames : i < Len(frames) + 1
      /\ more[Len(frames) + 1] = NotificationOf(m)
      /\ Len(frames) \in Nat
  BY <1>1, QueueEnd
<1> HIDE DEF more
<1>3. ~NoNotification(more)
  BY <1>1, <1>2 DEF NoNotification
<1>4. \A j \in DOMAIN more : ~(j > Len(frames) + 1)
  <2>1. DOMAIN frames \subseteq Nat
    BY LenProperties
  <2>2. QED
    BY <1>2, <2>1
<1>5. ToldLast(more, d, m)
  BY <1>2, <1>3, <1>4 DEF ToldLast
<1>6. QED
  BY <1>5 DEF more

\* The first frame is taken: a notification becomes the notice, another leaves it.
LEMMA ToldAfterFirst ==
    ASSUME NEW frames \in Seq(Frame), frames # <<>>, NEW d, NEW m \in Mode, ToldLast(frames, d, m)
    PROVE  /\ Head(frames).id # 0 => ToldLast(Tail(frames), d, m)
           /\ Head(frames).id = 0 =>
                 ToldLast(Tail(frames), Head(frames).kind = "TokenGenerationDisabled", m)
<1> DEFINE first == Head(frames)
           rest == Tail(frames)
<1>1. /\ first = frames[1] /\ 1 \in DOMAIN frames
      /\ \A i \in DOMAIN rest : i + 1 \in DOMAIN frames /\ rest[i] = frames[i + 1]
      /\ \A i \in DOMAIN frames : i # 1 => i - 1 \in DOMAIN rest /\ rest[i - 1] = frames[i]
      /\ DOMAIN frames \subseteq Nat \ {0} /\ DOMAIN rest \subseteq Nat \ {0}
  BY QueueHead
<1> HIDE DEF first, rest
<1>2. CASE ~NoNotification(rest)
  <2>1. ~NoNotification(frames)
    BY <1>1, <1>2 DEF NoNotification
  <2>2. PICK i \in DOMAIN frames : /\ frames[i] = NotificationOf(m)
                                   /\ \A j \in DOMAIN frames : j > i => frames[j].id # 0
    BY <2>1 DEF ToldLast
  <2>3. i # 1
    <3>1. PICK k \in DOMAIN rest : rest[k].id = 0
      BY <1>2 DEF NoNotification
    <3>2. k + 1 \in DOMAIN frames /\ frames[k + 1].id = 0 /\ k + 1 > 1
      BY <1>1, <3>1
    <3>3. QED
      BY <2>2, <3>2
  <2>4. i - 1 \in DOMAIN rest /\ rest[i - 1] = NotificationOf(m)
    BY <1>1, <2>2, <2>3
  <2>5. \A j \in DOMAIN rest : j > i - 1 => rest[j].id # 0
    <3>1. SUFFICES ASSUME NEW j \in DOMAIN rest, j > i - 1 PROVE rest[j].id # 0
      OBVIOUS
    <3>2. j + 1 \in DOMAIN frames /\ rest[j] = frames[j + 1] /\ j + 1 > i
      BY <1>1, <3>1
    <3>3. QED
      BY <2>2, <3>2
  <2>6. \A e : ToldLast(rest, e, m)
    BY <1>2, <2>4, <2>5 DEF ToldLast
  <2>7. QED
    BY <2>6 DEF first, rest
<1>3. CASE NoNotification(rest) /\ first.id # 0
  <2>1. NoNotification(frames)
    BY <1>1, <1>3 DEF NoNotification
  <2>2. ToldLast(rest, d, m)
    BY <1>3, <2>1 DEF ToldLast
  <2>3. QED
    BY <1>3, <2>2 DEF first, rest
<1>4. CASE NoNotification(rest) /\ first.id = 0
  <2>1. ~NoNotification(frames)
    BY <1>1, <1>4 DEF NoNotification
  <2>2. PICK i \in DOMAIN frames : frames[i] = NotificationOf(m)
    BY <2>1 DEF ToldLast
  <2>3. NotificationOf(m).id = 0
    BY DEF NotificationOf
  <2>4. i = 1
    BY <1>1, <1>4, <2>2, <2>3 DEF NoNotification
  <2>5. first = NotificationOf(m)
    BY <1>1, <2>2, <2>4
  <2>6. (NotificationOf(m).kind = "TokenGenerationDisabled") = (m = "DisabledForEmbeddings")
    BY DEF NotificationOf, Mode
  <2>7. ToldLast(rest, first.kind = "TokenGenerationDisabled", m)
    BY <1>4, <2>5, <2>6 DEF ToldLast
  <2>8. QED
    BY <1>4, <2>7 DEF first, rest
<1>5. QED
  BY <1>2, <1>3, <1>4

\* The notice follows through steps that leave the watchers and the notice alone and
\* write at most a frame of a request.
LEMMA NoticeUnmoved ==
    ASSUME QueueTypes, NoticeFollows, UNCHANGED <<conn, watcher, lastMode, webSocket, disabled>>,
           NEW s \in Socket,
           outbox' = outbox \/ \E frame \in Frame : frame.id # 0 /\ outbox' = Written(s, frame)
    PROVE  NoticeFollows'
<1>1. SUFFICES ASSUME NEW other \in Socket, other = webSocket
               PROVE  /\ watcher[other] \in {"none", "start", "read"} =>
                            NoNotification(outbox'[other]) /\ disabled = FALSE
                      /\ conn[other] = "open" /\ watcher[other] \in {"wait", "reread"} =>
                            ToldLast(outbox'[other], disabled, lastMode[other])
  BY DEF NoticeFollows
<1>2. \/ outbox'[other] = outbox[other]
      \/ \E frame \in Frame : frame.id # 0 /\ outbox'[other] = Append(outbox[other], frame)
  BY DEF Written, QueueTypes
<1>3. outbox[other] \in Seq(Frame)
  BY DEF QueueTypes
<1>4. \A frame \in Frame : frame.id # 0 =>
         /\ ToldLast(outbox[other], disabled, lastMode[other]) =>
               ToldLast(Append(outbox[other], frame), disabled, lastMode[other])
         /\ NoNotification(outbox[other]) => NoNotification(Append(outbox[other], frame))
  BY <1>3, ToldBeforeFrame
<1>5. QED
  BY <1>1, <1>2, <1>4 DEF NoticeFollows

\* What the page was told last is the mode the watcher of its socket read last.
LEMMA NoticeStep ==
    ASSUME ServerTypes, QueueTypes, PageTypes, HandlersAreSpawned, RunningHasPlace,
           SocketShape, NoticeFollows, Next
    PROVE  NoticeFollows'
<1>1. CASE SetMode /\ UNCHANGED pageVars
  BY <1>1 DEF SetMode, Disturb, socketVars, pageVars, NoticeFollows, ServerTypes
<1>2. CASE NotifyMode /\ UNCHANGED pageVars
  BY <1>2 DEF NotifyMode, socketVars, pageVars, NoticeFollows, ServerTypes
<1>3. CASE Shutdown /\ UNCHANGED pageVars
  BY <1>3 DEF Shutdown, Disturb, socketVars, pageVars, NoticeFollows, ServerTypes
<1>4. ASSUME NEW s \in Socket, SubscribeToMode(s) /\ UNCHANGED pageVars PROVE NoticeFollows'
  BY <1>4 DEF SubscribeToMode, pageVars, NoticeFollows, ServerTypes
<1>5. ASSUME NEW s \in Socket, ReadMode(s) /\ UNCHANGED pageVars PROVE NoticeFollows'
  <2>1. /\ UNCHANGED <<conn, webSocket, disabled>>
        /\ outbox' = IF mode = "DisabledForEmbeddings" THEN Written(s, NotificationOf(mode)) ELSE outbox
        /\ lastMode' = [lastMode EXCEPT ![s] = mode]
        /\ watcher[s] = "read" /\ watcher'[s] \in {"wait", "over"}
        /\ \A other \in Socket : other # s => watcher'[other] = watcher[other]
    BY <1>5 DEF ReadMode, pageVars, ServerTypes
  <2>2. ASSUME NEW other \in Socket, other = webSocket
        PROVE  /\ watcher'[other] \in {"none", "start", "read"} =>
                     NoNotification(outbox'[other]) /\ disabled = FALSE
               /\ conn[other] = "open" /\ watcher'[other] \in {"wait", "reread"} =>
                     ToldLast(outbox'[other], disabled, lastMode'[other])
    <3>1. CASE other # s
      <4>1. outbox'[other] = outbox[other] /\ lastMode'[other] = lastMode[other]
        BY <2>1, <3>1 DEF Written, QueueTypes, ServerTypes
      <4>2. QED
        BY <2>1, <2>2, <3>1, <4>1 DEF NoticeFollows
    <3>2. CASE other = s /\ conn[s] = "open" /\ (mode = "DisabledForEmbeddings")
      <4>1. outbox'[s] = Append(outbox[s], NotificationOf(mode)) /\ lastMode'[s] = mode
        BY <2>1, <3>2 DEF Written, QueueTypes, ServerTypes
      <4>2. ToldLast(outbox'[s], disabled, mode)
        BY <4>1, ToldByNotification DEF QueueTypes, ServerTypes
      <4>3. QED
        BY <2>1, <3>2, <4>1, <4>2
    <3>3. CASE other = s /\ conn[s] = "open" /\ ~(mode = "DisabledForEmbeddings")
      <4>1. outbox'[s] = outbox[s] /\ lastMode'[s] = mode
        BY <2>1, <3>3 DEF ServerTypes
      <4>2. ToldLast(outbox[s], disabled, mode)
        BY <2>1, <2>2, <3>3 DEF NoticeFollows, ToldLast
      <4>3. QED
        BY <2>1, <3>3, <4>1, <4>2
    <3>4. CASE other = s /\ conn[s] # "open"
      BY <2>1, <3>4
    <3>5. QED
      BY <3>1, <3>2, <3>3, <3>4
  <2>3. QED
    BY <2>1, <2>2 DEF NoticeFollows
<1>6. ASSUME NEW s \in Socket, ModeChanged(s) /\ UNCHANGED pageVars PROVE NoticeFollows'
  BY <1>6 DEF ModeChanged, pageVars, NoticeFollows, ServerTypes
<1>7. ASSUME NEW s \in Socket, RereadMode(s) /\ UNCHANGED pageVars PROVE NoticeFollows'
  <2>1. /\ UNCHANGED <<conn, webSocket, disabled>>
        /\ outbox' = IF mode # lastMode[s] THEN Written(s, NotificationOf(mode)) ELSE outbox
        /\ lastMode' = [lastMode EXCEPT ![s] = mode]
        /\ watcher[s] = "reread" /\ watcher'[s] \in {"wait", "over"}
        /\ \A other \in Socket : other # s => watcher'[other] = watcher[other]
    BY <1>7 DEF RereadMode, pageVars, ServerTypes
  <2>2. ASSUME NEW other \in Socket, other = webSocket
        PROVE  /\ watcher'[other] \in {"none", "start", "read"} =>
                     NoNotification(outbox'[other]) /\ disabled = FALSE
               /\ conn[other] = "open" /\ watcher'[other] \in {"wait", "reread"} =>
                     ToldLast(outbox'[other], disabled, lastMode'[other])
    <3>1. CASE other # s
      <4>1. outbox'[other] = outbox[other] /\ lastMode'[other] = lastMode[other]
        BY <2>1, <3>1 DEF Written, QueueTypes, ServerTypes
      <4>2. QED
        BY <2>1, <2>2, <3>1, <4>1 DEF NoticeFollows
    <3>2. CASE other = s /\ conn[s] = "open" /\ (mode # lastMode[s])
      <4>1. outbox'[s] = Append(outbox[s], NotificationOf(mode)) /\ lastMode'[s] = mode
        BY <2>1, <3>2 DEF Written, QueueTypes, ServerTypes
      <4>2. ToldLast(outbox'[s], disabled, mode)
        BY <4>1, ToldByNotification DEF QueueTypes, ServerTypes
      <4>3. QED
        BY <2>1, <3>2, <4>1, <4>2
    <3>3. CASE other = s /\ conn[s] = "open" /\ ~(mode # lastMode[s])
      <4>1. outbox'[s] = outbox[s] /\ lastMode'[s] = mode
        BY <2>1, <3>3 DEF ServerTypes
      <4>2. ToldLast(outbox[s], disabled, mode)
        BY <2>1, <2>2, <3>3 DEF NoticeFollows
      <4>3. QED
        BY <2>1, <3>3, <4>1, <4>2
    <3>4. CASE other = s /\ conn[s] # "open"
      BY <2>1, <3>4
    <3>5. QED
      BY <3>1, <3>2, <3>3, <3>4
  <2>3. QED
    BY <2>1, <2>2 DEF NoticeFollows
<1>8. ASSUME NEW s \in Socket, EndWatcher(s) /\ UNCHANGED pageVars PROVE NoticeFollows'
  BY <1>8 DEF EndWatcher, pageVars, NoticeFollows, ServerTypes
<1>9. ASSUME NEW s \in Socket, Accept(s) /\ UNCHANGED pageVars PROVE NoticeFollows'
  BY <1>9 DEF Accept, pageVars, ServerTypes, SocketShape, NoticeFollows
<1>10. ASSUME NEW s \in Socket, ReceiveMessage(s) /\ UNCHANGED pageVars PROVE NoticeFollows'
  BY <1>10 DEF ReceiveMessage, Serving, EndLoop, pageVars, NoticeFollows, ServerTypes
<1>11. ASSUME NEW s \in Socket, PingFails(s) /\ UNCHANGED pageVars PROVE NoticeFollows'
  BY <1>11 DEF PingFails, EndLoop, pageVars, NoticeFollows, ServerTypes
<1>12. ASSUME NEW s \in Socket, CloseCancelled(s) /\ UNCHANGED pageVars PROVE NoticeFollows'
  BY <1>12 DEF CloseCancelled, Serving, EndLoop, pageVars, NoticeFollows, ServerTypes
<1>13. ASSUME NEW s \in Socket, ShutdownCancelled(s) /\ UNCHANGED pageVars PROVE NoticeFollows'
  BY <1>13 DEF ShutdownCancelled, Serving, EndLoop, pageVars, NoticeFollows,
     ServerTypes
<1>14. ASSUME NEW s \in Socket, HandleMessage(s) /\ UNCHANGED pageVars PROVE NoticeFollows'
  <2>1. \/ outbox' = outbox
        \/ \E frame \in Frame : frame.id # 0 /\ outbox' = Written(s, frame)
    BY <1>14, TaskWrites
  <2>2. UNCHANGED <<conn, watcher, lastMode, webSocket, disabled>>
    BY <1>14 DEF HandleMessage, pageVars
  <2>3. QED
    BY <2>1, <2>2, NoticeUnmoved
<1>15. ASSUME NEW t \in Task, Generate(t) /\ UNCHANGED pageVars PROVE NoticeFollows'
  <2>0. task[t].socket \in Socket
    BY <1>15 DEF Generate, RunningHasPlace
  <2>1. \/ outbox' = outbox
        \/ \E frame \in Frame : frame.id # 0 /\ outbox' = Written(task[t].socket, frame)
    BY <1>15, TaskWrites, <2>0
  <2>2. UNCHANGED <<conn, watcher, lastMode, webSocket, disabled>>
    BY <1>15 DEF Generate, pageVars
  <2>3. QED
    BY <2>1, <2>2, <2>0, NoticeUnmoved
<1>16. ASSUME NEW t \in Task, StopTask(t) /\ UNCHANGED pageVars PROVE NoticeFollows'
  BY <1>16 DEF StopTask, EndTask, pageVars, NoticeFollows, ServerTypes
<1>17. CASE SocketOpens
  BY <1>17 DEF SocketOpens, Ask, NoticeFollows, ServerTypes
<1>18. CASE SocketError
  BY <1>18 DEF SocketError, Reconnect, serverVars, NoticeFollows, ServerTypes
<1>19. CASE SocketCloses
  BY <1>19 DEF SocketCloses, Reconnect, serverVars, NoticeFollows, ServerTypes
<1>20. CASE ConnectAgain
  <2>1. webSocket' \in Socket /\ webSocket' > webSocket /\ disabled' = FALSE
        /\ UNCHANGED <<watcher, outbox, lastMode>>
    BY <1>20, InferenceSocketAssumption DEF ConnectAgain, PageTypes
  <2>2. watcher[webSocket'] = "none" /\ outbox[webSocket'] = <<>>
    BY <2>1 DEF SocketShape
  <2>3. NoNotification(<<>>)
    BY DEF NoNotification
  <2>4. QED
    BY <2>1, <2>2, <2>3 DEF NoticeFollows
<1>21. CASE Submit
  BY <1>21 DEF Submit, Ask, NoticeFollows, ServerTypes
<1>22. CASE TakeFrame
  <2> DEFINE frames == outbox[webSocket]
  <2>1. webSocket \in Socket
    BY DEF PageTypes, SocketShape, Socket
  <2>2. frames \in Seq(Frame) /\ frames # <<>> /\ outbox'[webSocket] = Tail(frames)
        /\ UNCHANGED <<webSocket, watcher, conn, lastMode>>
    BY <1>22, <2>1 DEF TakeFrame, QueueTypes
  <2>3. disabled' = IF Head(frames).id = 0 THEN Head(frames).kind = "TokenGenerationDisabled"
                    ELSE disabled
    BY <1>22 DEF TakeFrame, TakeNotification, TakeResponse
  <2>4. /\ Head(frames) = frames[1] /\ 1 \in DOMAIN frames
        /\ \A i \in DOMAIN Tail(frames) : i + 1 \in DOMAIN frames /\ Tail(frames)[i] = frames[i + 1]
    BY <2>2, QueueHead
  <2>5. ASSUME watcher[webSocket] \in {"none", "start", "read"}
        PROVE  NoNotification(Tail(frames)) /\ disabled' = FALSE
    <3>1. NoNotification(frames) /\ disabled = FALSE
      BY <2>1, <2>5 DEF NoticeFollows
    <3>2. Head(frames).id # 0
      BY <2>4, <3>1 DEF NoNotification
    <3>3. NoNotification(Tail(frames))
      BY <2>4, <3>1 DEF NoNotification
    <3>4. QED
      BY <2>3, <3>1, <3>2, <3>3
  <2>6. ASSUME conn[webSocket] = "open", watcher[webSocket] \in {"wait", "reread"}
        PROVE  ToldLast(Tail(frames), disabled', lastMode[webSocket])
    <3>1. ToldLast(frames, disabled, lastMode[webSocket]) /\ lastMode[webSocket] \in Mode
      BY <2>1, <2>6 DEF NoticeFollows, ServerTypes
    <3>2. QED
      BY <2>2, <2>3, <3>1, ToldAfterFirst
  <2>7. QED
    BY <2>2, <2>5, <2>6 DEF NoticeFollows
<1>23. CASE LeavePage
  <2>1. webSocket \in Socket
    BY DEF PageTypes, SocketShape, Socket
  <2>2. conn'[webSocket] # "open" /\ outbox'[webSocket] = <<>>
        /\ UNCHANGED <<webSocket, watcher, disabled>>
    BY <1>23, <2>1 DEF LeavePage, ServerTypes, QueueTypes
  <2>3. NoNotification(<<>>)
    BY DEF NoNotification
  <2>4. QED
    BY <2>2, <2>3 DEF NoticeFollows
<1>24. CASE AnyClientSends
  BY <1>24 DEF AnyClientSends, NoticeFollows, ServerTypes
<1>25. ASSUME NEW s \in Socket, LoseConnection(s) /\ UNCHANGED pageVars PROVE NoticeFollows'
  <2>1. UNCHANGED <<webSocket, watcher, disabled, lastMode>>
        /\ conn'[s] # "open" /\ outbox'[s] = <<>>
        /\ \A other \in Socket : other # s => conn'[other] = conn[other] /\ outbox'[other] = outbox[other]
    BY <1>25 DEF LoseConnection, pageVars, ServerTypes, QueueTypes
  <2>2. NoNotification(<<>>)
    BY DEF NoNotification
  <2>3. QED
    BY <2>1, <2>2 DEF NoticeFollows
<1>26. ASSUME NEW s \in Socket, RefuseConnection(s) PROVE NoticeFollows'
  BY <1>26 DEF RefuseConnection, Disturb, pageVars, NoticeFollows, ServerTypes
<1>27. QED
  BY <1>1, <1>2, <1>3, <1>4, <1>5, <1>6, <1>7, <1>8, <1>9, <1>10, <1>11, <1>12, <1>13,
     <1>14, <1>15, <1>16, <1>17, <1>18, <1>19, <1>20, <1>21, <1>22, <1>23, <1>24,
     <1>25, <1>26 DEF Next, PageNext, ServerNext, NetworkFails, RefuseConnection,
     socketVars

-----------------------------------------------------------------------------
(***************************************************************************)
(* The theorems.                                                           *)
(***************************************************************************)
\* The page starts with a socket that connects, and nothing asked.
LEMMA PageBegins == Init => PageInv
<1> SUFFICES ASSUME Init PROVE PageInv
  OBVIOUS
<1> USE InferenceSocketAssumption, PromptPageAssumption DEF Init, InferenceSocketInit
<1>1. VersionsAreCounted /\ HandlersAreSpawned /\ RunningHasPlace
  BY DEF VersionsAreCounted, HandlersAreSpawned, RunningHasPlace
<1>2. ServerTypes
  <2>1. modeVersion \in Nat /\ disturbances \in 0 .. MaxDisturbances /\ seen \in [Socket -> Nat]
    OBVIOUS
  <2>2. conn \in [Socket -> {"none", "connecting", "open", "lost", "closed"}]
        /\ watcher \in [Socket -> {"none", "start", "read", "wait", "reread", "over"}]
    OBVIOUS
  <2>3. mode \in Mode /\ lastMode \in [Socket -> Mode] /\ closing \in [Socket -> BOOLEAN]
        /\ setting \in BOOLEAN /\ shutdown \in BOOLEAN
    BY Zenon DEF Mode
  <2>4. QED
    BY <2>1, <2>2, <2>3, Zenon DEF ServerTypes
<1>3. QueueTypes
  BY EmptySeq DEF QueueTypes
<1>4. TaskTypes
  BY DEF TaskTypes
<1>5. PageTypes
  <2>1. /\ webSocket \in 0 .. MaxSockets /\ prompt \in 0 .. MaxPrompts /\ newest \in 0 .. MaxTasks
        /\ shown \in 0 .. MaxTasks /\ sent \in 0 .. MaxMessages
        /\ attempts \in 0 .. MAX_RECONNECT_DEBOUNCE_TIME_INCREASE
    BY DEF MAX_RECONNECT_DEBOUNCE_TIME_INCREASE
  <2>2. /\ socketState \in {"connecting", "connected", "connectionClosed", "connectionError"}
        /\ wire \in [Socket -> {"none", "connecting", "open", "errored", "closed"}]
        /\ answer \in [Id -> {"empty", "filled", "over"}] /\ client \in {"page", "any"}
    OBVIOUS
  <2>3. open \in BOOLEAN /\ timer \in BOOLEAN /\ broken \in BOOLEAN /\ disabled \in BOOLEAN
        /\ subscribed \subseteq Id
    BY Zenon
  <2>4. QED
    BY <2>1, <2>2, <2>3, Zenon DEF PageTypes
<1>6. SocketShape
  BY DEF SocketShape, Socket
<1>7. NewestIsAsked /\ AnswerBelongsToPrompt
  BY DEF NewestIsAsked, AnswerBelongsToPrompt
<1>8. WatcherIsCurrent /\ NoticeFollows
  BY DEF WatcherIsCurrent, NoticeFollows, NoNotification
<1>9. RunningIsStoppable
  BY DEF RunningIsStoppable, Task
<1>10. QED
  BY <1>1, <1>2, <1>3, <1>4, <1>5, <1>6, <1>7, <1>8, <1>9, TypeParts DEF PageInv

\* Every step of the balancer, the page, another client or the network keeps it.
LEMMA PageGoesOn == PageInv /\ [Next]_vars => PageInv'
<1> SUFFICES ASSUME PageInv, [Next]_vars PROVE PageInv'
  OBVIOUS
<1>1. ServerTypes /\ QueueTypes /\ TaskTypes /\ PageTypes
  BY TypeParts DEF PageInv
<1>2. CASE Next
  <2>1. VersionsAreCounted' /\ HandlersAreSpawned' /\ WatcherIsCurrent' /\ NoticeFollows'
    BY <1>1, <1>2, VersionsStep, HandlersStep, WatcherStep, NoticeStep DEF PageInv
  <2>2. ServerTypes' /\ QueueTypes' /\ TaskTypes' /\ PageTypes' /\ RunningHasPlace'
    BY <1>1, <1>2, ServerTypesStep, QueueTypesStep, TaskTypesStep, PageTypesStep DEF PageInv
  <2>3. SocketShape' /\ NewestIsAsked' /\ RunningIsStoppable' /\ AnswerBelongsToPrompt'
    BY <1>1, <1>2, SocketShapeStep, NewestStep, RegistryStep, AnswerStep DEF PageInv
  <2>4. TypeOK'
    <3>1. (VersionsAreCounted => (TypeOK <=> ServerTypes /\ QueueTypes /\ TaskTypes /\ PageTypes))'
      BY TypeParts, PTL
    <3>2. QED
      BY <2>1, <2>2, <3>1
  <2>5. QED
    BY <2>1, <2>2, <2>3, <2>4 DEF PageInv
<1>3. CASE UNCHANGED vars
  <2>1. VersionsAreCounted' /\ HandlersAreSpawned' /\ RunningHasPlace' /\ SocketShape'
    BY <1>3 DEF vars, serverVars, pageVars, PageInv, VersionsAreCounted, HandlersAreSpawned,
       RunningHasPlace, SocketShape
  <2>2. NewestIsAsked' /\ WatcherIsCurrent' /\ NoticeFollows' /\ RunningIsStoppable'
        /\ AnswerBelongsToPrompt'
    BY <1>3 DEF vars, serverVars, pageVars, PageInv, NewestIsAsked, WatcherIsCurrent,
       NoticeFollows, RunningIsStoppable, AnswerBelongsToPrompt
  <2>3. TypeOK'
    BY <1>3, Zenon DEF vars, serverVars, pageVars, PageInv, TypeOK, InferenceSocketTypeOK
  <2>4. QED
    BY <2>1, <2>2, <2>3 DEF PageInv
<1>4. QED
  BY <1>2, <1>3

\* The invariant of the prompt page and of the balancer's sockets, for every number of
\* sockets, requests, prompts, messages and disturbances.
THEOREM PageIsSound == FairSpec => []PageInv
BY PageBegins, PageGoesOn, PTL DEF FairSpec

\* The notice shows the mode once the watcher and the page have caught up.
LEMMA NoticeShowsMode == PageInv => ModeIsShown
<1> SUFFICES ASSUME PageInv, NEW s \in Socket, s = webSocket, conn[s] = "open",
                    watcher[s] = "wait", seen[s] = modeVersion, ~setting,
                    \A i \in DOMAIN outbox[s] : outbox[s][i].id # 0
             PROVE  disabled <=> mode = "DisabledForEmbeddings"
  BY DEF ModeIsShown
<1>1. ToldLast(outbox[s], disabled, lastMode[s]) /\ lastMode[s] = mode
  BY DEF PageInv, NoticeFollows, WatcherIsCurrent
<1>2. NoNotification(outbox[s])
  BY DEF NoNotification
<1>3. QED
  BY <1>1, <1>2 DEF ToldLast

\* What the prompt page shows is so: a request of a socket can be stopped exactly while it
\* runs (RequestCancellationTokens), the answer on the page is the newest prompt's although
\* frames of earlier ones still arrive, and the notice is the cluster's mode once it is told
\* (spawn_token_generation_mode_watcher).
THEOREM PageIsAlwaysTrue == FairSpec => []PageIsTrue
<1>1. PageInv => PageIsTrue
  BY NoticeShowsMode DEF PageInv, PageIsTrue
<1>2. QED
  BY <1>1, PageIsSound, PTL
=============================================================================
