---------------------------- MODULE BalancerProofs --------------------------
(***************************************************************************)
(* Proofs about the balancer's endpoints, about the connection of an       *)
(* agent, for any requests, connections, questions and failures, and about *)
(* the schemas of the validator, for any document.                         *)
(*                                                                         *)
(* What is hard in the types is a bound: the messages of an agent that are *)
(* under way.  The code bounds neither its reports nor its replies; that   *)
(* there are never more than a report, a farewell and a reply for each     *)
(* question rests on every question being sent once: a reply is written    *)
(* for a question that leaves the queue for good (QueueIsBounded).         *)
(*                                                                         *)
(* What is hard in the schemas is that components refer to each other in   *)
(* cycles.  Of the worklist it is kept that everything on it is reached    *)
(* from the root and that nothing found refers beyond it (ClosureGoesOn);  *)
(* an empty one leaves the least set that is closed.                       *)
(***************************************************************************)
EXTENDS MCBalancer, FiniteSetTheorems, SequenceTheorems, NaturalsInduction, TLAPS

-----------------------------------------------------------------------------
(***************************************************************************)
(* The connection of an agent.                                             *)
(***************************************************************************)
\* What an agent writes.
Upward ==
    [type : {"register", "update", "reply", "deregister"}, issues : Counter, fields : Counter,
     version : Counter, query : Query \cup {0}]

\* Every change of the status is an event, and a version is behind a field that is
\* being written.
StatusIsCounted ==
    /\ events \in Counter
    /\ reported_status \in [issues : Nat, fields : Nat, version : Nat]
    /\ writing \in BOOLEAN
    /\ reported_status.issues + reported_status.fields <= events
    /\ writing => reported_status.fields = reported_status.version + 1
    /\ ~writing => reported_status.fields = reported_status.version
    /\ snapshot \in [issues : Counter, fields : Counter]

\* An agent that is not disconnected has a connection.
LoopShape ==
    /\ loop \in {"disconnected", "registering", "select", "reporting", "leaving", "stopped"}
    /\ conn \in 0 .. MaxConnections
    /\ loop \in {"registering", "select", "reporting", "leaving"} => conn # 0
    /\ link \in [Connection -> {"none", "up", "down"}]
    /\ session \in [Connection -> {"none", "open", "closing", "ended"}]

\* What is on its way in both directions.
MessagesShape ==
    /\ upward \in [Connection -> Seq(Upward)]
    /\ downward \in [Connection -> Seq(Query)]

PoolShape == pool \in PoolEntry \cup {None}

\* A sender is registered while its question waits.
QueriesShape ==
    /\ query \in [Query -> {"idle", "sent", "waiting", "ended"}]
    /\ asked \in [Query -> 0 .. MaxConnections]
    /\ reply_senders = {q \in Query : query[q] = "waiting"}
    /\ delivered \subseteq reply_senders

\* A question on its way was asked, and is on its way once.
AskedIsSingle ==
    \A c \in Connection :
        /\ \A i \in DOMAIN downward[c] : query[downward[c][i]] # "idle"
        /\ \A i, j \in DOMAIN downward[c] : downward[c][i] = downward[c][j] => i = j

\* The questions that will not reach the agent on a connection any more.
PastOn(c) ==
    {q \in Query : query[q] # "idle" /\ \A i \in DOMAIN downward[c] : downward[c][i] # q}

\* Reports are sent while there is room; what is beyond it are the replies to
\* questions that have arrived, as many as past says, and the farewell.
QueueFits(past) ==
    /\ \A c \in Connection : c > conn => upward[c] = <<>>
    /\ loop = "registering" => upward[conn] = <<>>
    /\ loop = "reporting" => Len(upward[conn]) < MaxQueued
    /\ \A c \in Connection :
          Len(upward[c]) <= MaxQueued + past[c] + (IF loop \in {"leaving", "stopped"} THEN 1 ELSE 0)

QueueIsBounded == QueueFits([c \in Connection |-> Cardinality(PastOn(c))])

ConnectionInv ==
    /\ StatusIsCounted /\ LoopShape /\ MessagesShape /\ PoolShape /\ QueriesShape
    /\ AskedIsSingle /\ QueueIsBounded

\* The steps of the two ends.
LEMMA NextCases ==
    ASSUME AgentConnectionNext
    PROVE  \/ RegisterIssue \/ SetField \/ IncrementVersion \/ Connect
           \/ RegisterWithSnapshot \/ BeginStatusUpdate \/ SendStatusUpdate
           \/ HandleIncomingRequest \/ ConnectionLost \/ Deregister \/ CloseSocket \/ Shutdown
           \/ SnapshotsStream
           \/ \E c \in Connection :
                 \/ LoseConnection(c) \/ HandleRegisterAgent(c) \/ HandleUpdateAgentStatus(c)
                 \/ DeregisterAgent(c) \/ ForwardResponse(c) \/ CloseSession(c) \/ EndSession(c)
           \/ \E q \in Query :
                 \/ AgentNotFound(q) \/ SendFails(q) \/ SendRpcMessage(q) \/ RegisterSender(q)
                 \/ ReceiveAnswer(q) \/ AgentGone(q) \/ QueryTimeout(q)
BY Zenon DEF AgentConnectionNext, StatusStep, AgentStep, SessionStep, QueryStep, Ask

\* Every step keeps the count of changes.
LEMMA StatusIsCountedStep ==
    ASSUME StatusIsCounted, AgentConnectionNext
    PROVE  StatusIsCounted'
<1> USE AgentConnectionAssumption DEF StatusIsCounted, Counter
<1>1. CASE RegisterIssue
  BY <1>1 DEF RegisterIssue, Event, agentSideVars, networkVars, queryVars
<1>2. CASE SetField
  BY <1>2 DEF SetField, Event, agentSideVars, networkVars, queryVars
<1>3. CASE IncrementVersion
  BY <1>3 DEF IncrementVersion, agentSideVars, networkVars, queryVars
<1>4. CASE Connect
  BY <1>4 DEF Connect, ReadFields, agentSideVars, networkVars, queryVars
<1>5. CASE RegisterWithSnapshot
  BY <1>5 DEF RegisterWithSnapshot, Blank, agentSideVars
<1>6. CASE BeginStatusUpdate
  BY <1>6 DEF BeginStatusUpdate, ReadFields, agentSideVars, networkVars, queryVars
<1>7. CASE SendStatusUpdate
  BY <1>7 DEF SendStatusUpdate, Blank, agentSideVars
<1>8. CASE HandleIncomingRequest
  BY <1>8 DEF HandleIncomingRequest, agentSideVars, networkVars, queryVars
<1>9. CASE ConnectionLost
  BY <1>9 DEF ConnectionLost, agentSideVars, networkVars, queryVars
<1>10. CASE Deregister
  BY <1>10 DEF Deregister, agentSideVars, networkVars, queryVars
<1>11. CASE CloseSocket
  BY <1>11 DEF CloseSocket, agentSideVars, networkVars, queryVars
<1>12. CASE Shutdown
  BY <1>12 DEF Shutdown, agentSideVars, networkVars, queryVars
<1>13. ASSUME NEW c \in Connection, LoseConnection(c) PROVE StatusIsCounted'
  BY <1>13 DEF LoseConnection, Event, agentSideVars, networkVars, queryVars
<1>14. ASSUME NEW c \in Connection, HandleRegisterAgent(c) PROVE StatusIsCounted'
  BY <1>14 DEF HandleRegisterAgent, Received, agentSideVars, networkVars, queryVars
<1>15. ASSUME NEW c \in Connection, HandleUpdateAgentStatus(c) PROVE StatusIsCounted'
  BY <1>15 DEF HandleUpdateAgentStatus, Received, agentSideVars, networkVars, queryVars
<1>16. ASSUME NEW c \in Connection, DeregisterAgent(c) PROVE StatusIsCounted'
  BY <1>16 DEF DeregisterAgent, Received, agentSideVars, networkVars, queryVars
<1>17. ASSUME NEW c \in Connection, ForwardResponse(c) PROVE StatusIsCounted'
  BY <1>17 DEF ForwardResponse, Received, agentSideVars, networkVars, queryVars
<1>18. ASSUME NEW c \in Connection, CloseSession(c) PROVE StatusIsCounted'
  BY <1>18 DEF CloseSession, agentSideVars, networkVars, queryVars
<1>19. ASSUME NEW c \in Connection, EndSession(c) PROVE StatusIsCounted'
  BY <1>19 DEF EndSession, agentSideVars, networkVars, queryVars
<1>20. ASSUME NEW q \in Query, AgentNotFound(q) PROVE StatusIsCounted'
  BY <1>20 DEF AgentNotFound, Event, EndQuery, agentSideVars, networkVars, queryVars
<1>21. ASSUME NEW q \in Query, SendFails(q) PROVE StatusIsCounted'
  BY <1>21 DEF SendFails, Event, EndQuery, agentSideVars, networkVars, queryVars
<1>22. ASSUME NEW q \in Query, SendRpcMessage(q) PROVE StatusIsCounted'
  BY <1>22 DEF SendRpcMessage, Event, agentSideVars, networkVars, queryVars
<1>23. ASSUME NEW q \in Query, RegisterSender(q) PROVE StatusIsCounted'
  BY <1>23 DEF RegisterSender, agentSideVars, networkVars, queryVars
<1>24. ASSUME NEW q \in Query, ReceiveAnswer(q) PROVE StatusIsCounted'
  BY <1>24 DEF ReceiveAnswer, EndQuery, agentSideVars, networkVars, queryVars
<1>25. ASSUME NEW q \in Query, AgentGone(q) PROVE StatusIsCounted'
  BY <1>25 DEF AgentGone, EndQuery, agentSideVars, networkVars, queryVars
<1>26. ASSUME NEW q \in Query, QueryTimeout(q) PROVE StatusIsCounted'
  BY <1>26 DEF QueryTimeout, EndQuery, agentSideVars, networkVars, queryVars
<1>27. CASE SnapshotsStream
  BY <1>27 DEF SnapshotsStream, agentSideVars, networkVars, queryVars
<1> QED
  BY <1>1, <1>2, <1>3, <1>4, <1>5, <1>6, <1>7, <1>8, <1>9, <1>10, <1>11, <1>12, <1>13, <1>14, <1>15, <1>16, <1>17, <1>18, <1>19, <1>20, <1>21, <1>22, <1>23, <1>24, <1>25, <1>26, <1>27, NextCases

\* Every step leaves the agent where it has a connection, or needs none.
LEMMA LoopShapeStep ==
    ASSUME LoopShape, AgentConnectionNext
    PROVE  LoopShape'
<1> USE AgentConnectionAssumption DEF LoopShape, Connection
<1>1. CASE RegisterIssue
  BY <1>1 DEF RegisterIssue, Event, agentSideVars, networkVars, queryVars
<1>2. CASE SetField
  BY <1>2 DEF SetField, Event, agentSideVars, networkVars, queryVars
<1>3. CASE IncrementVersion
  BY <1>3 DEF IncrementVersion, agentSideVars, networkVars, queryVars
<1>4. CASE Connect
  BY <1>4 DEF Connect, ReadFields, agentSideVars, networkVars, queryVars
<1>5. CASE RegisterWithSnapshot
  BY <1>5 DEF RegisterWithSnapshot, agentSideVars, networkVars, queryVars
<1>6. CASE BeginStatusUpdate
  BY <1>6 DEF BeginStatusUpdate, ReadFields, agentSideVars, networkVars, queryVars
<1>7. CASE SendStatusUpdate
  BY <1>7 DEF SendStatusUpdate, agentSideVars, networkVars, queryVars
<1>8. CASE HandleIncomingRequest
  BY <1>8 DEF HandleIncomingRequest, agentSideVars, networkVars, queryVars
<1>9. CASE ConnectionLost
  BY <1>9 DEF ConnectionLost, agentSideVars, networkVars, queryVars
<1>10. CASE Deregister
  BY <1>10 DEF Deregister, agentSideVars, networkVars, queryVars
<1>11. CASE CloseSocket
  BY <1>11 DEF CloseSocket, agentSideVars, networkVars, queryVars
<1>12. CASE Shutdown
  BY <1>12 DEF Shutdown, agentSideVars, networkVars, queryVars
<1>13. ASSUME NEW c \in Connection, LoseConnection(c) PROVE LoopShape'
  BY <1>13 DEF LoseConnection, Event, agentSideVars, networkVars, queryVars
<1>14. ASSUME NEW c \in Connection, HandleRegisterAgent(c) PROVE LoopShape'
  BY <1>14 DEF HandleRegisterAgent, Received, agentSideVars, networkVars, queryVars
<1>15. ASSUME NEW c \in Connection, HandleUpdateAgentStatus(c) PROVE LoopShape'
  BY <1>15 DEF HandleUpdateAgentStatus, Received, agentSideVars, networkVars, queryVars
<1>16. ASSUME NEW c \in Connection, DeregisterAgent(c) PROVE LoopShape'
  BY <1>16 DEF DeregisterAgent, Received, agentSideVars, networkVars, queryVars
<1>17. ASSUME NEW c \in Connection, ForwardResponse(c) PROVE LoopShape'
  BY <1>17 DEF ForwardResponse, Received, agentSideVars, networkVars, queryVars
<1>18. ASSUME NEW c \in Connection, CloseSession(c) PROVE LoopShape'
  BY <1>18 DEF CloseSession, agentSideVars, networkVars, queryVars
<1>19. ASSUME NEW c \in Connection, EndSession(c) PROVE LoopShape'
  BY <1>19 DEF EndSession, agentSideVars, networkVars, queryVars
<1>20. ASSUME NEW q \in Query, AgentNotFound(q) PROVE LoopShape'
  BY <1>20 DEF AgentNotFound, Event, EndQuery, agentSideVars, networkVars, queryVars
<1>21. ASSUME NEW q \in Query, SendFails(q) PROVE LoopShape'
  BY <1>21 DEF SendFails, Event, EndQuery, agentSideVars, networkVars, queryVars
<1>22. ASSUME NEW q \in Query, SendRpcMessage(q) PROVE LoopShape'
  BY <1>22 DEF SendRpcMessage, Event, agentSideVars, networkVars, queryVars
<1>23. ASSUME NEW q \in Query, RegisterSender(q) PROVE LoopShape'
  BY <1>23 DEF RegisterSender, agentSideVars, networkVars, queryVars
<1>24. ASSUME NEW q \in Query, ReceiveAnswer(q) PROVE LoopShape'
  BY <1>24 DEF ReceiveAnswer, EndQuery, agentSideVars, networkVars, queryVars
<1>25. ASSUME NEW q \in Query, AgentGone(q) PROVE LoopShape'
  BY <1>25 DEF AgentGone, EndQuery, agentSideVars, networkVars, queryVars
<1>26. ASSUME NEW q \in Query, QueryTimeout(q) PROVE LoopShape'
  BY <1>26 DEF QueryTimeout, EndQuery, agentSideVars, networkVars, queryVars
<1>27. CASE SnapshotsStream
  BY <1>27 DEF SnapshotsStream, agentSideVars, networkVars, queryVars
<1> QED
  BY <1>1, <1>2, <1>3, <1>4, <1>5, <1>6, <1>7, <1>8, <1>9, <1>10, <1>11, <1>12, <1>13, <1>14, <1>15, <1>16, <1>17, <1>18, <1>19, <1>20, <1>21, <1>22, <1>23, <1>24, <1>25, <1>26, <1>27, NextCases

\* Reading a message leaves the rest of the queue, all of it messages.
LEMMA ReadShape ==
    ASSUME MessagesShape, NEW c \in Connection, upward[c] # <<>>,
           upward' = [upward EXCEPT ![c] = Tail(@)]
    PROVE  /\ upward' \in [Connection -> Seq(Upward)]
           /\ Head(upward[c]) \in Upward
           /\ Len(upward'[c]) = Len(upward[c]) - 1
           /\ \A d \in Connection \ {c} : upward'[d] = upward[d]
BY DEF MessagesShape

\* The message that is written is a message.
LEMMA ReportIsMessage ==
    ASSUME StatusIsCounted, NEW t \in {"register", "update", "reply", "deregister"}
    PROVE  Report(t) \in Upward
BY AgentConnectionAssumption DEF StatusIsCounted, Report, Upward, Counter

\* What is written is lost, or is the last message of its queue.
LEMMA WriteShape ==
    ASSUME LoopShape, MessagesShape, conn # 0, NEW m \in Upward, Write(m)
    PROVE  /\ upward' \in [Connection -> Seq(Upward)]
           /\ Len(upward'[conn]) <= Len(upward[conn]) + 1
           /\ \A d \in Connection \ {conn} : upward'[d] = upward[d]
BY AgentConnectionAssumption DEF LoopShape, MessagesShape, Write, Connection

\* Every step writes and reads messages.
LEMMA MessagesShapeStep ==
    ASSUME StatusIsCounted, LoopShape, MessagesShape, PoolShape, AgentConnectionNext
    PROVE  MessagesShape'
<1> USE AgentConnectionAssumption DEF MessagesShape
<1>1. CASE RegisterIssue
  BY <1>1 DEF RegisterIssue, Event, agentSideVars, networkVars, queryVars
<1>2. CASE SetField
  BY <1>2 DEF SetField, Event, agentSideVars, networkVars, queryVars
<1>3. CASE IncrementVersion
  BY <1>3 DEF IncrementVersion, agentSideVars, networkVars, queryVars
<1>4. CASE Connect
  BY <1>4 DEF Connect, ReadFields, agentSideVars, networkVars, queryVars
<1>5. CASE RegisterWithSnapshot
  BY <1>5, ReportIsMessage, WriteShape DEF RegisterWithSnapshot, LoopShape, MessagesShape
<1>6. CASE BeginStatusUpdate
  BY <1>6 DEF BeginStatusUpdate, ReadFields, agentSideVars, networkVars, queryVars
<1>7. CASE SendStatusUpdate
  BY <1>7, ReportIsMessage, WriteShape DEF SendStatusUpdate, LoopShape, MessagesShape
<1>8. CASE HandleIncomingRequest
  <2>1. conn \in Connection /\ downward[conn] \in Seq(Query) /\ downward[conn] # <<>>
    BY <1>8 DEF HandleIncomingRequest, LoopShape, Connection
  <2>2. Report("reply") \in Upward
    BY ReportIsMessage
  <2>6. Head(downward[conn]) \in Query
    BY <2>1
  <2>3. [Report("reply") EXCEPT !.query = Head(downward[conn])] \in Upward
    <3> DEFINE h == Head(downward[conn])
    <3> HIDE DEF h
    <3>1. h \in Query
      BY <2>6 DEF h
    <3>2. ASSUME NEW r \in Upward PROVE [r EXCEPT !.query = h] \in Upward
      BY <3>1 DEF Upward
    <3> QED
      BY <2>2, <3>2 DEF h
  <2>4. upward' \in [Connection -> Seq(Upward)]
    BY <1>8, <2>1, <2>3, WriteShape DEF HandleIncomingRequest, Connection
  <2>5. downward' \in [Connection -> Seq(Query)]
    BY <1>8, <2>1 DEF HandleIncomingRequest
  <2> QED
    BY <2>4, <2>5
<1>9. CASE ConnectionLost
  BY <1>9 DEF ConnectionLost, agentSideVars, networkVars, queryVars
<1>10. CASE Deregister
  BY <1>10, ReportIsMessage, WriteShape DEF Deregister, LoopShape, MessagesShape
<1>11. CASE CloseSocket
  BY <1>11 DEF CloseSocket, agentSideVars, networkVars, queryVars
<1>12. CASE Shutdown
  BY <1>12 DEF Shutdown, agentSideVars, networkVars, queryVars
<1>13. ASSUME NEW c \in Connection, LoseConnection(c) PROVE MessagesShape'
  BY <1>13 DEF LoseConnection, Event, agentSideVars, networkVars, queryVars
<1>14. ASSUME NEW c \in Connection, HandleRegisterAgent(c) PROVE MessagesShape'
  BY <1>14, ReadShape DEF HandleRegisterAgent, Received
<1>15. ASSUME NEW c \in Connection, HandleUpdateAgentStatus(c) PROVE MessagesShape'
  BY <1>15, ReadShape DEF HandleUpdateAgentStatus, Received
<1>16. ASSUME NEW c \in Connection, DeregisterAgent(c) PROVE MessagesShape'
  BY <1>16, ReadShape DEF DeregisterAgent, Received
<1>17. ASSUME NEW c \in Connection, ForwardResponse(c) PROVE MessagesShape'
  BY <1>17, ReadShape DEF ForwardResponse, Received
<1>18. ASSUME NEW c \in Connection, CloseSession(c) PROVE MessagesShape'
  BY <1>18 DEF CloseSession, agentSideVars, networkVars, queryVars
<1>19. ASSUME NEW c \in Connection, EndSession(c) PROVE MessagesShape'
  BY <1>19 DEF EndSession, agentSideVars, networkVars, queryVars
<1>20. ASSUME NEW q \in Query, AgentNotFound(q) PROVE MessagesShape'
  BY <1>20 DEF AgentNotFound, Event, EndQuery, agentSideVars, networkVars, queryVars
<1>21. ASSUME NEW q \in Query, SendFails(q) PROVE MessagesShape'
  BY <1>21 DEF SendFails, Event, EndQuery, agentSideVars, networkVars, queryVars
<1>22. ASSUME NEW q \in Query, SendRpcMessage(q) PROVE MessagesShape'
  BY <1>22 DEF SendRpcMessage, PoolShape, PoolEntry, None
<1>23. ASSUME NEW q \in Query, RegisterSender(q) PROVE MessagesShape'
  BY <1>23 DEF RegisterSender, agentSideVars, networkVars, queryVars
<1>24. ASSUME NEW q \in Query, ReceiveAnswer(q) PROVE MessagesShape'
  BY <1>24 DEF ReceiveAnswer, EndQuery, agentSideVars, networkVars, queryVars
<1>25. ASSUME NEW q \in Query, AgentGone(q) PROVE MessagesShape'
  BY <1>25 DEF AgentGone, EndQuery, agentSideVars, networkVars, queryVars
<1>26. ASSUME NEW q \in Query, QueryTimeout(q) PROVE MessagesShape'
  BY <1>26 DEF QueryTimeout, EndQuery, agentSideVars, networkVars, queryVars
<1>27. CASE SnapshotsStream
  BY <1>27 DEF SnapshotsStream, agentSideVars, networkVars, queryVars
<1> QED
  BY <1>1, <1>2, <1>3, <1>4, <1>5, <1>6, <1>7, <1>8, <1>9, <1>10, <1>11, <1>12, <1>13, <1>14, <1>15, <1>16, <1>17, <1>18, <1>19, <1>20, <1>21, <1>22, <1>23, <1>24, <1>25, <1>26, <1>27, NextCases

\* The entry of the pool is what an agent has reported.
LEMMA PoolShapeStep ==
    ASSUME MessagesShape, PoolShape, AgentConnectionNext
    PROVE  PoolShape'
<1> USE AgentConnectionAssumption DEF PoolShape
<1>1. CASE RegisterIssue
  BY <1>1 DEF RegisterIssue, Event, agentSideVars, networkVars, queryVars
<1>2. CASE SetField
  BY <1>2 DEF SetField, Event, agentSideVars, networkVars, queryVars
<1>3. CASE IncrementVersion
  BY <1>3 DEF IncrementVersion, agentSideVars, networkVars, queryVars
<1>4. CASE Connect
  BY <1>4 DEF Connect, ReadFields, agentSideVars, networkVars, queryVars
<1>5. CASE RegisterWithSnapshot
  BY <1>5 DEF RegisterWithSnapshot, agentSideVars, networkVars, queryVars
<1>6. CASE BeginStatusUpdate
  BY <1>6 DEF BeginStatusUpdate, ReadFields, agentSideVars, networkVars, queryVars
<1>7. CASE SendStatusUpdate
  BY <1>7 DEF SendStatusUpdate, agentSideVars, networkVars, queryVars
<1>8. CASE HandleIncomingRequest
  BY <1>8 DEF HandleIncomingRequest, agentSideVars, networkVars, queryVars
<1>9. CASE ConnectionLost
  BY <1>9 DEF ConnectionLost, agentSideVars, networkVars, queryVars
<1>10. CASE Deregister
  BY <1>10 DEF Deregister, agentSideVars, networkVars, queryVars
<1>11. CASE CloseSocket
  BY <1>11 DEF CloseSocket, agentSideVars, networkVars, queryVars
<1>12. CASE Shutdown
  BY <1>12 DEF Shutdown, agentSideVars, networkVars, queryVars
<1>13. ASSUME NEW c \in Connection, LoseConnection(c) PROVE PoolShape'
  BY <1>13 DEF LoseConnection, Event, agentSideVars, networkVars, queryVars
<1>14. ASSUME NEW c \in Connection, HandleRegisterAgent(c) PROVE PoolShape'
  BY <1>14, ReadShape DEF HandleRegisterAgent, Received, ControllerOf, PoolEntry, None, Upward
<1>15. ASSUME NEW c \in Connection, HandleUpdateAgentStatus(c) PROVE PoolShape'
  <2>1. Head(upward[c]) \in Upward
    BY <1>15, ReadShape DEF HandleUpdateAgentStatus, Received
  <2>2. pool' = pool \/ (pool # None /\ pool' = ControllerOf(pool.conn, Head(upward[c])))
    BY <1>15 DEF HandleUpdateAgentStatus
  <2>3. pool # None => ControllerOf(pool.conn, Head(upward[c])) \in PoolEntry
    BY <2>1 DEF ControllerOf, PoolEntry, None, Upward
  <2> QED
    BY <2>2, <2>3
<1>16. ASSUME NEW c \in Connection, DeregisterAgent(c) PROVE PoolShape'
  BY <1>16 DEF DeregisterAgent, Received, agentSideVars, networkVars, queryVars
<1>17. ASSUME NEW c \in Connection, ForwardResponse(c) PROVE PoolShape'
  BY <1>17 DEF ForwardResponse, Received, agentSideVars, networkVars, queryVars
<1>18. ASSUME NEW c \in Connection, CloseSession(c) PROVE PoolShape'
  BY <1>18 DEF CloseSession, agentSideVars, networkVars, queryVars
<1>19. ASSUME NEW c \in Connection, EndSession(c) PROVE PoolShape'
  BY <1>19 DEF EndSession, agentSideVars, networkVars, queryVars
<1>20. ASSUME NEW q \in Query, AgentNotFound(q) PROVE PoolShape'
  BY <1>20 DEF AgentNotFound, Event, EndQuery, agentSideVars, networkVars, queryVars
<1>21. ASSUME NEW q \in Query, SendFails(q) PROVE PoolShape'
  BY <1>21 DEF SendFails, Event, EndQuery, agentSideVars, networkVars, queryVars
<1>22. ASSUME NEW q \in Query, SendRpcMessage(q) PROVE PoolShape'
  BY <1>22 DEF SendRpcMessage, Event, agentSideVars, networkVars, queryVars
<1>23. ASSUME NEW q \in Query, RegisterSender(q) PROVE PoolShape'
  BY <1>23 DEF RegisterSender, agentSideVars, networkVars, queryVars
<1>24. ASSUME NEW q \in Query, ReceiveAnswer(q) PROVE PoolShape'
  BY <1>24 DEF ReceiveAnswer, EndQuery, agentSideVars, networkVars, queryVars
<1>25. ASSUME NEW q \in Query, AgentGone(q) PROVE PoolShape'
  BY <1>25 DEF AgentGone, EndQuery, agentSideVars, networkVars, queryVars
<1>26. ASSUME NEW q \in Query, QueryTimeout(q) PROVE PoolShape'
  BY <1>26 DEF QueryTimeout, EndQuery, agentSideVars, networkVars, queryVars
<1>27. CASE SnapshotsStream
  BY <1>27 DEF SnapshotsStream, agentSideVars, networkVars, queryVars
<1> QED
  BY <1>1, <1>2, <1>3, <1>4, <1>5, <1>6, <1>7, <1>8, <1>9, <1>10, <1>11, <1>12, <1>13, <1>14, <1>15, <1>16, <1>17, <1>18, <1>19, <1>20, <1>21, <1>22, <1>23, <1>24, <1>25, <1>26, <1>27, NextCases

\* A sender is registered and removed with its question.
LEMMA QueriesShapeStep ==
    ASSUME PoolShape, QueriesShape, AgentConnectionNext
    PROVE  QueriesShape'
<1> USE AgentConnectionAssumption DEF QueriesShape
<1>1. CASE RegisterIssue
  BY <1>1 DEF RegisterIssue, Event, agentSideVars, networkVars, queryVars
<1>2. CASE SetField
  BY <1>2 DEF SetField, Event, agentSideVars, networkVars, queryVars
<1>3. CASE IncrementVersion
  BY <1>3 DEF IncrementVersion, agentSideVars, networkVars, queryVars
<1>4. CASE Connect
  BY <1>4 DEF Connect, ReadFields, agentSideVars, networkVars, queryVars
<1>5. CASE RegisterWithSnapshot
  BY <1>5 DEF RegisterWithSnapshot, agentSideVars, networkVars, queryVars
<1>6. CASE BeginStatusUpdate
  BY <1>6 DEF BeginStatusUpdate, ReadFields, agentSideVars, networkVars, queryVars
<1>7. CASE SendStatusUpdate
  BY <1>7 DEF SendStatusUpdate, agentSideVars, networkVars, queryVars
<1>8. CASE HandleIncomingRequest
  BY <1>8 DEF HandleIncomingRequest, agentSideVars, networkVars, queryVars
<1>9. CASE ConnectionLost
  BY <1>9 DEF ConnectionLost, agentSideVars, networkVars, queryVars
<1>10. CASE Deregister
  BY <1>10 DEF Deregister, agentSideVars, networkVars, queryVars
<1>11. CASE CloseSocket
  BY <1>11 DEF CloseSocket, agentSideVars, networkVars, queryVars
<1>12. CASE Shutdown
  BY <1>12 DEF Shutdown, agentSideVars, networkVars, queryVars
<1>13. ASSUME NEW c \in Connection, LoseConnection(c) PROVE QueriesShape'
  BY <1>13 DEF LoseConnection, Event, agentSideVars, networkVars, queryVars
<1>14. ASSUME NEW c \in Connection, HandleRegisterAgent(c) PROVE QueriesShape'
  BY <1>14 DEF HandleRegisterAgent, Received, agentSideVars, networkVars, queryVars
<1>15. ASSUME NEW c \in Connection, HandleUpdateAgentStatus(c) PROVE QueriesShape'
  BY <1>15 DEF HandleUpdateAgentStatus, Received, agentSideVars, networkVars, queryVars
<1>16. ASSUME NEW c \in Connection, DeregisterAgent(c) PROVE QueriesShape'
  BY <1>16 DEF DeregisterAgent, Received, agentSideVars, networkVars, queryVars
<1>17. ASSUME NEW c \in Connection, ForwardResponse(c) PROVE QueriesShape'
  BY <1>17 DEF ForwardResponse, Received, agentSideVars, networkVars, queryVars
<1>18. ASSUME NEW c \in Connection, CloseSession(c) PROVE QueriesShape'
  BY <1>18 DEF CloseSession, agentSideVars, networkVars, queryVars
<1>19. ASSUME NEW c \in Connection, EndSession(c) PROVE QueriesShape'
  BY <1>19 DEF EndSession, agentSideVars, networkVars, queryVars
<1>20. ASSUME NEW q \in Query, AgentNotFound(q) PROVE QueriesShape'
  BY <1>20 DEF AgentNotFound, Event, EndQuery, agentSideVars, networkVars, queryVars
<1>21. ASSUME NEW q \in Query, SendFails(q) PROVE QueriesShape'
  BY <1>21 DEF SendFails, Event, EndQuery, agentSideVars, networkVars, queryVars
<1>22. ASSUME NEW q \in Query, SendRpcMessage(q) PROVE QueriesShape'
  BY <1>22 DEF SendRpcMessage, PoolShape, PoolEntry, None, Connection
<1>23. ASSUME NEW q \in Query, RegisterSender(q) PROVE QueriesShape'
  BY <1>23 DEF RegisterSender, agentSideVars, networkVars, queryVars
<1>24. ASSUME NEW q \in Query, ReceiveAnswer(q) PROVE QueriesShape'
  BY <1>24 DEF ReceiveAnswer, EndQuery, agentSideVars, networkVars, queryVars
<1>25. ASSUME NEW q \in Query, AgentGone(q) PROVE QueriesShape'
  BY <1>25 DEF AgentGone, EndQuery, agentSideVars, networkVars, queryVars
<1>26. ASSUME NEW q \in Query, QueryTimeout(q) PROVE QueriesShape'
  BY <1>26 DEF QueryTimeout, EndQuery, agentSideVars, networkVars, queryVars
<1>27. CASE SnapshotsStream
  BY <1>27 DEF SnapshotsStream, agentSideVars, networkVars, queryVars
<1> QED
  BY <1>1, <1>2, <1>3, <1>4, <1>5, <1>6, <1>7, <1>8, <1>9, <1>10, <1>11, <1>12, <1>13, <1>14, <1>15, <1>16, <1>17, <1>18, <1>19, <1>20, <1>21, <1>22, <1>23, <1>24, <1>25, <1>26, <1>27, NextCases

\* A question is sent once, and leaves the queue from the front.
LEMMA AskedIsSingleStep ==
    ASSUME LoopShape, MessagesShape, PoolShape, QueriesShape, AskedIsSingle, AgentConnectionNext
    PROVE  AskedIsSingle'
<1> USE AgentConnectionAssumption DEF AskedIsSingle
<1>1. CASE RegisterIssue
  BY <1>1 DEF RegisterIssue, Event, agentSideVars, networkVars, queryVars
<1>2. CASE SetField
  BY <1>2 DEF SetField, Event, agentSideVars, networkVars, queryVars
<1>3. CASE IncrementVersion
  BY <1>3 DEF IncrementVersion, agentSideVars, networkVars, queryVars
<1>4. CASE Connect
  BY <1>4 DEF Connect, ReadFields, agentSideVars, networkVars, queryVars
<1>5. CASE RegisterWithSnapshot
  BY <1>5 DEF RegisterWithSnapshot, agentSideVars, networkVars, queryVars
<1>6. CASE BeginStatusUpdate
  BY <1>6 DEF BeginStatusUpdate, ReadFields, agentSideVars, networkVars, queryVars
<1>7. CASE SendStatusUpdate
  BY <1>7 DEF SendStatusUpdate, agentSideVars, networkVars, queryVars
<1>8. CASE HandleIncomingRequest
  <2>1. conn \in Connection /\ downward[conn] \in Seq(Query) /\ downward[conn] # <<>>
    BY <1>8 DEF HandleIncomingRequest, LoopShape, Connection, MessagesShape
  <2>2. downward'[conn] = Tail(downward[conn]) /\ UNCHANGED query
    BY <1>8, <2>1 DEF HandleIncomingRequest, MessagesShape, queryVars
  <2>3. ASSUME NEW i \in DOMAIN downward'[conn]
        PROVE  /\ i + 1 \in DOMAIN downward[conn]
               /\ downward'[conn][i] = downward[conn][i + 1] /\ i \in Nat
    BY <2>1, <2>2
  <2>4. \A d \in Connection \ {conn} : downward'[d] = downward[d]
    BY <1>8 DEF HandleIncomingRequest, MessagesShape
  <2>5. \A i \in DOMAIN downward'[conn] : query'[downward'[conn][i]] # "idle"
    BY <2>1, <2>2, <2>3
  <2>6. ASSUME NEW i \in DOMAIN downward'[conn], NEW j \in DOMAIN downward'[conn],
               downward'[conn][i] = downward'[conn][j]
        PROVE  i = j
    <3>1. i + 1 = j + 1 /\ i \in Nat /\ j \in Nat
      BY <2>1, <2>3, <2>6
    <3> QED
      BY <3>1
  <2> QED
    BY <2>2, <2>4, <2>5, <2>6
<1>9. CASE ConnectionLost
  BY <1>9 DEF ConnectionLost, agentSideVars, networkVars, queryVars
<1>10. CASE Deregister
  BY <1>10 DEF Deregister, agentSideVars, networkVars, queryVars
<1>11. CASE CloseSocket
  BY <1>11 DEF CloseSocket, agentSideVars, networkVars, queryVars
<1>12. CASE Shutdown
  BY <1>12 DEF Shutdown, agentSideVars, networkVars, queryVars
<1>13. ASSUME NEW c \in Connection, LoseConnection(c) PROVE AskedIsSingle'
  BY <1>13 DEF LoseConnection, queryVars, MessagesShape
<1>14. ASSUME NEW c \in Connection, HandleRegisterAgent(c) PROVE AskedIsSingle'
  BY <1>14 DEF HandleRegisterAgent, Received, agentSideVars, networkVars, queryVars
<1>15. ASSUME NEW c \in Connection, HandleUpdateAgentStatus(c) PROVE AskedIsSingle'
  BY <1>15 DEF HandleUpdateAgentStatus, Received, agentSideVars, networkVars, queryVars
<1>16. ASSUME NEW c \in Connection, DeregisterAgent(c) PROVE AskedIsSingle'
  BY <1>16 DEF DeregisterAgent, Received, agentSideVars, networkVars, queryVars
<1>17. ASSUME NEW c \in Connection, ForwardResponse(c) PROVE AskedIsSingle'
  BY <1>17 DEF ForwardResponse, Received, agentSideVars, networkVars, queryVars
<1>18. ASSUME NEW c \in Connection, CloseSession(c) PROVE AskedIsSingle'
  BY <1>18 DEF CloseSession, agentSideVars, networkVars, queryVars
<1>19. ASSUME NEW c \in Connection, EndSession(c) PROVE AskedIsSingle'
  BY <1>19 DEF EndSession, queryVars, MessagesShape
<1>20. ASSUME NEW q \in Query, AgentNotFound(q) PROVE AskedIsSingle'
  <2>1. downward' = downward /\ query' = [query EXCEPT ![q] = "ended"]
    BY <1>20 DEF AgentNotFound, EndQuery
  <2>2. \A x \in Query : query'[x] = "idle" => query[x] = "idle"
    BY <2>1 DEF QueriesShape
  <2>3. \A d \in Connection : \A i \in DOMAIN downward[d] : downward[d][i] \in Query
    BY DEF MessagesShape
  <2> QED
    BY <2>1, <2>2, <2>3
<1>21. ASSUME NEW q \in Query, SendFails(q) PROVE AskedIsSingle'
  <2>1. downward' = downward /\ query' = [query EXCEPT ![q] = "ended"]
    BY <1>21 DEF SendFails, EndQuery
  <2>2. \A x \in Query : query'[x] = "idle" => query[x] = "idle"
    BY <2>1 DEF QueriesShape
  <2>3. \A d \in Connection : \A i \in DOMAIN downward[d] : downward[d][i] \in Query
    BY DEF MessagesShape
  <2> QED
    BY <2>1, <2>2, <2>3
<1>22. ASSUME NEW q \in Query, SendRpcMessage(q) PROVE AskedIsSingle'
  <2>1. /\ pool.conn \in Connection /\ query' = [query EXCEPT ![q] = "sent"]
        /\ downward' \in {downward, [downward EXCEPT ![pool.conn] = Append(@, q)]}
    BY <1>22 DEF SendRpcMessage, PoolShape, PoolEntry, None
  <2>2. \A x \in Query : query'[x] = "idle" => query[x] = "idle" /\ x # q
    BY <2>1 DEF QueriesShape
  <2>3. \A d \in Connection : \A i \in DOMAIN downward[d] : downward[d][i] \in Query \ {q}
    BY <1>22 DEF SendRpcMessage, MessagesShape
  <2>4. CASE downward' = downward
    BY <2>2, <2>3, <2>4
  <2>5. CASE downward' = [downward EXCEPT ![pool.conn] = Append(@, q)]
    <3>1. \A d \in Connection \ {pool.conn} : downward'[d] = downward[d]
      BY <2>5 DEF MessagesShape
    <3>2. downward'[pool.conn] = Append(downward[pool.conn], q) /\ downward[pool.conn] \in Seq(Query)
      BY <2>1, <2>5 DEF MessagesShape
    <3> DEFINE s == downward[pool.conn]  t == downward'[pool.conn]
    <3>3. \A i \in DOMAIN t : (i \in DOMAIN s /\ t[i] = s[i]) \/ (i = Len(s) + 1 /\ t[i] = q)
      BY <3>2
    <3>4. \A i \in DOMAIN t : query'[t[i]] # "idle"
      BY <2>1, <2>2, <2>3, <3>3
    <3>5. \A i, j \in DOMAIN t : t[i] = t[j] => i = j
      BY <2>1, <2>3, <3>3
    <3>6. \A d \in Connection \ {pool.conn} :
             \A i \in DOMAIN downward[d] : query'[downward[d][i]] # "idle"
      BY <2>2, <2>3
    <3> QED
      BY <3>1, <3>4, <3>5, <3>6
  <2> QED
    BY <2>1, <2>4, <2>5
<1>23. ASSUME NEW q \in Query, RegisterSender(q) PROVE AskedIsSingle'
  <2>1. downward' = downward /\ query' = [query EXCEPT ![q] = "waiting"]
    BY <1>23 DEF RegisterSender, networkVars
  <2>2. \A x \in Query : query'[x] = "idle" => query[x] = "idle"
    BY <2>1 DEF QueriesShape
  <2>3. \A d \in Connection : \A i \in DOMAIN downward[d] : downward[d][i] \in Query
    BY DEF MessagesShape
  <2> QED
    BY <2>1, <2>2, <2>3
<1>24. ASSUME NEW q \in Query, ReceiveAnswer(q) PROVE AskedIsSingle'
  <2>1. downward' = downward /\ query' = [query EXCEPT ![q] = "ended"]
    BY <1>24 DEF ReceiveAnswer, EndQuery
  <2>2. \A x \in Query : query'[x] = "idle" => query[x] = "idle"
    BY <2>1 DEF QueriesShape
  <2>3. \A d \in Connection : \A i \in DOMAIN downward[d] : downward[d][i] \in Query
    BY DEF MessagesShape
  <2> QED
    BY <2>1, <2>2, <2>3
<1>25. ASSUME NEW q \in Query, AgentGone(q) PROVE AskedIsSingle'
  <2>1. downward' = downward /\ query' = [query EXCEPT ![q] = "ended"]
    BY <1>25 DEF AgentGone, EndQuery
  <2>2. \A x \in Query : query'[x] = "idle" => query[x] = "idle"
    BY <2>1 DEF QueriesShape
  <2>3. \A d \in Connection : \A i \in DOMAIN downward[d] : downward[d][i] \in Query
    BY DEF MessagesShape
  <2> QED
    BY <2>1, <2>2, <2>3
<1>26. ASSUME NEW q \in Query, QueryTimeout(q) PROVE AskedIsSingle'
  <2>1. downward' = downward /\ query' = [query EXCEPT ![q] = "ended"]
    BY <1>26 DEF QueryTimeout, EndQuery
  <2>2. \A x \in Query : query'[x] = "idle" => query[x] = "idle"
    BY <2>1 DEF QueriesShape
  <2>3. \A d \in Connection : \A i \in DOMAIN downward[d] : downward[d][i] \in Query
    BY DEF MessagesShape
  <2> QED
    BY <2>1, <2>2, <2>3
<1>27. CASE SnapshotsStream
  BY <1>27 DEF SnapshotsStream, agentSideVars, networkVars, queryVars
<1> QED
  BY <1>1, <1>2, <1>3, <1>4, <1>5, <1>6, <1>7, <1>8, <1>9, <1>10, <1>11, <1>12, <1>13, <1>14, <1>15, <1>16, <1>17, <1>18, <1>19, <1>20, <1>21, <1>22, <1>23, <1>24, <1>25, <1>26, <1>27, NextCases

\* No question is asked twice: what is past stays past.
LEMMA PastGrows ==
    ASSUME LoopShape, MessagesShape, PoolShape, QueriesShape, AgentConnectionNext,
           NEW d \in Connection
    PROVE  PastOn(d) \subseteq PastOn(d)'
<1>1. \A x \in Query : query'[x] = "idle" => query[x] = "idle"
  <2>1. UNCHANGED query \/ \E q \in Query, e \in {"ended", "sent", "waiting"} :
                               query' = [query EXCEPT ![q] = e]
    BY NextCases DEF RegisterIssue, SetField, IncrementVersion, Connect, RegisterWithSnapshot,
       BeginStatusUpdate, SendStatusUpdate, HandleIncomingRequest, ConnectionLost, Deregister,
       CloseSocket, Shutdown, SnapshotsStream, LoseConnection, HandleRegisterAgent,
       HandleUpdateAgentStatus, DeregisterAgent, ForwardResponse, CloseSession, EndSession,
       AgentNotFound, SendFails, SendRpcMessage, RegisterSender, ReceiveAnswer, AgentGone,
       QueryTimeout, EndQuery, queryVars
  <2> QED
    BY <2>1 DEF QueriesShape
<1>2. \A x \in Query : query[x] # "idle" =>
         ((\A i \in DOMAIN downward[d] : downward[d][i] # x)
            => (\A i \in DOMAIN downward'[d] : downward'[d][i] # x))
  <2>1. \/ UNCHANGED downward
        \/ HandleIncomingRequest
        \/ \E c \in Connection : downward' = [downward EXCEPT ![c] = <<>>]
        \/ \E q \in Query : SendRpcMessage(q)
    BY NextCases DEF RegisterIssue, SetField, IncrementVersion, Connect, RegisterWithSnapshot,
       BeginStatusUpdate, SendStatusUpdate, ConnectionLost, Deregister,
       CloseSocket, Shutdown, SnapshotsStream, LoseConnection, HandleRegisterAgent,
       HandleUpdateAgentStatus, DeregisterAgent, ForwardResponse, CloseSession, EndSession,
       AgentNotFound, SendFails, RegisterSender, ReceiveAnswer, AgentGone,
       QueryTimeout, networkVars
  <2>2. CASE UNCHANGED downward
    BY <2>2
  <2>3. CASE HandleIncomingRequest
    <3>1. conn \in Connection /\ downward[conn] \in Seq(Query) /\ downward[conn] # <<>>
      BY <2>3 DEF HandleIncomingRequest, LoopShape, Connection, MessagesShape
    <3>2. downward'[conn] = Tail(downward[conn])
      BY <2>3, <3>1 DEF HandleIncomingRequest, MessagesShape
    <3>3. ASSUME NEW i \in DOMAIN downward'[conn]
          PROVE  i + 1 \in DOMAIN downward[conn] /\ downward'[conn][i] = downward[conn][i + 1]
      BY <3>1, <3>2
    <3>4. d # conn => downward'[d] = downward[d]
      BY <2>3 DEF HandleIncomingRequest, MessagesShape
    <3> QED
      BY <3>3, <3>4
  <2>4. ASSUME NEW c \in Connection, downward' = [downward EXCEPT ![c] = <<>>]
        PROVE  DOMAIN downward'[d] = {} \/ downward'[d] = downward[d]
    BY <2>4 DEF MessagesShape
  <2>5. ASSUME NEW q \in Query, SendRpcMessage(q)
        PROVE  /\ query[q] = "idle"
               /\ \A i \in DOMAIN downward'[d] :
                     downward'[d][i] = q \/ (i \in DOMAIN downward[d] /\ downward'[d][i] = downward[d][i])
    <3>1. /\ pool.conn \in Connection /\ query[q] = "idle"
          /\ downward' = downward \/ downward' = [downward EXCEPT ![pool.conn] = Append(@, q)]
      BY <2>5 DEF SendRpcMessage, PoolShape, PoolEntry, None
    <3>2. downward[d] \in Seq(Query)
      BY DEF MessagesShape
    <3>3. downward'[d] = downward[d] \/ downward'[d] = Append(downward[d], q)
      BY <3>1 DEF MessagesShape
    <3> QED
      BY <3>1, <3>2, <3>3
  <2> QED
    BY <2>1, <2>2, <2>3, <2>4, <2>5
<1> QED
  BY <1>1, <1>2 DEF PastOn

\* There are as many questions past as there were, or more.
LEMMA PastIsCounted ==
    ASSUME LoopShape, MessagesShape, PoolShape, QueriesShape, AgentConnectionNext,
           NEW d \in Connection
    PROVE  /\ Cardinality(PastOn(d)) \in Nat /\ Cardinality(PastOn(d)') \in Nat
           /\ Cardinality(PastOn(d)) <= Cardinality(PastOn(d)')
<1>1. PastOn(d) \subseteq Query /\ PastOn(d)' \subseteq Query
  BY DEF PastOn
<1>2. IsFiniteSet(PastOn(d)')
  BY <1>1, FS_Subset, AgentConnectionAssumption
<1>3. IsFiniteSet(PastOn(d)) /\ Cardinality(PastOn(d)) <= Cardinality(PastOn(d)')
  BY <1>2, PastGrows, FS_Subset
<1> QED
  BY <1>2, <1>3, FS_CardinalityType

\* A reply is written for a question that is past from then on.
LEMMA ReplyIsPast ==
    ASSUME LoopShape, MessagesShape, PoolShape, QueriesShape, AskedIsSingle, HandleIncomingRequest
    PROVE  Cardinality(PastOn(conn)') >= Cardinality(PastOn(conn)) + 1
<1>1. conn \in Connection /\ downward[conn] \in Seq(Query) /\ downward[conn] # <<>>
  BY DEF HandleIncomingRequest, LoopShape, Connection, MessagesShape
<1>2. AgentConnectionNext
  BY DEF AgentConnectionNext, AgentStep
<1> DEFINE h == Head(downward[conn])
<1>3. h \in Query /\ 1 \in DOMAIN downward[conn] /\ h = downward[conn][1]
  BY <1>1
<1>4. h \notin PastOn(conn)
  BY <1>3 DEF PastOn
<1>5. h \in PastOn(conn)'
  <2>1. downward'[conn] = Tail(downward[conn]) /\ query' = query /\ conn' = conn
    BY <1>1 DEF HandleIncomingRequest, MessagesShape, queryVars, agentSideVars
  <2>2. ASSUME NEW i \in DOMAIN downward'[conn] PROVE downward'[conn][i] # h
    <3>1. i \in Nat /\ i # 0 /\ i + 1 \in DOMAIN downward[conn]
          /\ downward'[conn][i] = downward[conn][i + 1]
      BY <1>1, <2>1
    <3>2. downward[conn][i + 1] # downward[conn][1]
      BY <1>1, <1>3, <3>1 DEF AskedIsSingle
    <3> QED
      BY <1>3, <3>1, <3>2
  <2>3. query'[h] # "idle"
    BY <1>1, <1>3, <2>1 DEF AskedIsSingle
  <2> QED
    BY <1>3, <2>1, <2>2, <2>3 DEF PastOn
<1>6. PastOn(conn) \cup {h} \subseteq PastOn(conn)'
  <2>1. conn' = conn
    BY DEF HandleIncomingRequest, agentSideVars
  <2> QED
    BY <1>1, <1>2, <1>5, <2>1, PastGrows
<1>7. PastOn(conn) \subseteq Query /\ PastOn(conn)' \subseteq Query
  BY DEF PastOn
<1>8. IsFiniteSet(PastOn(conn)) /\ IsFiniteSet(PastOn(conn)')
  BY <1>7, FS_Subset, AgentConnectionAssumption
<1>9. Cardinality(PastOn(conn) \cup {h}) = Cardinality(PastOn(conn)) + 1
  BY <1>4, <1>8, FS_AddElement
<1>10. Cardinality(PastOn(conn) \cup {h}) <= Cardinality(PastOn(conn)')
  BY <1>6, <1>8, FS_Subset
<1> QED
  BY <1>9, <1>10, <1>8, FS_CardinalityType, FS_AddElement

\* A reply is a message.
LEMMA ReplyIsMessage ==
    ASSUME StatusIsCounted, MessagesShape, conn \in Connection, downward[conn] # <<>>
    PROVE  [Report("reply") EXCEPT !.query = Head(downward[conn])] \in Upward
<1> DEFINE h == Head(downward[conn])
<1>1. h \in Query
  BY DEF MessagesShape
<1>2. Report("reply") \in Upward
  BY ReportIsMessage
<1> HIDE DEF h
<1>3. ASSUME NEW r \in Upward PROVE [r EXCEPT !.query = h] \in Upward
  BY <1>1 DEF Upward
<1> QED
  BY <1>2, <1>3 DEF h

\* The queue stays within what room there was, the replies and the farewell.
LEMMA QueueIsBoundedStep ==
    ASSUME StatusIsCounted, LoopShape, MessagesShape, PoolShape, QueriesShape, AskedIsSingle, QueueIsBounded, AgentConnectionNext
    PROVE  QueueIsBounded'
<1>1. PICK old \in [Connection -> Nat] : old = [c \in Connection |-> Cardinality(PastOn(c))]
  BY PastIsCounted
<1>2. PICK new \in [Connection -> Nat] : new = [c \in Connection |-> Cardinality(PastOn(c)')]
  BY PastIsCounted
<1>3. QueueFits(old)
  BY <1>1 DEF QueueIsBounded
<1>4. \A c \in Connection : old[c] \in Nat /\ new[c] \in Nat /\ old[c] <= new[c]
  BY <1>1, <1>2, PastIsCounted
<1>5. \A c \in Connection : Len(upward[c]) \in Nat
  BY DEF MessagesShape
<1> USE <1>3, <1>4, AgentConnectionAssumption DEF QueueFits
<1>11. ASSUME RegisterIssue PROVE QueueFits(new)'
  BY <1>11, <1>5 DEF RegisterIssue, Event, agentSideVars, networkVars, queryVars
<1>12. ASSUME SetField PROVE QueueFits(new)'
  BY <1>12, <1>5 DEF SetField, Event, agentSideVars, networkVars, queryVars
<1>13. ASSUME IncrementVersion PROVE QueueFits(new)'
  BY <1>13, <1>5 DEF IncrementVersion, agentSideVars, networkVars, queryVars
<1>14. ASSUME Connect PROVE QueueFits(new)'
  <2>1. /\ upward' = upward /\ conn' = conn + 1 /\ conn' \in Connection
        /\ loop = "disconnected" /\ loop' = "registering"
    BY <1>14, <1>5 DEF Connect, LoopShape, Connection
  <2> QED
    BY <2>1, <1>5 DEF Connection, LoopShape
<1>15. ASSUME RegisterWithSnapshot PROVE QueueFits(new)'
  <2>1. /\ conn \in Connection /\ conn # 0 /\ conn' = conn /\ Write(Report("register"))
        /\ Report("register") \in Upward /\ loop = "registering" /\ loop' = "select"
    BY <1>15, ReportIsMessage DEF RegisterWithSnapshot, LoopShape, Connection
  <2>2. /\ \A d \in Connection \ {conn} : upward'[d] = upward[d]
        /\ Len(upward'[conn]) <= Len(upward[conn]) + 1
        /\ Len(upward[conn]) \in Nat /\ Len(upward'[conn]) \in Nat
    BY <2>1, WriteShape DEF MessagesShape
  <2>5. ASSUME NEW d \in Connection, d > conn' PROVE upward'[d] = <<>>
    <3>1. conn \in Nat /\ d \in Nat /\ d > conn /\ d # conn /\ upward[d] = <<>>
      BY <2>5, <2>1 DEF Connection, LoopShape
    <3> QED
      BY <3>1, <2>1, <2>2, <1>5
  <2>6. (loop' = "registering" => upward'[conn'] = <<>>)
          /\ (loop' = "reporting" => Len(upward'[conn']) < MaxQueued)
    BY <2>1, <2>2, <1>5
  <2>7. ASSUME NEW d \in Connection
        PROVE  Len(upward'[d]) <= MaxQueued + new[d]
                                    + (IF loop' \in {"leaving", "stopped"} THEN 1 ELSE 0)
    <3>1. Len(upward[d]) \in Nat /\ Len(upward'[d]) \in Nat
      BY <2>1, <2>2, <1>5
    <3>2. CASE upward'[d] = upward[d]
      BY <3>1, <3>2, <2>1
    <3>3. CASE upward'[d] # upward[d]
      BY <3>1, <3>3, <2>1, <2>2, <1>5
    <3> QED
      BY <3>2, <3>3
  <2> QED
    BY <2>5, <2>6, <2>7
<1>16. ASSUME BeginStatusUpdate PROVE QueueFits(new)'
  BY <1>16, <1>5 DEF BeginStatusUpdate, ReadFields, agentSideVars, networkVars, queryVars
<1>17. ASSUME SendStatusUpdate PROVE QueueFits(new)'
  <2>1. /\ conn \in Connection /\ conn # 0 /\ conn' = conn /\ Write(Report("update"))
        /\ Report("update") \in Upward /\ loop = "reporting" /\ loop' = "select"
    BY <1>17, ReportIsMessage DEF SendStatusUpdate, LoopShape, Connection
  <2>2. /\ \A d \in Connection \ {conn} : upward'[d] = upward[d]
        /\ Len(upward'[conn]) <= Len(upward[conn]) + 1
        /\ Len(upward[conn]) \in Nat /\ Len(upward'[conn]) \in Nat
    BY <2>1, WriteShape DEF MessagesShape
  <2>5. ASSUME NEW d \in Connection, d > conn' PROVE upward'[d] = <<>>
    <3>1. conn \in Nat /\ d \in Nat /\ d > conn /\ d # conn /\ upward[d] = <<>>
      BY <2>5, <2>1 DEF Connection, LoopShape
    <3> QED
      BY <3>1, <2>1, <2>2, <1>5
  <2>6. (loop' = "registering" => upward'[conn'] = <<>>)
          /\ (loop' = "reporting" => Len(upward'[conn']) < MaxQueued)
    BY <2>1, <2>2, <1>5
  <2>7. ASSUME NEW d \in Connection
        PROVE  Len(upward'[d]) <= MaxQueued + new[d]
                                    + (IF loop' \in {"leaving", "stopped"} THEN 1 ELSE 0)
    <3>1. Len(upward[d]) \in Nat /\ Len(upward'[d]) \in Nat
      BY <2>1, <2>2, <1>5
    <3>2. CASE upward'[d] = upward[d]
      BY <3>1, <3>2, <2>1
    <3>3. CASE upward'[d] # upward[d]
      BY <3>1, <3>3, <2>1, <2>2, <1>5
    <3> QED
      BY <3>2, <3>3
  <2> QED
    BY <2>5, <2>6, <2>7
<1>18. ASSUME HandleIncomingRequest PROVE QueueFits(new)'
  <2>1. conn \in Connection /\ conn # 0 /\ conn' = conn /\ loop = "select" /\ loop' = loop
    BY <1>18, <1>5 DEF HandleIncomingRequest, LoopShape, Connection, agentSideVars
  <2>2. /\ \A d \in Connection \ {conn} : upward'[d] = upward[d]
        /\ Len(upward'[conn]) <= Len(upward[conn]) + 1
        /\ Len(upward[conn]) \in Nat /\ Len(upward'[conn]) \in Nat
    <3> DEFINE m == [Report("reply") EXCEPT !.query = Head(downward[conn])]
    <3>1. m \in Upward
      BY <1>18, <2>1, ReplyIsMessage DEF HandleIncomingRequest
    <3>2. Write(m)
      BY <1>18, <1>5 DEF HandleIncomingRequest
    <3> HIDE DEF m
    <3> QED
      BY <2>1, <3>1, <3>2, WriteShape DEF MessagesShape
  <2>3. new[conn] >= old[conn] + 1
    BY <1>18, <2>1, <1>1, <1>2, ReplyIsPast
  <2>5. ASSUME NEW d \in Connection, d > conn' PROVE upward'[d] = <<>>
    <3>1. conn \in Nat /\ d \in Nat /\ d > conn /\ d # conn /\ upward[d] = <<>>
      BY <2>5, <2>1 DEF Connection, LoopShape
    <3> QED
      BY <3>1, <2>1, <2>2, <2>3, <1>5
  <2>6. (loop' = "registering" => upward'[conn'] = <<>>)
          /\ (loop' = "reporting" => Len(upward'[conn']) < MaxQueued)
    BY <2>1, <2>2, <2>3, <1>5
  <2>7. ASSUME NEW d \in Connection
        PROVE  Len(upward'[d]) <= MaxQueued + new[d]
                                    + (IF loop' \in {"leaving", "stopped"} THEN 1 ELSE 0)
    <3>1. Len(upward[d]) \in Nat /\ Len(upward'[d]) \in Nat
      BY <2>1, <2>2, <2>3, <1>5
    <3>2. CASE upward'[d] = upward[d]
      BY <3>1, <3>2, <2>1
    <3>3. CASE upward'[d] # upward[d]
      BY <3>1, <3>3, <2>1, <2>2, <2>3, <1>5
    <3> QED
      BY <3>2, <3>3
  <2> QED
    BY <2>5, <2>6, <2>7
<1>19. ASSUME ConnectionLost PROVE QueueFits(new)'
  BY <1>19, <1>5 DEF ConnectionLost, agentSideVars, networkVars, queryVars
<1>20. ASSUME Deregister PROVE QueueFits(new)'
  <2>1. /\ conn \in Connection /\ conn # 0 /\ conn' = conn /\ Write(Report("deregister"))
        /\ Report("deregister") \in Upward /\ loop = "select" /\ loop' = "leaving"
    BY <1>20, ReportIsMessage DEF Deregister, LoopShape, Connection
  <2>2. /\ \A d \in Connection \ {conn} : upward'[d] = upward[d]
        /\ Len(upward'[conn]) <= Len(upward[conn]) + 1
        /\ Len(upward[conn]) \in Nat /\ Len(upward'[conn]) \in Nat
    BY <2>1, WriteShape DEF MessagesShape
  <2>5. ASSUME NEW d \in Connection, d > conn' PROVE upward'[d] = <<>>
    <3>1. conn \in Nat /\ d \in Nat /\ d > conn /\ d # conn /\ upward[d] = <<>>
      BY <2>5, <2>1 DEF Connection, LoopShape
    <3> QED
      BY <3>1, <2>1, <2>2, <1>5
  <2>6. (loop' = "registering" => upward'[conn'] = <<>>)
          /\ (loop' = "reporting" => Len(upward'[conn']) < MaxQueued)
    BY <2>1, <2>2, <1>5
  <2>7. ASSUME NEW d \in Connection
        PROVE  Len(upward'[d]) <= MaxQueued + new[d]
                                    + (IF loop' \in {"leaving", "stopped"} THEN 1 ELSE 0)
    <3>1. Len(upward[d]) \in Nat /\ Len(upward'[d]) \in Nat
      BY <2>1, <2>2, <1>5
    <3>2. CASE upward'[d] = upward[d]
      BY <3>1, <3>2, <2>1
    <3>3. CASE upward'[d] # upward[d]
      BY <3>1, <3>3, <2>1, <2>2, <1>5
    <3> QED
      BY <3>2, <3>3
  <2> QED
    BY <2>5, <2>6, <2>7
<1>21. ASSUME CloseSocket PROVE QueueFits(new)'
  BY <1>21, <1>5 DEF CloseSocket, agentSideVars, networkVars, queryVars
<1>22. ASSUME Shutdown PROVE QueueFits(new)'
  BY <1>22, <1>5 DEF Shutdown, agentSideVars, networkVars, queryVars
<1>23. ASSUME NEW c \in Connection, LoseConnection(c) PROVE QueueFits(new)'
  BY <1>23, <1>5 DEF LoseConnection, Event, agentSideVars, networkVars, queryVars
<1>24. ASSUME NEW c \in Connection, HandleRegisterAgent(c) PROVE QueueFits(new)'
  <2>1. /\ upward[c] # <<>> /\ upward' = [upward EXCEPT ![c] = Tail(@)]
        /\ conn' = conn /\ loop' = loop
    BY <1>24, <1>5 DEF HandleRegisterAgent, Received, agentSideVars
  <2>2. /\ Len(upward'[c]) = Len(upward[c]) - 1 /\ Len(upward[c]) \in Nat
        /\ \A d \in Connection \ {c} : upward'[d] = upward[d]
        /\ \A d \in Connection : Len(upward[d]) \in Nat
    BY <2>1, ReadShape DEF MessagesShape
  <2>3. c <= conn /\ ~(loop = "registering" /\ c = conn)
    BY <2>1 DEF Connection, LoopShape
  <2>5. ASSUME NEW d \in Connection, d > conn' PROVE upward'[d] = <<>>
    <3>1. conn \in Nat /\ d \in Nat /\ d > conn /\ d # conn /\ upward[d] = <<>>
      BY <2>5, <2>1 DEF Connection, LoopShape
    <3> QED
      BY <3>1, <2>1, <2>2, <2>3, <1>5
  <2>6. (loop' = "registering" => upward'[conn'] = <<>>)
          /\ (loop' = "reporting" => Len(upward'[conn']) < MaxQueued)
    BY <2>1, <2>2, <2>3, <1>5
  <2>7. ASSUME NEW d \in Connection
        PROVE  Len(upward'[d]) <= MaxQueued + new[d]
                                    + (IF loop' \in {"leaving", "stopped"} THEN 1 ELSE 0)
    <3>1. Len(upward[d]) \in Nat /\ Len(upward'[d]) \in Nat
      BY <2>1, <2>2, <2>3, <1>5
    <3>2. CASE upward'[d] = upward[d]
      BY <3>1, <3>2, <2>1
    <3>3. CASE upward'[d] # upward[d]
      BY <3>1, <3>3, <2>1, <2>2, <2>3, <1>5
    <3> QED
      BY <3>2, <3>3
  <2> QED
    BY <2>5, <2>6, <2>7
<1>25. ASSUME NEW c \in Connection, HandleUpdateAgentStatus(c) PROVE QueueFits(new)'
  <2>1. /\ upward[c] # <<>> /\ upward' = [upward EXCEPT ![c] = Tail(@)]
        /\ conn' = conn /\ loop' = loop
    BY <1>25, <1>5 DEF HandleUpdateAgentStatus, Received, agentSideVars
  <2>2. /\ Len(upward'[c]) = Len(upward[c]) - 1 /\ Len(upward[c]) \in Nat
        /\ \A d \in Connection \ {c} : upward'[d] = upward[d]
        /\ \A d \in Connection : Len(upward[d]) \in Nat
    BY <2>1, ReadShape DEF MessagesShape
  <2>3. c <= conn /\ ~(loop = "registering" /\ c = conn)
    BY <2>1 DEF Connection, LoopShape
  <2>5. ASSUME NEW d \in Connection, d > conn' PROVE upward'[d] = <<>>
    <3>1. conn \in Nat /\ d \in Nat /\ d > conn /\ d # conn /\ upward[d] = <<>>
      BY <2>5, <2>1 DEF Connection, LoopShape
    <3> QED
      BY <3>1, <2>1, <2>2, <2>3, <1>5
  <2>6. (loop' = "registering" => upward'[conn'] = <<>>)
          /\ (loop' = "reporting" => Len(upward'[conn']) < MaxQueued)
    BY <2>1, <2>2, <2>3, <1>5
  <2>7. ASSUME NEW d \in Connection
        PROVE  Len(upward'[d]) <= MaxQueued + new[d]
                                    + (IF loop' \in {"leaving", "stopped"} THEN 1 ELSE 0)
    <3>1. Len(upward[d]) \in Nat /\ Len(upward'[d]) \in Nat
      BY <2>1, <2>2, <2>3, <1>5
    <3>2. CASE upward'[d] = upward[d]
      BY <3>1, <3>2, <2>1
    <3>3. CASE upward'[d] # upward[d]
      BY <3>1, <3>3, <2>1, <2>2, <2>3, <1>5
    <3> QED
      BY <3>2, <3>3
  <2> QED
    BY <2>5, <2>6, <2>7
<1>26. ASSUME NEW c \in Connection, DeregisterAgent(c) PROVE QueueFits(new)'
  <2>1. /\ upward[c] # <<>> /\ upward' = [upward EXCEPT ![c] = Tail(@)]
        /\ conn' = conn /\ loop' = loop
    BY <1>26, <1>5 DEF DeregisterAgent, Received, agentSideVars
  <2>2. /\ Len(upward'[c]) = Len(upward[c]) - 1 /\ Len(upward[c]) \in Nat
        /\ \A d \in Connection \ {c} : upward'[d] = upward[d]
        /\ \A d \in Connection : Len(upward[d]) \in Nat
    BY <2>1, ReadShape DEF MessagesShape
  <2>3. c <= conn /\ ~(loop = "registering" /\ c = conn)
    BY <2>1 DEF Connection, LoopShape
  <2>5. ASSUME NEW d \in Connection, d > conn' PROVE upward'[d] = <<>>
    <3>1. conn \in Nat /\ d \in Nat /\ d > conn /\ d # conn /\ upward[d] = <<>>
      BY <2>5, <2>1 DEF Connection, LoopShape
    <3> QED
      BY <3>1, <2>1, <2>2, <2>3, <1>5
  <2>6. (loop' = "registering" => upward'[conn'] = <<>>)
          /\ (loop' = "reporting" => Len(upward'[conn']) < MaxQueued)
    BY <2>1, <2>2, <2>3, <1>5
  <2>7. ASSUME NEW d \in Connection
        PROVE  Len(upward'[d]) <= MaxQueued + new[d]
                                    + (IF loop' \in {"leaving", "stopped"} THEN 1 ELSE 0)
    <3>1. Len(upward[d]) \in Nat /\ Len(upward'[d]) \in Nat
      BY <2>1, <2>2, <2>3, <1>5
    <3>2. CASE upward'[d] = upward[d]
      BY <3>1, <3>2, <2>1
    <3>3. CASE upward'[d] # upward[d]
      BY <3>1, <3>3, <2>1, <2>2, <2>3, <1>5
    <3> QED
      BY <3>2, <3>3
  <2> QED
    BY <2>5, <2>6, <2>7
<1>27. ASSUME NEW c \in Connection, ForwardResponse(c) PROVE QueueFits(new)'
  <2>1. /\ upward[c] # <<>> /\ upward' = [upward EXCEPT ![c] = Tail(@)]
        /\ conn' = conn /\ loop' = loop
    BY <1>27, <1>5 DEF ForwardResponse, Received, agentSideVars
  <2>2. /\ Len(upward'[c]) = Len(upward[c]) - 1 /\ Len(upward[c]) \in Nat
        /\ \A d \in Connection \ {c} : upward'[d] = upward[d]
        /\ \A d \in Connection : Len(upward[d]) \in Nat
    BY <2>1, ReadShape DEF MessagesShape
  <2>3. c <= conn /\ ~(loop = "registering" /\ c = conn)
    BY <2>1 DEF Connection, LoopShape
  <2>5. ASSUME NEW d \in Connection, d > conn' PROVE upward'[d] = <<>>
    <3>1. conn \in Nat /\ d \in Nat /\ d > conn /\ d # conn /\ upward[d] = <<>>
      BY <2>5, <2>1 DEF Connection, LoopShape
    <3> QED
      BY <3>1, <2>1, <2>2, <2>3, <1>5
  <2>6. (loop' = "registering" => upward'[conn'] = <<>>)
          /\ (loop' = "reporting" => Len(upward'[conn']) < MaxQueued)
    BY <2>1, <2>2, <2>3, <1>5
  <2>7. ASSUME NEW d \in Connection
        PROVE  Len(upward'[d]) <= MaxQueued + new[d]
                                    + (IF loop' \in {"leaving", "stopped"} THEN 1 ELSE 0)
    <3>1. Len(upward[d]) \in Nat /\ Len(upward'[d]) \in Nat
      BY <2>1, <2>2, <2>3, <1>5
    <3>2. CASE upward'[d] = upward[d]
      BY <3>1, <3>2, <2>1
    <3>3. CASE upward'[d] # upward[d]
      BY <3>1, <3>3, <2>1, <2>2, <2>3, <1>5
    <3> QED
      BY <3>2, <3>3
  <2> QED
    BY <2>5, <2>6, <2>7
<1>28. ASSUME NEW c \in Connection, CloseSession(c) PROVE QueueFits(new)'
  BY <1>28, <1>5 DEF CloseSession, agentSideVars, networkVars, queryVars
<1>29. ASSUME NEW c \in Connection, EndSession(c) PROVE QueueFits(new)'
  <2>1. /\ upward' = [upward EXCEPT ![c] = <<>>] /\ conn' = conn /\ loop' = loop
    BY <1>29, <1>5 DEF EndSession, agentSideVars
  <2>2. /\ upward'[c] = <<>> /\ \A d \in Connection \ {c} : upward'[d] = upward[d]
        /\ \A d \in Connection : Len(upward[d]) \in Nat
    BY <2>1 DEF MessagesShape
  <2>5. ASSUME NEW d \in Connection, d > conn' PROVE upward'[d] = <<>>
    <3>1. conn \in Nat /\ d \in Nat /\ d > conn /\ d # conn /\ upward[d] = <<>>
      BY <2>5, <2>1 DEF Connection, LoopShape
    <3> QED
      BY <3>1, <2>1, <2>2, <1>5
  <2>6. (loop' = "registering" => upward'[conn'] = <<>>)
          /\ (loop' = "reporting" => Len(upward'[conn']) < MaxQueued)
    BY <2>1, <2>2, <1>5
  <2>7. ASSUME NEW d \in Connection
        PROVE  Len(upward'[d]) <= MaxQueued + new[d]
                                    + (IF loop' \in {"leaving", "stopped"} THEN 1 ELSE 0)
    <3>1. Len(upward[d]) \in Nat /\ Len(upward'[d]) \in Nat
      BY <2>1, <2>2, <1>5
    <3>2. CASE upward'[d] = upward[d]
      BY <3>1, <3>2, <2>1
    <3>3. CASE upward'[d] # upward[d]
      BY <3>1, <3>3, <2>1, <2>2, <1>5
    <3> QED
      BY <3>2, <3>3
  <2> QED
    BY <2>5, <2>6, <2>7
<1>30. ASSUME NEW q \in Query, AgentNotFound(q) PROVE QueueFits(new)'
  BY <1>30, <1>5 DEF AgentNotFound, Event, EndQuery, agentSideVars, networkVars, queryVars
<1>31. ASSUME NEW q \in Query, SendFails(q) PROVE QueueFits(new)'
  BY <1>31, <1>5 DEF SendFails, Event, EndQuery, agentSideVars, networkVars, queryVars
<1>32. ASSUME NEW q \in Query, SendRpcMessage(q) PROVE QueueFits(new)'
  BY <1>32, <1>5 DEF SendRpcMessage, Event, agentSideVars, networkVars, queryVars
<1>33. ASSUME NEW q \in Query, RegisterSender(q) PROVE QueueFits(new)'
  BY <1>33, <1>5 DEF RegisterSender, agentSideVars, networkVars, queryVars
<1>34. ASSUME NEW q \in Query, ReceiveAnswer(q) PROVE QueueFits(new)'
  BY <1>34, <1>5 DEF ReceiveAnswer, EndQuery, agentSideVars, networkVars, queryVars
<1>35. ASSUME NEW q \in Query, AgentGone(q) PROVE QueueFits(new)'
  BY <1>35, <1>5 DEF AgentGone, EndQuery, agentSideVars, networkVars, queryVars
<1>36. ASSUME NEW q \in Query, QueryTimeout(q) PROVE QueueFits(new)'
  BY <1>36, <1>5 DEF QueryTimeout, EndQuery, agentSideVars, networkVars, queryVars
<1>37. ASSUME SnapshotsStream PROVE QueueFits(new)'
  BY <1>37, <1>5 DEF SnapshotsStream, agentSideVars, networkVars, queryVars
<1>40. QueueFits(new)'
  BY <1>11, <1>12, <1>13, <1>14, <1>15, <1>16, <1>17, <1>18, <1>19, <1>20, <1>21, <1>22, <1>23, <1>24, <1>25, <1>26, <1>27, <1>28, <1>29, <1>30, <1>31, <1>32, <1>33, <1>34, <1>35, <1>36, <1>37, NextCases
<1> QED
  BY <1>2, <1>40 DEF QueueIsBounded

\* The agent starts disconnected, with nothing on its way.
LEMMA ConnectionStartsSound == AgentConnectionInit => ConnectionInv
<1> SUFFICES ASSUME AgentConnectionInit PROVE ConnectionInv
  OBVIOUS
<1>1. StatusIsCounted
  <2>1. /\ reported_status = [issues |-> 0, fields |-> 0, version |-> 0]
        /\ events = 0 /\ snapshot = [issues |-> 0, fields |-> 0] /\ writing = FALSE
    BY DEF Blank, AgentConnectionInit
  <2>2. reported_status \in [issues : Nat, fields : Nat, version : Nat]
        /\ reported_status.issues + reported_status.fields <= events
        /\ reported_status.fields = reported_status.version
    BY <2>1
  <2>3. events \in Counter /\ snapshot \in [issues : Counter, fields : Counter]
    BY <2>1, AgentConnectionAssumption DEF Counter
  <2> QED
    BY <2>1, <2>2, <2>3 DEF StatusIsCounted
<1> USE AgentConnectionAssumption DEF AgentConnectionInit
<1>2. LoopShape
  BY DEF LoopShape, Connection
<1>3. MessagesShape
  BY DEF MessagesShape
<1>4. PoolShape /\ QueriesShape /\ AskedIsSingle
  BY DEF PoolShape, QueriesShape, AskedIsSingle
<1>5. QueueIsBounded
  <2>1. \A c \in Connection : PastOn(c) = {}
    BY DEF PastOn
  <2>2. \A c \in Connection : Cardinality(PastOn(c)) = 0
    BY <2>1, FS_EmptySet
  <2>3. \A c \in Connection : upward[c] = <<>> /\ Len(upward[c]) = 0
    OBVIOUS
  <2> QED
    BY <2>2, <2>3 DEF QueueIsBounded, QueueFits, Connection
<1> QED
  BY <1>1, <1>2, <1>3, <1>4, <1>5 DEF ConnectionInv

\* Every step of the two ends keeps the invariant.
LEMMA ConnectionStepIsSound ==
    ConnectionInv /\ [AgentConnectionNext]_agentConnectionVars => ConnectionInv'
<1>1. ASSUME ConnectionInv, AgentConnectionNext PROVE ConnectionInv'
  BY <1>1, StatusIsCountedStep, LoopShapeStep, MessagesShapeStep, PoolShapeStep,
     QueriesShapeStep, AskedIsSingleStep, QueueIsBoundedStep DEF ConnectionInv
<1>2. ASSUME ConnectionInv, UNCHANGED agentConnectionVars PROVE ConnectionInv'
  <2> USE <1>2 DEF agentConnectionVars, ConnectionInv
  <2>1. StatusIsCounted' /\ LoopShape' /\ MessagesShape' /\ PoolShape'
    BY DEF StatusIsCounted, LoopShape, MessagesShape, PoolShape
  <2>2. QueriesShape' /\ AskedIsSingle'
    BY DEF QueriesShape, AskedIsSingle
  <2>3. QueueIsBounded'
    BY DEF QueueIsBounded, QueueFits, PastOn
  <2> QED
    BY <2>1, <2>2, <2>3
<1> QED
  BY <1>1, <1>2

\* A report, a farewell, and a reply for each question: no more are on their way.
LEMMA ConnectionIsTyped == ConnectionInv => AgentConnectionTypeOK
<1> SUFFICES ASSUME ConnectionInv PROVE AgentConnectionTypeOK
  OBVIOUS
<1>1. reported_status \in Snapshot
  BY AgentConnectionAssumption DEF ConnectionInv, StatusIsCounted, Snapshot, Counter
<1>2. ASSUME NEW c \in Connection PROVE Len(upward[c]) <= MaxQueued + Cardinality(Query) + 1
  <2>1. PastOn(c) \subseteq Query
    BY DEF PastOn
  <2>2. /\ Cardinality(PastOn(c)) <= Cardinality(Query)
        /\ Cardinality(PastOn(c)) \in Nat /\ Cardinality(Query) \in Nat
    BY <2>1, FS_Subset, FS_CardinalityType, AgentConnectionAssumption
  <2>3. Len(upward[c]) \in Nat
    BY DEF ConnectionInv, MessagesShape
  <2>4. Len(upward[c]) <= MaxQueued + Cardinality(PastOn(c)) + 1
    BY <2>2, <2>3, AgentConnectionAssumption DEF ConnectionInv, QueueIsBounded, QueueFits
  <2> QED
    BY <2>2, <2>3, <2>4, AgentConnectionAssumption
<1> QED
  BY <1>1, <1>2 DEF ConnectionInv, StatusIsCounted, LoopShape, PoolShape, QueriesShape,
                    AgentConnectionTypeOK

-----------------------------------------------------------------------------
(***************************************************************************)
(* The HTTP endpoints.                                                     *)
(***************************************************************************)
\* There are no more parts than documents.
StreamsInv == HttpStreamsTypeOK /\ DOMAIN parts \subseteq Part

\* chunk_evenly_with_cap makes no more parts than there are documents.
LEMMA PartsFit ==
    ASSUME NEW batch \in EmbeddingRequests, batch.agents > 0, batch.cap > 0
    PROVE  DOMAIN ChunkEvenlyWithCap(batch.documents, batch.agents, batch.cap) \subseteq Part
<1> DEFINE d == batch.documents  a == batch.agents  e == batch.cap
<1>1. d \in 0 .. MaxDocuments /\ a \in Nat /\ e \in Nat /\ MaxDocuments \in Nat
  BY HttpStreamsAssumption
<1>2. a > 0 /\ e > 0
  OBVIOUS
<1> HIDE DEF d, a, e
<1>3. DivCeil(d, e) \in Int
  BY <1>1, <1>2 DEF DivCeil
<1>4. Greatest(a, DivCeil(d, e)) \in Int
  BY <1>1, <1>3 DEF Greatest
<1>5. ChunkCount(d, a, e) \in Int /\ ChunkCount(d, a, e) <= d
  BY <1>1, <1>4 DEF ChunkCount, Least
<1>6. DOMAIN ChunkEvenlyWithCap(d, a, e) \subseteq 1 .. ChunkCount(d, a, e)
  <2>1. CASE d = 0
    <3>1. ChunkEvenlyWithCap(d, a, e) = <<>>
      BY <2>1 DEF ChunkEvenlyWithCap
    <3> QED
      BY <3>1
  <2>2. CASE d # 0
    BY <2>2 DEF ChunkEvenlyWithCap
  <2> QED
    BY <2>1, <2>2
<1>7. DOMAIN ChunkEvenlyWithCap(d, a, e) \subseteq Part
  BY <1>1, <1>5, <1>6 DEF Part
<1> QED
  BY <1>7 DEF d, a, e

\* A request for tokens is turned away or accepted.
LEMMA PostedIsAnswered ==
    ASSUME NEW called, NEW tools, NEW keeper, NEW usage, NEW state,
           PostGenerate(called, tools, keeper, usage, state)
    PROVE  /\ endpoint = "none" /\ endpoint' = called /\ parts' = <<>>
           /\ Refuse(501) \/ Refuse(400) \/ Accept(state)
BY DEF PostGenerate

\* The embedding handler turns a request away or divides it.
LEMMA PostedIsDivided ==
    ASSUME NEW keeper, NEW batch \in EmbeddingRequests, PostGenerateEmbeddingBatch(keeper, batch)
    PROVE  /\ endpoint = "none" /\ endpoint' = "embeddings"
           /\ \/ parts' = <<>> /\ (Refuse(503) \/ Refuse(501) \/ Refuse(500))
              \/ /\ parts' = ChunkEvenlyWithCap(batch.documents, batch.agents, batch.cap)
                 /\ batch.agents > 0 /\ batch.cap > 0
                 /\ SpawnParts /\ status' = 200 /\ client' = "reading"
BY Zenon DEF PostGenerateEmbeddingBatch

\* Every step of an endpoint keeps the types.
LEMMA StreamsStepIsSound ==
    ASSUME StreamsInv, HttpStreamsNext
    PROVE  StreamsInv'
<1>1. HttpStreamsTypeOK /\ DOMAIN parts \subseteq Part /\ 1 \in Part
  BY HttpStreamsAssumption DEF StreamsInv, Part
<1>2. Parts \subseteq Part
  BY <1>1 DEF Parts
<1> USE DEF HttpStreamsTypeOK
<1>3. ASSUME NEW called \in Generating, NEW tools, NEW keeper, NEW usage, NEW state,
             PostGenerate(called, tools, keeper, usage, state)
      PROVE  StreamsInv'
  <2>1. /\ endpoint = "none" /\ endpoint' = called /\ parts' = <<>>
        /\ Refuse(501) \/ Refuse(400) \/ Accept(state)
    BY <1>3, PostedIsAnswered
  <2>2. ASSUME NEW code \in {501, 400}, Refuse(code) PROVE StreamsInv'
    BY <1>1, <2>1, <2>2 DEF Refuse, sourceVars, StreamsInv, Generating, Collected
  <2>3. CASE Accept(state)
    <3>1. /\ phase' = [phase EXCEPT ![1] = "open"] /\ withdrawn' = withdrawn
          /\ senders' = {1} /\ client' = "reading"
          /\ status' = IF endpoint' \in Collected THEN 0 ELSE 200
      BY <2>3 DEF Accept, Source!Open
    <3> QED
      BY <1>1, <2>1, <3>1 DEF StreamsInv, Generating, Collected
  <2> QED
    BY <2>1, <2>2, <2>3
<1>4. ASSUME NEW keeper, NEW batch \in EmbeddingRequests, PostGenerateEmbeddingBatch(keeper, batch)
      PROVE  StreamsInv'
  <2>1. /\ endpoint = "none" /\ endpoint' = "embeddings"
        /\ \/ parts' = <<>> /\ (Refuse(503) \/ Refuse(501) \/ Refuse(500))
           \/ /\ parts' = ChunkEvenlyWithCap(batch.documents, batch.agents, batch.cap)
              /\ batch.agents > 0 /\ batch.cap > 0
              /\ SpawnParts /\ status' = 200 /\ client' = "reading"
    BY <1>4, PostedIsDivided
  <2>2. ASSUME NEW code \in {503, 501, 500}, Refuse(code), parts' = <<>> PROVE StreamsInv'
    BY <1>1, <2>1, <2>2 DEF Refuse, sourceVars, StreamsInv, Generating, Collected
  <2>3. CASE /\ parts' = ChunkEvenlyWithCap(batch.documents, batch.agents, batch.cap)
             /\ batch.agents > 0 /\ batch.cap > 0
             /\ SpawnParts /\ status' = 200 /\ client' = "reading"
    <3>1. DOMAIN parts' \subseteq Part
      BY <2>3, PartsFit
    <3> QED
      BY <1>1, <2>1, <2>3, <3>1 DEF SpawnParts, StreamsInv, Generating, Collected
  <2> QED
    BY <2>1, <2>2, <2>3
<1>5. Post => StreamsInv'
  BY <1>3, <1>4 DEF Post, PostContinue, PostChatCompletions, PostChatCompletionsCollected,
                    PostResponses, PostResponsesCollected, Generating, Collected
<1>6. ASSUME NEW message, AgentGenerates(message) PROVE StreamsInv'
  BY <1>1, <1>6 DEF AgentGenerates, Source!Token, askedVars, StreamsInv
<1>7. ASSUME NEW type, GenerationEnds(type) PROVE StreamsInv'
  BY <1>1, <1>7 DEF GenerationEnds, Source!Answer, askedVars, StreamsInv
<1>8. ASSUME NEW p \in Parts, AgentEmbeds(p) PROVE StreamsInv'
  BY <1>1, <1>8 DEF AgentEmbeds, Source!Token, askedVars, StreamsInv
<1>9. ASSUME NEW p \in Parts, NEW type, EmbeddingEnds(p, type) PROVE StreamsInv'
  BY <1>1, <1>2, <1>9 DEF EmbeddingEnds, Source!Answer, askedVars, StreamsInv
<1>10. ASSUME NEW p \in Parts, CancelledRequestReturns(p) PROVE StreamsInv'
  BY <1>1, <1>2, <1>10 DEF CancelledRequestReturns, Source!Withhold, askedVars, StreamsInv
<1>11. CASE SendFinalDone
  BY <1>1, <1>11 DEF SendFinalDone, askedVars, sourceVars, StreamsInv
<1>12. CASE ReadChunk
  BY <1>1, <1>12 DEF ReadChunk, askedVars, sourceVars, StreamsInv
<1>13. CASE EndOfStream
  BY <1>1, <1>13 DEF EndOfStream, ChannelClosed, askedVars, sourceVars, StreamsInv, Streaming, Collected
<1>14. CASE EndOfChatStream
  BY <1>1, <1>14 DEF EndOfChatStream, ChannelClosed, askedVars, sourceVars, StreamsInv, Collected
<1>15. CASE Collect
  <2>1. CollectedBody.status \in {200, 500}
    BY DEF CollectedBody
  <2> QED
    BY <1>1, <1>15, <2>1 DEF Collect, askedVars, sourceVars, StreamsInv, Collected
<1>16. CASE Leave
  BY <1>1, <1>2, <1>16 DEF Leave, askedVars, StreamsInv
<1> QED
  BY <1>5, <1>6, <1>7, <1>8, <1>9, <1>10, <1>11, <1>12, <1>13, <1>14, <1>15, <1>16
     DEF HttpStreamsNext, PartEnds, ClientStep

-----------------------------------------------------------------------------
(***************************************************************************)
(* The balancer.                                                           *)
(***************************************************************************)
\* Both parts are sound in every behaviour of the balancer.
LEMMA BalancerIsSound == BalancerSpec => [](StreamsInv /\ ConnectionInv)
<1>1. BalancerInit => StreamsInv /\ ConnectionInv
  <2>1. BalancerInit => StreamsInv
    BY HttpStreamsAssumption
       DEF BalancerInit, HttpStreamsInit, Source!Init, StreamsInv, HttpStreamsTypeOK, Part, Collected
  <2> QED
    BY <2>1, ConnectionStartsSound DEF BalancerInit
<1>2. ASSUME StreamsInv, ConnectionInv,
             [BalancerNext]_<<part, httpStreamsVars, agentConnectionVars, restVars>>
      PROVE  (StreamsInv /\ ConnectionInv)'
  <2>1. \/ HttpStreamsNext /\ UNCHANGED agentConnectionVars
        \/ AgentConnectionNext /\ UNCHANGED httpStreamsVars
        \/ UNCHANGED <<httpStreamsVars, agentConnectionVars>>
    BY <1>2 DEF BalancerNext
  <2>2. UNCHANGED httpStreamsVars => StreamsInv'
    BY <1>2 DEF httpStreamsVars, StreamsInv, HttpStreamsTypeOK
  <2>3. [AgentConnectionNext]_agentConnectionVars => ConnectionInv'
    BY <1>2, ConnectionStepIsSound
  <2> QED
    BY <1>2, <2>1, <2>2, <2>3, StreamsStepIsSound
<1> QED
  BY <1>1, <1>2, PTL DEF BalancerSpec

\* Every variable of the endpoints and of the connection has its type.  A response that
\* is collected has a status only once it is complete (unbounded_stream_from_agent,
\* the handlers), there are no more parts of an embedding request than documents
\* (chunk_evenly_with_cap), a sender is registered while its question waits, and the
\* messages of an agent that are under way stay few, for any number of questions.
THEOREM BalancerIsTyped == BalancerSpec => []BalancerTypeOK
<1>1. StreamsInv /\ ConnectionInv => BalancerTypeOK
  BY ConnectionIsTyped DEF StreamsInv, BalancerTypeOK
<1> QED
  BY <1>1, BalancerIsSound, PTL

-----------------------------------------------------------------------------
(***************************************************************************)
(* The schemas of the validator.                                           *)
(***************************************************************************)
\* A set of natural numbers has a least element.
LEMMA LeastNatural ==
    ASSUME NEW T, T \subseteq Nat, T # {}
    PROVE  \E n \in T : \A m \in T : n <= m
<1>1. PICK n \in T : \A m \in T : ~(<<m, n>> \in OpToRel(<, Nat))
  BY NatLessThanWellFounded, WFMin
<1>2. \A m \in T : ~(m < n)
  BY <1>1 DEF OpToRel
<1>3. QED
  BY <1>2

\* What unique_strings has collected of the first i values.
UniqueOf(unique, values) ==
    unique = [i \in 0 .. Len(values) |->
                 IF i = 0 THEN <<>>
                 ELSE IF Contains(unique[i - 1], values[i]) THEN unique[i - 1]
                 ELSE Append(unique[i - 1], values[i])]

\* A sequence without repetitions that has the first i values and no other.
Collects(unique, values, i) ==
    /\ unique \in Seq(ToSet(values))
    /\ \A j, k \in 1 .. Len(unique) : unique[j] = unique[k] => j = k
    /\ \A j \in 1 .. Len(unique) : \E k \in 1 .. i : unique[j] = values[k]
    /\ \A k \in 1 .. i : \E j \in 1 .. Len(unique) : unique[j] = values[k]

\* One more value is looked at.
LEMMA OneMoreIsCollected ==
    ASSUME NEW values, IsSequence(values), NEW i \in 1 .. Len(values), NEW unique,
           Collects(unique, values, i - 1)
    PROVE  Collects(IF Contains(unique, values[i]) THEN unique ELSE Append(unique, values[i]), values, i)
<1>1. Len(values) \in Nat /\ DOMAIN values = 1 .. Len(values) /\ values[i] \in ToSet(values)
  BY DEF IsSequence, ToSet
<1>2. unique \in Seq(ToSet(values)) /\ Len(unique) \in Nat /\ i \in Nat
  BY <1>1 DEF Collects
<1>3. CASE Contains(unique, values[i])
  <2>1. PICK j \in 1 .. Len(unique) : unique[j] = values[i]
    BY <1>3 DEF Contains
  <2>2. ASSUME NEW j1 \in 1 .. Len(unique) PROVE \E k \in 1 .. i : unique[j1] = values[k]
    <3>1. PICK k \in 1 .. i - 1 : unique[j1] = values[k]
      BY DEF Collects
    <3>2. k \in 1 .. i
      BY <1>2, <3>1
    <3>3. QED
      BY <3>1, <3>2
  <2>3. ASSUME NEW k \in 1 .. i PROVE \E j1 \in 1 .. Len(unique) : unique[j1] = values[k]
    <3>1. k = i \/ k \in 1 .. i - 1
      BY <1>2
    <3>2. QED
      BY <2>1, <3>1 DEF Collects
  <2>4. Collects(unique, values, i)
    BY <2>2, <2>3 DEF Collects
  <2>5. QED
    BY <1>3, <2>4
<1>4. CASE ~Contains(unique, values[i])
  <2> DEFINE longer == Append(unique, values[i])
  <2>1. /\ longer \in Seq(ToSet(values)) /\ Len(longer) = Len(unique) + 1
        /\ \A j \in 1 .. Len(unique) : longer[j] = unique[j]
        /\ longer[Len(unique) + 1] = values[i]
    BY <1>1, <1>2
  <2>2. \A j \in 1 .. Len(unique) : longer[j] # values[i]
    BY <1>4, <2>1 DEF Contains
  <2> HIDE DEF longer
  <2>3. \A j, k \in 1 .. Len(longer) : longer[j] = longer[k] => j = k
    <3>1. SUFFICES ASSUME NEW j \in 1 .. Len(longer), NEW k \in 1 .. Len(longer), longer[j] = longer[k]
                   PROVE  j = k
      OBVIOUS
    <3>2. (j \in 1 .. Len(unique) \/ j = Len(unique) + 1) /\ (k \in 1 .. Len(unique) \/ k = Len(unique) + 1)
      BY <1>2, <2>1
    <3>3. CASE j \in 1 .. Len(unique) /\ k \in 1 .. Len(unique)
      BY <2>1, <3>1, <3>3 DEF Collects
    <3>4. QED
      BY <2>1, <2>2, <3>1, <3>2, <3>3
  <2>4. ASSUME NEW j \in 1 .. Len(longer) PROVE \E k \in 1 .. i : longer[j] = values[k]
    <3>1. CASE j \in 1 .. Len(unique)
      <4>1. PICK k \in 1 .. i - 1 : unique[j] = values[k]
        BY <3>1 DEF Collects
      <4>2. k \in 1 .. i /\ longer[j] = values[k]
        BY <1>2, <2>1, <3>1, <4>1
      <4>3. QED
        BY <4>2
    <3>2. CASE j = Len(unique) + 1
      BY <1>2, <2>1, <3>2
    <3>3. QED
      BY <1>2, <2>1, <3>1, <3>2
  <2>5. ASSUME NEW k \in 1 .. i PROVE \E j \in 1 .. Len(longer) : longer[j] = values[k]
    <3>1. CASE k = i
      BY <1>2, <2>1, <3>1
    <3>2. CASE k # i
      <4>1. k \in 1 .. i - 1
        BY <1>2, <3>2
      <4>2. PICK j \in 1 .. Len(unique) : unique[j] = values[k]
        BY <4>1 DEF Collects
      <4>3. j \in 1 .. Len(longer) /\ longer[j] = values[k]
        BY <1>2, <2>1, <4>2
      <4>4. QED
        BY <4>3
    <3>3. QED
      BY <3>1, <3>2
  <2>6. Collects(longer, values, i)
    BY <2>1, <2>3, <2>4, <2>5 DEF Collects
  <2>7. QED
    BY <1>4, <2>6 DEF longer
<1>5. QED
  BY <1>3, <1>4

\* unique_strings is defined for every list.
LEMMA UniqueExists ==
    ASSUME NEW values, IsSequence(values)
    PROVE  \E unique : UniqueOf(unique, values)
<1> DEFINE Step(u, i) == IF Contains(u, values[i]) THEN u ELSE Append(u, values[i])
           Goes(f, k) == /\ f = [i \in 0 .. k |-> f[i]]
                         /\ f[0] = <<>>
                         /\ \A i \in 1 .. k : f[i] = Step(f[i - 1], i)
           Bad == {k \in 0 .. Len(values) : \A f : ~Goes(f, k)}
<1>1. Len(values) \in Nat
  BY DEF IsSequence
<1>2. ASSUME Bad # {} PROVE FALSE
  <2>1. PICK k \in Bad : \A m \in Bad : k <= m
    <3>1. Bad \subseteq Nat
      OBVIOUS
    <3> HIDE DEF Bad
    <3>2. QED
      BY <1>2, <3>1, LeastNatural
  <2>2. k \in 0 .. Len(values) /\ \A f : ~Goes(f, k)
    BY <2>1
  <2>3. CASE k = 0
    <3> DEFINE f == [i \in 0 .. 0 |-> <<>>]
    <3>1. Goes(f, 0)
      OBVIOUS
    <3> HIDE DEF f, Goes
    <3>2. QED
      BY <2>2, <2>3, <3>1
  <2>4. CASE k # 0
    <3>1. k \in Nat /\ k - 1 \in 0 .. Len(values)
      BY <1>1, <2>2, <2>4
    <3>2. k - 1 \notin Bad
      <4> HIDE DEF Bad
      <4>1. QED
        BY <2>1, <3>1
    <3>3. PICK g : Goes(g, k - 1)
      BY <3>1, <3>2
    <3> DEFINE f == [i \in 0 .. k |-> IF i = k THEN Step(g[k - 1], k) ELSE g[i]]
    <3>4. f = [i \in 0 .. k |-> f[i]]
      OBVIOUS
    <3>5. f[0] = <<>>
      BY <3>1, <3>3, <2>4
    <3>6. ASSUME NEW i \in 1 .. k PROVE f[i] = Step(f[i - 1], i)
      <4>1. f[i - 1] = g[i - 1]
        BY <3>1
      <4>2. CASE i = k
        BY <3>1, <4>1, <4>2
      <4>3. CASE i # k
        <5>1. i \in 1 .. k - 1 /\ f[i] = g[i]
          BY <3>1, <4>3
        <5> HIDE DEF Step
        <5>2. g[i] = Step(g[i - 1], i)
          BY <3>3, <5>1
        <5> HIDE DEF f
        <5>3. QED
          BY <4>1, <5>1, <5>2
      <4>4. QED
        BY <4>2, <4>3
    <3>7. Goes(f, k)
      <4> HIDE DEF f, Step
      <4> QED
        BY <3>4, <3>5, <3>6
    <3> HIDE DEF f, Goes
    <3>8. QED
      BY <2>2, <3>7
  <2>5. QED
    BY <2>3, <2>4
<1>3. PICK f : Goes(f, Len(values))
  BY <1>1, <1>2
<1>4. UniqueOf(f, values)
  BY <1>1, <1>3 DEF UniqueOf
<1>5. QED
  BY <1>4

\* unique_strings keeps every value and repeats none.
LEMMA UniqueIsCollected ==
    ASSUME NEW values, IsSequence(values)
    PROVE  /\ IsInjective(UniqueStrings(values))
           /\ ToSet(UniqueStrings(values)) = ToSet(values)
<1> DEFINE g == CHOOSE f : UniqueOf(f, values)
<1>1. UniqueOf(g, values)
  BY UniqueExists
<1>2. UniqueStrings(values) = g[Len(values)]
  BY Zenon DEF UniqueStrings, UniqueOf
<1> HIDE DEF g
<1>3. Len(values) \in Nat
  BY DEF IsSequence
<1>4. /\ g[0] = <<>>
      /\ \A i \in 1 .. Len(values) :
            g[i] = IF Contains(g[i - 1], values[i]) THEN g[i - 1] ELSE Append(g[i - 1], values[i])
  <2>1. g[0] = <<>>
    BY <1>1, <1>3 DEF UniqueOf
  <2>2. ASSUME NEW i \in 1 .. Len(values)
        PROVE  g[i] = IF Contains(g[i - 1], values[i]) THEN g[i - 1] ELSE Append(g[i - 1], values[i])
    <3>1. i \in 0 .. Len(values) /\ i # 0
      BY <1>3
    <3>2. QED
      BY <1>1, <3>1 DEF UniqueOf
  <2>3. QED
    BY <2>1, <2>2
<1> DEFINE Bad == {i \in 0 .. Len(values) : ~Collects(g[i], values, i)}
<1>5. ASSUME Bad # {} PROVE FALSE
  <2>1. PICK i \in Bad : \A m \in Bad : i <= m
    <3>1. Bad \subseteq Nat
      OBVIOUS
    <3> HIDE DEF Bad
    <3>2. QED
      BY <1>5, <3>1, LeastNatural
  <2>2. i # 0
    <3>1. Collects(<<>>, values, 0)
      BY DEF Collects
    <3>2. QED
      BY <1>4, <2>1, <3>1
  <2>3. i - 1 \in 0 .. Len(values) /\ i \in 1 .. Len(values)
    BY <1>3, <2>1, <2>2
  <2>4. i - 1 \notin Bad
    <3> HIDE DEF Bad
    <3> QED
      BY <2>1, <2>3
  <2>5. Collects(g[i - 1], values, i - 1)
    BY <2>3, <2>4
  <2>6. Collects(g[i], values, i)
    BY <1>4, <2>3, <2>5, OneMoreIsCollected
  <2>7. QED
    BY <2>1, <2>6
<1>6. Collects(g[Len(values)], values, Len(values))
  BY <1>3, <1>5
<1> DEFINE u == UniqueStrings(values)
<1>7. Collects(u, values, Len(values))
  BY <1>2, <1>6
<1> HIDE DEF u
<1>8. DOMAIN u = 1 .. Len(u) /\ DOMAIN values = 1 .. Len(values)
  BY <1>7 DEF Collects, IsSequence
<1>9. IsInjective(u)
  BY <1>7, <1>8 DEF Collects, IsInjective
<1>10. ToSet(u) = ToSet(values)
  <2>1. ASSUME NEW x \in ToSet(u) PROVE x \in ToSet(values)
    <3>1. PICK j \in 1 .. Len(u) : x = u[j]
      BY <1>8, <2>1 DEF ToSet
    <3>2. PICK k \in 1 .. Len(values) : u[j] = values[k]
      BY <1>7, <3>1 DEF Collects
    <3>3. QED
      BY <1>8, <3>1, <3>2 DEF ToSet
  <2>2. ASSUME NEW x \in ToSet(values) PROVE x \in ToSet(u)
    <3>1. PICK k \in 1 .. Len(values) : x = values[k]
      BY <1>8, <2>2 DEF ToSet
    <3>2. PICK j \in 1 .. Len(u) : u[j] = values[k]
      BY <1>7, <3>1 DEF Collects
    <3>3. QED
      BY <1>8, <3>1, <3>2 DEF ToSet
  <2>3. QED
    BY <2>1, <2>2
<1>11. QED
  BY <1>9, <1>10 DEF u

\* The references of a component are pushed each once.
LEMMA RefsAreListed ==
    ASSUME NEW S, IsFiniteSet(S)
    PROVE  /\ SetToSeq(S) \in Seq(S)
           /\ Len(SetToSeq(S)) = Cardinality(S)
           /\ ToSet(SetToSeq(S)) = S
<1> DEFINE n == Cardinality(S)
           f == SetToSeq(S)
<1>1. n \in Nat /\ ExistsBijection(1 .. n, S)
  BY FS_CardinalityType
<1>2. PICK g : g \in Injection(1 .. n, S)
  BY <1>1 DEF ExistsBijection, Bijection
<1>3. g \in [1 .. n -> S] /\ IsInjective(g)
  BY <1>2, Zenon DEF Injection
<1>4. f \in [1 .. n -> S] /\ IsInjective(f)
  BY <1>2, <1>3, Zenon DEF SetToSeq
<1> HIDE DEF f
<1>5. f \in Injection(1 .. n, S)
  BY <1>4 DEF Injection, IsInjective
<1>6. IsFiniteSet(1 .. n) /\ Cardinality(1 .. n) = n
  BY <1>1, FS_Interval
<1>7. f \in Surjection(1 .. n, S)
  BY <1>5, <1>6, FS_Injection
<1>8. \A x \in S : \E i \in 1 .. n : f[i] = x
  BY <1>7 DEF Surjection
<1>9. f \in Seq(S) /\ Len(f) = n /\ DOMAIN f = 1 .. n
  BY <1>1, <1>4
<1>10. ToSet(f) = S
  BY <1>4, <1>8, <1>9 DEF ToSet
<1>11. QED
  BY <1>9, <1>10 DEF f

\* Parts of a worklist.
LEMMA WorklistParts ==
    ASSUME NEW S, NEW s \in Seq(S), s # <<>>
    PROVE  /\ Last(s) \in S
           /\ Front(s) \in Seq(S) /\ Len(Front(s)) = Len(s) - 1
           /\ ToSet(s) = ToSet(Front(s)) \cup {Last(s)}
<1> DEFINE f == Front(s)
<1>1. Len(s) \in Nat /\ Len(s) > 0 /\ DOMAIN s = 1 .. Len(s)
  OBVIOUS
<1>2. Last(s) \in S
  BY <1>1 DEF Last
<1>3. /\ f \in Seq(S) /\ Len(f) = Len(s) - 1 /\ DOMAIN f = 1 .. Len(s) - 1
      /\ \A i \in 1 .. Len(s) - 1 : f[i] = s[i]
  BY <1>1 DEF Front
<1> HIDE DEF f
<1>4. ToSet(s) = ToSet(f) \cup {Last(s)}
  <2>1. ASSUME NEW x \in ToSet(s) PROVE x \in ToSet(f) \cup {Last(s)}
    <3>1. PICK i \in 1 .. Len(s) : x = s[i]
      BY <1>1, <2>1 DEF ToSet
    <3>2. i = Len(s) \/ i \in 1 .. Len(s) - 1
      <4> DEFINE n == Len(s)
      <4>1. n \in Nat /\ i \in 1 .. n
        BY <1>1
      <4> HIDE DEF n
      <4>2. i = n \/ i \in 1 .. n - 1
        BY <4>1
      <4>3. QED
        BY <4>2 DEF n
    <3>3. QED
      BY <1>3, <3>1, <3>2 DEF ToSet, Last
  <2>2. ASSUME NEW x \in ToSet(f) \cup {Last(s)} PROVE x \in ToSet(s)
    <3>1. CASE x = Last(s)
      BY <1>1, <3>1 DEF ToSet, Last
    <3>2. CASE x \in ToSet(f)
      <4>1. PICK i \in 1 .. Len(s) - 1 : x = f[i]
        BY <1>3, <3>2 DEF ToSet
      <4>2. i \in DOMAIN s /\ x = s[i]
        BY <1>1, <1>3, <4>1
      <4>3. QED
        BY <4>2 DEF ToSet
    <3>3. QED
      BY <2>2, <3>1, <3>2
  <2>3. QED
    BY <2>1, <2>2
<1>5. QED
  BY <1>2, <1>3, <1>4 DEF f

-----------------------------------------------------------------------------
\* The pointers that were made strict are the ones before those that are left.
Consumed == Len(Root.strict) - Len(targets)

StrictAt(name) == {Root.strict[i].property : i \in {j \in 1 .. Consumed : Root.strict[j].component = name}}

DefinitionOf(name) ==
    [refs |-> document[name].refs, or_null |-> document[name].nullable, strict |-> StrictAt(name),
     required |-> UniqueStrings(document[name].required), inner |-> document[name].inner]

\* A schema that is strict at the pointers of a root and nowhere else.
IsStrictAsTold(schema, i) ==
    \A component, property :
        (component \in DOMAIN schema /\ property \in schema[component].strict)
            <=> Contains(Roots[i].strict, [component |-> component, property |-> property])

\* Where the compiler stands.
CompilerShape ==
    /\ compiling \in 0 .. Len(Roots)
    /\ compiler \in {"idle", "closing", "strict", "built", "failed", "rejected"}
    /\ compiling = 0 => compiler \in {"idle", "failed"}
    /\ compiling > 0 => compiler # "idle" /\ document \in Documents
    /\ compiler = "built" => compiling = Len(Roots)
    /\ taken \in Nat

\* The loop of transitive_closure: the root, and what is referred to by what was found,
\* was found or is pending; everything found or pending is reached; and what was taken
\* or is pending was referred to.
ClosureGoesOn ==
    compiler = "closing" =>
        /\ pending \in Seq(AllNames)
        /\ reachable \subseteq DOMAIN document
        /\ Root.root \in reachable \cup ToSet(pending)
        /\ \A name \in reachable : document[name].refs \subseteq reachable \cup ToSet(pending)
        /\ \A name \in reachable \cup ToSet(pending) : Reached(name)
        /\ taken + Len(pending) <= 1 + Cardinality(EdgesOf(reachable))
        /\ targets = Root.strict

TakenIsBounded == compiling > 0 => taken <= 1 + Cardinality(EdgesOf(DOMAIN document))

\* What the loop leaves.
ClosureIsDone ==
    compiler \in {"strict", "built", "rejected"} =>
        /\ reachable \subseteq DOMAIN document
        /\ ClosedUnderRefs(reachable)
        /\ \A name \in reachable : Reached(name)

\* The definitions while they are made strict.
DefinitionsFollow ==
    compiler \in {"strict", "built", "rejected"} =>
        /\ targets \in Seq(ToSet(Root.strict)) /\ Len(targets) <= Len(Root.strict)
        /\ \A i \in 1 .. Len(targets) : targets[i] = Root.strict[Consumed + i]
        /\ \A i \in 1 .. Consumed : Root.strict[i].component \in reachable
        /\ DOMAIN definitions = reachable
        /\ \A name \in reachable : definitions[name] = DefinitionOf(name)

\* The validators built so far.
ValidatorsAreStrict ==
    /\ IsSequence(validators)
    /\ compiling = 0 => Len(validators) = 0
    /\ compiling > 0 => Len(validators) = IF compiler = "built" THEN compiling ELSE compiling - 1
    /\ \A i \in 1 .. Len(validators) : IsStrictAsTold(validators[i], i)

FailureIsExplained == compiling > 0 /\ compiler = "failed" => FailureHasCause

VerdictIsTold ==
    verdict.violations = {place \in verdict.unknown : Contains(Roots[verdict.kind].strict, place)}

SchemaInv ==
    /\ CompilerShape
    /\ ClosureGoesOn
    /\ TakenIsBounded
    /\ ClosureIsDone
    /\ DefinitionsFollow
    /\ ValidatorsAreStrict
    /\ FailureIsExplained
    /\ VerdictIsTold
-----------------------------------------------------------------------------
\* The roots and their pointers.
LEMMA RootsAreLists ==
    /\ Len(Roots) \in Nat /\ Len(Roots) > 0 /\ DOMAIN Roots = 1 .. Len(Roots)
    /\ \A i \in 1 .. Len(Roots) :
          /\ Len(Roots[i].strict) \in Nat
          /\ DOMAIN Roots[i].strict = 1 .. Len(Roots[i].strict)
          /\ Roots[i].strict \in Seq(ToSet(Roots[i].strict))
          /\ \A j \in 1 .. Len(Roots[i].strict) :
                Roots[i].strict[j] = [component |-> Roots[i].strict[j].component,
                                      property |-> Roots[i].strict[j].property]
<1>1. Len(Roots) \in Nat /\ Len(Roots) > 0 /\ DOMAIN Roots = 1 .. Len(Roots)
  <2>1. Roots \in Seq(ToSet(Roots)) /\ Roots # <<>>
    BY StrictSchemaAssumption DEF IsSequence
  <2>2. QED
    BY <2>1
<1>2. ASSUME NEW i \in 1 .. Len(Roots)
      PROVE  /\ Len(Roots[i].strict) \in Nat
             /\ DOMAIN Roots[i].strict = 1 .. Len(Roots[i].strict)
             /\ Roots[i].strict \in Seq(ToSet(Roots[i].strict))
             /\ \A j \in 1 .. Len(Roots[i].strict) :
                   Roots[i].strict[j] = [component |-> Roots[i].strict[j].component,
                                         property |-> Roots[i].strict[j].property]
  <2>1. /\ Roots[i].strict \in Seq(ToSet(Roots[i].strict))
        /\ \A pointer \in ToSet(Roots[i].strict) :
              pointer = [component |-> pointer.component, property |-> pointer.property]
    BY <1>1, StrictSchemaAssumption DEF IsSequence
  <2>2. Len(Roots[i].strict) \in Nat /\ DOMAIN Roots[i].strict = 1 .. Len(Roots[i].strict)
    BY <2>1
  <2>3. \A j \in 1 .. Len(Roots[i].strict) : Roots[i].strict[j] \in ToSet(Roots[i].strict)
    BY <2>2 DEF ToSet
  <2>4. QED
    BY <2>1, <2>2, <2>3
<1>3. QED
  BY <1>1, <1>2

\* The references of a document, from some of its names.
NamesIn(components, root) ==
    {root} \cup DOMAIN components \cup UNION {components[name].refs : name \in DOMAIN components}

EdgesIn(components, root, names) ==
    {edge \in names \X NamesIn(components, root) : edge[2] \in components[edge[1]].refs}

LEMMA EdgesAreFinite ==
    ASSUME NEW components \in Documents, NEW root, NEW names \in SUBSET DOMAIN components
    PROVE  IsFiniteSet(EdgesIn(components, root, names))
<1> DEFINE D == DOMAIN components
           R == {components[name].refs : name \in D}
           f == [name \in D |-> components[name].refs]
<1>1. IsFiniteSet(D) /\ \A name \in D : IsFiniteSet(components[name].refs)
  BY StrictSchemaAssumption
<1>2. f \in Surjection(D, R)
  BY DEF Surjection
<1>3. IsFiniteSet(R)
  <2> HIDE DEF f, R
  <2> QED
    BY <1>1, <1>2, FS_Surjection
<1>4. IsFiniteSet(UNION R)
  <2>1. \A T \in R : IsFiniteSet(T)
    BY <1>1
  <2> HIDE DEF R
  <2> QED
    BY <1>3, <2>1, FS_UNION
<1>5. IsFiniteSet(NamesIn(components, root))
  <2>1. IsFiniteSet({root})
    BY FS_Singleton
  <2>2. IsFiniteSet({root} \cup D)
    BY <1>1, <2>1, FS_Union
  <2>3. IsFiniteSet(({root} \cup D) \cup UNION R)
    BY <1>4, <2>2, FS_Union
  <2>4. QED
    BY <2>3 DEF NamesIn
<1>6. IsFiniteSet(names)
  BY <1>1, FS_Subset
<1>7. IsFiniteSet(names \X NamesIn(components, root))
  BY <1>5, <1>6, FS_Product
<1>8. EdgesIn(components, root, names) \subseteq names \X NamesIn(components, root)
  BY DEF EdgesIn
<1>9. QED
  BY <1>7, <1>8, FS_Subset

\* A name that is found brings its references, and they are new.
LEMMA EdgesGrow ==
    ASSUME NEW components \in Documents, NEW root, NEW names \in SUBSET DOMAIN components,
           NEW name \in DOMAIN components, name \notin names
    PROVE  Cardinality(EdgesIn(components, root, names \cup {name}))
               = Cardinality(EdgesIn(components, root, names)) + Cardinality(components[name].refs)
<1> DEFINE E == EdgesIn(components, root, names)
           N == {name} \X components[name].refs
<1>1. EdgesIn(components, root, names \cup {name}) = E \cup N
  <2>1. components[name].refs \subseteq NamesIn(components, root)
    BY DEF NamesIn
  <2>2. QED
    BY <2>1 DEF EdgesIn
<1>2. E \cap N = {}
  BY DEF EdgesIn
<1>3. IsFiniteSet(components[name].refs)
  BY StrictSchemaAssumption
<1>4. IsFiniteSet({name}) /\ Cardinality({name}) = 1
  BY FS_Singleton
<1>5. IsFiniteSet(N) /\ Cardinality(N) = Cardinality({name}) * Cardinality(components[name].refs)
  BY <1>3, <1>4, FS_Product
<1>6. Cardinality(components[name].refs) \in Nat
  BY <1>3, FS_CardinalityType
<1>7. IsFiniteSet(E)
  BY EdgesAreFinite
<1> HIDE DEF E, N
<1>8. Cardinality(E \cup N) = Cardinality(E) + Cardinality(N) - Cardinality(E \cap N)
  BY <1>5, <1>7, FS_Union
<1>9. Cardinality(E \cap N) = 0
  BY <1>2, FS_EmptySet
<1>10. Cardinality(E) \in Nat /\ Cardinality(N) \in Nat
  BY <1>5, <1>7, FS_CardinalityType
<1>11. Cardinality(N) = Cardinality(components[name].refs)
  BY <1>4, <1>5, <1>6
<1>12. Cardinality(E \cup N) = Cardinality(E) + Cardinality(components[name].refs)
  BY <1>6, <1>8, <1>9, <1>10, <1>11
<1>13. QED
  BY <1>1, <1>12, Zenon DEF E

\* Of fewer names there are fewer references.
LEMMA FewerEdges ==
    ASSUME NEW components \in Documents, NEW root, NEW names \in SUBSET DOMAIN components
    PROVE  /\ Cardinality(EdgesIn(components, root, names)) \in Nat
           /\ Cardinality(EdgesIn(components, root, DOMAIN components)) \in Nat
           /\ Cardinality(EdgesIn(components, root, names))
                <= Cardinality(EdgesIn(components, root, DOMAIN components))
<1>1. IsFiniteSet(EdgesIn(components, root, DOMAIN components))
  BY EdgesAreFinite
<1>2. EdgesIn(components, root, names) \subseteq EdgesIn(components, root, DOMAIN components)
  BY DEF EdgesIn
<1>3. QED
  BY <1>1, <1>2, FS_Subset, FS_CardinalityType

\* What is reached depends on the document and the root.
LEMMA ReachedIsKept ==
    ASSUME UNCHANGED <<document, compiling>>
    PROVE  /\ Root' = Root /\ AllNames' = AllNames
           /\ \A name : Reached(name)' <=> Reached(name)
           /\ \A names : ClosedUnderRefs(names)' <=> ClosedUnderRefs(names)
           /\ \A names : EdgesOf(names)' = EdgesOf(names)
           /\ FailureHasCause' <=> FailureHasCause
<1>1. Root' = Root
  BY DEF Root
<1>2. AllNames' = AllNames
  BY <1>1 DEF AllNames
<1>3. \A names : ClosedUnderRefs(names)' <=> ClosedUnderRefs(names)
  BY <1>1 DEF ClosedUnderRefs
<1>4. \A name : Reached(name)' <=> Reached(name)
  BY <1>2, <1>3 DEF Reached
<1>5. \A names : EdgesOf(names)' = EdgesOf(names)
  BY <1>2 DEF EdgesOf
<1>6. FailureHasCause' <=> FailureHasCause
  BY <1>1, <1>2, <1>4 DEF FailureHasCause
<1>7. QED
  BY <1>1, <1>2, <1>3, <1>4, <1>5, <1>6

\* Nothing is reached beyond a set that is closed.
LEMMA ClosedHasReached ==
    ASSUME NEW names \in SUBSET AllNames, ClosedUnderRefs(names), NEW name, Reached(name)
    PROVE  name \in names
  BY DEF Reached

LEMMA RootIsReached == Reached(Root.root) /\ Root.root \in AllNames
  BY DEF Reached, ClosedUnderRefs, AllNames

\* A component that is reached brings its references.
LEMMA RefsAreReached ==
    ASSUME NEW name \in DOMAIN document, Reached(name), NEW ref \in document[name].refs
    PROVE  Reached(ref) /\ ref \in AllNames
<1>1. ref \in AllNames
  BY DEF AllNames
<1>2. ASSUME NEW names \in SUBSET AllNames, ClosedUnderRefs(names) PROVE ref \in names
  <2>1. name \in names
    BY <1>2, ClosedHasReached
  <2>2. QED
    BY <1>2, <2>1 DEF ClosedUnderRefs
<1>3. QED
  BY <1>1, <1>2 DEF Reached

\* A longer list of validators.
LEMMA OneMoreValidator ==
    ASSUME NEW list, IsSequence(list), NEW schema
    PROVE  /\ IsSequence(Append(list, schema)) /\ Len(Append(list, schema)) = Len(list) + 1
           /\ \A i \in 1 .. Len(list) : Append(list, schema)[i] = list[i]
           /\ Append(list, schema)[Len(list) + 1] = schema
<1> DEFINE S == ToSet(list) \cup {schema}
           longer == Append(list, schema)
<1>1. list \in Seq(S) /\ schema \in S
  <2>1. list \in Seq(ToSet(list))
    BY DEF IsSequence
  <2>2. QED
    BY <2>1, SeqMonotonic
<1> HIDE DEF S
<1>2. /\ longer \in Seq(S) /\ Len(longer) = Len(list) + 1
      /\ \A i \in 1 .. Len(list) : longer[i] = list[i]
      /\ longer[Len(list) + 1] = schema
  BY <1>1, AppendProperties
<1> HIDE DEF longer
<1>3. IsSequence(longer)
  <2>1. Len(longer) \in Nat /\ DOMAIN longer = 1 .. Len(longer) /\ longer = [i \in 1 .. Len(longer) |-> longer[i]]
    BY <1>2
  <2>2. \A i \in 1 .. Len(longer) : longer[i] \in ToSet(longer)
    BY <2>1 DEF ToSet
  <2>3. QED
    BY <2>1, <2>2, IsASeq DEF IsSequence
<1>4. QED
  BY <1>2, <1>3 DEF longer
-----------------------------------------------------------------------------
\* A root is taken up.
LEMMA CompilingStarts ==
    ASSUME NEW components \in Documents, NEW next \in 1 .. Len(Roots),
           CompileStrictSchema(components, next)
    PROVE  (CompilerShape /\ ClosureGoesOn /\ TakenIsBounded /\ ClosureIsDone /\ DefinitionsFollow
              /\ FailureIsExplained)'
<1>0. /\ compiling' = next /\ pending' = <<Roots[next].root>> /\ reachable' = {}
      /\ targets' = Roots[next].strict /\ taken' = 0 /\ compiler' = "closing" /\ document' = components
  BY DEF CompileStrictSchema
<1>1. Root' = Roots[next] /\ next \in Nat /\ next > 0
  BY <1>0, RootsAreLists DEF Root
<1>2. CompilerShape'
  BY <1>0, <1>1, RootsAreLists DEF CompilerShape
<1>3. AllNames' = NamesIn(components, Roots[next].root)
  BY <1>0, <1>1 DEF AllNames, NamesIn
<1>4. Roots[next].root \in AllNames'
  BY <1>3 DEF NamesIn
<1>5. /\ pending' \in Seq(AllNames') /\ Len(pending') = 1 /\ ToSet(pending') = {Roots[next].root}
  BY <1>0, <1>4 DEF ToSet
<1>6. Reached(Roots[next].root)'
  BY <1>1 DEF Reached, ClosedUnderRefs
<1>8. Cardinality({}) = 0
  BY FS_EmptySet
<1>9. ClosureGoesOn'
  <2>1. taken' + Len(pending') <= 1 + Cardinality(EdgesOf(reachable)')
    <3>1. EdgesOf(reachable)' = {}
      BY <1>0 DEF EdgesOf
    <3>2. Cardinality(EdgesOf(reachable)') = 0
      BY <1>8, <3>1
    <3>3. QED
      BY <1>0, <1>5, <3>2
  <2>2. QED
    BY <1>0, <1>1, <1>5, <1>6, <2>1 DEF ClosureGoesOn
<1>10. TakenIsBounded'
  <2>1. EdgesOf(DOMAIN document)' = EdgesIn(components, Roots[next].root, DOMAIN components)
    BY <1>0, <1>3 DEF EdgesOf, EdgesIn
  <2>2. Cardinality(EdgesIn(components, Roots[next].root, DOMAIN components)) \in Nat
    BY FewerEdges
  <2>3. QED
    BY <1>0, <2>1, <2>2 DEF TakenIsBounded
<1>11. (ClosureIsDone /\ DefinitionsFollow /\ FailureIsExplained)'
  BY <1>0 DEF ClosureIsDone, DefinitionsFollow, FailureIsExplained
<1>12. QED
  BY <1>2, <1>9, <1>10, <1>11

\* What does not change keeps its invariant.
LEMMA ValidatorsAreKept ==
    ASSUME ValidatorsAreStrict, UNCHANGED <<validators, compiling>>, compiler # "built", compiler' # "built"
    PROVE  ValidatorsAreStrict'
  BY DEF ValidatorsAreStrict, IsStrictAsTold

LEMMA FromOpenApiIsSound ==
    ASSUME SchemaInv, NEW components \in Documents, FromOpenApi(components)
    PROVE  SchemaInv'
<1>1. /\ compiler = "idle" /\ CompileStrictSchema(components, 1)
      /\ UNCHANGED <<validators, verdict>> /\ compiling' = 1 /\ compiler' = "closing"
  BY DEF FromOpenApi, CompileStrictSchema
<1>2. 1 \in 1 .. Len(Roots)
  BY RootsAreLists
<1>3. compiling = 0
  BY <1>1, RootsAreLists DEF SchemaInv, CompilerShape
<1>4. ValidatorsAreStrict'
  BY <1>1, <1>3 DEF SchemaInv, ValidatorsAreStrict, IsStrictAsTold
<1>5. VerdictIsTold'
  BY <1>1 DEF SchemaInv, VerdictIsTold
<1>6. QED
  BY <1>1, <1>2, <1>4, <1>5, CompilingStarts DEF SchemaInv

LEMMA ParseFailsIsSound ==
    ASSUME SchemaInv, ParseFails
    PROVE  SchemaInv'
<1>1. /\ compiler = "idle" /\ compiler' = "failed"
      /\ UNCHANGED <<document, compiling, taken, validators, verdict>>
  BY DEF ParseFails
<1>2. compiling = 0
  BY <1>1, RootsAreLists DEF SchemaInv, CompilerShape
<1>3. CompilerShape'
  BY <1>1, <1>2 DEF SchemaInv, CompilerShape
<1>4. ValidatorsAreStrict'
  BY <1>1, ValidatorsAreKept DEF SchemaInv
<1>5. QED
  BY <1>1, <1>2, <1>3, <1>4
     DEF SchemaInv, ClosureGoesOn, TakenIsBounded, ClosureIsDone, DefinitionsFollow, FailureIsExplained,
         VerdictIsTold

LEMMA TakeNameIsSound ==
    ASSUME SchemaInv, TakeName
    PROVE  SchemaInv'
<1> DEFINE name == Last(pending)
           rest == Front(pending)
           refs == DirectRefs(document[name])
<1>0. /\ compiler = "closing" /\ pending # <<>> /\ taken' = taken + 1
      /\ UNCHANGED <<document, compiling, targets, definitions, validators, verdict>>
      /\ \/ /\ name \in reachable
            /\ pending' = rest /\ UNCHANGED <<reachable, compiler>>
         \/ /\ name \notin reachable /\ name \notin DOMAIN document
            /\ compiler' = "failed" /\ UNCHANGED <<pending, reachable>>
         \/ /\ name \notin reachable /\ name \in DOMAIN document
            /\ reachable' = reachable \cup {name} /\ pending' = rest \o refs /\ UNCHANGED compiler
  BY DEF TakeName
<1>1. /\ compiling > 0 /\ document \in Documents /\ taken \in Nat
      /\ pending \in Seq(AllNames) /\ reachable \subseteq DOMAIN document
      /\ Root.root \in reachable \cup ToSet(pending)
      /\ \A n \in reachable : document[n].refs \subseteq reachable \cup ToSet(pending)
      /\ \A n \in reachable \cup ToSet(pending) : Reached(n)
      /\ taken + Len(pending) <= 1 + Cardinality(EdgesOf(reachable))
      /\ targets = Root.strict
  BY <1>0, RootsAreLists DEF SchemaInv, CompilerShape, ClosureGoesOn
<1>2. /\ Root' = Root /\ AllNames' = AllNames
      /\ \A n : Reached(n)' <=> Reached(n)
      /\ \A names : EdgesOf(names)' = EdgesOf(names)
      /\ FailureHasCause' <=> FailureHasCause
  BY <1>0, ReachedIsKept
<1>3. \A names : EdgesOf(names) = EdgesIn(document, Root.root, names)
  BY DEF EdgesOf, EdgesIn, AllNames, NamesIn
<1>4. /\ Cardinality(EdgesOf(reachable)) \in Nat /\ Cardinality(EdgesOf(DOMAIN document)) \in Nat
      /\ Cardinality(EdgesOf(reachable)) <= Cardinality(EdgesOf(DOMAIN document))
  BY <1>1, <1>3, FewerEdges
<1>5. /\ name \in AllNames /\ rest \in Seq(AllNames) /\ Len(rest) = Len(pending) - 1
      /\ ToSet(pending) = ToSet(rest) \cup {name} /\ Len(pending) \in Nat /\ Len(pending) > 0
  BY <1>0, <1>1, WorklistParts
<1>6. Reached(name)
  BY <1>1, <1>5
<1> HIDE DEF name, rest
<1>7. ValidatorsAreStrict' /\ VerdictIsTold'
  BY <1>0, ValidatorsAreKept DEF SchemaInv, VerdictIsTold
<1>8. TakenIsBounded'
  BY <1>0, <1>1, <1>2, <1>4, <1>5 DEF TakenIsBounded
<1>9. CompilerShape'
  BY <1>0, <1>1 DEF SchemaInv, CompilerShape
<1>10. (ClosureIsDone /\ DefinitionsFollow)'
  BY <1>0 DEF ClosureIsDone, DefinitionsFollow
<1>11. CASE name \in reachable /\ pending' = rest /\ UNCHANGED <<reachable, compiler>>
  <2>1. ClosureGoesOn'
    BY <1>0, <1>1, <1>2, <1>5, <1>11 DEF ClosureGoesOn
  <2>2. FailureIsExplained'
    BY <1>0, <1>11 DEF FailureIsExplained
  <2>3. QED
    BY <1>7, <1>8, <1>9, <1>10, <2>1, <2>2 DEF SchemaInv
<1>12. CASE name \notin DOMAIN document /\ compiler' = "failed"
  <2>1. FailureHasCause
    BY <1>5, <1>6, <1>12 DEF FailureHasCause
  <2>2. QED
    BY <1>2, <1>7, <1>8, <1>9, <1>10, <1>12, <2>1 DEF SchemaInv, FailureIsExplained, ClosureGoesOn
<1>13. CASE /\ name \notin reachable /\ name \in DOMAIN document
            /\ reachable' = reachable \cup {name} /\ pending' = rest \o refs /\ UNCHANGED compiler
  <2>1. IsFiniteSet(document[name].refs)
    BY <1>1, <1>13, StrictSchemaAssumption
  <2>2. /\ refs \in Seq(document[name].refs) /\ Len(refs) = Cardinality(document[name].refs)
        /\ ToSet(refs) = document[name].refs
    BY <2>1, RefsAreListed DEF DirectRefs
  <2>3. \A ref \in document[name].refs : Reached(ref) /\ ref \in AllNames
    BY <1>6, <1>13, RefsAreReached
  <2>4. refs \in Seq(AllNames)
    BY <2>2, <2>3, SeqMonotonic
  <2> HIDE DEF refs
  <2>5. /\ pending' \in Seq(AllNames) /\ Len(pending') = Len(pending) - 1 + Len(refs)
        /\ ToSet(pending') = ToSet(rest) \cup ToSet(refs)
    <3>1. pending' = rest \o refs
      BY <1>13
    <3>2. rest \o refs \in Seq(AllNames) /\ Len(rest \o refs) = Len(rest) + Len(refs)
      BY <1>5, <2>4, ConcatProperties
    <3>3. Range(rest \o refs) = Range(rest) \cup Range(refs)
      BY <1>5, <2>4, RangeConcatenation
    <3>4. \A list : ToSet(list) = Range(list)
      BY DEF ToSet, Range
    <3>5. QED
      BY <1>5, <3>1, <3>2, <3>3, <3>4
  <2>6. Cardinality(EdgesOf(reachable \cup {name})) = Cardinality(EdgesOf(reachable)) + Len(refs)
    BY <1>1, <1>3, <1>13, <2>2, EdgesGrow
  <2>7. taken' + Len(pending') <= 1 + Cardinality(EdgesOf(reachable)')
    <3>1. Len(refs) \in Nat
      BY <2>4
    <3>2. EdgesOf(reachable)' = EdgesOf(reachable \cup {name})
      BY <1>0, <1>2, <1>13 DEF EdgesOf
    <3>3. QED
      BY <1>0, <1>1, <1>4, <1>5, <2>5, <2>6, <3>1, <3>2
  <2>8. /\ Root.root \in reachable' \cup ToSet(pending')
        /\ \A n \in reachable' : document[n].refs \subseteq reachable' \cup ToSet(pending')
        /\ \A n \in reachable' \cup ToSet(pending') : Reached(n)
        /\ reachable' \subseteq DOMAIN document
    BY <1>1, <1>5, <1>6, <1>13, <2>2, <2>3, <2>5
  <2>9. ClosureGoesOn'
    BY <1>0, <1>1, <1>2, <2>5, <2>7, <2>8 DEF ClosureGoesOn
  <2>10. FailureIsExplained'
    BY <1>0, <1>13 DEF FailureIsExplained
  <2>11. QED
    BY <1>7, <1>8, <1>9, <1>10, <2>9, <2>10 DEF SchemaInv
<1>14. QED
  BY <1>0, <1>11, <1>12, <1>13

LEMMA DefineIsSound ==
    ASSUME SchemaInv, Define
    PROVE  SchemaInv'
<1>0. /\ compiler = "closing" /\ pending = <<>> /\ compiler' = "strict"
      /\ definitions' = [name \in reachable |-> TransformObject(document[name])]
      /\ UNCHANGED <<document, compiling, pending, reachable, targets, validators, verdict, taken>>
  BY DEF Define
<1>1. /\ compiling > 0 /\ compiling \in 1 .. Len(Roots) /\ document \in Documents
      /\ reachable \subseteq DOMAIN document
      /\ Root.root \in reachable \cup ToSet(pending)
      /\ \A n \in reachable : document[n].refs \subseteq reachable \cup ToSet(pending)
      /\ \A n \in reachable \cup ToSet(pending) : Reached(n)
      /\ targets = Root.strict
  BY <1>0, RootsAreLists DEF SchemaInv, CompilerShape, ClosureGoesOn
<1>2. /\ Root' = Root
      /\ \A n : Reached(n)' <=> Reached(n)
      /\ \A names : ClosedUnderRefs(names)' <=> ClosedUnderRefs(names)
      /\ \A names : EdgesOf(names)' = EdgesOf(names)
  BY <1>0, ReachedIsKept
<1>3. ToSet(pending) = {}
  BY <1>0 DEF ToSet
<1>4. ClosedUnderRefs(reachable)
  BY <1>1, <1>3 DEF ClosedUnderRefs
<1>5. ClosureIsDone'
  BY <1>0, <1>1, <1>2, <1>4 DEF ClosureIsDone
<1>6. DefinitionsFollow'
  <2>1. Len(Root.strict) \in Nat /\ Root.strict \in Seq(ToSet(Root.strict))
    BY <1>1, RootsAreLists DEF Root
  <2>2. Consumed' = 0 /\ targets' = Root.strict
    BY <1>0, <1>1, <1>2, <2>1 DEF Consumed
  <2>3. \A name : StrictAt(name)' = {}
    BY <2>2 DEF StrictAt
  <2>4. ASSUME NEW name \in reachable PROVE definitions'[name] = DefinitionOf(name)'
    BY <1>0, <2>3 DEF DefinitionOf, TransformObject
  <2>5. DOMAIN definitions' = reachable'
    BY <1>0
  <2>6. /\ targets' \in Seq(ToSet(Root'.strict)) /\ Len(targets') <= Len(Root'.strict)
        /\ \A i \in 1 .. Len(targets') : targets'[i] = Root'.strict[Consumed' + i]
        /\ \A i \in 1 .. Consumed' : Root'.strict[i].component \in reachable'
    BY <1>2, <2>1, <2>2
  <2>7. QED
    BY <1>0, <2>4, <2>5, <2>6 DEF DefinitionsFollow
<1>7. CompilerShape'
  BY <1>0, <1>1 DEF SchemaInv, CompilerShape
<1>8. ValidatorsAreStrict' /\ VerdictIsTold'
  BY <1>0, ValidatorsAreKept DEF SchemaInv, VerdictIsTold
<1>9. TakenIsBounded'
  BY <1>0, <1>2 DEF SchemaInv, TakenIsBounded
<1>10. QED
  BY <1>0, <1>5, <1>6, <1>7, <1>8, <1>9 DEF SchemaInv, ClosureGoesOn, FailureIsExplained

\* A pointer that is no object explains a failure.
LEMMA PointerIsCause ==
    ASSUME SchemaInv, compiler = "strict", targets # <<>>, ~PointsAtObject(Head(targets))
    PROVE  FailureHasCause
<1> DEFINE pointer == Head(targets)
<1>1. compiling > 0 /\ compiling \in 1 .. Len(Roots)
  BY RootsAreLists DEF SchemaInv, CompilerShape
<1>2. /\ targets \in Seq(ToSet(Root.strict))
      /\ DOMAIN definitions = reachable /\ \A name \in reachable : definitions[name] = DefinitionOf(name)
      /\ reachable \subseteq DOMAIN document /\ ClosedUnderRefs(reachable)
  BY DEF SchemaInv, DefinitionsFollow, ClosureIsDone
<1>3. pointer \in ToSet(Root.strict)
  BY <1>2
<1> HIDE DEF pointer
<1>4. CASE pointer.component \notin reachable
  <2>1. reachable \subseteq AllNames
    BY <1>2 DEF AllNames
  <2>2. ~Reached(pointer.component)
    BY <1>2, <1>4, <2>1, ClosedHasReached
  <2>3. QED
    BY <1>3, <2>2 DEF FailureHasCause
<1>5. CASE pointer.component \in reachable
  <2>1. /\ pointer.property # ""
        /\ definitions[pointer.component].or_null
             \/ pointer.property \notin definitions[pointer.component].inner
    BY <1>2, <1>5 DEF PointsAtObject, pointer
  <2>2. /\ definitions[pointer.component].or_null = document[pointer.component].nullable
        /\ definitions[pointer.component].inner = document[pointer.component].inner
    BY <1>2, <1>5 DEF DefinitionOf
  <2>3. QED
    BY <1>3, <2>1, <2>2 DEF FailureHasCause
<1>6. QED
  BY <1>4, <1>5

LEMMA MakeStrictIsSound ==
    ASSUME SchemaInv, MakeStrict
    PROVE  SchemaInv'
<1> DEFINE pointer == Head(targets)
<1>0. /\ compiler = "strict" /\ targets # <<>>
      /\ UNCHANGED <<document, compiling, pending, reachable, validators, verdict, taken>>
      /\ \/ /\ PointsAtObject(pointer)
            /\ definitions' = [definitions EXCEPT ![pointer.component].strict = @ \cup {pointer.property}]
            /\ targets' = Tail(targets) /\ UNCHANGED compiler
         \/ /\ ~PointsAtObject(pointer) /\ compiler' = "failed"
  BY DEF MakeStrict
<1>1. compiling > 0 /\ compiling \in 1 .. Len(Roots)
  BY <1>0, RootsAreLists DEF SchemaInv, CompilerShape
<1>2. /\ Root' = Root
      /\ \A n : Reached(n)' <=> Reached(n)
      /\ \A names : ClosedUnderRefs(names)' <=> ClosedUnderRefs(names)
      /\ \A names : EdgesOf(names)' = EdgesOf(names)
      /\ FailureHasCause' <=> FailureHasCause
  BY <1>0, ReachedIsKept
<1>3. CompilerShape'
  BY <1>0, <1>1 DEF SchemaInv, CompilerShape
<1>4. ValidatorsAreStrict' /\ VerdictIsTold'
  BY <1>0, ValidatorsAreKept DEF SchemaInv, VerdictIsTold
<1>5. TakenIsBounded'
  BY <1>0, <1>2 DEF SchemaInv, TakenIsBounded
<1>6. CASE ~PointsAtObject(pointer) /\ compiler' = "failed"
  <2>1. FailureHasCause'
    BY <1>0, <1>2, <1>6, PointerIsCause
  <2>2. QED
    BY <1>3, <1>4, <1>5, <1>6, <2>1
       DEF SchemaInv, ClosureGoesOn, ClosureIsDone, DefinitionsFollow, FailureIsExplained
<1>7. CASE /\ PointsAtObject(pointer)
           /\ definitions' = [definitions EXCEPT ![pointer.component].strict = @ \cup {pointer.property}]
           /\ targets' = Tail(targets) /\ UNCHANGED compiler
  <2>1. ClosureIsDone'
    BY <1>0, <1>2, <1>7 DEF SchemaInv, ClosureIsDone
  <2>2. /\ targets \in Seq(ToSet(Root.strict)) /\ Len(targets) <= Len(Root.strict)
        /\ \A i \in 1 .. Len(targets) : targets[i] = Root.strict[Consumed + i]
        /\ \A i \in 1 .. Consumed : Root.strict[i].component \in reachable
        /\ DOMAIN definitions = reachable
        /\ \A name \in reachable : definitions[name] = DefinitionOf(name)
    BY <1>0 DEF SchemaInv, DefinitionsFollow
  <2>3. /\ Len(Root.strict) \in Nat /\ Len(targets) \in Nat /\ Len(targets) > 0
        /\ pointer = targets[1]
    BY <1>0, <1>1, <2>2, RootsAreLists DEF Root
  <2>4. /\ targets' \in Seq(ToSet(Root.strict)) /\ Len(targets') = Len(targets) - 1
        /\ \A i \in 1 .. Len(targets) - 1 : targets'[i] = targets[i + 1]
    BY <1>0, <1>7, <2>2
  <2> HIDE DEF pointer
  <2>5. Consumed \in Nat /\ Consumed' = Consumed + 1
    BY <1>2, <2>2, <2>3, <2>4 DEF Consumed
  <2>6. pointer = Root.strict[Consumed + 1]
    BY <2>2, <2>3
  <2>7. pointer.component \in reachable
    BY <1>7, <2>2 DEF PointsAtObject
  <2>8. ASSUME NEW i \in 1 .. Len(targets') PROVE targets'[i] = Root.strict[Consumed' + i]
    <3>1. i \in 1 .. Len(targets) - 1 /\ i + 1 \in 1 .. Len(targets)
      BY <2>3, <2>4
    <3>2. targets'[i] = Root.strict[Consumed + (i + 1)]
      BY <2>2, <2>4, <3>1
    <3>3. Consumed + (i + 1) = Consumed' + i
      BY <2>5, <3>1
    <3>4. QED
      BY <3>2, <3>3
  <2>9. ASSUME NEW i \in 1 .. Consumed' PROVE Root.strict[i].component \in reachable
    <3>1. i \in 1 .. Consumed \/ i = Consumed + 1
      BY <2>5
    <3>2. QED
      BY <2>2, <2>6, <2>7, <3>1
  <2>10. ASSUME NEW name
         PROVE  StrictAt(name)' = IF name = pointer.component THEN StrictAt(name) \cup {pointer.property}
                                  ELSE StrictAt(name)
    <3>1. \A i : i \in 1 .. Consumed' <=> i \in 1 .. Consumed \/ i = Consumed + 1
      BY <2>5
    <3>2. StrictAt(name)' = {Root.strict[i].property : i \in {j \in 1 .. Consumed' : Root.strict[j].component = name}}
      BY <1>2 DEF StrictAt
    <3>3. QED
      BY <2>6, <3>1, <3>2 DEF StrictAt
  <2>11. ASSUME NEW name \in reachable PROVE definitions'[name] = DefinitionOf(name)'
    <3>1. definitions[name] = DefinitionOf(name)
      BY <2>2
    <3>2. CASE name # pointer.component
      <4>1. definitions'[name] = definitions[name]
        BY <1>7, <2>2, <2>7, <3>2
      <4>2. StrictAt(name)' = StrictAt(name)
        BY <2>10, <3>2
      <4>3. QED
        BY <1>0, <3>1, <4>1, <4>2 DEF DefinitionOf
    <3>3. CASE name = pointer.component
      <4>1. definitions'[name] = [definitions[name] EXCEPT !.strict = @ \cup {pointer.property}]
        BY <1>7, <2>2, <2>7, <3>3
      <4>2. StrictAt(name)' = StrictAt(name) \cup {pointer.property}
        BY <2>10, <3>3
      <4>3. definitions'[name] = [definitions[name] EXCEPT !.strict = StrictAt(name)']
        BY <3>1, <4>1, <4>2 DEF DefinitionOf
      <4>4. QED
        BY <1>0, <3>1, <4>3 DEF DefinitionOf
    <3>4. QED
      BY <3>2, <3>3
  <2>12. DOMAIN definitions' = reachable
    BY <1>7, <2>2
  <2>13. Len(targets') <= Len(Root.strict)
    BY <2>2, <2>3, <2>4
  <2>14. DefinitionsFollow'
    BY <1>0, <1>2, <1>7, <2>4, <2>8, <2>9, <2>11, <2>12, <2>13 DEF DefinitionsFollow
  <2>15. QED
    BY <1>0, <1>3, <1>4, <1>5, <1>7, <2>1, <2>14 DEF SchemaInv, ClosureGoesOn, FailureIsExplained
<1>8. QED
  BY <1>0, <1>6, <1>7

\* Once no pointer is left the schema is strict at all of them and nowhere else.
LEMMA SchemaIsStrict ==
    ASSUME SchemaInv, compiler = "strict", targets = <<>>
    PROVE  IsStrictAsTold(definitions, compiling)
<1>1. compiling \in 1 .. Len(Roots)
  BY RootsAreLists DEF SchemaInv, CompilerShape
<1>2. /\ \A i \in 1 .. Consumed : Root.strict[i].component \in reachable
      /\ DOMAIN definitions = reachable
      /\ \A name \in reachable : definitions[name] = DefinitionOf(name)
  BY DEF SchemaInv, DefinitionsFollow
<1>3. /\ Len(Root.strict) \in Nat
      /\ \A j \in 1 .. Len(Root.strict) :
            Root.strict[j] = [component |-> Root.strict[j].component, property |-> Root.strict[j].property]
  BY <1>1, RootsAreLists DEF Root
<1>4. Consumed = Len(Root.strict)
  BY <1>3 DEF Consumed
<1>5. SUFFICES ASSUME NEW component, NEW property
               PROVE  (component \in DOMAIN definitions /\ property \in definitions[component].strict)
                        <=> Contains(Root.strict, [component |-> component, property |-> property])
  BY DEF IsStrictAsTold, Root
<1>6. ASSUME component \in DOMAIN definitions, property \in definitions[component].strict
      PROVE  Contains(Root.strict, [component |-> component, property |-> property])
  <2>1. property \in StrictAt(component)
    BY <1>2, <1>6 DEF DefinitionOf
  <2>2. PICK i \in 1 .. Len(Root.strict) : Root.strict[i].component = component /\ Root.strict[i].property = property
    BY <1>4, <2>1 DEF StrictAt
  <2>3. QED
    BY <1>3, <2>2 DEF Contains
<1>7. ASSUME Contains(Root.strict, [component |-> component, property |-> property])
      PROVE  component \in DOMAIN definitions /\ property \in definitions[component].strict
  <2>1. PICK i \in 1 .. Len(Root.strict) : Root.strict[i] = [component |-> component, property |-> property]
    BY <1>7 DEF Contains
  <2>2. component \in reachable /\ property \in StrictAt(component)
    BY <1>2, <1>4, <2>1 DEF StrictAt
  <2>3. QED
    BY <1>2, <2>2 DEF DefinitionOf
<1>8. QED
  BY <1>6, <1>7

LEMMA ValidatorFailsIsSound ==
    ASSUME SchemaInv, ValidatorFails
    PROVE  SchemaInv'
<1>0. /\ compiler = "strict" /\ compiler' = "rejected"
      /\ UNCHANGED <<document, compiling, pending, reachable, targets, definitions, validators, verdict,
                     taken>>
  BY DEF ValidatorFails
<1>1. /\ Root' = Root /\ AllNames' = AllNames
      /\ \A n : Reached(n)' <=> Reached(n)
      /\ \A names : ClosedUnderRefs(names)' <=> ClosedUnderRefs(names)
      /\ \A names : EdgesOf(names)' = EdgesOf(names)
  BY <1>0, ReachedIsKept
<1>2. CompilerShape'
  BY <1>0 DEF SchemaInv, CompilerShape
<1>3. ValidatorsAreStrict'
  BY <1>0, ValidatorsAreKept DEF SchemaInv
<1>4. ClosureIsDone' /\ TakenIsBounded' /\ VerdictIsTold'
  BY <1>0, <1>1 DEF SchemaInv, ClosureIsDone, TakenIsBounded, VerdictIsTold
<1>5. DefinitionsFollow'
  BY <1>0, <1>1 DEF SchemaInv, DefinitionsFollow, Consumed, DefinitionOf, StrictAt
<1>6. QED
  BY <1>0, <1>2, <1>3, <1>4, <1>5 DEF SchemaInv, ClosureGoesOn, FailureIsExplained

LEMMA NextRootIsSound ==
    ASSUME SchemaInv, NextRoot
    PROVE  SchemaInv'
<1>0. /\ compiler = "strict" /\ targets = <<>> /\ validators' = Append(validators, definitions)
      /\ UNCHANGED verdict
      /\ \/ /\ compiling < Len(Roots) /\ CompileStrictSchema(document, compiling + 1)
            /\ compiling' = compiling + 1 /\ compiler' = "closing"
         \/ /\ ~(compiling < Len(Roots)) /\ compiler' = "built"
            /\ UNCHANGED <<document, compiling, pending, reachable, targets, definitions, taken>>
  BY DEF NextRoot, CompileStrictSchema
<1>1. compiling \in 1 .. Len(Roots) /\ Len(Roots) \in Nat /\ compiling > 0 /\ document \in Documents
  BY <1>0, RootsAreLists DEF SchemaInv, CompilerShape
<1>2. IsStrictAsTold(definitions, compiling)
  BY <1>0, SchemaIsStrict
<1>3. IsSequence(validators) /\ Len(validators) = compiling - 1
      /\ \A i \in 1 .. Len(validators) : IsStrictAsTold(validators[i], i)
  BY <1>0, <1>1 DEF SchemaInv, ValidatorsAreStrict
<1>4. /\ IsSequence(validators') /\ Len(validators') = compiling
      /\ \A i \in 1 .. compiling - 1 : validators'[i] = validators[i]
      /\ validators'[compiling] = definitions
  <2>1. (compiling - 1) + 1 = compiling
    BY <1>1
  <2>2. QED
    BY <1>0, <1>3, <2>1, OneMoreValidator
<1>5. ASSUME NEW i \in 1 .. Len(validators') PROVE IsStrictAsTold(validators'[i], i)
  <2>1. i = compiling \/ i \in 1 .. compiling - 1
    BY <1>1, <1>4
  <2>2. QED
    BY <1>2, <1>3, <1>4, <2>1
<1>6. VerdictIsTold'
  BY <1>0 DEF SchemaInv, VerdictIsTold
<1>7. CASE /\ compiling < Len(Roots) /\ CompileStrictSchema(document, compiling + 1)
           /\ compiling' = compiling + 1 /\ compiler' = "closing"
  <2>1. compiling + 1 \in 1 .. Len(Roots)
    BY <1>1, <1>7
  <2>2. ValidatorsAreStrict'
    BY <1>1, <1>4, <1>5, <1>7 DEF ValidatorsAreStrict, IsStrictAsTold
  <2>3. QED
    BY <1>1, <1>6, <1>7, <2>1, <2>2, CompilingStarts DEF SchemaInv
<1>8. CASE /\ ~(compiling < Len(Roots)) /\ compiler' = "built"
           /\ UNCHANGED <<document, compiling, pending, reachable, targets, definitions, taken>>
  <2>1. /\ Root' = Root
        /\ \A n : Reached(n)' <=> Reached(n)
        /\ \A names : ClosedUnderRefs(names)' <=> ClosedUnderRefs(names)
        /\ \A names : EdgesOf(names)' = EdgesOf(names)
    BY <1>8, ReachedIsKept
  <2>2. ValidatorsAreStrict'
    BY <1>1, <1>4, <1>5, <1>8 DEF ValidatorsAreStrict, IsStrictAsTold
  <2>3. CompilerShape'
    BY <1>1, <1>8 DEF SchemaInv, CompilerShape
  <2>4. ClosureIsDone'
    BY <1>0, <1>8, <2>1 DEF SchemaInv, ClosureIsDone
  <2>5. DefinitionsFollow'
    BY <1>0, <1>8, <2>1 DEF SchemaInv, DefinitionsFollow, Consumed, DefinitionOf, StrictAt
  <2>6. TakenIsBounded'
    BY <1>8, <2>1 DEF SchemaInv, TakenIsBounded
  <2>7. QED
    BY <1>6, <1>8, <2>2, <2>3, <2>4, <2>5, <2>6 DEF SchemaInv, ClosureGoesOn, FailureIsExplained
<1>9. QED
  BY <1>0, <1>7, <1>8

LEMMA ValidateIsSound ==
    ASSUME SchemaInv, NEW kind \in DOMAIN Roots, NEW unknown \in SUBSET Places, Validate(kind, unknown)
    PROVE  SchemaInv'
<1>0. /\ compiler = "built"
      /\ verdict' = [kind |-> kind, unknown |-> unknown,
                     violations |-> SchemaViolations(validators[kind], unknown)]
      /\ UNCHANGED <<document, compiling, pending, reachable, targets, definitions, compiler, validators, taken>>
  BY DEF Validate
<1>1. kind \in 1 .. Len(validators)
  BY <1>0, RootsAreLists DEF SchemaInv, CompilerShape, ValidatorsAreStrict
<1>2. IsStrictAsTold(validators[kind], kind)
  BY <1>1 DEF SchemaInv, ValidatorsAreStrict
<1>3. ASSUME NEW place \in unknown
      PROVE  place = [component |-> place.component, property |-> place.property]
  <2>1. PICK i \in DOMAIN Roots :
            place \in ToSet(Roots[i].strict) \cup {[component |-> Roots[i].root, property |-> ""]}
    BY DEF Places
  <2>2. QED
    BY <2>1, StrictSchemaAssumption
<1>4. SchemaViolations(validators[kind], unknown) = {place \in unknown : Contains(Roots[kind].strict, place)}
  <2>1. ASSUME NEW place \in unknown
        PROVE  (place.component \in DOMAIN validators[kind]
                  /\ place.property \in validators[kind][place.component].strict)
                 <=> Contains(Roots[kind].strict, place)
    <3>1. (place.component \in DOMAIN validators[kind]
             /\ place.property \in validators[kind][place.component].strict)
            <=> Contains(Roots[kind].strict, [component |-> place.component, property |-> place.property])
      BY <1>2, Zenon DEF IsStrictAsTold
    <3>2. QED
      BY <1>3, <3>1
  <2>2. QED
    BY <2>1 DEF SchemaViolations
<1>5. VerdictIsTold'
  BY <1>0, <1>4 DEF VerdictIsTold
<1>6. /\ Root' = Root /\ AllNames' = AllNames
      /\ \A n : Reached(n)' <=> Reached(n)
      /\ \A names : ClosedUnderRefs(names)' <=> ClosedUnderRefs(names)
      /\ \A names : EdgesOf(names)' = EdgesOf(names)
  BY <1>0, ReachedIsKept
<1>7. CompilerShape' /\ ValidatorsAreStrict'
  BY <1>0 DEF SchemaInv, CompilerShape, ValidatorsAreStrict, IsStrictAsTold
<1>8. ClosureIsDone' /\ TakenIsBounded'
  BY <1>0, <1>6 DEF SchemaInv, ClosureIsDone, TakenIsBounded
<1>9. DefinitionsFollow'
  BY <1>0, <1>6 DEF SchemaInv, DefinitionsFollow, Consumed, DefinitionOf, StrictAt
<1>10. QED
  BY <1>0, <1>5, <1>7, <1>8, <1>9 DEF SchemaInv, ClosureGoesOn, FailureIsExplained
-----------------------------------------------------------------------------
LEMMA SchemaStartsSound == StrictSchemaInit => SchemaInv
<1>1. ASSUME StrictSchemaInit PROVE SchemaInv
  <2>1. /\ compiling = 0 /\ compiler = "idle" /\ taken = 0 /\ validators = <<>>
        /\ verdict.unknown = {} /\ verdict.violations = {}
    BY <1>1 DEF StrictSchemaInit, NotValidated
  <2>2. CompilerShape
    BY <2>1, RootsAreLists DEF CompilerShape
  <2>3. ValidatorsAreStrict
    <3>1. IsSequence(validators) /\ Len(validators) = 0
      BY <2>1 DEF IsSequence
    <3>2. QED
      BY <2>1, <3>1 DEF ValidatorsAreStrict
  <2>4. VerdictIsTold
    BY <2>1 DEF VerdictIsTold
  <2>5. QED
    BY <2>1, <2>2, <2>3, <2>4
       DEF SchemaInv, ClosureGoesOn, TakenIsBounded, ClosureIsDone, DefinitionsFollow, FailureIsExplained
<1>2. QED
  BY <1>1

LEMMA SchemaStepIsSound ==
    ASSUME SchemaInv, [StrictSchemaNext]_strictSchemaVars
    PROVE  SchemaInv'
<1>1. CASE StrictSchemaNext
  <2>1. ASSUME NEW components \in Documents, FromOpenApi(components) PROVE SchemaInv'
    BY <2>1, FromOpenApiIsSound
  <2>2. ASSUME NEW kind \in DOMAIN Roots, NEW unknown \in SUBSET Places, Validate(kind, unknown)
        PROVE  SchemaInv'
    BY <2>2, ValidateIsSound
  <2>3. ParseFails \/ TakeName \/ Define \/ MakeStrict \/ ValidatorFails \/ NextRoot => SchemaInv'
    BY ParseFailsIsSound, TakeNameIsSound, DefineIsSound, MakeStrictIsSound, ValidatorFailsIsSound,
       NextRootIsSound
  <2>4. QED
    BY <1>1, <2>1, <2>2, <2>3, Zenon DEF StrictSchemaNext
<1>2. CASE UNCHANGED strictSchemaVars
  <2>1. UNCHANGED <<document, compiling, pending, reachable, targets, definitions, compiler, validators,
                    verdict, taken>>
    BY <1>2 DEF strictSchemaVars
  <2>2. /\ Root' = Root /\ AllNames' = AllNames
        /\ \A n : Reached(n)' <=> Reached(n)
        /\ \A names : ClosedUnderRefs(names)' <=> ClosedUnderRefs(names)
        /\ \A names : EdgesOf(names)' = EdgesOf(names)
        /\ FailureHasCause' <=> FailureHasCause
    BY <2>1, ReachedIsKept
  <2>3. CompilerShape' /\ ValidatorsAreStrict'
    BY <2>1 DEF SchemaInv, CompilerShape, ValidatorsAreStrict, IsStrictAsTold
  <2>4. ClosureIsDone' /\ TakenIsBounded' /\ FailureIsExplained' /\ VerdictIsTold'
    BY <2>1, <2>2 DEF SchemaInv, ClosureIsDone, TakenIsBounded, FailureIsExplained, VerdictIsTold
  <2>5. ClosureGoesOn'
    BY <2>1, <2>2 DEF SchemaInv, ClosureGoesOn
  <2>6. Consumed' = Consumed /\ \A name : StrictAt(name)' = StrictAt(name)
    BY <2>1, <2>2 DEF Consumed, StrictAt
  <2>7. \A name : DefinitionOf(name)' = DefinitionOf(name)
    BY <2>1, <2>6 DEF DefinitionOf
  <2>8. DefinitionsFollow'
    BY <2>1, <2>2, <2>6, <2>7 DEF SchemaInv, DefinitionsFollow
  <2>9. QED
    BY <2>3, <2>4, <2>5, <2>8 DEF SchemaInv
<1>3. QED
  BY <1>1, <1>2

\* The invariant gives the property: what is closed and reached is what is reached.
LEMMA SchemaInvGivesClosed == SchemaInv => SchemaIsClosed
<1>1. SUFFICES ASSUME SchemaInv, compiling > 0
               PROVE  /\ taken <= 1 + Cardinality(EdgesOf(DOMAIN document))
                      /\ compiler \in {"strict", "built", "rejected"} =>
                            /\ ClosedUnderRefs(DOMAIN definitions)
                            /\ \A name \in AllNames : name \in DOMAIN definitions <=> Reached(name)
                            /\ \A name \in DOMAIN definitions :
                                  /\ IsInjective(definitions[name].required)
                                  /\ ToSet(definitions[name].required) = ToSet(document[name].required)
                      /\ VerdictIsTold
                      /\ compiler = "failed" => FailureHasCause
  BY DEF SchemaIsClosed, VerdictIsTold
<1>2. ASSUME compiler \in {"strict", "built", "rejected"}
      PROVE  /\ ClosedUnderRefs(DOMAIN definitions)
             /\ \A name \in AllNames : name \in DOMAIN definitions <=> Reached(name)
             /\ \A name \in DOMAIN definitions :
                   /\ IsInjective(definitions[name].required)
                   /\ ToSet(definitions[name].required) = ToSet(document[name].required)
  <2>1. /\ DOMAIN definitions = reachable /\ \A name \in reachable : definitions[name] = DefinitionOf(name)
        /\ reachable \subseteq DOMAIN document /\ ClosedUnderRefs(reachable)
        /\ \A name \in reachable : Reached(name)
        /\ document \in Documents
    BY <1>1, <1>2 DEF SchemaInv, DefinitionsFollow, ClosureIsDone, CompilerShape
  <2>2. reachable \subseteq AllNames
    BY <2>1 DEF AllNames
  <2>3. \A name \in AllNames : name \in reachable <=> Reached(name)
    BY <2>1, <2>2, ClosedHasReached
  <2>4. ASSUME NEW name \in reachable
        PROVE  /\ IsInjective(definitions[name].required)
               /\ ToSet(definitions[name].required) = ToSet(document[name].required)
    <3>1. IsSequence(document[name].required)
      BY <2>1, StrictSchemaAssumption
    <3>2. definitions[name].required = UniqueStrings(document[name].required)
      BY <2>1 DEF DefinitionOf
    <3>3. QED
      BY <3>1, <3>2, UniqueIsCollected
  <2>5. QED
    BY <2>1, <2>3, <2>4
<1>3. QED
  BY <1>1, <1>2 DEF SchemaInv, TakenIsBounded, FailureIsExplained
-----------------------------------------------------------------------------
\* A schema that was compiled holds exactly what its root reaches, whatever the
\* components refer to; transitive_closure takes no name more often than it is referred
\* to; unique_strings loses nothing; a value is refused for unknown properties where the
\* validator of its kind says and nowhere else; and a root fails for a cause, unless it
\* was compiled to the end and validator_for rejected its schema.
THEOREM SchemasAreClosed == BalancerSpec => []SchemaIsClosed
<1>1. BalancerInit => SchemaInv
  BY SchemaStartsSound DEF BalancerInit
<1>2. SchemaInv /\ [BalancerNext]_<<part, httpStreamsVars, agentConnectionVars, restVars>> => SchemaInv'
  <2>1. [BalancerNext]_<<part, httpStreamsVars, agentConnectionVars, restVars>>
          => [StrictSchemaNext]_strictSchemaVars
    BY DEF BalancerNext, restVars
  <2>2. QED
    BY <2>1, SchemaStepIsSound
<1>3. QED
  BY <1>1, <1>2, SchemaInvGivesClosed, PTL DEF BalancerSpec

=============================================================================
