---------------------------- MODULE ClientProofs ----------------------------
(***************************************************************************)
(* Proofs about the client libraries and the test harness, for any number  *)
(* of requests, slots, connections, frames, agents and losses: every       *)
(* caller gets its own frames, in order and once; a stream ends with a     *)
(* reason; the balancer is told to stop; an error is true; and a cluster   *)
(* that is handed to its test is the one that was asked for.               *)
(*                                                                         *)
(* What the sockets need: every trace of a request, on its way to the      *)
(* balancer or back, is on the one connection its caller holds             *)
(* (TracesAreHeld); a request is under way or was delivered, never both    *)
(* (RequestIsSingle); the frames of a request that are under way continue  *)
(* what its channel holds, one by one (FramesContinue), which is said with *)
(* a numbering of the wire since the frames of many requests share it; and *)
(* who is no longer pending has been told why (GoneIsTold).                *)
(***************************************************************************)
EXTENDS MCClients, FiniteSetTheorems, TLAPS

-----------------------------------------------------------------------------
(***************************************************************************)
(* The sockets: the inductive invariant.                                   *)
(***************************************************************************)
Errors == {"dropped", "unparsable"}
Before == {"idle", "check", "connect", "get"}
Phase == Before \cup {"write", "streaming"} \cup Over
Unsent == Before \cup {"write", "cancelled", "failed"}

\* The types, with what SocketTypeOK leaves open.
SocketShape ==
    /\ library \in {"rust", "python", "javascript"}
    /\ pool \in [Slot -> 0 .. made]
    /\ next \in Nat
    /\ lock \in Request \cup {None}
    /\ made \in 0 .. MaxConnections
    /\ socket \in [Connection -> {"open", "closed"}]
    /\ wire \in [Connection -> Seq(Frame)]
    /\ queue \in [Connection -> Seq(Message)]
    /\ reader \in [Connection -> {"running", "draining", "finished"}]
    /\ writer \in [Connection -> {"running", "finished"}]
    /\ pending \in [Connection -> SUBSET Request]
    /\ serving \in [Connection -> SUBSET Request]
    /\ phase \in [Request -> Phase]
    /\ slot \in [Request -> Slot]
    /\ conn \in [Request -> 0 .. made]
    /\ attempt \in [Request -> 1 .. 2]
    /\ items \in [Request -> Seq(Item)]
    /\ taken \in [Request -> Nat]
    /\ sent \in [Request -> Seq(Frame)]
    /\ asked \in [Request -> 0 .. 1]
    /\ late \in [Request -> BOOLEAN]
    /\ drops \in Nat

\* The pool's counter counts the requests that were sent.
Begun == {r \in Request : phase[r] # "idle"}

NextCounts == next = IF library = "javascript" THEN 0 ELSE Cardinality(Begun)

\* Which steps of a caller a library has, and what it has by then.
CallerOf(r) ==
    /\ library # "rust" => phase[r] \notin {"check", "get", "write"}
    /\ library = "javascript" => phase[r] # "connect"
    /\ phase[r] = "get" => pool[slot[r]] # None
    /\ phase[r] \in {"write", "streaming", "stopped", "ended"} => conn[r] # None
    /\ phase[r] \notin {"streaming", "stopped", "ended"} => taken[r] = 0
    /\ taken[r] <= Len(items[r])
    /\ library # "rust" /\ phase[r] \in Unsent => items[r] = <<>>

CallerShape ==
    /\ library = "javascript" => made = 1
    /\ \A r \in Request : CallerOf(r)

\* A connection's tasks leave their loops only when its socket is closed; in the
\* other libraries they do so together, or never.
TasksFollowSocket ==
    \A c \in Connection :
        /\ reader[c] # "running" \/ writer[c] # "running" => socket[c] = "closed"
        /\ reader[c] = "draining" => library = "rust"

\* Every trace of a request is on the connection its caller holds.
TraceOn(c) ==
    /\ \A r \in pending[c] : conn[r] = c /\ phase[r] \notin Unsent \ {"write"}
    /\ \A r \in serving[c] : conn[r] = c /\ asked[r] = 1
    /\ \A i \in 1 .. Len(queue[c]) : conn[queue[c][i].id] = c
    /\ \A i \in 1 .. Len(wire[c]) : conn[wire[c][i].to] = c /\ sent[wire[c][i].to] # <<>>

TracesAreHeld == \A c \in Connection : TraceOn(c)

\* A request that its caller has not sent has left no trace at the balancer, and
\* one that was sent is under way once, or was delivered once.
MessageIsSingle(c, i) ==
    /\ phase[queue[c][i].id] \notin Unsent
    /\ queue[c][i].type = "request" =>
           /\ asked[queue[c][i].id] = 0
           /\ \A j \in 1 .. Len(queue[c]) : queue[c][j] = queue[c][i] => j = i

RequestIsSingle ==
    /\ \A r \in Request : asked[r] = 0 => sent[r] = <<>>
    /\ \A r \in Request : phase[r] \in Unsent => asked[r] = 0
    /\ \A c \in Connection : \A i \in 1 .. Len(queue[c]) : MessageIsSingle(c, i)

\* A numbering of the wire: how many frames the request has been sent up to each place.
Numbers(number, w, r, base, frames) ==
    /\ number[0] = base
    /\ \A i \in 1 .. Len(w) :
          number[i] = IF w[i].to = r THEN number[i - 1] + 1 ELSE number[i - 1]
    /\ \A i \in 1 .. Len(w) : w[i].to = r => number[i] >= 1 /\ w[i] = frames[number[i]]

Continues(w, r, base, frames, whole) ==
    \E number \in [0 .. Len(w) -> 0 .. Len(frames)] :
        /\ Numbers(number, w, r, base, frames)
        /\ whole => number[Len(w)] = Len(frames)

\* The frames on the wire continue the channel of a request that is still pending,
\* as far as the socket's loss has left them.
FramesContinue ==
    \A c \in Connection : \A r \in pending[c] :
        reader[c] = "running" =>
            Continues(wire[c], r, Len(items[r]), sent[r], socket[c] = "open")

\* An error is the last a channel is given.
NoErrorYet ==
    \A c \in Connection : \A r \in pending[c] :
        reader[c] # "draining" => \A i \in 1 .. Len(items[r]) : items[r][i].kind \in Kind

\* The balancer has sent a request its last frame.
Answered(r) == \E i \in 1 .. Len(sent[r]) : sent[r][i].kind \in RustTerminal

AnsweredIsServed == \A r \in Request : Answered(r) => \A c \in Connection : r \notin serving[c]

\* The reason that ends a stream.
IsReason(item) == IsTerminal(item.kind) \/ item.kind \in Errors

\* A Rust request that is no longer pending, or whose reader is about to forget it,
\* has been told why, unless it was registered late.
ToldOf(r) ==
    /\ ~late[r] /\ (r \notin pending[conn[r]] \/ reader[conn[r]] = "draining") =>
           Len(items[r]) > 0 /\ items[r][Len(items[r])].kind \in RustTerminal \cup Errors
    /\ r \in pending[conn[r]] /\ reader[conn[r]] = "finished" => late[r]
    /\ r \notin pending[conn[r]] => socket[conn[r]] = "closed" \/ Answered(r)

GoneIsTold ==
    library = "rust" => \A r \in Request : phase[r] \in {"write", "streaming"} => ToldOf(r)

\* A Rust request that is under way, or that the balancer is answering, is read, or
\* is followed by the order to stop.
Ask(r) == [type |-> "request", id |-> r]
Stop(r) == [type |-> "stop", id |-> r]

FollowedOn(r, c) ==
    /\ \A i \in 1 .. Len(queue[c]) :
           queue[c][i] = Ask(r) => \E j \in 1 .. Len(queue[c]) : j > i /\ queue[c][j] = Stop(r)
    /\ r \in serving[c] => \E j \in 1 .. Len(queue[c]) : queue[c][j] = Stop(r)

StopFollows ==
    library = "rust" =>
        \A r \in Request, c \in Connection :
            socket[c] = "open" /\ phase[r] # "streaming" => FollowedOn(r, c)

SocketInv ==
    /\ SocketShape /\ NextCounts /\ CallerShape /\ TasksFollowSocket
    /\ TracesAreHeld /\ RequestIsSingle
    /\ FramesContinue /\ NoErrorYet /\ OwnFramesInOrder
    /\ AnsweredIsServed /\ GoneIsTold /\ StopFollows
    /\ EndsWithReason

-----------------------------------------------------------------------------
(***************************************************************************)
(* What the steps do, spelled out.                                         *)
(***************************************************************************)
\* A function updated at one place keeps its type.
LEMMA PutIn ==
    ASSUME NEW S, NEW T, NEW f \in [S -> T], NEW x, NEW v \in T
    PROVE  [f EXCEPT ![x] = v] \in [S -> T]
OBVIOUS

\* The fields of a frame.
LEMMA FieldsOf ==
    ASSUME NEW u, NEW q, NEW k, u = [to |-> q, kind |-> k]
    PROVE  u.to = q /\ u.kind = k
OBVIOUS

\* The slot whose turn it is, is one of the pool's.
LEMMA TurnIsSlot == ASSUME NEW n \in Nat PROVE n % PoolSize \in Slot
BY SocketClientAssumption DEF Slot

\* The channels once the requests of a set were told of an error.
Told(S, kind) ==
    [q \in Request |-> IF q \in S THEN Append(items[q], [to |-> q, kind |-> kind]) ELSE items[q]]

\* Who is told of an error has one more item, and its channel is a channel still.
LEMMA ToldIs ==
    ASSUME SocketShape, NEW S \in SUBSET Request, NEW kind \in Errors
    PROVE  /\ Told(S, kind) \in [Request -> Seq(Item)]
           /\ \A q \in Request \ S : Told(S, kind)[q] = items[q]
           /\ \A q \in S : /\ Len(Told(S, kind)[q]) = Len(items[q]) + 1
                           /\ Told(S, kind)[q][Len(items[q]) + 1].kind = kind
           /\ \A q \in Request : /\ Len(items[q]) <= Len(Told(S, kind)[q])
                                 /\ \A i \in 1 .. Len(items[q]) : Told(S, kind)[q][i] = items[q][i]
<1>1. items \in [Request -> Seq(Item)]
  BY DEF SocketShape
<1>2. ASSUME NEW q \in Request PROVE [to |-> q, kind |-> kind] \in Item
  BY DEF Item, Errors
<1>3. ASSUME NEW q \in Request
      PROVE  /\ Append(items[q], [to |-> q, kind |-> kind]) \in Seq(Item)
             /\ Len(Append(items[q], [to |-> q, kind |-> kind])) = Len(items[q]) + 1
             /\ Append(items[q], [to |-> q, kind |-> kind])[Len(items[q]) + 1]
                    = [to |-> q, kind |-> kind]
             /\ \A i \in 1 .. Len(items[q]) :
                    Append(items[q], [to |-> q, kind |-> kind])[i] = items[q][i]
             /\ Len(items[q]) \in Nat
  <2>1. items[q] \in Seq(Item)
    BY <1>1
  <2>2. QED
    BY <1>2, <2>1
<1>4. Told(S, kind) \in [Request -> Seq(Item)]
  BY <1>1, <1>3 DEF Told
<1>5. \A q \in Request : /\ q \in S => Told(S, kind)[q] = Append(items[q], [to |-> q, kind |-> kind])
                         /\ q \notin S => Told(S, kind)[q] = items[q]
  BY DEF Told
<1>6. ASSUME NEW q \in S
      PROVE  /\ Len(Told(S, kind)[q]) = Len(items[q]) + 1
             /\ Told(S, kind)[q][Len(items[q]) + 1] = [to |-> q, kind |-> kind]
             /\ Len(items[q]) <= Len(Told(S, kind)[q])
             /\ \A i \in 1 .. Len(items[q]) : Told(S, kind)[q][i] = items[q][i]
  <2>1. q \in Request /\ Told(S, kind)[q] = Append(items[q], [to |-> q, kind |-> kind])
    BY <1>5
  <2>2. QED
    BY <1>3, <2>1
<1>7. ASSUME NEW q \in S PROVE Told(S, kind)[q][Len(items[q]) + 1].kind = kind
  <2>1. Told(S, kind)[q][Len(items[q]) + 1] = [to |-> q, kind |-> kind]
    BY <1>6
  <2>2. QED
    BY <2>1, FieldsOf
<1>8. ASSUME NEW q \in Request \ S
      PROVE  /\ Told(S, kind)[q] = items[q]
             /\ Len(items[q]) <= Len(Told(S, kind)[q])
             /\ \A i \in 1 .. Len(items[q]) : Told(S, kind)[q][i] = items[q][i]
  <2>1. Told(S, kind)[q] = items[q] /\ Len(items[q]) \in Nat
    BY <1>3, <1>5, Zenon
  <2>2. Len(items[q]) <= Len(items[q])
    BY <2>1
  <2>3. QED
    BY <2>1, <2>2, Zenon
<1>9. QED
  BY <1>4, <1>6, <1>7, <1>8, Zenon

\* A frame is delivered to the request it is for, or it spoils streams.
LEMMA ReadFrameDoes ==
    ASSUME SocketShape, NEW c \in Connection, ReadFrame(c)
    PROVE  /\ reader[c] = "running" /\ Len(wire[c]) > 0
           /\ wire[c][1] \in Frame /\ wire[c][1].to \in Request /\ wire[c][1].kind \in Kind
           /\ wire' = [wire EXCEPT ![c] = Tail(wire[c])]
           /\ UNCHANGED <<library, pool, next, lock, made, socket, queue, reader, writer, serving>>
           /\ UNCHANGED <<phase, slot, conn, attempt, taken, sent, asked, late, drops>>
           /\ \/ /\ wire[c][1].to \in pending[c]
                 /\ items' = [items EXCEPT ![wire[c][1].to] =
                                               Append(items[wire[c][1].to], wire[c][1])]
                 /\ \/ /\ IsTerminal(wire[c][1].kind)
                       /\ pending' = [pending EXCEPT ![c] = pending[c] \ {wire[c][1].to}]
                    \/ pending' = pending
              \/ \E spoiled \in SUBSET pending[c] :
                    /\ library = "rust" => spoiled = {}
                    /\ wire[c][1].to \in pending[c] => wire[c][1].to \in spoiled
                    /\ items' = Told(spoiled, "unparsable")
                    /\ pending' = [pending EXCEPT ![c] = pending[c] \ spoiled]
<1> DEFINE frame == wire[c][1]
<1>1. wire[c] \in Seq(Frame) /\ wire[c] # <<>>
  BY DEF SocketShape, ReadFrame
<1>2. Head(wire[c]) = frame /\ Len(wire[c]) > 0 /\ frame \in Frame
  BY <1>1
<1>3. frame.to \in Request /\ frame.kind \in Kind
  BY <1>2 DEF Frame
<1>4. /\ reader[c] = "running"
      /\ wire' = [wire EXCEPT ![c] = Tail(wire[c])]
      /\ UNCHANGED <<library, pool, next, lock, made, socket, queue, reader, writer, serving>>
      /\ UNCHANGED <<phase, slot, conn, attempt, taken, sent, asked, late, drops>>
  BY Zenon DEF ReadFrame, poolVars, callerVars, historyVars
<1>5. Route(c, frame)
  <2>1. Route(c, Head(wire[c]))
    BY Zenon DEF ReadFrame
  <2>2. QED
    BY <1>2, <2>1, Zenon
<1>6. pending[c] \subseteq Request
  BY DEF SocketShape
<1>7. /\ Spoiled(c, frame) \subseteq pending[c]
      /\ library = "rust" => Spoiled(c, frame) = {}
      /\ Spoiled(c, frame) # {} /\ frame.to \in pending[c] => frame.to \in Spoiled(c, frame)
  <2>1. CASE library = "python" /\ ~PythonParses(frame)
    BY <2>1 DEF Spoiled
  <2>2. CASE library = "javascript" /\ ~JavascriptParses(frame)
    BY <2>2 DEF Spoiled
  <2>3. CASE /\ ~(library = "python" /\ ~PythonParses(frame))
             /\ ~(library = "javascript" /\ ~JavascriptParses(frame))
    <3>1. Spoiled(c, frame) = {}
      BY <2>3, Zenon DEF Spoiled
    <3>2. QED
      BY <3>1
  <2>4. QED
    BY <2>1, <2>2, <2>3, Zenon
<1>8. CASE Spoiled(c, frame) = {} /\ frame.to \in pending[c]
  <2>1. /\ items' = [items EXCEPT ![frame.to] = Append(items[frame.to], frame)]
        /\ pending' = IF IsTerminal(frame.kind)
                      THEN [pending EXCEPT ![c] = pending[c] \ {frame.to}] ELSE pending
    BY <1>5, <1>8, Zenon DEF Route
  <2>2. QED
    BY <1>2, <1>3, <1>4, <1>8, <2>1, Zenon
<1>9. CASE ~(Spoiled(c, frame) = {} /\ frame.to \in pending[c])
  <2>1. /\ items' = Told(Spoiled(c, frame), "unparsable")
        /\ pending' = [pending EXCEPT ![c] = pending[c] \ Spoiled(c, frame)]
    BY <1>5, <1>9, Zenon DEF Route, Told
  <2>2. /\ Spoiled(c, frame) \in SUBSET pending[c]
        /\ library = "rust" => Spoiled(c, frame) = {}
        /\ frame.to \in pending[c] => frame.to \in Spoiled(c, frame)
    BY <1>7, <1>9, Zenon
  <2>3. QED
    BY <1>2, <1>3, <1>4, <2>1, <2>2, Zenon
<1>10. QED
  BY <1>8, <1>9, Zenon

\* A message is delivered: the balancer is asked, or told to stop.
LEMMA WriteMessageDoes ==
    ASSUME SocketShape, NEW c \in Connection, WriteMessage(c)
    PROVE  /\ Len(queue[c]) > 0 /\ socket[c] = "open"
           /\ queue[c][1] \in Message /\ queue[c][1].id \in Request
           /\ queue' = [queue EXCEPT ![c] = Tail(queue[c])]
           /\ UNCHANGED <<library, pool, next, lock, made, socket, wire, reader, writer, pending>>
           /\ UNCHANGED <<phase, slot, conn, attempt, items, taken, sent, late, drops>>
           /\ \/ /\ queue[c][1].type = "request"
                 /\ serving' = [serving EXCEPT ![c] = serving[c] \cup {queue[c][1].id}]
                 /\ asked' = [asked EXCEPT ![queue[c][1].id] = asked[queue[c][1].id] + 1]
              \/ /\ queue[c][1].type = "stop"
                 /\ serving' = [serving EXCEPT ![c] = serving[c] \ {queue[c][1].id}]
                 /\ asked' = asked
<1> DEFINE message == queue[c][1]
<1>1. queue[c] \in Seq(Message) /\ queue[c] # <<>>
  BY DEF SocketShape, WriteMessage
<1>2. Head(queue[c]) = message /\ Len(queue[c]) > 0 /\ message \in Message
  BY <1>1
<1>3. message.id \in Request /\ (message.type = "request" \/ message.type = "stop")
  BY <1>2 DEF Message
<1>4. /\ socket[c] = "open"
      /\ queue' = [queue EXCEPT ![c] = Tail(queue[c])]
      /\ UNCHANGED <<library, pool, next, lock, made, socket, wire, reader, writer, pending>>
      /\ UNCHANGED <<phase, slot, conn, attempt, items, taken, sent, late, drops>>
  BY Zenon DEF WriteMessage, poolVars, callerVars, streamVars
<1>5. Deliver(c, message)
  <2>1. Deliver(c, Head(queue[c]))
    BY Zenon DEF WriteMessage
  <2>2. QED
    BY <1>2, <2>1, Zenon
<1>6. "stop" # "request"
  OBVIOUS
<1>7. CASE message.type = "request"
  BY <1>2, <1>3, <1>4, <1>5, <1>7, Zenon DEF Deliver
<1>8. CASE message.type = "stop"
  BY <1>2, <1>3, <1>4, <1>5, <1>6, <1>8, Zenon DEF Deliver
<1>9. QED
  BY <1>3, <1>7, <1>8, Zenon

\* Writing to a closed socket.
LEMMA WriteFailsDoes ==
    ASSUME SocketShape, NEW c \in Connection, WriteFails(c)
    PROVE  /\ Len(queue[c]) > 0 /\ socket[c] = "closed"
           /\ queue' = [queue EXCEPT ![c] = Tail(queue[c])]
           /\ UNCHANGED <<library, pool, next, lock, made, socket, wire, serving>>
           /\ UNCHANGED <<phase, slot, conn, attempt, taken, sent, asked, late, drops>>
           /\ \/ /\ library = "rust"
                 /\ writer' = [writer EXCEPT ![c] = "finished"]
                 /\ UNCHANGED <<reader, pending, items>>
              \/ /\ library = "python"
                 /\ reader' = [reader EXCEPT ![c] = "finished"]
                 /\ writer' = [writer EXCEPT ![c] = "finished"]
                 /\ pending' = [pending EXCEPT ![c] = {}]
                 /\ items' = Told(pending[c], "dropped")
              \/ library = "javascript" /\ UNCHANGED <<reader, writer, pending, items>>
<1>1. queue[c] \in Seq(Message) /\ queue[c] # <<>>
  BY DEF SocketShape, WriteFails
<1>2. Len(queue[c]) > 0
  BY <1>1
<1>3. /\ socket[c] = "closed"
      /\ queue' = [queue EXCEPT ![c] = Tail(queue[c])]
      /\ UNCHANGED <<library, pool, next, lock, made, socket, wire, serving>>
      /\ UNCHANGED <<phase, slot, conn, attempt, taken, sent, asked, late, drops>>
  BY Zenon DEF WriteFails, poolVars, callerVars, historyVars
<1>4. library = "rust" \/ library = "python" \/ library = "javascript"
  BY DEF SocketShape
<1>5. "rust" # "python" /\ "rust" # "javascript" /\ "python" # "javascript"
  OBVIOUS
<1>6. CASE library = "rust"
  BY <1>2, <1>3, <1>5, <1>6 DEF WriteFails
<1>7. CASE library = "python"
  <2>1. DrainPending(c)
    BY <1>7 DEF WriteFails
  <2>2. QED
    BY <1>2, <1>3, <1>7, <2>1, Zenon DEF DrainPending, Dropped, Told
<1>8. CASE library = "javascript"
  BY <1>2, <1>3, <1>5, <1>8 DEF WriteFails
<1>9. QED
  BY <1>4, <1>6, <1>7, <1>8, Zenon

\* The Python pool's turn.
LEMMA LockPoolDoes ==
    ASSUME SocketShape, NEW r \in Request, LockPool(r)
    PROVE  /\ library = "python" /\ phase[r] = "idle"
           /\ slot' = [slot EXCEPT ![r] = next % PoolSize]
           /\ next' = next + 1
           /\ UNCHANGED <<library, pool, made, socket, wire, reader, writer, serving>>
           /\ UNCHANGED <<attempt, items, taken, sent, asked, late, drops>>
           /\ \/ \E c \in Connection :
                    /\ c <= made /\ reader[c] = "running"
                    /\ pending' = [pending EXCEPT ![c] = pending[c] \cup {r}]
                    /\ queue' = [queue EXCEPT ![c] =
                                            Append(queue[c], [type |-> "request", id |-> r])]
                    /\ conn' = [conn EXCEPT ![r] = c]
                    /\ phase' = [phase EXCEPT ![r] = "streaming"]
                    /\ lock' = lock
              \/ /\ phase' = [phase EXCEPT ![r] = "connect"]
                 /\ lock' = r
                 /\ UNCHANGED <<pending, queue, conn>>
<1> DEFINE c == pool[next % PoolSize]
<1>1. /\ library = "python" /\ phase[r] = "idle"
      /\ slot' = [slot EXCEPT ![r] = next % PoolSize]
      /\ next' = next + 1
      /\ UNCHANGED <<library, pool, made, socket, wire, reader, writer, serving>>
      /\ UNCHANGED <<attempt, items, taken, sent, asked, late, drops>>
  BY Zenon DEF LockPool, streamVars, historyVars
<1>2. c \in 0 .. made /\ made \in 0 .. MaxConnections
  BY TurnIsSlot DEF SocketShape
<1>3. CASE c # None /\ reader[c] = "running"
  <2>1. c \in Connection /\ c <= made
    BY <1>2, <1>3, SocketClientAssumption DEF Connection, None
  <2>2. SendOn(c, r) /\ Move(r, "streaming") /\ lock' = lock
    BY <1>3, Zenon DEF LockPool
  <2>3. QED
    BY <1>1, <1>3, <2>1, <2>2, Zenon DEF SendOn, Move, Enqueue
<1>4. CASE ~(c # None /\ reader[c] = "running")
  <2>1. Move(r, "connect") /\ lock' = r /\ UNCHANGED <<pending, queue, conn>>
    BY <1>4, Zenon DEF LockPool
  <2>2. QED
    BY <1>1, <2>1, Zenon DEF Move
<1>5. QED
  BY <1>3, <1>4, Zenon

\* A connection that was not made yet is taken.
LEMMA NewConnection ==
    ASSUME SocketShape, made < MaxConnections
    PROVE  made + 1 \in Connection /\ made + 1 \in 0 .. MaxConnections /\ made + 1 # None
BY SocketClientAssumption DEF SocketShape, Connection, None

\* The connections that a request holds.
LEMMA HeldIsConnection ==
    ASSUME SocketShape, NEW r \in Request
    PROVE  /\ conn[r] # None => conn[r] \in Connection
           /\ pool[slot[r]] \in 0 .. made
           /\ pool[slot[r]] # None => pool[slot[r]] \in Connection
BY SocketClientAssumption DEF SocketShape, Connection, None

\* A stream is given up.
LEMMA StopStreamDoes ==
    ASSUME SocketShape, CallerShape, NEW r \in Request, StopStream(r)
    PROVE  /\ phase[r] = "streaming" /\ conn[r] \in Connection
           /\ phase' = [phase EXCEPT ![r] = "stopped"]
           /\ UNCHANGED <<library, pool, next, lock, made, socket, wire, reader, writer, serving>>
           /\ UNCHANGED <<slot, conn, attempt, items, taken, sent, asked, late, drops>>
           /\ \/ pending' = pending
              \/ pending' = [pending EXCEPT ![conn[r]] = pending[conn[r]] \ {r}]
           /\ \/ /\ library = "rust"
                 /\ queue' = [queue EXCEPT ![conn[r]] =
                                         Append(queue[conn[r]], [type |-> "stop", id |-> r])]
              \/ queue' = queue /\ (library # "rust" \/ writer[conn[r]] # "running")
<1>1. /\ phase[r] = "streaming"
      /\ phase' = [phase EXCEPT ![r] = "stopped"]
      /\ UNCHANGED <<library, pool, next, lock, made, socket, wire, reader, writer, serving>>
      /\ UNCHANGED <<slot, conn, attempt, items, taken, sent, asked, late, drops>>
  BY Zenon DEF StopStream, Move, poolVars, streamVars, historyVars
<1>2. conn[r] \in Connection
  BY <1>1, HeldIsConnection DEF CallerShape, CallerOf
<1>3. \/ pending' = pending
      \/ pending' = [pending EXCEPT ![conn[r]] = pending[conn[r]] \ {r}]
  BY Zenon DEF StopStream
<1>4. CASE library = "rust" /\ writer[conn[r]] = "running"
  BY <1>1, <1>2, <1>3, <1>4, Zenon DEF StopStream, Enqueue
<1>5. CASE ~(library = "rust" /\ writer[conn[r]] = "running")
  BY <1>1, <1>2, <1>3, <1>5, Zenon DEF StopStream
<1>6. QED
  BY <1>4, <1>5, Zenon

\* A stream yields its next item.
LEMMA YieldItemDoes ==
    ASSUME SocketShape, NEW r \in Request, YieldItem(r)
    PROVE  /\ phase[r] = "streaming" /\ taken[r] < Len(items[r])
           /\ taken' = [taken EXCEPT ![r] = taken[r] + 1]
           /\ UNCHANGED <<library, pool, next, lock, made, socket, wire, queue, reader, writer>>
           /\ UNCHANGED <<pending, serving, slot, conn, attempt, items, sent, asked, late, drops>>
           /\ \/ /\ IsReason(items[r][taken[r] + 1])
                 /\ phase' = [phase EXCEPT ![r] = "ended"]
              \/ phase' = phase
<1>1. /\ phase[r] = "streaming" /\ taken[r] < Len(items[r])
      /\ taken' = [taken EXCEPT ![r] = taken[r] + 1]
      /\ UNCHANGED <<library, pool, next, lock, made, socket, wire, queue, reader, writer>>
      /\ UNCHANGED <<pending, serving, slot, conn, attempt, items, sent, asked, late, drops>>
  BY Zenon DEF YieldItem, poolVars, connectionVars, historyVars
<1>2. \/ /\ IsReason(items[r][taken[r] + 1])
         /\ phase' = [phase EXCEPT ![r] = "ended"]
      \/ phase' = phase
  BY Zenon DEF YieldItem, Move, IsReason, Errors
<1>3. QED
  BY <1>1, <1>2, Zenon

\* A write that is refused is tried again, or it was the second.
LEMMA WriteRefusedDoes ==
    ASSUME SocketShape, CallerShape, NEW r \in Request, WriteRefused(r)
    PROVE  /\ phase[r] = "write" /\ conn[r] \in Connection
           /\ pending' = [pending EXCEPT ![conn[r]] = pending[conn[r]] \ {r}]
           /\ UNCHANGED <<library, pool, next, lock, made, socket, wire, queue, reader, writer>>
           /\ UNCHANGED <<serving, slot, conn, items, taken, sent, asked, late, drops>>
           /\ \/ /\ phase' = [phase EXCEPT ![r] = "check"]
                 /\ attempt' = [attempt EXCEPT ![r] = 2]
              \/ phase' = [phase EXCEPT ![r] = "failed"] /\ attempt' = attempt
<1>1. /\ phase[r] = "write"
      /\ pending' = [pending EXCEPT ![conn[r]] = pending[conn[r]] \ {r}]
      /\ UNCHANGED <<library, pool, next, lock, made, socket, wire, queue, reader, writer>>
      /\ UNCHANGED <<serving, slot, conn, items, taken, sent, asked, late, drops>>
  BY Zenon DEF WriteRefused, poolVars, streamVars, historyVars
<1>2. conn[r] \in Connection
  BY <1>1, HeldIsConnection DEF CallerShape, CallerOf
<1>3. \/ /\ phase' = [phase EXCEPT ![r] = "check"]
         /\ attempt' = [attempt EXCEPT ![r] = 2]
      \/ phase' = [phase EXCEPT ![r] = "failed"] /\ attempt' = attempt
  BY Zenon DEF WriteRefused, Move
<1>4. QED
  BY <1>1, <1>2, <1>3, Zenon

\* A request is registered on the connection of its slot.
LEMMA RegisterDoes ==
    ASSUME SocketShape, CallerShape, NEW r \in Request, Register(r)
    PROVE  \E c \in Connection :
              /\ phase[r] = "get" /\ c \in 0 .. made
              /\ conn' = [conn EXCEPT ![r] = c]
              /\ pending' = [pending EXCEPT ![c] = pending[c] \cup {r}]
              /\ late' = [late EXCEPT ![r] = reader[c] # "running"]
              /\ items' = [items EXCEPT ![r] = <<>>]
              /\ phase' = [phase EXCEPT ![r] = "write"]
              /\ UNCHANGED <<library, pool, next, lock, made, socket, wire, queue, reader, writer>>
              /\ UNCHANGED <<serving, slot, attempt, taken, sent, asked, drops>>
<1> DEFINE c == pool[slot[r]]
<1>1. phase[r] = "get"
  BY Zenon DEF Register
<1>2. c \in Connection /\ c \in 0 .. made
  BY <1>1, HeldIsConnection DEF CallerShape, CallerOf
<1>3. /\ conn' = [conn EXCEPT ![r] = c]
      /\ pending' = [pending EXCEPT ![c] = pending[c] \cup {r}]
      /\ late' = [late EXCEPT ![r] = reader[c] # "running"]
      /\ items' = [items EXCEPT ![r] = <<>>]
      /\ phase' = [phase EXCEPT ![r] = "write"]
      /\ UNCHANGED <<library, pool, next, lock, made, socket, wire, queue, reader, writer>>
      /\ UNCHANGED <<serving, slot, attempt, taken, sent, asked, drops>>
  BY Zenon DEF Register, Move, poolVars
<1>4. QED
  BY <1>1, <1>2, <1>3, Zenon

\* A request is sent on a connection that is new, or that the client was given.
LEMMA SendDoes ==
    ASSUME SocketShape, CallerShape, NEW r \in Request, ConnectLocked(r) \/ ContinueConversation(r)
    PROVE  \E c \in Connection :
              /\ library # "rust" /\ phase[r] \in {"idle", "connect"}
              /\ pending' = [pending EXCEPT ![c] = pending[c] \cup {r}]
              /\ queue' = [queue EXCEPT ![c] = Append(queue[c], [type |-> "request", id |-> r])]
              /\ conn' = [conn EXCEPT ![r] = c]
              /\ phase' = [phase EXCEPT ![r] = "streaming"]
              /\ UNCHANGED <<library, next, socket, wire, reader, writer, serving>>
              /\ UNCHANGED <<slot, attempt, items, taken, sent, asked, late, drops>>
              /\ \/ /\ made < MaxConnections /\ made' = made + 1 /\ c = made + 1
                    /\ library = "python" /\ phase[r] = "connect"
                    /\ pool' = [pool EXCEPT ![slot[r]] = made + 1]
                    /\ lock' = None
                 \/ /\ library = "javascript" /\ phase[r] = "idle" /\ c = 1
                    /\ UNCHANGED <<pool, lock, made>>
<1>1. CASE ConnectLocked(r)
  <2>1. made < MaxConnections
    BY <1>1 DEF ConnectLocked
  <2>2. made + 1 \in Connection
    BY <2>1, NewConnection
  <2>3. SendOn(made + 1, r)
    BY <1>1 DEF ConnectLocked
  <2>4. library = "python" /\ phase[r] = "connect" /\ library # "rust"
    BY <1>1 DEF ConnectLocked
  <2>5. phase[r] \in {"idle", "connect"}
    BY <2>4
  <2>6. /\ made' = made + 1 /\ pool' = [pool EXCEPT ![slot[r]] = made + 1] /\ lock' = None
        /\ phase' = [phase EXCEPT ![r] = "streaming"]
        /\ UNCHANGED <<library, next, socket, wire, reader, writer, serving>>
        /\ UNCHANGED <<slot, attempt, items, taken, sent, asked, late, drops>>
    BY <1>1, Zenon DEF ConnectLocked, Move, streamVars, historyVars
  <2>7. QED
    BY <2>1, <2>2, <2>3, <2>4, <2>5, <2>6, Zenon DEF SendOn, Enqueue
<1>2. CASE ContinueConversation(r)
  <2>1. 1 \in Connection
    BY SocketClientAssumption DEF Connection
  <2>2. SendOn(1, r)
    BY <1>2 DEF ContinueConversation
  <2>4. library = "javascript" /\ phase[r] = "idle" /\ library # "rust"
    BY <1>2 DEF ContinueConversation
  <2>5. phase[r] \in {"idle", "connect"}
    BY <2>4
  <2>6. /\ phase' = [phase EXCEPT ![r] = "streaming"]
        /\ UNCHANGED <<library, next, socket, wire, reader, writer, serving>>
        /\ UNCHANGED <<slot, attempt, items, taken, sent, asked, late, drops>>
        /\ UNCHANGED <<pool, lock, made>>
    BY <1>2, Zenon DEF ContinueConversation, Move, poolVars, streamVars, historyVars
  <2>7. QED
    BY <2>1, <2>2, <2>4, <2>5, <2>6, Zenon DEF SendOn, Enqueue
<1>3. QED
  BY <1>1, <1>2

\* The reader has nothing more to read: those that are pending are told, and in
\* Python forgotten.
LEMMA ReadingEndsDoes ==
    ASSUME NEW c \in Connection, ReadEnds(c) \/ ReadLoopEnds(c)
    PROVE  /\ reader[c] = "running" /\ socket[c] = "closed"
           /\ items' = Told(pending[c], "dropped")
           /\ UNCHANGED <<library, pool, next, lock, made, socket, wire, queue, serving>>
           /\ UNCHANGED <<phase, slot, conn, attempt, taken, sent, asked, late, drops>>
           /\ \/ /\ library = "rust"
                 /\ reader' = [reader EXCEPT ![c] = "draining"]
                 /\ UNCHANGED <<writer, pending>>
              \/ /\ library = "python"
                 /\ reader' = [reader EXCEPT ![c] = "finished"]
                 /\ writer' = [writer EXCEPT ![c] = "finished"]
                 /\ pending' = [pending EXCEPT ![c] = {}]
<1>1. CASE ReadEnds(c)
  BY <1>1, Zenon DEF ReadEnds, Dropped, Told, poolVars, callerVars, historyVars
<1>2. CASE ReadLoopEnds(c)
  BY <1>2, Zenon DEF ReadLoopEnds, DrainPending, Dropped, Told, poolVars, callerVars, historyVars
<1>3. QED
  BY <1>1, <1>2

\* Closing the client.
LEMMA ClosePoolDoes ==
    ASSUME SocketShape, ClosePool
    PROVE  \E closed \in SUBSET Connection :
              /\ library = "python"
              /\ socket' = [c \in Connection |-> IF c \in closed THEN "closed" ELSE socket[c]]
              /\ reader' = [c \in Connection |-> IF c \in closed THEN "finished" ELSE reader[c]]
              /\ writer' = [c \in Connection |-> IF c \in closed THEN "finished" ELSE writer[c]]
              /\ serving' = [c \in Connection |-> IF c \in closed THEN {} ELSE serving[c]]
              /\ pending' = [c \in Connection |-> IF c \in closed THEN {} ELSE pending[c]]
              /\ items' = Told({q \in Request : \E c \in closed : q \in pending[c]}, "dropped")
              /\ pool' = [i \in Slot |-> None]
              /\ UNCHANGED <<library, next, lock, made, wire, queue>>
              /\ UNCHANGED <<phase, slot, conn, attempt, taken, sent, asked, late, drops>>
<1> DEFINE closed == {pool[i] : i \in Slot} \ {None}
<1>1. closed \in SUBSET Connection
  <2>1. \A i \in Slot : pool[i] \in 0 .. made
    BY DEF SocketShape
  <2>2. \A c \in 0 .. made : c # None => c \in Connection
    BY SocketClientAssumption DEF SocketShape, Connection, None
  <2>3. QED
    BY <2>1, <2>2
<1>2. /\ library = "python"
      /\ socket' = [c \in Connection |-> IF c \in closed THEN "closed" ELSE socket[c]]
      /\ reader' = [c \in Connection |-> IF c \in closed THEN "finished" ELSE reader[c]]
      /\ writer' = [c \in Connection |-> IF c \in closed THEN "finished" ELSE writer[c]]
      /\ serving' = [c \in Connection |-> IF c \in closed THEN {} ELSE serving[c]]
      /\ pending' = [c \in Connection |-> IF c \in closed THEN {} ELSE pending[c]]
      /\ items' = [r \in Request |-> IF \E c \in closed : r \in pending[c]
                                     THEN Append(items[r], [to |-> r, kind |-> "dropped"])
                                     ELSE items[r]]
      /\ pool' = [i \in Slot |-> None]
      /\ UNCHANGED <<library, next, lock, made, wire, queue>>
      /\ UNCHANGED <<phase, slot, conn, attempt, taken, sent, asked, late, drops>>
  BY Zenon DEF ClosePool, callerVars, historyVars
<1>3. items' = Told({q \in Request : \E c \in closed : q \in pending[c]}, "dropped")
  BY <1>2 DEF Told
<1> HIDE DEF closed
<1>4. QED
  BY <1>1, <1>2, <1>3, Zenon

\* A step keeps the types.
LEMMA ShapeKept ==
    ASSUME SocketInv, [SocketNext]_socketClientVars
    PROVE  SocketShape'
<1> USE SocketClientAssumption
<1>0. SocketShape /\ CallerShape
  BY Zenon DEF SocketInv
<1>1. ASSUME NEW c \in Connection, ReadFrame(c) PROVE SocketShape'
  <2>1. /\ wire' = [wire EXCEPT ![c] = Tail(wire[c])]
        /\ UNCHANGED <<library, pool, next, lock, made, socket, queue, reader, writer, serving>>
        /\ UNCHANGED <<phase, slot, conn, attempt, taken, sent, asked, late, drops>>
    BY <1>1, <1>0, ReadFrameDoes, Zenon
  <2>2. wire[c] \in Seq(Frame) /\ Len(wire[c]) > 0
    BY <1>1, <1>0, ReadFrameDoes DEF SocketShape
  <2>3. wire' \in [Connection -> Seq(Frame)]
    <3>1. Tail(wire[c]) \in Seq(Frame)
      BY <2>2
    <3>2. QED
      BY <1>0, <2>1, <3>1, PutIn, Zenon DEF SocketShape
  <2>4. pending[c] \in SUBSET Request
    BY <1>0 DEF SocketShape
  <2>5. items' \in [Request -> Seq(Item)] /\ pending' \in [Connection -> SUBSET Request]
    <3>1. CASE \E spoiled \in SUBSET pending[c] :
                  /\ items' = Told(spoiled, "unparsable")
                  /\ pending' = [pending EXCEPT ![c] = pending[c] \ spoiled]
      <4>1. PICK spoiled \in SUBSET pending[c] :
                  /\ items' = Told(spoiled, "unparsable")
                  /\ pending' = [pending EXCEPT ![c] = pending[c] \ spoiled]
        BY <3>1
      <4>2. spoiled \in SUBSET Request /\ "unparsable" \in Errors
        BY <2>4 DEF Errors
      <4>3. items' \in [Request -> Seq(Item)]
        BY <1>0, <4>1, <4>2, ToldIs
      <4>4. pending[c] \ spoiled \in SUBSET Request
        BY <2>4
      <4>5. QED
        BY <1>0, <4>1, <4>3, <4>4, PutIn, Zenon DEF SocketShape
    <3>2. CASE /\ wire[c][1].to \in pending[c]
               /\ items' = [items EXCEPT ![wire[c][1].to] =
                                             Append(items[wire[c][1].to], wire[c][1])]
               /\ \/ pending' = [pending EXCEPT ![c] = pending[c] \ {wire[c][1].to}]
                  \/ pending' = pending
      <4>1. wire[c][1] \in Frame /\ wire[c][1].to \in Request
        BY <1>1, <1>0, ReadFrameDoes, Zenon
      <4>2. wire[c][1] \in Item
        BY <4>1 DEF Frame, Item
      <4>3. items[wire[c][1].to] \in Seq(Item)
        BY <1>0, <4>1 DEF SocketShape
      <4>4. Append(items[wire[c][1].to], wire[c][1]) \in Seq(Item)
        BY <4>2, <4>3
      <4>5. items' \in [Request -> Seq(Item)]
        BY <1>0, <3>2, <4>4, PutIn, Zenon DEF SocketShape
      <4>6. pending[c] \ {wire[c][1].to} \in SUBSET Request
        BY <2>4
      <4>7. pending' \in [Connection -> SUBSET Request]
        <5>1. [pending EXCEPT ![c] = pending[c] \ {wire[c][1].to}] \in [Connection -> SUBSET Request]
          BY <1>0, <4>6, PutIn, Zenon DEF SocketShape
        <5>2. QED
          BY <1>0, <3>2, <5>1, Zenon DEF SocketShape
      <4>8. QED
        BY <4>5, <4>7
    <3>3. QED
      BY <1>1, <1>0, <3>1, <3>2, ReadFrameDoes, Zenon
  <2>6. QED
    BY <1>0, <2>1, <2>3, <2>5, Zenon DEF SocketShape
<1>2. ASSUME NEW c \in Connection, ReadEnds(c) PROVE SocketShape'
  <2>5. /\ items' = Told(pending[c], "dropped")
        /\ UNCHANGED <<library, pool, next, lock, made, socket, wire, queue, serving>>
        /\ UNCHANGED <<phase, slot, conn, attempt, taken, sent, asked, late, drops>>
        /\ \/ /\ library = "rust"
              /\ reader' = [reader EXCEPT ![c] = "draining"]
              /\ UNCHANGED <<writer, pending>>
           \/ /\ library = "python"
              /\ reader' = [reader EXCEPT ![c] = "finished"]
              /\ writer' = [writer EXCEPT ![c] = "finished"]
              /\ pending' = [pending EXCEPT ![c] = {}]
    BY <1>2, ReadingEndsDoes, Zenon
  <2>1. pending[c] \in SUBSET Request /\ "dropped" \in Errors
    BY <1>0 DEF SocketShape, Errors
  <2>2. items' \in [Request -> Seq(Item)]
    BY <1>0, <2>1, <2>5, ToldIs
  <2>3. reader' \in [Connection -> {"running", "draining", "finished"}]
    BY <1>0, <2>5 DEF SocketShape
  <2>4. writer' \in [Connection -> {"running", "finished"}]
    BY <1>0, <2>5 DEF SocketShape
  <2>6. pending' \in [Connection -> SUBSET Request]
    BY <1>0, <2>5 DEF SocketShape
  <2>7. QED
    BY <1>0, <2>2, <2>3, <2>4, <2>5, <2>6, Zenon DEF SocketShape
<1>3. ASSUME NEW c \in Connection, ClearPending(c) PROVE SocketShape'
  <2>1. reader' \in [Connection -> {"running", "draining", "finished"}]
    BY <1>3, <1>0 DEF ClearPending, SocketShape, Connection, Slot
  <2>2. pending' \in [Connection -> SUBSET Request]
    BY <1>3, <1>0 DEF ClearPending, SocketShape, Connection, Slot
  <2>3. UNCHANGED <<library, pool, next, lock, made, socket, wire, queue, writer, serving, phase,
        slot, conn, attempt, items, taken, sent, asked, late, drops>>
    BY <1>3, Zenon DEF ClearPending, poolVars, connectionVars, callerVars, streamVars, historyVars
  <2>4. QED
    BY <1>0, <2>1, <2>2, <2>3, Zenon DEF SocketShape
<1>4. ASSUME NEW c \in Connection, ReadLoopEnds(c) PROVE SocketShape'
  <2>5. /\ items' = Told(pending[c], "dropped")
        /\ UNCHANGED <<library, pool, next, lock, made, socket, wire, queue, serving>>
        /\ UNCHANGED <<phase, slot, conn, attempt, taken, sent, asked, late, drops>>
        /\ \/ /\ library = "rust"
              /\ reader' = [reader EXCEPT ![c] = "draining"]
              /\ UNCHANGED <<writer, pending>>
           \/ /\ library = "python"
              /\ reader' = [reader EXCEPT ![c] = "finished"]
              /\ writer' = [writer EXCEPT ![c] = "finished"]
              /\ pending' = [pending EXCEPT ![c] = {}]
    BY <1>4, ReadingEndsDoes, Zenon
  <2>1. pending[c] \in SUBSET Request /\ "dropped" \in Errors
    BY <1>0 DEF SocketShape, Errors
  <2>2. items' \in [Request -> Seq(Item)]
    BY <1>0, <2>1, <2>5, ToldIs
  <2>3. reader' \in [Connection -> {"running", "draining", "finished"}]
    BY <1>0, <2>5 DEF SocketShape
  <2>4. writer' \in [Connection -> {"running", "finished"}]
    BY <1>0, <2>5 DEF SocketShape
  <2>6. pending' \in [Connection -> SUBSET Request]
    BY <1>0, <2>5 DEF SocketShape
  <2>7. QED
    BY <1>0, <2>2, <2>3, <2>4, <2>5, <2>6, Zenon DEF SocketShape
<1>5. ASSUME NEW c \in Connection, WriteMessage(c) PROVE SocketShape'
  <2>1. /\ Len(queue[c]) > 0
        /\ queue[c][1] \in Message /\ queue[c][1].id \in Request
        /\ queue' = [queue EXCEPT ![c] = Tail(queue[c])]
        /\ UNCHANGED <<library, pool, next, lock, made, socket, wire, reader, writer, pending>>
        /\ UNCHANGED <<phase, slot, conn, attempt, items, taken, sent, late, drops>>
        /\ \/ /\ queue[c][1].type = "request"
              /\ serving' = [serving EXCEPT ![c] = serving[c] \cup {queue[c][1].id}]
              /\ asked' = [asked EXCEPT ![queue[c][1].id] = asked[queue[c][1].id] + 1]
           \/ /\ queue[c][1].type = "stop"
              /\ serving' = [serving EXCEPT ![c] = serving[c] \ {queue[c][1].id}]
              /\ asked' = asked
    BY <1>5, <1>0, WriteMessageDoes, Zenon
  <2>2. queue[c] \in Seq(Message)
    BY <1>0 DEF SocketShape
  <2>3. Tail(queue[c]) \in Seq(Message) /\ 1 \in 1 .. Len(queue[c])
    BY <2>1, <2>2
  <2>4. queue' \in [Connection -> Seq(Message)]
    BY <1>0, <2>1, <2>3, PutIn, Zenon DEF SocketShape
  <2>5. serving' \in [Connection -> SUBSET Request]
    <3>1. /\ serving[c] \cup {queue[c][1].id} \in SUBSET Request
          /\ serving[c] \ {queue[c][1].id} \in SUBSET Request
      BY <1>0, <2>1 DEF SocketShape
    <3>2. /\ [serving EXCEPT ![c] = serving[c] \cup {queue[c][1].id}] \in [Connection -> SUBSET Request]
          /\ [serving EXCEPT ![c] = serving[c] \ {queue[c][1].id}] \in [Connection -> SUBSET Request]
      BY <1>0, <3>1, PutIn, Zenon DEF SocketShape
    <3>3. QED
      BY <2>1, <3>2, Zenon
  <2>6. asked' \in [Request -> 0 .. 1]
    <3>1. CASE asked' = asked
      BY <1>0, <3>1 DEF SocketShape
    <3>2. CASE /\ queue[c][1].type = "request"
               /\ asked' = [asked EXCEPT ![queue[c][1].id] = asked[queue[c][1].id] + 1]
      <4>1. asked[queue[c][1].id] = 0
        BY <2>3, <3>2, Zenon DEF SocketInv, RequestIsSingle, MessageIsSingle
      <4>2. asked[queue[c][1].id] + 1 \in 0 .. 1
        BY <4>1
      <4>3. QED
        BY <1>0, <3>2, <4>2, PutIn, Zenon DEF SocketShape
    <3>3. QED
      BY <2>1, <3>1, <3>2, Zenon
  <2>7. QED
    BY <1>0, <2>1, <2>4, <2>5, <2>6, Zenon DEF SocketShape
<1>6. ASSUME NEW c \in Connection, WriteFails(c) PROVE SocketShape'
  <2>5. /\ Len(queue[c]) > 0
        /\ queue' = [queue EXCEPT ![c] = Tail(queue[c])]
        /\ UNCHANGED <<library, pool, next, lock, made, socket, wire, serving>>
        /\ UNCHANGED <<phase, slot, conn, attempt, taken, sent, asked, late, drops>>
    BY <1>6, <1>0, WriteFailsDoes, Zenon
  <2>6. \/ /\ writer' = [writer EXCEPT ![c] = "finished"]
           /\ UNCHANGED <<reader, pending, items>>
        \/ /\ reader' = [reader EXCEPT ![c] = "finished"]
           /\ writer' = [writer EXCEPT ![c] = "finished"]
           /\ pending' = [pending EXCEPT ![c] = {}]
           /\ items' = Told(pending[c], "dropped")
        \/ UNCHANGED <<reader, writer, pending, items>>
    BY <1>6, <1>0, WriteFailsDoes, Zenon
  <2>1. pending[c] \in SUBSET Request /\ "dropped" \in Errors
    BY <1>0 DEF SocketShape, Errors
  <2>2. items' \in [Request -> Seq(Item)]
    <3>1. items \in [Request -> Seq(Item)] /\ Told(pending[c], "dropped") \in [Request -> Seq(Item)]
      BY <1>0, <2>1, ToldIs DEF SocketShape
    <3>2. QED
      BY <2>6, <3>1, Zenon
  <2>3. reader' \in [Connection -> {"running", "draining", "finished"}]
    BY <1>0, <2>6 DEF SocketShape
  <2>4. writer' \in [Connection -> {"running", "finished"}]
    BY <1>0, <2>6 DEF SocketShape
  <2>7. pending' \in [Connection -> SUBSET Request]
    BY <1>0, <2>6 DEF SocketShape
  <2>8. queue' \in [Connection -> Seq(Message)]
    <3>1. queue[c] \in Seq(Message)
      BY <1>0 DEF SocketShape
    <3>2. Tail(queue[c]) \in Seq(Message)
      BY <2>5, <3>1
    <3>3. QED
      BY <1>0, <2>5, <3>2, PutIn, Zenon DEF SocketShape
  <2>9. QED
    BY <1>0, <2>2, <2>3, <2>4, <2>5, <2>7, <2>8, Zenon DEF SocketShape
<1>7. ASSUME NEW c \in Connection, SocketDrops(c) PROVE SocketShape'
  <2>1. wire' \in [Connection -> Seq(Frame)]
    <3>1. PICK n \in 0 .. Len(wire[c]) : wire' = [wire EXCEPT ![c] = SubSeq(wire[c], 1, n)]
      BY <1>7, Zenon DEF SocketDrops
    <3>2. wire[c] \in Seq(Frame)
      BY <1>0 DEF SocketShape
    <3>3. SubSeq(wire[c], 1, n) \in Seq(Frame)
      BY <3>2
    <3>4. QED
      BY <1>0, <3>1, <3>3, PutIn, Zenon DEF SocketShape
  <2>2. socket' \in [Connection -> {"open", "closed"}]
    BY <1>7, <1>0 DEF SocketDrops, SocketShape, Connection, Slot
  <2>3. serving' \in [Connection -> SUBSET Request]
    BY <1>7, <1>0 DEF SocketDrops, SocketShape, Connection, Slot
  <2>4. drops' \in Nat
    BY <1>7, <1>0 DEF SocketDrops, SocketShape, Connection, Slot
  <2>5. UNCHANGED <<library, pool, next, lock, made, queue, reader, writer, pending, phase, slot,
        conn, attempt, items, taken, sent, asked, late>>
    BY <1>7, Zenon DEF SocketDrops, poolVars, connectionVars, callerVars, streamVars, historyVars
  <2>6. QED
    BY <1>0, <2>1, <2>2, <2>3, <2>4, <2>5, Zenon DEF SocketShape
<1>8. ASSUME NEW c \in Connection, NEW r \in Request, NEW kind \in Kind, Answer(c, r, kind)
      PROVE  SocketShape'
  <2>1. sent' \in [Request -> Seq(Frame)]
    <3>1. [to |-> r, kind |-> kind] \in Frame
      BY DEF Frame
    <3>2. Append(sent[r], [to |-> r, kind |-> kind]) \in Seq(Frame)
      BY <1>0, <3>1 DEF SocketShape
    <3>3. sent' = [sent EXCEPT ![r] = Append(sent[r], [to |-> r, kind |-> kind])]
      BY <1>8, Zenon DEF Answer
    <3>4. QED
      BY <1>0, <3>2, <3>3, PutIn, Zenon DEF SocketShape
  <2>2. wire' \in [Connection -> Seq(Frame)]
    <3>1. [to |-> r, kind |-> kind] \in Frame
      BY DEF Frame
    <3>2. Append(wire[c], [to |-> r, kind |-> kind]) \in Seq(Frame)
      BY <1>0, <3>1 DEF SocketShape
    <3>3. wire' = [wire EXCEPT ![c] = Append(wire[c], [to |-> r, kind |-> kind])]
      BY <1>8, Zenon DEF Answer
    <3>4. QED
      BY <1>0, <3>2, <3>3, PutIn, Zenon DEF SocketShape
  <2>3. serving' \in [Connection -> SUBSET Request]
    BY <1>8, <1>0 DEF Answer, SocketShape, Connection, Slot
  <2>4. UNCHANGED <<library, pool, next, lock, made, socket, queue, reader, writer, pending,
        phase, slot, conn, attempt, items, taken, asked, late, drops>>
    BY <1>8, Zenon DEF Answer, poolVars, connectionVars, callerVars, streamVars, historyVars
  <2>5. QED
    BY <1>0, <2>1, <2>2, <2>3, <2>4, Zenon DEF SocketShape
<1>9. ASSUME NEW r \in Request, SendRequest(r) PROVE SocketShape'
  <2>1. slot' \in [Request -> Slot]
    <3>1. next % PoolSize \in Slot
      BY <1>0, TurnIsSlot DEF SocketShape
    <3>2. slot' = [slot EXCEPT ![r] = next % PoolSize]
      BY <1>9, Zenon DEF SendRequest
    <3>3. QED
      BY <1>0, <3>1, <3>2, PutIn, Zenon DEF SocketShape
  <2>2. next' \in Nat
    BY <1>9, <1>0 DEF SendRequest, Move, SocketShape, Connection, Slot
  <2>3. phase' \in [Request -> Phase]
    BY <1>9, <1>0 DEF SendRequest, Move, SocketShape, Phase, Over, Before
  <2>4. UNCHANGED <<library, pool, lock, made, socket, wire, queue, reader, writer, pending,
        serving, conn, attempt, items, taken, sent, asked, late, drops>>
    BY <1>9, Zenon DEF SendRequest, Move, poolVars, connectionVars, callerVars, streamVars,
        historyVars
  <2>5. QED
    BY <1>0, <2>1, <2>2, <2>3, <2>4, Zenon DEF SocketShape
<1>10. ASSUME NEW r \in Request, CheckConnection(r) PROVE SocketShape'
  <2>1. phase' \in [Request -> Phase]
    BY <1>10, <1>0 DEF CheckConnection, Move, SocketShape, Phase, Over, Before
  <2>2. UNCHANGED <<library, pool, next, lock, made, socket, wire, queue, reader, writer,
        pending, serving, slot, conn, attempt, items, taken, sent, asked, late, drops>>
    BY <1>10, Zenon DEF CheckConnection, Move, poolVars, connectionVars, callerVars, streamVars,
        historyVars
  <2>3. QED
    BY <1>0, <2>1, <2>2, Zenon DEF SocketShape
<1>11. ASSUME NEW r \in Request, Connect(r) PROVE SocketShape'
  <2>1. made' \in 0 .. MaxConnections
    BY <1>11, <1>0 DEF Connect, Move, SocketShape, Connection, Slot
  <2>2. pool' \in [Slot -> 0 .. made']
    <3>1. made \in Nat /\ pool \in [Slot -> 0 .. made]
      BY <1>0 DEF SocketShape
    <3>2. made' = made + 1 /\ pool' = [pool EXCEPT ![slot[r]] = made + 1]
      BY <1>11 DEF Connect, ConnectLocked
    <3>3. pool \in [Slot -> 0 .. made'] /\ made + 1 \in 0 .. made'
      BY <3>1, <3>2
    <3>4. QED
      BY <3>2, <3>3, PutIn
  <2>3. phase' \in [Request -> Phase]
    BY <1>11, <1>0 DEF Connect, Move, SocketShape, Phase, Over, Before
  <2>4. conn' \in [Request -> 0 .. made']
    <3>1. made \in Nat /\ conn \in [Request -> 0 .. made]
      BY <1>0 DEF SocketShape
    <3>2. made' = made + 1 /\ UNCHANGED conn
      BY <1>11 DEF Connect, Move
    <3>3. QED
      BY <3>1, <3>2
  <2>5. UNCHANGED <<library, next, lock, socket, wire, queue, reader, writer, pending, serving,
        slot, attempt, items, taken, sent, asked, late, drops>>
    BY <1>11, Zenon DEF Connect, Move, poolVars, connectionVars, callerVars, streamVars, historyVars
  <2>6. QED
    BY <1>0, <2>1, <2>2, <2>3, <2>4, <2>5, Zenon DEF SocketShape
<1>12. ASSUME NEW r \in Request, Register(r) PROVE SocketShape'
  <2>1. conn' \in [Request -> 0 .. made]
    BY <1>12, <1>0 DEF Register, Move, SocketShape, Connection, Slot
  <2>2. pending' \in [Connection -> SUBSET Request]
    BY <1>12, <1>0 DEF Register, Move, SocketShape, Connection, Slot
  <2>3. late' \in [Request -> BOOLEAN]
    BY <1>12, <1>0 DEF Register, Move, SocketShape, Connection, Slot
  <2>4. items' \in [Request -> Seq(Item)]
    <3>1. <<>> \in Seq(Item)
      OBVIOUS
    <3>2. items' = [items EXCEPT ![r] = <<>>]
      BY <1>12, Zenon DEF Register
    <3>3. QED
      BY <1>0, <3>1, <3>2, PutIn, Zenon DEF SocketShape
  <2>5. phase' \in [Request -> Phase]
    BY <1>12, <1>0 DEF Register, Move, SocketShape, Phase, Over, Before
  <2>6. UNCHANGED <<library, pool, next, lock, made, socket, wire, queue, reader, writer,
        serving, slot, attempt, taken, sent, asked, drops>>
    BY <1>12, Zenon DEF Register, Move, poolVars, connectionVars, callerVars, streamVars, historyVars
  <2>7. QED
    BY <1>0, <2>1, <2>2, <2>3, <2>4, <2>5, <2>6, Zenon DEF SocketShape
<1>13. ASSUME NEW r \in Request, Write(r) PROVE SocketShape'
  <2>1. queue' \in [Connection -> Seq(Message)]
    <3>1. queue' = [queue EXCEPT ![conn[r]] = Append(queue[conn[r]], [type |-> "request", id |-> r])]
      BY <1>13, Zenon DEF Write, Enqueue
    <3>2. conn[r] \in Connection
      BY <1>13, <1>0, HeldIsConnection DEF Write, CallerShape, CallerOf
    <3>3. [type |-> "request", id |-> r] \in Message
      BY DEF Message
    <3>4. Append(queue[conn[r]], [type |-> "request", id |-> r]) \in Seq(Message)
      BY <1>0, <3>2, <3>3 DEF SocketShape
    <3>5. QED
      BY <1>0, <3>1, <3>4, PutIn, Zenon DEF SocketShape
  <2>2. phase' \in [Request -> Phase]
    BY <1>13, <1>0 DEF Write, Move, Enqueue, SocketShape, Phase, Over, Before
  <2>3. UNCHANGED <<library, pool, next, lock, made, socket, wire, reader, writer, pending,
        serving, slot, conn, attempt, items, taken, sent, asked, late, drops>>
    BY <1>13, Zenon DEF Write, Move, Enqueue, poolVars, connectionVars, callerVars, streamVars,
        historyVars
  <2>4. QED
    BY <1>0, <2>1, <2>2, <2>3, Zenon DEF SocketShape
<1>14. ASSUME NEW r \in Request, WriteRefused(r) PROVE SocketShape'
  <2>1. /\ conn[r] \in Connection
        /\ pending' = [pending EXCEPT ![conn[r]] = pending[conn[r]] \ {r}]
        /\ UNCHANGED <<library, pool, next, lock, made, socket, wire, queue, reader, writer>>
        /\ UNCHANGED <<serving, slot, conn, items, taken, sent, asked, late, drops>>
        /\ \/ /\ phase' = [phase EXCEPT ![r] = "check"]
              /\ attempt' = [attempt EXCEPT ![r] = 2]
           \/ phase' = [phase EXCEPT ![r] = "failed"] /\ attempt' = attempt
    BY <1>14, <1>0, WriteRefusedDoes, Zenon
  <2>2. pending' \in [Connection -> SUBSET Request]
    BY <1>0, <2>1 DEF SocketShape
  <2>3. phase' \in [Request -> Phase] /\ attempt' \in [Request -> 1 .. 2]
    <3>1. "check" \in Phase /\ "failed" \in Phase /\ 2 \in 1 .. 2
      BY DEF Phase, Before, Over
    <3>2. /\ [phase EXCEPT ![r] = "check"] \in [Request -> Phase]
          /\ [phase EXCEPT ![r] = "failed"] \in [Request -> Phase]
          /\ [attempt EXCEPT ![r] = 2] \in [Request -> 1 .. 2]
      BY <1>0, <3>1, PutIn, Zenon DEF SocketShape
    <3>3. QED
      BY <1>0, <2>1, <3>2, Zenon DEF SocketShape
  <2>4. QED
    BY <1>0, <2>1, <2>2, <2>3, Zenon DEF SocketShape
<1>15. ASSUME NEW r \in Request, CancelRequest(r) PROVE SocketShape'
  <2>1. phase' \in [Request -> Phase]
    BY <1>15, <1>0 DEF CancelRequest, Move, SocketShape, Phase, Over, Before
  <2>2. UNCHANGED <<library, pool, next, lock, made, socket, wire, queue, reader, writer,
        pending, serving, slot, conn, attempt, items, taken, sent, asked, late, drops>>
    BY <1>15, Zenon DEF CancelRequest, Move, poolVars, connectionVars, callerVars, streamVars,
        historyVars
  <2>3. QED
    BY <1>0, <2>1, <2>2, Zenon DEF SocketShape
<1>16. ASSUME NEW r \in Request, LockPool(r) PROVE SocketShape'
  <2>1. /\ slot' = [slot EXCEPT ![r] = next % PoolSize]
        /\ next' = next + 1
        /\ UNCHANGED <<library, pool, made, socket, wire, reader, writer, serving>>
        /\ UNCHANGED <<attempt, items, taken, sent, asked, late, drops>>
    BY <1>16, <1>0, LockPoolDoes, Zenon
  <2>2. slot' \in [Request -> Slot] /\ next' \in Nat
    <3>1. next \in Nat
      BY <1>0, Zenon DEF SocketShape
    <3>2. next % PoolSize \in Slot
      BY <3>1, TurnIsSlot, Zenon
    <3>3. next + 1 \in Nat
      BY <3>1
    <3>4. QED
      BY <1>0, <2>1, <3>2, <3>3, PutIn, Zenon DEF SocketShape
  <2>3. "streaming" \in Phase /\ "connect" \in Phase
    BY DEF Phase, Before
  <2>4. CASE \E c \in Connection :
                /\ c <= made
                /\ pending' = [pending EXCEPT ![c] = pending[c] \cup {r}]
                /\ queue' = [queue EXCEPT ![c] = Append(queue[c], [type |-> "request", id |-> r])]
                /\ conn' = [conn EXCEPT ![r] = c]
                /\ phase' = [phase EXCEPT ![r] = "streaming"]
                /\ lock' = lock
    <3>1. PICK c \in Connection :
                /\ c <= made
                /\ pending' = [pending EXCEPT ![c] = pending[c] \cup {r}]
                /\ queue' = [queue EXCEPT ![c] = Append(queue[c], [type |-> "request", id |-> r])]
                /\ conn' = [conn EXCEPT ![r] = c]
                /\ phase' = [phase EXCEPT ![r] = "streaming"]
                /\ lock' = lock
      BY <2>4
    <3>2. pending[c] \cup {r} \in SUBSET Request /\ c \in 0 .. made
      BY <1>0, <3>1 DEF SocketShape, Connection
    <3>3. [type |-> "request", id |-> r] \in Message
      BY DEF Message
    <3>4. Append(queue[c], [type |-> "request", id |-> r]) \in Seq(Message)
      BY <1>0, <3>3 DEF SocketShape
    <3>5. /\ pending' \in [Connection -> SUBSET Request] /\ queue' \in [Connection -> Seq(Message)]
          /\ conn' \in [Request -> 0 .. made] /\ phase' \in [Request -> Phase]
      BY <1>0, <2>3, <3>1, <3>2, <3>4, PutIn, Zenon DEF SocketShape
    <3>6. QED
      BY <1>0, <2>1, <2>2, <3>1, <3>5, Zenon DEF SocketShape
  <2>5. CASE /\ phase' = [phase EXCEPT ![r] = "connect"]
             /\ lock' = r
             /\ UNCHANGED <<pending, queue, conn>>
    <3>1. phase' \in [Request -> Phase] /\ lock' \in Request \cup {None}
      BY <1>0, <2>3, <2>5, PutIn, Zenon DEF SocketShape
    <3>2. QED
      BY <1>0, <2>1, <2>2, <2>5, <3>1, Zenon DEF SocketShape
  <2>6. QED
    BY <1>16, <1>0, <2>4, <2>5, LockPoolDoes, Zenon
<1>17. ASSUME NEW r \in Request, ConnectLocked(r) PROVE SocketShape'
  <2>1. PICK c \in Connection :
              /\ pending' = [pending EXCEPT ![c] = pending[c] \cup {r}]
              /\ queue' = [queue EXCEPT ![c] = Append(queue[c], [type |-> "request", id |-> r])]
              /\ conn' = [conn EXCEPT ![r] = c]
              /\ phase' = [phase EXCEPT ![r] = "streaming"]
              /\ UNCHANGED <<library, next, socket, wire, reader, writer, serving>>
              /\ UNCHANGED <<slot, attempt, items, taken, sent, asked, late, drops>>
              /\ \/ /\ made < MaxConnections /\ made' = made + 1 /\ c = made + 1
                    /\ pool' = [pool EXCEPT ![slot[r]] = made + 1]
                    /\ lock' = None
                 \/ /\ library = "javascript" /\ c = 1
                    /\ UNCHANGED <<pool, lock, made>>
    BY <1>17, <1>0, SendDoes, Zenon
  <2>2. /\ pool' \in [Slot -> 0 .. made'] /\ made' \in 0 .. MaxConnections
        /\ lock' \in Request \cup {None}
        /\ conn \in [Request -> 0 .. made'] /\ c \in 0 .. made'
    <3>1. CASE /\ made < MaxConnections /\ made' = made + 1 /\ c = made + 1
               /\ pool' = [pool EXCEPT ![slot[r]] = made + 1]
               /\ lock' = None
      <4>1. made \in Nat /\ pool \in [Slot -> 0 .. made] /\ conn \in [Request -> 0 .. made]
        BY <1>0 DEF SocketShape
      <4>2. /\ pool \in [Slot -> 0 .. made'] /\ made + 1 \in 0 .. made'
            /\ conn \in [Request -> 0 .. made'] /\ c \in 0 .. made'
        BY <3>1, <4>1
      <4>3. made' \in 0 .. MaxConnections
        BY <1>0, <3>1, NewConnection
      <4>4. pool' \in [Slot -> 0 .. made']
        BY <3>1, <4>2, PutIn
      <4>5. QED
        BY <3>1, <4>2, <4>3, <4>4, Zenon
    <3>2. CASE library = "javascript" /\ c = 1 /\ UNCHANGED <<pool, lock, made>>
      <4>1. made = 1
        BY <1>0, <3>2, Zenon DEF CallerShape
      <4>2. c \in 0 .. made
        BY <3>2, <4>1
      <4>3. QED
        BY <1>0, <3>2, <4>2, Zenon DEF SocketShape
    <3>3. QED
      BY <2>1, <3>1, <3>2, Zenon
  <2>3. pending[c] \cup {r} \in SUBSET Request /\ "streaming" \in Phase
    BY <1>0 DEF SocketShape, Phase
  <2>4. [type |-> "request", id |-> r] \in Message
    BY DEF Message
  <2>5. Append(queue[c], [type |-> "request", id |-> r]) \in Seq(Message)
    BY <1>0, <2>4 DEF SocketShape
  <2>6. /\ pending' \in [Connection -> SUBSET Request] /\ queue' \in [Connection -> Seq(Message)]
        /\ conn' \in [Request -> 0 .. made'] /\ phase' \in [Request -> Phase]
    BY <1>0, <2>1, <2>2, <2>3, <2>5, PutIn, Zenon DEF SocketShape
  <2>7. QED
    BY <1>0, <2>1, <2>2, <2>6, Zenon DEF SocketShape
<1>18. ASSUME NEW r \in Request, ConnectFails(r) PROVE SocketShape'
  <2>1. lock' \in Request \cup {None}
    BY <1>18, <1>0 DEF ConnectFails, Move, SocketShape, None
  <2>2. phase' \in [Request -> Phase]
    BY <1>18, <1>0 DEF ConnectFails, Move, SocketShape, Phase, Over, Before
  <2>3. UNCHANGED <<library, pool, next, made, socket, wire, queue, reader, writer, pending,
        serving, slot, conn, attempt, items, taken, sent, asked, late, drops>>
    BY <1>18, Zenon DEF ConnectFails, Move, poolVars, connectionVars, callerVars, streamVars,
        historyVars
  <2>4. QED
    BY <1>0, <2>1, <2>2, <2>3, Zenon DEF SocketShape
<1>19. ASSUME NEW r \in Request, ContinueConversation(r) PROVE SocketShape'
  <2>1. PICK c \in Connection :
              /\ pending' = [pending EXCEPT ![c] = pending[c] \cup {r}]
              /\ queue' = [queue EXCEPT ![c] = Append(queue[c], [type |-> "request", id |-> r])]
              /\ conn' = [conn EXCEPT ![r] = c]
              /\ phase' = [phase EXCEPT ![r] = "streaming"]
              /\ UNCHANGED <<library, next, socket, wire, reader, writer, serving>>
              /\ UNCHANGED <<slot, attempt, items, taken, sent, asked, late, drops>>
              /\ \/ /\ made < MaxConnections /\ made' = made + 1 /\ c = made + 1
                    /\ pool' = [pool EXCEPT ![slot[r]] = made + 1]
                    /\ lock' = None
                 \/ /\ library = "javascript" /\ c = 1
                    /\ UNCHANGED <<pool, lock, made>>
    BY <1>19, <1>0, SendDoes, Zenon
  <2>2. /\ pool' \in [Slot -> 0 .. made'] /\ made' \in 0 .. MaxConnections
        /\ lock' \in Request \cup {None}
        /\ conn \in [Request -> 0 .. made'] /\ c \in 0 .. made'
    <3>1. CASE /\ made < MaxConnections /\ made' = made + 1 /\ c = made + 1
               /\ pool' = [pool EXCEPT ![slot[r]] = made + 1]
               /\ lock' = None
      <4>1. made \in Nat /\ pool \in [Slot -> 0 .. made] /\ conn \in [Request -> 0 .. made]
        BY <1>0 DEF SocketShape
      <4>2. /\ pool \in [Slot -> 0 .. made'] /\ made + 1 \in 0 .. made'
            /\ conn \in [Request -> 0 .. made'] /\ c \in 0 .. made'
        BY <3>1, <4>1
      <4>3. made' \in 0 .. MaxConnections
        BY <1>0, <3>1, NewConnection
      <4>4. pool' \in [Slot -> 0 .. made']
        BY <3>1, <4>2, PutIn
      <4>5. QED
        BY <3>1, <4>2, <4>3, <4>4, Zenon
    <3>2. CASE library = "javascript" /\ c = 1 /\ UNCHANGED <<pool, lock, made>>
      <4>1. made = 1
        BY <1>0, <3>2, Zenon DEF CallerShape
      <4>2. c \in 0 .. made
        BY <3>2, <4>1
      <4>3. QED
        BY <1>0, <3>2, <4>2, Zenon DEF SocketShape
    <3>3. QED
      BY <2>1, <3>1, <3>2, Zenon
  <2>3. pending[c] \cup {r} \in SUBSET Request /\ "streaming" \in Phase
    BY <1>0 DEF SocketShape, Phase
  <2>4. [type |-> "request", id |-> r] \in Message
    BY DEF Message
  <2>5. Append(queue[c], [type |-> "request", id |-> r]) \in Seq(Message)
    BY <1>0, <2>4 DEF SocketShape
  <2>6. /\ pending' \in [Connection -> SUBSET Request] /\ queue' \in [Connection -> Seq(Message)]
        /\ conn' \in [Request -> 0 .. made'] /\ phase' \in [Request -> Phase]
    BY <1>0, <2>1, <2>2, <2>3, <2>5, PutIn, Zenon DEF SocketShape
  <2>7. QED
    BY <1>0, <2>1, <2>2, <2>6, Zenon DEF SocketShape
<1>20. ASSUME NEW r \in Request, YieldItem(r) PROVE SocketShape'
  <2>1. /\ taken' = [taken EXCEPT ![r] = taken[r] + 1]
        /\ UNCHANGED <<library, pool, next, lock, made, socket, wire, queue, reader, writer>>
        /\ UNCHANGED <<pending, serving, slot, conn, attempt, items, sent, asked, late, drops>>
        /\ phase' = [phase EXCEPT ![r] = "ended"] \/ phase' = phase
    BY <1>20, <1>0, YieldItemDoes, Zenon
  <2>2. taken[r] + 1 \in Nat /\ "ended" \in Phase
    BY <1>0 DEF SocketShape, Phase, Over
  <2>3. taken' \in [Request -> Nat] /\ phase' \in [Request -> Phase]
    <3>1. /\ [taken EXCEPT ![r] = taken[r] + 1] \in [Request -> Nat]
          /\ [phase EXCEPT ![r] = "ended"] \in [Request -> Phase]
      BY <1>0, <2>2, PutIn, Zenon DEF SocketShape
    <3>2. QED
      BY <1>0, <2>1, <3>1, Zenon DEF SocketShape
  <2>4. QED
    BY <1>0, <2>1, <2>3, Zenon DEF SocketShape
<1>21. ASSUME NEW r \in Request, EndStream(r) PROVE SocketShape'
  <2>1. phase' \in [Request -> Phase]
    BY <1>21, <1>0 DEF EndStream, Move, SocketShape, Phase, Over, Before
  <2>2. UNCHANGED <<library, pool, next, lock, made, socket, wire, queue, reader, writer,
        pending, serving, slot, conn, attempt, items, taken, sent, asked, late, drops>>
    BY <1>21, Zenon DEF EndStream, Move, poolVars, connectionVars, callerVars, streamVars,
        historyVars
  <2>3. QED
    BY <1>0, <2>1, <2>2, Zenon DEF SocketShape
<1>22. ASSUME NEW r \in Request, StopStream(r) PROVE SocketShape'
  <2>1. /\ conn[r] \in Connection
        /\ phase' = [phase EXCEPT ![r] = "stopped"]
        /\ UNCHANGED <<library, pool, next, lock, made, socket, wire, reader, writer, serving>>
        /\ UNCHANGED <<slot, conn, attempt, items, taken, sent, asked, late, drops>>
        /\ \/ pending' = pending
           \/ pending' = [pending EXCEPT ![conn[r]] = pending[conn[r]] \ {r}]
        /\ \/ queue' = [queue EXCEPT ![conn[r]] =
                                    Append(queue[conn[r]], [type |-> "stop", id |-> r])]
           \/ queue' = queue
    BY <1>22, <1>0, StopStreamDoes, Zenon
  <2>2. pending[conn[r]] \ {r} \in SUBSET Request /\ "stopped" \in Phase
    BY <1>0, <2>1 DEF SocketShape, Phase, Over
  <2>3. [type |-> "stop", id |-> r] \in Message
    BY DEF Message
  <2>4. Append(queue[conn[r]], [type |-> "stop", id |-> r]) \in Seq(Message)
    BY <1>0, <2>1, <2>3 DEF SocketShape
  <2>5. /\ phase' \in [Request -> Phase] /\ pending' \in [Connection -> SUBSET Request]
        /\ queue' \in [Connection -> Seq(Message)]
    <3>1. /\ [phase EXCEPT ![r] = "stopped"] \in [Request -> Phase]
          /\ [pending EXCEPT ![conn[r]] = pending[conn[r]] \ {r}] \in [Connection -> SUBSET Request]
          /\ [queue EXCEPT ![conn[r]] = Append(queue[conn[r]], [type |-> "stop", id |-> r])]
                 \in [Connection -> Seq(Message)]
      BY <1>0, <2>2, <2>4, PutIn, Zenon DEF SocketShape
    <3>2. QED
      BY <1>0, <2>1, <3>1, Zenon DEF SocketShape
  <2>6. QED
    BY <1>0, <2>1, <2>5, Zenon DEF SocketShape
<1>23. CASE ClosePool
  <2>1. PICK closed \in SUBSET Connection :
              /\ socket' = [c \in Connection |-> IF c \in closed THEN "closed" ELSE socket[c]]
              /\ reader' = [c \in Connection |-> IF c \in closed THEN "finished" ELSE reader[c]]
              /\ writer' = [c \in Connection |-> IF c \in closed THEN "finished" ELSE writer[c]]
              /\ serving' = [c \in Connection |-> IF c \in closed THEN {} ELSE serving[c]]
              /\ pending' = [c \in Connection |-> IF c \in closed THEN {} ELSE pending[c]]
              /\ items' = Told({q \in Request : \E c \in closed : q \in pending[c]}, "dropped")
              /\ pool' = [i \in Slot |-> None]
              /\ UNCHANGED <<library, next, lock, made, wire, queue>>
              /\ UNCHANGED <<phase, slot, conn, attempt, taken, sent, asked, late, drops>>
    BY <1>23, <1>0, ClosePoolDoes, Zenon
  <2>2. /\ socket' \in [Connection -> {"open", "closed"}]
        /\ reader' \in [Connection -> {"running", "draining", "finished"}]
        /\ writer' \in [Connection -> {"running", "finished"}]
    BY <1>0, <2>1 DEF SocketShape
  <2>3. serving' \in [Connection -> SUBSET Request] /\ pending' \in [Connection -> SUBSET Request]
    BY <1>0, <2>1 DEF SocketShape
  <2>4. pool' \in [Slot -> 0 .. made]
    BY <1>0, <2>1 DEF SocketShape, None
  <2>5. items' \in [Request -> Seq(Item)]
    <3>1. "dropped" \in Errors
      BY DEF Errors
    <3>2. {q \in Request : \E c \in closed : q \in pending[c]} \in SUBSET Request
      OBVIOUS
    <3>3. QED
      BY <1>0, <2>1, <3>1, <3>2, ToldIs
  <2>6. QED
    BY <1>0, <2>1, <2>2, <2>3, <2>4, <2>5, Zenon DEF SocketShape
<1>24. CASE UNCHANGED socketClientVars
  BY <1>24, Zenon DEF SocketInv, SocketShape, socketClientVars
<1>25. QED
  BY <1>1, <1>2, <1>3, <1>4, <1>5, <1>6, <1>7, <1>8, <1>9, <1>10, <1>11, <1>12, <1>13, <1>14,
      <1>15, <1>16, <1>17, <1>18, <1>19, <1>20, <1>21, <1>22, <1>23, <1>24, Zenon DEF SocketNext

-----------------------------------------------------------------------------
(***************************************************************************)
(* What each step keeps.                                                   *)
(***************************************************************************)
\* Who has begun stays the same while those who have move on ...
LEMMA BegunStays ==
    ASSUME SocketShape, NextCounts, NEW r \in Request, phase[r] # "idle", NEW x, x # "idle",
           phase' = [phase EXCEPT ![r] = x], UNCHANGED <<library, next>>
    PROVE  NextCounts'
<1>1. Begun' = Begun
  BY DEF Begun, SocketShape
<1>2. QED
  BY <1>1, Zenon DEF NextCounts

\* ... and is one more when a request begins.
LEMMA BegunGrows ==
    ASSUME SocketShape, NextCounts, NEW r \in Request, phase[r] = "idle", NEW x, x # "idle",
           phase' = [phase EXCEPT ![r] = x], library # "javascript", library' = library,
           next' = next + 1
    PROVE  NextCounts'
<1>1. Begun' = Begun \cup {r} /\ r \notin Begun
  BY DEF Begun, SocketShape
<1>2. IsFiniteSet(Begun)
  BY SocketClientAssumption, FS_Subset DEF Begun
<1>3. Cardinality(Begun \cup {r}) = Cardinality(Begun) + 1
  BY <1>1, <1>2, FS_AddElement
<1>4. QED
  BY <1>1, <1>3, Zenon DEF NextCounts

\* The counter is at most the number of requests.
LEMMA BegunAreRequests ==
    ASSUME SocketShape, NextCounts
    PROVE  next \in 0 .. Cardinality(Request)
<1>1. IsFiniteSet(Request) /\ IsFiniteSet(Begun)
  BY SocketClientAssumption, FS_Subset DEF Begun
<1>2. Cardinality(Begun) <= Cardinality(Request)
  BY <1>1, FS_Subset DEF Begun
<1>3. Cardinality(Begun) \in Nat /\ Cardinality(Request) \in Nat
  BY <1>1, FS_CardinalityType
<1>4. QED
  BY <1>2, <1>3 DEF NextCounts

\* A step keeps the count.
LEMMA CountKept ==
    ASSUME SocketInv, [SocketNext]_socketClientVars
    PROVE  NextCounts'
<1>0. SocketShape /\ NextCounts
  BY Zenon DEF SocketInv
<1>1. ASSUME NEW c \in Connection, ReadFrame(c) PROVE NextCounts'
  <2>1. UNCHANGED <<library, next, phase>>
    BY <1>1, Zenon DEF ReadFrame, poolVars, callerVars
  <2>2. QED
    BY <1>0, <2>1, Zenon DEF NextCounts, Begun
<1>2. ASSUME NEW c \in Connection, ReadEnds(c) PROVE NextCounts'
  <2>1. UNCHANGED <<library, next, phase>>
    BY <1>2, Zenon DEF ReadEnds, poolVars, callerVars
  <2>2. QED
    BY <1>0, <2>1, Zenon DEF NextCounts, Begun
<1>3. ASSUME NEW c \in Connection, ClearPending(c) PROVE NextCounts'
  <2>1. UNCHANGED <<library, next, phase>>
    BY <1>3, Zenon DEF ClearPending, poolVars, callerVars
  <2>2. QED
    BY <1>0, <2>1, Zenon DEF NextCounts, Begun
<1>4. ASSUME NEW c \in Connection, ReadLoopEnds(c) PROVE NextCounts'
  <2>1. UNCHANGED <<library, next, phase>>
    BY <1>4, Zenon DEF ReadLoopEnds, poolVars, callerVars
  <2>2. QED
    BY <1>0, <2>1, Zenon DEF NextCounts, Begun
<1>5. ASSUME NEW c \in Connection, WriteMessage(c) PROVE NextCounts'
  <2>1. UNCHANGED <<library, next, phase>>
    BY <1>5, Zenon DEF WriteMessage, poolVars, callerVars
  <2>2. QED
    BY <1>0, <2>1, Zenon DEF NextCounts, Begun
<1>6. ASSUME NEW c \in Connection, WriteFails(c) PROVE NextCounts'
  <2>1. UNCHANGED <<library, next, phase>>
    BY <1>6, Zenon DEF WriteFails, poolVars, callerVars
  <2>2. QED
    BY <1>0, <2>1, Zenon DEF NextCounts, Begun
<1>7. ASSUME NEW c \in Connection, SocketDrops(c) PROVE NextCounts'
  <2>1. UNCHANGED <<library, next, phase>>
    BY <1>7, Zenon DEF SocketDrops, poolVars, callerVars
  <2>2. QED
    BY <1>0, <2>1, Zenon DEF NextCounts, Begun
<1>8. ASSUME NEW c \in Connection, NEW r \in Request, NEW kind \in Kind, Answer(c, r, kind)
      PROVE  NextCounts'
  <2>1. UNCHANGED <<library, next, phase>>
    BY <1>8, Zenon DEF Answer, poolVars, callerVars
  <2>2. QED
    BY <1>0, <2>1, Zenon DEF NextCounts, Begun
<1>9. ASSUME NEW r \in Request, SendRequest(r) PROVE NextCounts'
  <2>1. /\ phase[r] = "idle" /\ phase' = [phase EXCEPT ![r] = "check"] /\ next' = next + 1
        /\ library # "javascript" /\ library' = library
    BY <1>9 DEF SendRequest, Move
  <2>2. "check" # "idle"
    OBVIOUS
  <2>3. QED
    BY <1>0, <2>1, <2>2, BegunGrows, Zenon
<1>10. ASSUME NEW r \in Request, CheckConnection(r) PROVE NextCounts'
  <2>1. /\ phase[r] # "idle" /\ UNCHANGED <<library, next>>
        /\ phase' = [phase EXCEPT ![r] = "connect"] \/ phase' = [phase EXCEPT ![r] = "get"]
    BY <1>10 DEF CheckConnection, Move, poolVars
  <2>2. "connect" # "idle" /\ "get" # "idle"
    OBVIOUS
  <2>3. QED
    BY <1>0, <2>1, <2>2, BegunStays, Zenon
<1>11. ASSUME NEW r \in Request, Connect(r) PROVE NextCounts'
  <2>1. phase[r] # "idle" /\ phase' = [phase EXCEPT ![r] = "get"] /\ UNCHANGED <<library, next>>
    BY <1>11 DEF Connect, Move, poolVars
  <2>2. "get" # "idle"
    OBVIOUS
  <2>3. QED
    BY <1>0, <2>1, <2>2, BegunStays, Zenon
<1>12. ASSUME NEW r \in Request, Register(r) PROVE NextCounts'
  <2>1. phase[r] # "idle" /\ phase' = [phase EXCEPT ![r] = "write"] /\ UNCHANGED <<library,
        next>>
    BY <1>12 DEF Register, Move, poolVars
  <2>2. "write" # "idle"
    OBVIOUS
  <2>3. QED
    BY <1>0, <2>1, <2>2, BegunStays, Zenon
<1>13. ASSUME NEW r \in Request, Write(r) PROVE NextCounts'
  <2>1. phase[r] # "idle" /\ phase' = [phase EXCEPT ![r] = "streaming"] /\ UNCHANGED <<library,
        next>>
    BY <1>13 DEF Write, Move, poolVars
  <2>2. "streaming" # "idle"
    OBVIOUS
  <2>3. QED
    BY <1>0, <2>1, <2>2, BegunStays, Zenon
<1>14. ASSUME NEW r \in Request, WriteRefused(r) PROVE NextCounts'
  <2>1. phase[r] # "idle"
    BY <1>14 DEF WriteRefused
  <2>2. /\ UNCHANGED <<library, next>>
        /\ phase' = [phase EXCEPT ![r] = "check"] \/ phase' = [phase EXCEPT ![r] = "failed"]
    BY <1>14, Zenon DEF WriteRefused, Move, poolVars
  <2>3. "check" # "idle" /\ "failed" # "idle"
    OBVIOUS
  <2>4. QED
    BY <1>0, <2>1, <2>2, <2>3, BegunStays, Zenon
<1>15. ASSUME NEW r \in Request, CancelRequest(r) PROVE NextCounts'
  <2>1. /\ phase[r] # "idle" /\ UNCHANGED <<library, next>>
        /\ phase' = [phase EXCEPT ![r] = "cancelled"]
    BY <1>15 DEF CancelRequest, Move, poolVars
  <2>2. "cancelled" # "idle"
    OBVIOUS
  <2>3. QED
    BY <1>0, <2>1, <2>2, BegunStays, Zenon
<1>16. ASSUME NEW r \in Request, LockPool(r) PROVE NextCounts'
  <2>1. /\ phase[r] = "idle" /\ next' = next + 1 /\ library' = library
        /\ phase' = [phase EXCEPT ![r] = "streaming"] \/ phase' = [phase EXCEPT ![r] = "connect"]
    BY <1>16, <1>0, LockPoolDoes, Zenon
  <2>2. "streaming" # "idle" /\ "connect" # "idle" /\ library # "javascript"
    BY <1>16 DEF LockPool
  <2>3. QED
    BY <1>0, <2>1, <2>2, BegunGrows, Zenon
<1>17. ASSUME NEW r \in Request, ConnectLocked(r) PROVE NextCounts'
  <2>1. phase[r] # "idle"
    BY <1>17 DEF ConnectLocked
  <2>2. UNCHANGED <<library, next>> /\ phase' = [phase EXCEPT ![r] = "streaming"]
    BY <1>17, Zenon DEF ConnectLocked, Move
  <2>3. "streaming" # "idle"
    OBVIOUS
  <2>4. QED
    BY <1>0, <2>1, <2>2, <2>3, BegunStays, Zenon
<1>18. ASSUME NEW r \in Request, ConnectFails(r) PROVE NextCounts'
  <2>1. phase[r] # "idle" /\ phase' = [phase EXCEPT ![r] = "failed"] /\ UNCHANGED <<library,
        next>>
    BY <1>18 DEF ConnectFails, Move, poolVars
  <2>2. "failed" # "idle"
    OBVIOUS
  <2>3. QED
    BY <1>0, <2>1, <2>2, BegunStays, Zenon
<1>19. ASSUME NEW r \in Request, ContinueConversation(r) PROVE NextCounts'
  <2>1. library = "javascript" /\ UNCHANGED <<library, next>>
    BY <1>19, Zenon DEF ContinueConversation, poolVars
  <2>2. QED
    BY <1>0, <2>1, Zenon DEF NextCounts
<1>20. ASSUME NEW r \in Request, YieldItem(r) PROVE NextCounts'
  <2>1. /\ phase[r] = "streaming" /\ UNCHANGED <<library, next>>
        /\ phase' = [phase EXCEPT ![r] = "ended"] \/ phase' = phase
    BY <1>20, <1>0, YieldItemDoes, Zenon
  <2>2. "streaming" # "idle" /\ "ended" # "idle"
    OBVIOUS
  <2>3. CASE phase' = phase
    BY <1>0, <2>1, <2>3, Zenon DEF NextCounts, Begun
  <2>4. CASE phase' = [phase EXCEPT ![r] = "ended"]
    BY <1>0, <2>1, <2>2, <2>4, BegunStays, Zenon
  <2>5. QED
    BY <2>1, <2>3, <2>4
<1>21. ASSUME NEW r \in Request, EndStream(r) PROVE NextCounts'
  <2>1. phase[r] # "idle" /\ phase' = [phase EXCEPT ![r] = "ended"] /\ UNCHANGED <<library,
        next>>
    BY <1>21 DEF EndStream, Move, poolVars
  <2>2. "ended" # "idle"
    OBVIOUS
  <2>3. QED
    BY <1>0, <2>1, <2>2, BegunStays, Zenon
<1>22. ASSUME NEW r \in Request, StopStream(r) PROVE NextCounts'
  <2>1. phase[r] # "idle"
    BY <1>22 DEF StopStream
  <2>2. UNCHANGED <<library, next>> /\ phase' = [phase EXCEPT ![r] = "stopped"]
    BY <1>22, Zenon DEF StopStream, Move, poolVars
  <2>3. "stopped" # "idle"
    OBVIOUS
  <2>4. QED
    BY <1>0, <2>1, <2>2, <2>3, BegunStays, Zenon
<1>23. CASE ClosePool
  <2>1. UNCHANGED <<library, next, phase>>
    BY <1>23, Zenon DEF ClosePool, callerVars
  <2>2. QED
    BY <1>0, <2>1, Zenon DEF NextCounts, Begun
<1>24. CASE UNCHANGED socketClientVars
  BY <1>24, Zenon DEF SocketInv, NextCounts, Begun, socketClientVars
<1>25. QED
  BY <1>1, <1>2, <1>3, <1>4, <1>5, <1>6, <1>7, <1>8, <1>9, <1>10, <1>11, <1>12, <1>13, <1>14,
      <1>15, <1>16, <1>17, <1>18, <1>19, <1>20, <1>21, <1>22, <1>23, <1>24, Zenon DEF SocketNext

\* A caller that nothing happens to.
LEMMA CallerSame ==
    ASSUME SocketShape, SocketShape', NEW q \in Request, CallerOf(q),
           library' = library, phase'[q] = phase[q], conn'[q] = conn[q], taken'[q] = taken[q],
           items'[q] = items[q], pool[slot[q]] # None /\ library = "rust" => pool'[slot'[q]] # None
    PROVE  CallerOf(q)'
<1>1. phase[q] = "get" => library = "rust"
  BY DEF CallerOf, SocketShape
<1>2. QED
  BY <1>1, Zenon DEF CallerOf, SocketShape

\* A caller that is read to: its channel only grows, and nothing is put into the
\* channel of a request that is not pending.
LEMMA CallerGrows ==
    ASSUME SocketInv, SocketShape', UNCHANGED <<library, made, phase, slot, conn, taken>>,
           pool' = pool \/ library # "rust",
           \A q \in Request : Len(items[q]) <= Len(items'[q]),
           \A q \in Request : (\A c \in Connection : q \notin pending[c]) => items'[q] = items[q]
    PROVE  CallerShape'
<1>1. SocketShape /\ CallerShape /\ TracesAreHeld
  BY Zenon DEF SocketInv
<1>2. ASSUME NEW q \in Request PROVE CallerOf(q)'
  <2>1. CallerOf(q)
    BY <1>1, Zenon DEF CallerShape
  <2>2. taken[q] <= Len(items'[q])
    <3>1. taken[q] \in Nat /\ Len(items[q]) \in Nat /\ Len(items'[q]) \in Nat
      <4>1. items' \in [Request -> Seq(Item)] /\ items \in [Request -> Seq(Item)]
        BY <1>1, Zenon DEF SocketShape
      <4>2. taken[q] \in Nat
        BY <1>1 DEF SocketShape
      <4>3. QED
        BY <4>1, <4>2
    <3>2. taken[q] <= Len(items[q])
      BY <2>1, Zenon DEF CallerOf
    <3>3. QED
      BY <3>1, <3>2
  <2>3. library # "rust" /\ phase[q] \in Unsent => items'[q] = <<>>
    <3>1. SUFFICES ASSUME library # "rust", phase[q] \in Unsent PROVE items'[q] = <<>>
      OBVIOUS
    <3>2. items[q] = <<>> /\ phase[q] # "write"
      BY <2>1, <3>1 DEF CallerOf
    <3>3. \A c \in Connection : q \notin pending[c]
      BY <1>1, <3>1, <3>2 DEF TracesAreHeld, TraceOn
    <3>4. QED
      BY <3>2, <3>3
  <2>4. phase[q] = "get" => library = "rust"
    BY <1>1, <2>1 DEF CallerOf, SocketShape
  <2>5. QED
    BY <2>1, <2>2, <2>3, <2>4, Zenon DEF CallerOf
<1>3. QED
  BY <1>1, <1>2, Zenon DEF CallerShape

\* A step keeps the shape of the callers.
LEMMA CallerKept ==
    ASSUME SocketInv, [SocketNext]_socketClientVars
    PROVE  CallerShape'
<1>0. SocketShape /\ CallerShape /\ SocketShape'
  BY ShapeKept, Zenon DEF SocketInv
<1>1. ASSUME NEW c \in Connection, ReadFrame(c) PROVE CallerShape'
  <2>1. UNCHANGED <<library, made, pool, phase, slot, conn, taken>>
    BY <1>1, <1>0, ReadFrameDoes, Zenon
  <2>2. /\ \A q \in Request : Len(items[q]) <= Len(items'[q])
        /\ \A q \in Request : (\A d \in Connection : q \notin pending[d]) => items'[q] = items[q]
    <3>1. CASE \E spoiled \in SUBSET pending[c] : items' = Told(spoiled, "unparsable")
      <4>1. PICK spoiled \in SUBSET pending[c] : items' = Told(spoiled, "unparsable")
        BY <3>1
      <4>2. "unparsable" \in Errors /\ spoiled \in SUBSET Request
        BY <1>0 DEF Errors, SocketShape
      <4>3. \A q \in Request : (\A d \in Connection : q \notin pending[d]) => q \in Request \ spoiled
        OBVIOUS
      <4>4. /\ \A q \in Request : Len(items[q]) <= Len(Told(spoiled, "unparsable")[q])
            /\ \A q \in Request \ spoiled : Told(spoiled, "unparsable")[q] = items[q]
        BY <1>0, <4>2, ToldIs
      <4>5. QED
        BY <4>1, <4>3, <4>4, Zenon
    <3>2. CASE /\ wire[c][1].to \in pending[c]
               /\ items' = [items EXCEPT ![wire[c][1].to] =
                                             Append(items[wire[c][1].to], wire[c][1])]
      <4>1. wire[c][1] \in Item /\ wire[c][1].to \in Request
        <5>1. wire[c][1] \in Frame /\ wire[c][1].to \in Request
          BY <1>1, <1>0, ReadFrameDoes, Zenon
        <5>2. QED
          BY <5>1 DEF Frame, Item
      <4>2. \A q \in Request : items[q] \in Seq(Item) /\ Len(items[q]) \in Nat
        BY <1>0 DEF SocketShape
      <4>3. Len(Append(items[wire[c][1].to], wire[c][1])) = Len(items[wire[c][1].to]) + 1
        BY <4>1, <4>2
      <4>4. /\ items'[wire[c][1].to] = Append(items[wire[c][1].to], wire[c][1])
            /\ \A q \in Request : q # wire[c][1].to => items'[q] = items[q]
        BY <1>0, <3>2, <4>1 DEF SocketShape
      <4>5. QED
        BY <3>2, <4>2, <4>3, <4>4
    <3>3. QED
      BY <1>1, <1>0, <3>1, <3>2, ReadFrameDoes, Zenon
  <2>3. QED
    BY <1>0, <2>1, <2>2, CallerGrows, Zenon
<1>2. ASSUME NEW c \in Connection, ReadEnds(c) PROVE CallerShape'
  <2>1. /\ items' = Told(pending[c], "dropped")
        /\ UNCHANGED <<library, made, pool, phase, slot, conn, taken>>
    BY <1>2, ReadingEndsDoes, Zenon
  <2>2. /\ \A q \in Request : Len(items[q]) <= Len(items'[q])
        /\ \A q \in Request : (\A d \in Connection : q \notin pending[d]) => items'[q] = items[q]
    <3>1. "dropped" \in Errors /\ pending[c] \in SUBSET Request
      BY <1>0 DEF Errors, SocketShape
    <3>2. /\ \A q \in Request : Len(items[q]) <= Len(Told(pending[c], "dropped")[q])
          /\ \A q \in Request \ pending[c] : Told(pending[c], "dropped")[q] = items[q]
      BY <1>0, <3>1, ToldIs
    <3>3. \A q \in Request : (\A d \in Connection : q \notin pending[d]) => q \in Request \ pending[c]
      OBVIOUS
    <3>4. QED
      BY <2>1, <3>2, <3>3, Zenon
  <2>3. QED
    BY <1>0, <2>1, <2>2, CallerGrows, Zenon
<1>3. ASSUME NEW c \in Connection, ClearPending(c) PROVE CallerShape'
  <2>1. UNCHANGED <<library, made, pool, phase, slot, conn, taken, items>>
    BY <1>3,
        Zenon DEF ClearPending, poolVars, connectionVars, callerVars, streamVars, historyVars
  <2>2. QED
    BY <1>0, <2>1, Zenon DEF CallerShape, CallerOf
<1>4. ASSUME NEW c \in Connection, ReadLoopEnds(c) PROVE CallerShape'
  <2>1. /\ items' = Told(pending[c], "dropped")
        /\ UNCHANGED <<library, made, pool, phase, slot, conn, taken>>
    BY <1>4, ReadingEndsDoes, Zenon
  <2>2. /\ \A q \in Request : Len(items[q]) <= Len(items'[q])
        /\ \A q \in Request : (\A d \in Connection : q \notin pending[d]) => items'[q] = items[q]
    <3>1. "dropped" \in Errors /\ pending[c] \in SUBSET Request
      BY <1>0 DEF Errors, SocketShape
    <3>2. /\ \A q \in Request : Len(items[q]) <= Len(Told(pending[c], "dropped")[q])
          /\ \A q \in Request \ pending[c] : Told(pending[c], "dropped")[q] = items[q]
      BY <1>0, <3>1, ToldIs
    <3>3. \A q \in Request : (\A d \in Connection : q \notin pending[d]) => q \in Request \ pending[c]
      OBVIOUS
    <3>4. QED
      BY <2>1, <3>2, <3>3, Zenon
  <2>3. QED
    BY <1>0, <2>1, <2>2, CallerGrows, Zenon
<1>5. ASSUME NEW c \in Connection, WriteMessage(c) PROVE CallerShape'
  <2>1. UNCHANGED <<library, made, pool, phase, slot, conn, taken, items>>
    BY <1>5, <1>0,
        WriteMessageDoes, Zenon
  <2>2. QED
    BY <1>0, <2>1, Zenon DEF CallerShape, CallerOf
<1>6. ASSUME NEW c \in Connection, WriteFails(c) PROVE CallerShape'
  <2>1. /\ items' = Told(pending[c], "dropped") \/ items' = items
        /\ UNCHANGED <<library, made, pool, phase, slot, conn, taken>>
    BY <1>6, <1>0, WriteFailsDoes, Zenon
  <2>2. CASE items' = Told(pending[c], "dropped")
    <3>1. "dropped" \in Errors /\ pending[c] \in SUBSET Request
      BY <1>0 DEF Errors, SocketShape
    <3>2. /\ \A q \in Request : Len(items[q]) <= Len(items'[q])
          /\ \A q \in Request : (\A d \in Connection : q \notin pending[d]) => items'[q] = items[q]
      <4>1. /\ \A q \in Request : Len(items[q]) <= Len(Told(pending[c], "dropped")[q])
            /\ \A q \in Request \ pending[c] : Told(pending[c], "dropped")[q] = items[q]
        BY <1>0, <3>1, ToldIs
      <4>2. \A q \in Request : (\A d \in Connection : q \notin pending[d]) => q \in Request \ pending[c]
        OBVIOUS
      <4>3. QED
        BY <2>2, <4>1, <4>2, Zenon
    <3>3. QED
      BY <1>0, <2>1, <3>2, CallerGrows, Zenon
  <2>3. CASE items' = items
    BY <1>0, <2>1, <2>3, Zenon DEF CallerShape, CallerOf
  <2>4. QED
    BY <2>1, <2>2, <2>3
<1>7. ASSUME NEW c \in Connection, SocketDrops(c) PROVE CallerShape'
  <2>1. UNCHANGED <<library, made, pool, phase, slot, conn, taken, items>>
    BY <1>7,
        Zenon DEF SocketDrops, poolVars, connectionVars, callerVars, streamVars, historyVars
  <2>2. QED
    BY <1>0, <2>1, Zenon DEF CallerShape, CallerOf
<1>8. ASSUME NEW c \in Connection, NEW r \in Request, NEW kind \in Kind, Answer(c, r, kind)
      PROVE  CallerShape'
  <2>1. UNCHANGED <<library, made, pool, phase, slot, conn, taken, items>>
    BY <1>8,
        Zenon DEF Answer, poolVars, connectionVars, callerVars, streamVars, historyVars
  <2>2. QED
    BY <1>0, <2>1, Zenon DEF CallerShape, CallerOf
<1>9. ASSUME NEW r \in Request, SendRequest(r) PROVE CallerShape'
  <2>1. /\ phase[r] = "idle" /\ library = "rust"
        /\ phase' = [phase EXCEPT ![r] = "check"]
        /\ \A q \in Request : q # r => slot'[q] = slot[q]
        /\ UNCHANGED <<library, made, pool, conn, taken, items>>
    BY <1>9, <1>0 DEF SendRequest, Move, connectionVars, streamVars, SocketShape
  <2>2. ASSUME NEW q \in Request, q # r PROVE CallerOf(q)'
    <3>1. CallerOf(q)
      BY <1>0, Zenon DEF CallerShape
    <3>2. phase'[q] = phase[q] /\ conn'[q] = conn[q] /\ taken'[q] = taken[q] /\ items'[q] = items[q]
      BY <1>0, <2>1, <2>2 DEF SocketShape
    <3>3. pool[slot[q]] # None /\ library = "rust" => pool'[slot'[q]] # None
      BY <1>0, <2>1, <2>2 DEF SocketShape
    <3>4. QED
      BY <1>0, <2>1, <3>1, <3>2, <3>3, CallerSame, Zenon
  <2>3. CallerOf(r)
    BY <1>0, Zenon DEF CallerShape
  <2>4. CallerOf(r)'
    BY <1>0, <2>1, <2>3 DEF CallerOf, SocketShape, Unsent, Before
  <2>5. QED
    BY <1>0, <2>1, <2>2, <2>4, Zenon DEF CallerShape
<1>10. ASSUME NEW r \in Request, CheckConnection(r) PROVE CallerShape'
  <2>1. /\ phase[r] = "check"
        /\ \/ phase' = [phase EXCEPT ![r] = "connect"]
           \/ phase' = [phase EXCEPT ![r] = "get"] /\ pool[slot[r]] # None
        /\ UNCHANGED <<library, made, pool, slot, conn, taken, items>>
    BY <1>10 DEF CheckConnection, Move, poolVars, connectionVars, streamVars
  <2>2. ASSUME NEW q \in Request, q # r PROVE CallerOf(q)'
    <3>1. CallerOf(q)
      BY <1>0, Zenon DEF CallerShape
    <3>2. phase'[q] = phase[q] /\ conn'[q] = conn[q] /\ taken'[q] = taken[q] /\ items'[q] = items[q]
      BY <1>0, <2>1, <2>2 DEF SocketShape
    <3>3. pool[slot[q]] # None /\ library = "rust" => pool'[slot'[q]] # None
      BY <1>0, <2>1, <2>2 DEF SocketShape
    <3>4. QED
      BY <1>0, <2>1, <3>1, <3>2, <3>3, CallerSame, Zenon
  <2>3. CallerOf(r)
    BY <1>0, Zenon DEF CallerShape
  <2>4. CallerOf(r)'
    BY <1>0, <2>1, <2>3 DEF CallerOf, SocketShape, Unsent, Before
  <2>5. QED
    BY <1>0, <2>1, <2>2, <2>4, Zenon DEF CallerShape
<1>11. ASSUME NEW r \in Request, Connect(r) PROVE CallerShape'
  <2>1. /\ phase[r] = "connect" /\ library = "rust" /\ made + 1 # None
        /\ phase' = [phase EXCEPT ![r] = "get"]
        /\ pool' = [pool EXCEPT ![slot[r]] = made + 1]
        /\ UNCHANGED <<library, slot, conn, taken, items>>
    BY <1>11, <1>0, NewConnection DEF Connect, Move, connectionVars, streamVars
  <2>2. ASSUME NEW q \in Request, q # r PROVE CallerOf(q)'
    <3>1. CallerOf(q)
      BY <1>0, Zenon DEF CallerShape
    <3>2. phase'[q] = phase[q] /\ conn'[q] = conn[q] /\ taken'[q] = taken[q] /\ items'[q] = items[q]
      BY <1>0, <2>1, <2>2 DEF SocketShape
    <3>3. pool[slot[q]] # None /\ library = "rust" => pool'[slot'[q]] # None
      BY <1>0, <2>1, <2>2 DEF SocketShape
    <3>4. QED
      BY <1>0, <2>1, <3>1, <3>2, <3>3, CallerSame, Zenon
  <2>3. CallerOf(r)
    BY <1>0, Zenon DEF CallerShape
  <2>4. CallerOf(r)'
    BY <1>0, <2>1, <2>3 DEF CallerOf, SocketShape, Unsent, Before
  <2>5. QED
    BY <1>0, <2>1, <2>2, <2>4 DEF CallerShape
<1>12. ASSUME NEW r \in Request, Register(r) PROVE CallerShape'
  <2>0a. PICK c \in Connection :
              /\ phase[r] = "get" /\ c \in 0 .. made
              /\ conn' = [conn EXCEPT ![r] = c]
              /\ items' = [items EXCEPT ![r] = <<>>]
              /\ phase' = [phase EXCEPT ![r] = "write"]
              /\ UNCHANGED <<library, made, pool, slot, taken>>
    BY <1>12, <1>0, RegisterDoes, Zenon
  <2>1. /\ c # None
        /\ phase[r] = "get"
        /\ conn' = [conn EXCEPT ![r] = c]
        /\ items' = [items EXCEPT ![r] = <<>>]
        /\ phase' = [phase EXCEPT ![r] = "write"]
        /\ UNCHANGED <<library, made, pool, slot, taken>>
    BY <2>0a DEF Connection, None
  <2>2. ASSUME NEW q \in Request, q # r PROVE CallerOf(q)'
    <3>1. CallerOf(q)
      BY <1>0, Zenon DEF CallerShape
    <3>2. phase'[q] = phase[q] /\ conn'[q] = conn[q] /\ taken'[q] = taken[q] /\ items'[q] = items[q]
      BY <1>0, <2>1, <2>2 DEF SocketShape
    <3>3. pool[slot[q]] # None /\ library = "rust" => pool'[slot'[q]] # None
      BY <1>0, <2>1, <2>2 DEF SocketShape
    <3>4. QED
      BY <1>0, <2>1, <3>1, <3>2, <3>3, CallerSame, Zenon
  <2>3. CallerOf(r)
    BY <1>0, Zenon DEF CallerShape
  <2>4. CallerOf(r)'
    BY <1>0, <2>1, <2>3 DEF CallerOf, SocketShape, Unsent, Before
  <2>5. QED
    BY <1>0, <2>1, <2>2, <2>4, Zenon DEF CallerShape
<1>13. ASSUME NEW r \in Request, Write(r) PROVE CallerShape'
  <2>1. /\ phase[r] = "write"
        /\ phase' = [phase EXCEPT ![r] = "streaming"]
        /\ UNCHANGED <<library, made, pool, slot, conn, taken, items>>
    BY <1>13 DEF Write, Move, Enqueue, poolVars, connectionVars, callerVars, streamVars, historyVars
  <2>2. ASSUME NEW q \in Request, q # r PROVE CallerOf(q)'
    <3>1. CallerOf(q)
      BY <1>0, Zenon DEF CallerShape
    <3>2. phase'[q] = phase[q] /\ conn'[q] = conn[q] /\ taken'[q] = taken[q] /\ items'[q] = items[q]
      BY <1>0, <2>1, <2>2 DEF SocketShape
    <3>3. pool[slot[q]] # None /\ library = "rust" => pool'[slot'[q]] # None
      BY <1>0, <2>1, <2>2 DEF SocketShape
    <3>4. QED
      BY <1>0, <2>1, <3>1, <3>2, <3>3, CallerSame, Zenon
  <2>3. CallerOf(r)
    BY <1>0, Zenon DEF CallerShape
  <2>4. CallerOf(r)'
    BY <1>0, <2>1, <2>3 DEF CallerOf, SocketShape, Unsent, Before
  <2>5. QED
    BY <1>0, <2>1, <2>2, <2>4, Zenon DEF CallerShape
<1>14. ASSUME NEW r \in Request, WriteRefused(r) PROVE CallerShape'
  <2>1. /\ phase[r] = "write"
        /\ phase' = [phase EXCEPT ![r] = "check"] \/ phase' = [phase EXCEPT ![r] = "failed"]
        /\ UNCHANGED <<library, made, pool, slot, conn, taken, items>>
    BY <1>14, <1>0, WriteRefusedDoes, Zenon
  <2>2. ASSUME NEW q \in Request, q # r PROVE CallerOf(q)'
    <3>1. CallerOf(q)
      BY <1>0, Zenon DEF CallerShape
    <3>2. phase'[q] = phase[q] /\ conn'[q] = conn[q] /\ taken'[q] = taken[q] /\ items'[q] = items[q]
      BY <1>0, <2>1, <2>2 DEF SocketShape
    <3>3. pool[slot[q]] # None /\ library = "rust" => pool'[slot'[q]] # None
      BY <1>0, <2>1, <2>2 DEF SocketShape
    <3>4. QED
      BY <1>0, <2>1, <3>1, <3>2, <3>3, CallerSame, Zenon
  <2>3. CallerOf(r)
    BY <1>0, Zenon DEF CallerShape
  <2>4. CallerOf(r)'
    BY <1>0, <2>1, <2>3 DEF CallerOf, SocketShape, Unsent, Before
  <2>5. QED
    BY <1>0, <2>1, <2>2, <2>4, Zenon DEF CallerShape
<1>15. ASSUME NEW r \in Request, CancelRequest(r) PROVE CallerShape'
  <2>1. /\ phase[r] \in {"check", "connect", "get"}
        /\ phase' = [phase EXCEPT ![r] = "cancelled"]
        /\ UNCHANGED <<library, made, pool, slot, conn, taken, items>>
    BY <1>15 DEF CancelRequest, Move, poolVars, connectionVars, callerVars, streamVars, historyVars
  <2>2. ASSUME NEW q \in Request, q # r PROVE CallerOf(q)'
    <3>1. CallerOf(q)
      BY <1>0, Zenon DEF CallerShape
    <3>2. phase'[q] = phase[q] /\ conn'[q] = conn[q] /\ taken'[q] = taken[q] /\ items'[q] = items[q]
      BY <1>0, <2>1, <2>2 DEF SocketShape
    <3>3. pool[slot[q]] # None /\ library = "rust" => pool'[slot'[q]] # None
      BY <1>0, <2>1, <2>2 DEF SocketShape
    <3>4. QED
      BY <1>0, <2>1, <3>1, <3>2, <3>3, CallerSame, Zenon
  <2>3. CallerOf(r)
    BY <1>0, Zenon DEF CallerShape
  <2>4. CallerOf(r)'
    BY <1>0, <2>1, <2>3 DEF CallerOf, SocketShape, Unsent, Before
  <2>5. QED
    BY <1>0, <2>1, <2>2, <2>4, Zenon DEF CallerShape
<1>16. ASSUME NEW r \in Request, LockPool(r) PROVE CallerShape'
  <2>1. /\ library = "python" /\ phase[r] = "idle"
        /\ UNCHANGED <<library, made, items, taken>>
        /\ \/ phase' = [phase EXCEPT ![r] = "connect"] /\ conn' = conn
           \/ \E c \in Connection :
                 c # None /\ conn' = [conn EXCEPT ![r] = c] /\ phase' = [phase EXCEPT ![r] = "streaming"]
    <3>1. \A c \in Connection : c # None
      BY DEF Connection, None
    <3>2. QED
      BY <1>16, <1>0, <3>1, LockPoolDoes, Zenon
  <2>2. ASSUME NEW q \in Request, q # r PROVE CallerOf(q)'
    <3>1. CallerOf(q)
      BY <1>0, Zenon DEF CallerShape
    <3>2. phase'[q] = phase[q] /\ conn'[q] = conn[q] /\ taken'[q] = taken[q] /\ items'[q] = items[q]
      BY <1>0, <2>1, <2>2 DEF SocketShape
    <3>3. pool[slot[q]] # None /\ library = "rust" => pool'[slot'[q]] # None
      BY <2>1
    <3>4. QED
      BY <1>0, <2>1, <3>1, <3>2, <3>3, CallerSame, Zenon
  <2>3. CallerOf(r)
    BY <1>0, Zenon DEF CallerShape
  <2>4. CallerOf(r)'
    <3>1. /\ phase[r] \in Unsent /\ "streaming" \notin Unsent
          /\ phase[r] \notin {"streaming", "stopped", "ended"}
      BY <2>1 DEF Unsent, Before
    <3>2. items[r] = <<>> /\ taken[r] = 0 /\ taken[r] <= Len(items[r]) /\ library = "python"
      BY <2>1, <2>3, <3>1 DEF CallerOf
    <3>3. \/ phase'[r] = "connect"
          \/ phase'[r] = "streaming" /\ conn'[r] # None
      BY <1>0, <2>1 DEF SocketShape
    <3>4. QED
      BY <2>1, <3>1, <3>2, <3>3 DEF CallerOf
  <2>5. QED
    BY <1>0, <2>1, <2>2, <2>4, Zenon DEF CallerShape
<1>17. ASSUME NEW r \in Request, ConnectLocked(r) PROVE CallerShape'
  <2>0a. PICK c \in Connection :
              /\ library # "rust" /\ phase[r] \in {"idle", "connect"}
              /\ conn' = [conn EXCEPT ![r] = c]
              /\ phase' = [phase EXCEPT ![r] = "streaming"]
              /\ UNCHANGED <<library, slot, items, taken>>
              /\ library # "javascript" \/ made' = made
    BY <1>17, <1>0, SendDoes
  <2>1. /\ c # None
        /\ library # "rust" /\ phase[r] \in {"idle", "connect"}
        /\ conn' = [conn EXCEPT ![r] = c]
        /\ phase' = [phase EXCEPT ![r] = "streaming"]
        /\ UNCHANGED <<library, slot, items, taken>>
        /\ library # "javascript" \/ made' = made
    BY <2>0a DEF Connection, None
  <2>2. ASSUME NEW q \in Request, q # r PROVE CallerOf(q)'
    <3>1. CallerOf(q)
      BY <1>0, Zenon DEF CallerShape
    <3>2. phase'[q] = phase[q] /\ conn'[q] = conn[q] /\ taken'[q] = taken[q] /\ items'[q] = items[q]
      BY <1>0, <2>1, <2>2 DEF SocketShape
    <3>3. pool[slot[q]] # None /\ library = "rust" => pool'[slot'[q]] # None
      BY <2>1, Zenon
    <3>4. QED
      BY <1>0, <2>1, <3>1, <3>2, <3>3, CallerSame, Zenon
  <2>3. CallerOf(r)
    BY <1>0, Zenon DEF CallerShape
  <2>4. CallerOf(r)'
    BY <1>0, <2>1, <2>3 DEF CallerOf, SocketShape, Unsent, Before
  <2>5. QED
    BY <1>0, <2>1, <2>2, <2>4, Zenon DEF CallerShape
<1>18. ASSUME NEW r \in Request, ConnectFails(r) PROVE CallerShape'
  <2>1. /\ phase[r] = "connect"
        /\ phase' = [phase EXCEPT ![r] = "failed"]
        /\ UNCHANGED <<library, made, pool, slot, conn, taken, items>>
    BY <1>18 DEF ConnectFails, Move, poolVars, connectionVars, callerVars, streamVars, historyVars
  <2>2. ASSUME NEW q \in Request, q # r PROVE CallerOf(q)'
    <3>1. CallerOf(q)
      BY <1>0, Zenon DEF CallerShape
    <3>2. phase'[q] = phase[q] /\ conn'[q] = conn[q] /\ taken'[q] = taken[q] /\ items'[q] = items[q]
      BY <1>0, <2>1, <2>2 DEF SocketShape
    <3>3. pool[slot[q]] # None /\ library = "rust" => pool'[slot'[q]] # None
      BY <1>0, <2>1, <2>2 DEF SocketShape
    <3>4. QED
      BY <1>0, <2>1, <3>1, <3>2, <3>3, CallerSame, Zenon
  <2>3. CallerOf(r)
    BY <1>0, Zenon DEF CallerShape
  <2>4. CallerOf(r)'
    BY <1>0, <2>1, <2>3 DEF CallerOf, SocketShape, Unsent, Before
  <2>5. QED
    BY <1>0, <2>1, <2>2, <2>4, Zenon DEF CallerShape
<1>19. ASSUME NEW r \in Request, ContinueConversation(r) PROVE CallerShape'
  <2>0a. PICK c \in Connection :
              /\ library # "rust" /\ phase[r] \in {"idle", "connect"}
              /\ conn' = [conn EXCEPT ![r] = c]
              /\ phase' = [phase EXCEPT ![r] = "streaming"]
              /\ UNCHANGED <<library, slot, items, taken>>
              /\ library # "javascript" \/ made' = made
    BY <1>19, <1>0, SendDoes
  <2>1. /\ c # None
        /\ library # "rust" /\ phase[r] \in {"idle", "connect"}
        /\ conn' = [conn EXCEPT ![r] = c]
        /\ phase' = [phase EXCEPT ![r] = "streaming"]
        /\ UNCHANGED <<library, slot, items, taken>>
        /\ library # "javascript" \/ made' = made
    BY <2>0a DEF Connection, None
  <2>2. ASSUME NEW q \in Request, q # r PROVE CallerOf(q)'
    <3>1. CallerOf(q)
      BY <1>0, Zenon DEF CallerShape
    <3>2. phase'[q] = phase[q] /\ conn'[q] = conn[q] /\ taken'[q] = taken[q] /\ items'[q] = items[q]
      BY <1>0, <2>1, <2>2 DEF SocketShape
    <3>3. pool[slot[q]] # None /\ library = "rust" => pool'[slot'[q]] # None
      BY <2>1, Zenon
    <3>4. QED
      BY <1>0, <2>1, <3>1, <3>2, <3>3, CallerSame, Zenon
  <2>3. CallerOf(r)
    BY <1>0, Zenon DEF CallerShape
  <2>4. CallerOf(r)'
    BY <1>0, <2>1, <2>3 DEF CallerOf, SocketShape, Unsent, Before
  <2>5. QED
    BY <1>0, <2>1, <2>2, <2>4, Zenon DEF CallerShape
<1>20. ASSUME NEW r \in Request, YieldItem(r) PROVE CallerShape'
  <2>1. /\ phase[r] = "streaming" /\ taken[r] < Len(items[r])
        /\ phase' = [phase EXCEPT ![r] = "ended"] \/ phase' = phase
        /\ taken' = [taken EXCEPT ![r] = taken[r] + 1]
        /\ UNCHANGED <<library, made, pool, slot, conn, items>>
    BY <1>20, <1>0, YieldItemDoes, Zenon
  <2>2. ASSUME NEW q \in Request, q # r PROVE CallerOf(q)'
    <3>1. CallerOf(q)
      BY <1>0, Zenon DEF CallerShape
    <3>2. phase'[q] = phase[q] /\ conn'[q] = conn[q] /\ taken'[q] = taken[q] /\ items'[q] = items[q]
      BY <1>0, <2>1, <2>2 DEF SocketShape
    <3>3. pool[slot[q]] # None /\ library = "rust" => pool'[slot'[q]] # None
      BY <1>0, <2>1, <2>2 DEF SocketShape
    <3>4. QED
      BY <1>0, <2>1, <3>1, <3>2, <3>3, CallerSame, Zenon
  <2>3. CallerOf(r)
    BY <1>0, Zenon DEF CallerShape
  <2>4. CallerOf(r)'
    BY <1>0, <2>1, <2>3 DEF CallerOf, SocketShape, Unsent, Before
  <2>5. QED
    BY <1>0, <2>1, <2>2, <2>4, Zenon DEF CallerShape
<1>21. ASSUME NEW r \in Request, EndStream(r) PROVE CallerShape'
  <2>1. /\ phase[r] = "streaming"
        /\ phase' = [phase EXCEPT ![r] = "ended"]
        /\ UNCHANGED <<library, made, pool, slot, conn, taken, items>>
    BY <1>21 DEF EndStream, Move, poolVars, connectionVars, callerVars, streamVars, historyVars
  <2>2. ASSUME NEW q \in Request, q # r PROVE CallerOf(q)'
    <3>1. CallerOf(q)
      BY <1>0, Zenon DEF CallerShape
    <3>2. phase'[q] = phase[q] /\ conn'[q] = conn[q] /\ taken'[q] = taken[q] /\ items'[q] = items[q]
      BY <1>0, <2>1, <2>2 DEF SocketShape
    <3>3. pool[slot[q]] # None /\ library = "rust" => pool'[slot'[q]] # None
      BY <1>0, <2>1, <2>2 DEF SocketShape
    <3>4. QED
      BY <1>0, <2>1, <3>1, <3>2, <3>3, CallerSame, Zenon
  <2>3. CallerOf(r)
    BY <1>0, Zenon DEF CallerShape
  <2>4. CallerOf(r)'
    BY <1>0, <2>1, <2>3 DEF CallerOf, SocketShape, Unsent, Before
  <2>5. QED
    BY <1>0, <2>1, <2>2, <2>4, Zenon DEF CallerShape
<1>22. ASSUME NEW r \in Request, StopStream(r) PROVE CallerShape'
  <2>1. /\ phase[r] = "streaming"
        /\ phase' = [phase EXCEPT ![r] = "stopped"]
        /\ UNCHANGED <<library, made, pool, slot, conn, taken, items>>
    BY <1>22, <1>0, StopStreamDoes, Zenon
  <2>2. ASSUME NEW q \in Request, q # r PROVE CallerOf(q)'
    <3>1. CallerOf(q)
      BY <1>0, Zenon DEF CallerShape
    <3>2. phase'[q] = phase[q] /\ conn'[q] = conn[q] /\ taken'[q] = taken[q] /\ items'[q] = items[q]
      BY <1>0, <2>1, <2>2 DEF SocketShape
    <3>3. pool[slot[q]] # None /\ library = "rust" => pool'[slot'[q]] # None
      BY <1>0, <2>1, <2>2 DEF SocketShape
    <3>4. QED
      BY <1>0, <2>1, <3>1, <3>2, <3>3, CallerSame, Zenon
  <2>3. CallerOf(r)
    BY <1>0, Zenon DEF CallerShape
  <2>4. CallerOf(r)'
    BY <1>0, <2>1, <2>3 DEF CallerOf, SocketShape, Unsent, Before
  <2>5. QED
    BY <1>0, <2>1, <2>2, <2>4, Zenon DEF CallerShape
<1>23. CASE ClosePool
  <2>1. PICK closed \in SUBSET Connection :
              /\ items' = Told({q \in Request : \E c \in closed : q \in pending[c]}, "dropped")
              /\ library # "rust" /\ UNCHANGED <<library, made, phase, slot, conn, taken>>
    BY <1>23, <1>0, ClosePoolDoes
  <2>2. /\ \A q \in Request : Len(items[q]) <= Len(items'[q])
        /\ \A q \in Request : (\A d \in Connection : q \notin pending[d]) => items'[q] = items[q]
    <3> DEFINE S == {q \in Request : \E c \in closed : q \in pending[c]}
    <3>1. "dropped" \in Errors /\ S \in SUBSET Request
      BY DEF Errors
    <3>2. \A q \in Request : (\A d \in Connection : q \notin pending[d]) => q \in Request \ S
      OBVIOUS
    <3>3. items' = Told(S, "dropped")
      BY <2>1
    <3> HIDE DEF S
    <3>4. QED
      BY <1>0, <3>1, <3>2, <3>3, ToldIs, Zenon
  <2>3. QED
    BY <1>0, <2>1, <2>2, CallerGrows, Zenon
<1>24. CASE UNCHANGED socketClientVars
  BY <1>24, Zenon DEF SocketInv, CallerShape, CallerOf, socketClientVars
<1>25. QED
  BY <1>1, <1>2, <1>3, <1>4, <1>5, <1>6, <1>7, <1>8, <1>9, <1>10, <1>11, <1>12, <1>13, <1>14,
      <1>15, <1>16, <1>17, <1>18, <1>19, <1>20, <1>21, <1>22, <1>23, <1>24, Zenon DEF SocketNext

\* A step keeps the tasks where the socket is.
LEMMA TasksKept ==
    ASSUME SocketInv, [SocketNext]_socketClientVars
    PROVE  TasksFollowSocket'
<1>0. SocketShape /\ CallerShape /\ SocketShape'
  BY ShapeKept, Zenon DEF SocketInv
<1>1. ASSUME NEW c \in Connection, ReadFrame(c) PROVE TasksFollowSocket'
  <2>1. TasksFollowSocket
    BY Zenon DEF SocketInv
  <2>2. QED
    BY <1>1, <1>0, <2>1,
        ReadFrameDoes DEF TasksFollowSocket, SocketShape
<1>2. ASSUME NEW c \in Connection, ReadEnds(c) PROVE TasksFollowSocket'
  <2>1. TasksFollowSocket
    BY Zenon DEF SocketInv
  <2>2. QED
    BY <1>2, <1>0, <2>1,
        ReadingEndsDoes DEF TasksFollowSocket, SocketShape
<1>3. ASSUME NEW c \in Connection, ClearPending(c) PROVE TasksFollowSocket'
  <2>1. TasksFollowSocket
    BY Zenon DEF SocketInv
  <2>2. QED
    BY <1>3, <1>0,
        <2>1 DEF ClearPending, poolVars, connectionVars, callerVars, streamVars, historyVars,
        TasksFollowSocket, SocketShape
<1>4. ASSUME NEW c \in Connection, ReadLoopEnds(c) PROVE TasksFollowSocket'
  <2>1. TasksFollowSocket
    BY Zenon DEF SocketInv
  <2>2. QED
    BY <1>4, <1>0, <2>1,
        ReadingEndsDoes DEF TasksFollowSocket, SocketShape
<1>5. ASSUME NEW c \in Connection, WriteMessage(c) PROVE TasksFollowSocket'
  <2>1. TasksFollowSocket
    BY Zenon DEF SocketInv
  <2>2. QED
    BY <1>5, <1>0, <2>1,
        WriteMessageDoes DEF TasksFollowSocket, SocketShape
<1>6. ASSUME NEW c \in Connection, WriteFails(c) PROVE TasksFollowSocket'
  <2>1. TasksFollowSocket
    BY Zenon DEF SocketInv
  <2>2. /\ socket[c] = "closed" /\ UNCHANGED <<library, socket>>
        /\ reader' = reader \/ reader' = [reader EXCEPT ![c] = "finished"]
        /\ writer' = writer \/ writer' = [writer EXCEPT ![c] = "finished"]
    BY <1>6, <1>0, WriteFailsDoes, Zenon
  <2>3. QED
    BY <1>0, <2>1, <2>2 DEF TasksFollowSocket, SocketShape
<1>7. ASSUME NEW c \in Connection, SocketDrops(c) PROVE TasksFollowSocket'
  <2>1. TasksFollowSocket
    BY Zenon DEF SocketInv
  <2>2. QED
    BY <1>7, <1>0,
        <2>1 DEF SocketDrops, poolVars, connectionVars, callerVars, streamVars, historyVars,
        TasksFollowSocket, SocketShape
<1>8. ASSUME NEW c \in Connection, NEW r \in Request, NEW kind \in Kind, Answer(c, r, kind)
      PROVE  TasksFollowSocket'
  <2>1. TasksFollowSocket
    BY Zenon DEF SocketInv
  <2>2. QED
    BY <1>8, <1>0,
        <2>1 DEF Answer, poolVars, connectionVars, callerVars, streamVars, historyVars,
        TasksFollowSocket, SocketShape
<1>9. ASSUME NEW r \in Request, SendRequest(r) PROVE TasksFollowSocket'
  <2>1. TasksFollowSocket
    BY Zenon DEF SocketInv
  <2>2. QED
    BY <1>9, <1>0,
        <2>1 DEF SendRequest, Move, poolVars, connectionVars, callerVars, streamVars,
        historyVars, TasksFollowSocket, SocketShape
<1>10. ASSUME NEW r \in Request, CheckConnection(r) PROVE TasksFollowSocket'
  <2>1. TasksFollowSocket
    BY Zenon DEF SocketInv
  <2>2. QED
    BY <1>10, <1>0,
        <2>1 DEF CheckConnection, Move, poolVars, connectionVars, callerVars, streamVars,
        historyVars, TasksFollowSocket, SocketShape
<1>11. ASSUME NEW r \in Request, Connect(r) PROVE TasksFollowSocket'
  <2>1. TasksFollowSocket
    BY Zenon DEF SocketInv
  <2>2. QED
    BY <1>11, <1>0,
        <2>1 DEF Connect, Move, poolVars, connectionVars, callerVars, streamVars, historyVars,
        TasksFollowSocket, SocketShape
<1>12. ASSUME NEW r \in Request, Register(r) PROVE TasksFollowSocket'
  <2>1. TasksFollowSocket
    BY Zenon DEF SocketInv
  <2>2. UNCHANGED <<library, socket, reader, writer>>
    BY <1>12, <1>0, RegisterDoes, Zenon
  <2>3. QED
    BY <2>1, <2>2, Zenon DEF TasksFollowSocket
<1>13. ASSUME NEW r \in Request, Write(r) PROVE TasksFollowSocket'
  <2>1. TasksFollowSocket
    BY Zenon DEF SocketInv
  <2>2. QED
    BY <1>13, <1>0, <2>1 DEF Write,
        Move, Enqueue, poolVars, connectionVars, callerVars, streamVars, historyVars,
        TasksFollowSocket, SocketShape
<1>14. ASSUME NEW r \in Request, WriteRefused(r) PROVE TasksFollowSocket'
  <2>1. TasksFollowSocket
    BY Zenon DEF SocketInv
  <2>2. QED
    BY <1>14, <1>0, <2>1,
        WriteRefusedDoes DEF TasksFollowSocket, SocketShape
<1>15. ASSUME NEW r \in Request, CancelRequest(r) PROVE TasksFollowSocket'
  <2>1. TasksFollowSocket
    BY Zenon DEF SocketInv
  <2>2. QED
    BY <1>15, <1>0,
        <2>1 DEF CancelRequest, Move, poolVars, connectionVars, callerVars, streamVars,
        historyVars, TasksFollowSocket, SocketShape
<1>16. ASSUME NEW r \in Request, LockPool(r) PROVE TasksFollowSocket'
  <2>1. TasksFollowSocket
    BY Zenon DEF SocketInv
  <2>2. QED
    BY <1>16, <1>0, <2>1,
        LockPoolDoes DEF TasksFollowSocket, SocketShape
<1>17. ASSUME NEW r \in Request, ConnectLocked(r) PROVE TasksFollowSocket'
  <2>1. TasksFollowSocket
    BY Zenon DEF SocketInv
  <2>2. QED
    BY <1>17, <1>0, <2>1,
        SendDoes DEF TasksFollowSocket, SocketShape
<1>18. ASSUME NEW r \in Request, ConnectFails(r) PROVE TasksFollowSocket'
  <2>1. TasksFollowSocket
    BY Zenon DEF SocketInv
  <2>2. QED
    BY <1>18, <1>0,
        <2>1 DEF ConnectFails, Move, poolVars, connectionVars, callerVars, streamVars,
        historyVars, TasksFollowSocket, SocketShape
<1>19. ASSUME NEW r \in Request, ContinueConversation(r) PROVE TasksFollowSocket'
  <2>1. TasksFollowSocket
    BY Zenon DEF SocketInv
  <2>2. QED
    BY <1>19, <1>0, <2>1,
        SendDoes DEF TasksFollowSocket, SocketShape
<1>20. ASSUME NEW r \in Request, YieldItem(r) PROVE TasksFollowSocket'
  <2>1. TasksFollowSocket
    BY Zenon DEF SocketInv
  <2>2. QED
    BY <1>20, <1>0, <2>1,
        YieldItemDoes DEF TasksFollowSocket, SocketShape
<1>21. ASSUME NEW r \in Request, EndStream(r) PROVE TasksFollowSocket'
  <2>1. TasksFollowSocket
    BY Zenon DEF SocketInv
  <2>2. QED
    BY <1>21, <1>0,
        <2>1 DEF EndStream, Move, poolVars, connectionVars, callerVars, streamVars, historyVars,
        TasksFollowSocket, SocketShape
<1>22. ASSUME NEW r \in Request, StopStream(r) PROVE TasksFollowSocket'
  <2>1. TasksFollowSocket
    BY Zenon DEF SocketInv
  <2>2. QED
    BY <1>22, <1>0, <2>1,
        StopStreamDoes DEF TasksFollowSocket, SocketShape
<1>23. CASE ClosePool
  <2>1. TasksFollowSocket
    BY Zenon DEF SocketInv
  <2>2. PICK closed \in SUBSET Connection :
              /\ socket' = [c \in Connection |-> IF c \in closed THEN "closed" ELSE socket[c]]
              /\ reader' = [c \in Connection |-> IF c \in closed THEN "finished" ELSE reader[c]]
              /\ writer' = [c \in Connection |-> IF c \in closed THEN "finished" ELSE writer[c]]
              /\ library' = library
    BY <1>23, <1>0, ClosePoolDoes, Zenon
  <2>3. ASSUME NEW c \in Connection
        PROVE  /\ reader'[c] # "running" \/ writer'[c] # "running" => socket'[c] = "closed"
               /\ reader'[c] = "draining" => library' = "rust"
    BY <2>1, <2>2 DEF TasksFollowSocket
  <2>4. QED
    BY <2>3, Zenon DEF TasksFollowSocket
<1>24. CASE UNCHANGED socketClientVars
  BY <1>24, Zenon DEF SocketInv, TasksFollowSocket, socketClientVars
<1>25. QED
  BY <1>1, <1>2, <1>3, <1>4, <1>5, <1>6, <1>7, <1>8, <1>9, <1>10, <1>11, <1>12, <1>13, <1>14,
      <1>15, <1>16, <1>17, <1>18, <1>19, <1>20, <1>21, <1>22, <1>23, <1>24, Zenon DEF SocketNext

\* The rest of a sequence, ...
LEMMA TailIs ==
    ASSUME NEW S, NEW s \in Seq(S), Len(s) > 0
    PROVE  /\ Tail(s) \in Seq(S) /\ Len(Tail(s)) = Len(s) - 1 /\ Len(s) \in Nat
           /\ 1 \in 1 .. Len(s)
           /\ \A i \in 1 .. Len(Tail(s)) : i + 1 \in 1 .. Len(s) /\ Tail(s)[i] = s[i + 1]
           /\ \A i \in 1 .. Len(s) : i = 1 \/ (i - 1 \in 1 .. Len(Tail(s)) /\ Tail(s)[i - 1] = s[i])
OBVIOUS

\* ... one that is one longer, ...
LEMMA AppendIs ==
    ASSUME NEW S, NEW s \in Seq(S), NEW e \in S
    PROVE  /\ Append(s, e) \in Seq(S) /\ Len(Append(s, e)) = Len(s) + 1 /\ Len(s) \in Nat
           /\ Append(s, e)[Len(s) + 1] = e
           /\ \A i \in 1 .. Len(s) : i \in 1 .. Len(Append(s, e)) /\ Append(s, e)[i] = s[i]
           /\ \A i \in 1 .. Len(Append(s, e)) : i = Len(s) + 1 \/ i \in 1 .. Len(s)
OBVIOUS

\* ... and the beginning of one.
LEMMA CutIs ==
    ASSUME NEW S, NEW s \in Seq(S), NEW n \in 0 .. Len(s)
    PROVE  /\ SubSeq(s, 1, n) \in Seq(S) /\ Len(SubSeq(s, 1, n)) = n /\ Len(s) \in Nat
           /\ \A i \in 1 .. n : i \in 1 .. Len(s) /\ SubSeq(s, 1, n)[i] = s[i]
OBVIOUS

\* No trace of a request.
NoTrace(r) ==
    \A c \in Connection :
        /\ r \notin pending[c] /\ r \notin serving[c]
        /\ \A i \in 1 .. Len(queue[c]) : queue[c][i].id # r
        /\ \A i \in 1 .. Len(wire[c]) : wire[c][i].to # r

\* A request that is not on its way has no trace anywhere.
LEMMA UnsentHasNoTrace ==
    ASSUME SocketInv, NEW r \in Request, phase[r] \in Unsent, phase[r] # "write"
    PROVE  NoTrace(r)
<1>1. TracesAreHeld /\ RequestIsSingle
  BY Zenon DEF SocketInv
<1>2. asked[r] = 0 /\ sent[r] = <<>>
  BY <1>1, Zenon DEF RequestIsSingle
<1>3. ASSUME NEW c \in Connection
      PROVE  /\ r \notin pending[c] /\ r \notin serving[c]
             /\ \A i \in 1 .. Len(queue[c]) : queue[c][i].id # r
             /\ \A i \in 1 .. Len(wire[c]) : wire[c][i].to # r
  <2>1. r \notin pending[c]
    BY <1>1 DEF TracesAreHeld, TraceOn
  <2>2. r \notin serving[c]
    BY <1>1, <1>2 DEF TracesAreHeld, TraceOn
  <2>3. \A i \in 1 .. Len(queue[c]) : queue[c][i].id # r
    BY <1>1, Zenon DEF RequestIsSingle, MessageIsSingle
  <2>4. \A i \in 1 .. Len(wire[c]) : wire[c][i].to # r
    <3>1. SUFFICES ASSUME NEW i \in 1 .. Len(wire[c]) PROVE wire[c][i].to # r
      OBVIOUS
    <3>2. sent[wire[c][i].to] # <<>>
      BY <1>1, Zenon DEF TracesAreHeld, TraceOn
    <3>3. QED
      BY <1>2, <3>2
  <2>5. QED
    BY <2>1, <2>2, <2>3, <2>4
<1>4. QED
  BY <1>3, Zenon DEF NoTrace

\* The elements of one sequence are all in another.
Within(s, t) == \A i \in 1 .. Len(s) : \E j \in 1 .. Len(t) : s[i] = t[j]

\* What is left of a sequence, however little, was in it.
LEMMA RestIsWithin ==
    ASSUME NEW S, NEW s \in Seq(S)
    PROVE  /\ Within(s, s)
           /\ Len(s) > 0 => Within(Tail(s), s)
           /\ \A n \in 0 .. Len(s) : Within(SubSeq(s, 1, n), s)
<1>1. Within(s, s)
  BY DEF Within
<1>2. ASSUME Len(s) > 0, NEW i \in 1 .. Len(Tail(s)) PROVE \E j \in 1 .. Len(s) : Tail(s)[i] = s[j]
  <2>1. i + 1 \in 1 .. Len(s) /\ Tail(s)[i] = s[i + 1]
    BY <1>2
  <2>2. QED
    BY <2>1
<1>3. ASSUME NEW n \in 0 .. Len(s), NEW i \in 1 .. Len(SubSeq(s, 1, n))
      PROVE  \E j \in 1 .. Len(s) : SubSeq(s, 1, n)[i] = s[j]
  <2>1. i \in 1 .. Len(s) /\ SubSeq(s, 1, n)[i] = s[i]
    BY CutIs
  <2>2. QED
    BY <2>1
<1>4. QED
  BY <1>1, <1>2, <1>3 DEF Within

\* What is on a connection after a step was there before.
LEMMA TracesShrink ==
    ASSUME TracesAreHeld, UNCHANGED <<conn, phase, asked, sent>>,
           \A d \in Connection : pending'[d] \subseteq pending[d],
           \A d \in Connection : serving'[d] \subseteq serving[d],
           \A d \in Connection : Within(queue'[d], queue[d]),
           \A d \in Connection : Within(wire'[d], wire[d])
    PROVE  TracesAreHeld'
<1>1. ASSUME NEW d \in Connection PROVE TraceOn(d)'
  <2>1. TraceOn(d)
    BY Zenon DEF TracesAreHeld
  <2>2. \A r \in pending'[d] : conn'[r] = d /\ phase'[r] \notin Unsent \ {"write"}
    BY <2>1, Zenon DEF TraceOn
  <2>3. \A r \in serving'[d] : conn'[r] = d /\ asked'[r] = 1
    BY <2>1, Zenon DEF TraceOn
  <2>4. \A i \in 1 .. Len(queue'[d]) : conn'[queue'[d][i].id] = d
    <3>1. SUFFICES ASSUME NEW i \in 1 .. Len(queue'[d]) PROVE conn'[queue'[d][i].id] = d
      OBVIOUS
    <3>2. PICK j \in 1 .. Len(queue[d]) : queue'[d][i] = queue[d][j]
      BY Zenon DEF Within
    <3>3. conn[queue[d][j].id] = d
      BY <2>1, Zenon DEF TraceOn
    <3>4. QED
      BY <3>2, <3>3
  <2>5. \A i \in 1 .. Len(wire'[d]) : conn'[wire'[d][i].to] = d /\ sent'[wire'[d][i].to] # <<>>
    <3>1. SUFFICES ASSUME NEW i \in 1 .. Len(wire'[d])
                   PROVE  conn'[wire'[d][i].to] = d /\ sent'[wire'[d][i].to] # <<>>
      OBVIOUS
    <3>2. PICK j \in 1 .. Len(wire[d]) : wire'[d][i] = wire[d][j]
      BY Zenon DEF Within
    <3>3. conn[wire[d][j].to] = d /\ sent[wire[d][j].to] # <<>>
      BY <2>1, Zenon DEF TraceOn
    <3>4. QED
      BY <3>2, <3>3
  <2>6. QED
    BY <2>2, <2>3, <2>4, <2>5, Zenon DEF TraceOn
<1>2. QED
  BY <1>1, Zenon DEF TracesAreHeld

\* What is new on a connection belongs to one request, which holds it.
GrowsFor(r, c) ==
    /\ conn'[r] = c /\ (conn[r] = c \/ NoTrace(r))
    /\ \A q \in Request : q # r => conn'[q] = conn[q] /\ phase'[q] = phase[q]
    /\ \A q \in Request : q # r => asked'[q] = asked[q] /\ sent'[q] = sent[q]
    /\ (asked[r] = 1 => asked'[r] = 1) /\ (sent[r] # <<>> => sent'[r] # <<>>)
    /\ \A d \in Connection : \A q \in pending'[d] : q \in pending[d] \/ (q = r /\ d = c)
    /\ \A d \in Connection : r \in pending'[d] => phase'[r] \notin Unsent \ {"write"}
    /\ \A d \in Connection : \A q \in serving'[d] :
           q \in serving[d] \/ (q = r /\ d = c /\ asked'[r] = 1)
    /\ \A d \in Connection :
           \/ Within(queue'[d], queue[d])
           \/ d = c /\ \E m \in Message : m.id = r /\ queue'[d] = Append(queue[d], m)
    /\ \A d \in Connection :
           \/ Within(wire'[d], wire[d])
           \/ /\ d = c /\ sent'[r] # <<>>
              /\ \E f \in Frame : f.to = r /\ wire'[d] = Append(wire[d], f)

\* What one request adds is on its own connection.
LEMMA TracesGrow ==
    ASSUME TracesAreHeld, SocketShape, SocketShape', NEW r \in Request, NEW c, GrowsFor(r, c)
    PROVE  TracesAreHeld'
<1> USE DEF GrowsFor
<1>1. ASSUME NEW d \in Connection PROVE TraceOn(d)'
  <2>1. TraceOn(d)
    BY Zenon DEF TracesAreHeld
  <2>2. \A q \in pending'[d] : conn'[q] = d /\ phase'[q] \notin Unsent \ {"write"}
    <3>1. SUFFICES ASSUME NEW q \in pending'[d]
                   PROVE  conn'[q] = d /\ phase'[q] \notin Unsent \ {"write"}
      OBVIOUS
    <3>2. CASE q # r
      <4>0. q \in Request
        BY DEF SocketShape
      <4>1. q \in pending[d] /\ conn'[q] = conn[q] /\ phase'[q] = phase[q]
        BY <3>2, <4>0, Zenon
      <4>2. conn[q] = d /\ phase[q] \notin Unsent \ {"write"}
        BY <2>1, <4>1, Zenon DEF TraceOn
      <4>3. QED
        BY <4>1, <4>2, Zenon
    <3>3. CASE q = r
      <4>1. phase'[r] \notin Unsent \ {"write"} /\ (r \in pending[d] \/ d = c)
        BY <3>3, Zenon
      <4>2. r \in pending[d] => conn[r] = d /\ conn[r] = c
        BY <2>1, Zenon DEF TraceOn, NoTrace
      <4>3. QED
        BY <3>3, <4>1, <4>2, Zenon
    <3>4. QED
      BY <3>2, <3>3, Zenon
  <2>3. \A q \in serving'[d] : conn'[q] = d /\ asked'[q] = 1
    <3>1. SUFFICES ASSUME NEW q \in serving'[d] PROVE conn'[q] = d /\ asked'[q] = 1
      OBVIOUS
    <3>2. CASE q # r
      <4>0. q \in Request
        BY DEF SocketShape
      <4>1. q \in serving[d] /\ conn'[q] = conn[q] /\ asked'[q] = asked[q]
        BY <3>2, <4>0, Zenon
      <4>2. conn[q] = d /\ asked[q] = 1
        BY <2>1, <4>1, Zenon DEF TraceOn
      <4>3. QED
        BY <4>1, <4>2, Zenon
    <3>3. CASE q = r
      <4>1. r \in serving[d] \/ (d = c /\ asked'[r] = 1)
        BY <3>3, Zenon
      <4>2. r \in serving[d] => conn[r] = d /\ conn[r] = c /\ asked[r] = 1
        BY <2>1, Zenon DEF TraceOn, NoTrace
      <4>3. QED
        BY <3>3, <4>1, <4>2, Zenon
    <3>4. QED
      BY <3>2, <3>3, Zenon
  <2>4. ASSUME NEW j \in 1 .. Len(queue[d]) PROVE conn'[queue[d][j].id] = d
    <3>1. queue[d][j] \in Message
      <4>1. queue[d] \in Seq(Message)
        BY Zenon DEF SocketShape
      <4>2. QED
        BY <4>1
    <3>2. queue[d][j].id \in Request
      BY <3>1 DEF Message
    <3>3. conn[queue[d][j].id] = d
      BY <2>1, Zenon DEF TraceOn
    <3>4. queue[d][j].id = r => ~NoTrace(r)
      BY Zenon DEF NoTrace
    <3>5. QED
      BY <3>2, <3>3, <3>4, Zenon
  <2>5. \A i \in 1 .. Len(queue'[d]) : conn'[queue'[d][i].id] = d
    <3>1. SUFFICES ASSUME NEW i \in 1 .. Len(queue'[d]) PROVE conn'[queue'[d][i].id] = d
      OBVIOUS
    <3>2. CASE Within(queue'[d], queue[d])
      <4>1. PICK j \in 1 .. Len(queue[d]) : queue'[d][i] = queue[d][j]
        BY <3>2, Zenon DEF Within
      <4>2. QED
        BY <2>4, <4>1
    <3>3. CASE d = c /\ \E m \in Message : m.id = r /\ queue'[d] = Append(queue[d], m)
      <4>1. PICK m \in Message : m.id = r /\ queue'[d] = Append(queue[d], m)
        BY <3>3
      <4>2. queue[d] \in Seq(Message)
        BY DEF SocketShape
      <4>3. queue'[d][i] = m \/ (i \in 1 .. Len(queue[d]) /\ queue'[d][i] = queue[d][i])
        BY <4>1, <4>2
      <4>4. CASE queue'[d][i] = m
        BY <3>3, <4>1, <4>4, Zenon
      <4>5. CASE i \in 1 .. Len(queue[d]) /\ queue'[d][i] = queue[d][i]
        BY <2>4, <4>5
      <4>6. QED
        BY <4>3, <4>4, <4>5
    <3>4. QED
      BY <3>2, <3>3, Zenon
  <2>6. ASSUME NEW j \in 1 .. Len(wire[d]) PROVE conn'[wire[d][j].to] = d /\ sent'[wire[d][j].to] # <<>>
    <3>1. wire[d][j] \in Frame
      <4>1. wire[d] \in Seq(Frame)
        BY Zenon DEF SocketShape
      <4>2. QED
        BY <4>1
    <3>2. wire[d][j].to \in Request
      BY <3>1 DEF Frame
    <3>3. conn[wire[d][j].to] = d /\ sent[wire[d][j].to] # <<>>
      BY <2>1, Zenon DEF TraceOn
    <3>4. wire[d][j].to = r => ~NoTrace(r)
      BY Zenon DEF NoTrace
    <3>5. QED
      BY <3>2, <3>3, <3>4, Zenon
  <2>7. \A i \in 1 .. Len(wire'[d]) : conn'[wire'[d][i].to] = d /\ sent'[wire'[d][i].to] # <<>>
    <3>1. SUFFICES ASSUME NEW i \in 1 .. Len(wire'[d])
                   PROVE  conn'[wire'[d][i].to] = d /\ sent'[wire'[d][i].to] # <<>>
      OBVIOUS
    <3>2. CASE Within(wire'[d], wire[d])
      <4>1. PICK j \in 1 .. Len(wire[d]) : wire'[d][i] = wire[d][j]
        BY <3>2, Zenon DEF Within
      <4>2. QED
        BY <2>6, <4>1
    <3>3. CASE /\ d = c /\ sent'[r] # <<>>
               /\ \E f \in Frame : f.to = r /\ wire'[d] = Append(wire[d], f)
      <4>1. PICK f \in Frame : f.to = r /\ wire'[d] = Append(wire[d], f)
        BY <3>3
      <4>2. wire[d] \in Seq(Frame)
        BY DEF SocketShape
      <4>3. wire'[d][i] = f \/ (i \in 1 .. Len(wire[d]) /\ wire'[d][i] = wire[d][i])
        BY <4>1, <4>2
      <4>4. CASE wire'[d][i] = f
        BY <3>3, <4>1, <4>4, Zenon
      <4>5. CASE i \in 1 .. Len(wire[d]) /\ wire'[d][i] = wire[d][i]
        BY <2>6, <4>5
      <4>6. QED
        BY <4>3, <4>4, <4>5
    <3>4. QED
      BY <3>2, <3>3, Zenon
  <2>8. QED
    BY <2>2, <2>3, <2>5, <2>7, Zenon DEF TraceOn
<1>2. QED
  BY <1>1, Zenon DEF TracesAreHeld

\* The queues and the wires that a step leaves alone, or shortens.
LEMMA QueuesWithin ==
    ASSUME SocketShape,
           \A d \in Connection :
               queue'[d] = queue[d] \/ (Len(queue[d]) > 0 /\ queue'[d] = Tail(queue[d]))
    PROVE  \A d \in Connection : Within(queue'[d], queue[d])
<1>1. SUFFICES ASSUME NEW d \in Connection PROVE Within(queue'[d], queue[d])
  OBVIOUS
<1>2. queue[d] \in Seq(Message)
  BY DEF SocketShape
<1>3. Within(queue[d], queue[d]) /\ (Len(queue[d]) > 0 => Within(Tail(queue[d]), queue[d]))
  BY <1>2, RestIsWithin
<1>4. QED
  BY <1>3, Zenon

\* The same of the wires, which may also be cut off.
LEMMA WiresWithin ==
    ASSUME SocketShape,
           \A d \in Connection :
               \/ wire'[d] = wire[d]
               \/ Len(wire[d]) > 0 /\ wire'[d] = Tail(wire[d])
               \/ \E n \in 0 .. Len(wire[d]) : wire'[d] = SubSeq(wire[d], 1, n)
    PROVE  \A d \in Connection : Within(wire'[d], wire[d])
<1>1. SUFFICES ASSUME NEW d \in Connection PROVE Within(wire'[d], wire[d])
  OBVIOUS
<1>2. wire[d] \in Seq(Frame)
  BY DEF SocketShape
<1>3. /\ Within(wire[d], wire[d]) /\ (Len(wire[d]) > 0 => Within(Tail(wire[d]), wire[d]))
      /\ \A n \in 0 .. Len(wire[d]) : Within(SubSeq(wire[d], 1, n), wire[d])
  BY <1>2, RestIsWithin
<1>4. QED
  BY <1>3, Zenon

-----------------------------------------------------------------------------
(***************************************************************************)
(* The kinds of step, place by place: what each does to the frames, the    *)
(* messages, the channels and the callers, whichever library takes it.     *)
(***************************************************************************)
\* The other requests, and the other connections.
OtherCallers(r) == \A q \in Request : q # r => phase'[q] = phase[q] /\ conn'[q] = conn[q]
OtherPending(c) == \A d \in Connection : d # c => pending'[d] = pending[d]
OtherQueues(c) == \A d \in Connection : d # c => queue'[d] = queue[d]
OtherWires(c) == \A d \in Connection : d # c => wire'[d] = wire[d]
OtherServing(c) == \A d \in Connection : d # c => serving'[d] = serving[d]

\* A caller that has sent nothing goes on, or gives up.
StepQuiet ==
    /\ UNCHANGED <<library, socket, wire, queue, reader, writer, pending, serving>>
    /\ UNCHANGED <<conn, items, taken, sent, asked, late>>
    /\ \A q \in Request : \/ phase'[q] = phase[q]
                          \/ phase[q] \in Before /\ phase'[q] \in Before \cup {"cancelled", "failed"}

StepRegisters(r, c) ==
    /\ UNCHANGED <<library, socket, wire, queue, reader, writer, serving, taken, sent, asked>>
    /\ library = "rust"
    /\ phase[r] = "get" /\ phase'[r] = "write" /\ conn'[r] = c /\ OtherCallers(r)
    /\ pending'[c] = pending[c] \cup {r} /\ OtherPending(c)
    /\ items'[r] = <<>> /\ (late'[r] <=> reader[c] # "running")
    /\ \A q \in Request : q # r => items'[q] = items[q] /\ late'[q] = late[q]

\* The Python and the JavaScript client register and send in one step.
StepSends(r, c) ==
    /\ UNCHANGED <<library, socket, wire, reader, writer, serving, items, taken, sent, asked, late>>
    /\ library # "rust"
    /\ phase[r] \in {"idle", "connect"} /\ phase'[r] = "streaming" /\ conn'[r] = c /\ OtherCallers(r)
    /\ pending'[c] = pending[c] \cup {r} /\ OtherPending(c)
    /\ queue'[c] = Append(queue[c], [type |-> "request", id |-> r]) /\ OtherQueues(c)

StepWrites(r, c) ==
    /\ UNCHANGED <<library, socket, wire, reader, writer, pending, serving>>
    /\ UNCHANGED <<conn, items, taken, sent, asked, late>>
    /\ library = "rust" /\ conn[r] = c /\ writer[c] = "running"
    /\ phase[r] = "write" /\ phase'[r] = "streaming" /\ OtherCallers(r)
    /\ queue'[c] = Append(queue[c], [type |-> "request", id |-> r]) /\ OtherQueues(c)

StepRefused(r, c) ==
    /\ UNCHANGED <<library, socket, wire, queue, reader, writer, serving>>
    /\ UNCHANGED <<conn, items, taken, sent, asked, late>>
    /\ conn[r] = c /\ phase[r] = "write" /\ phase'[r] \in {"check", "failed"} /\ OtherCallers(r)
    /\ pending'[c] = pending[c] \ {r} /\ OtherPending(c)

StepYields(r) ==
    /\ UNCHANGED <<library, socket, wire, queue, reader, writer, pending, serving>>
    /\ UNCHANGED <<conn, items, sent, asked, late>>
    /\ phase[r] = "streaming" /\ OtherCallers(r)
    /\ taken[r] < Len(items[r]) /\ taken'[r] = taken[r] + 1
    /\ \A q \in Request : q # r => taken'[q] = taken[q]
    /\ \/ library # "rust" /\ IsReason(items[r][taken[r] + 1]) /\ phase'[r] = "ended"
       \/ phase'[r] = phase[r]

StepEnds(r) ==
    /\ UNCHANGED <<library, socket, wire, queue, reader, writer, pending, serving>>
    /\ UNCHANGED <<conn, items, taken, sent, asked, late>>
    /\ library = "rust" /\ phase[r] = "streaming" /\ phase'[r] = "ended" /\ OtherCallers(r)
    /\ taken[r] = Len(items[r]) /\ conn[r] \in Connection /\ r \notin pending[conn[r]]

StepStops(r, c) ==
    /\ UNCHANGED <<library, socket, wire, reader, writer, serving>>
    /\ UNCHANGED <<conn, items, taken, sent, asked, late>>
    /\ conn[r] = c /\ phase[r] = "streaming" /\ phase'[r] = "stopped" /\ OtherCallers(r)
    /\ pending'[c] = pending[c] \/ pending'[c] = pending[c] \ {r}
    /\ OtherPending(c) /\ OtherQueues(c)
    /\ \/ library = "rust" /\ queue'[c] = Append(queue[c], [type |-> "stop", id |-> r])
       \/ queue'[c] = queue[c] /\ (library # "rust" \/ writer[c] # "running")

\* A frame is taken from the wire: it is for a request that is pending, ...
StepReads(c) ==
    /\ UNCHANGED <<library, socket, queue, reader, writer, serving>>
    /\ UNCHANGED <<phase, conn, taken, sent, asked, late>>
    /\ Len(wire[c]) > 0 /\ wire[c][1].to \in Request /\ wire[c][1].kind \in Kind
    /\ reader[c] = "running" /\ wire'[c] = Tail(wire[c]) /\ OtherWires(c) /\ OtherPending(c)

StepDelivers(c) ==
    /\ StepReads(c)
    /\ wire[c][1].to \in pending[c]
    /\ items'[wire[c][1].to] = Append(items[wire[c][1].to], wire[c][1])
    /\ \A q \in Request : q # wire[c][1].to => items'[q] = items[q]
    /\ \/ pending'[c] = pending[c]
       \/ IsTerminal(wire[c][1].kind) /\ pending'[c] = pending[c] \ {wire[c][1].to}

\* ... or it is for none of them, or nobody can read it.
StepSpoils(c, S) ==
    /\ StepReads(c)
    /\ wire[c][1].to \in pending[c] => wire[c][1].to \in S
    /\ items' = Told(S, "unparsable") /\ pending'[c] = pending[c] \ S
    /\ library = "rust" => S = {}

StepReadEnds(c) ==
    /\ UNCHANGED <<library, socket, wire, queue, writer, pending, serving>>
    /\ UNCHANGED <<phase, conn, taken, sent, asked, late>>
    /\ library = "rust" /\ socket[c] = "closed" /\ reader[c] = "running" /\ reader'[c] = "draining"
    /\ \A d \in Connection : d # c => reader'[d] = reader[d]
    /\ items' = Told(pending[c], "dropped")

StepClears(c) ==
    /\ UNCHANGED <<library, socket, wire, queue, writer, serving>>
    /\ UNCHANGED <<phase, conn, items, taken, sent, asked, late>>
    /\ reader[c] = "draining" /\ reader'[c] = "finished" /\ pending'[c] = {}
    /\ \A d \in Connection : d # c => reader'[d] = reader[d]
    /\ OtherPending(c)

\* The Python client ends some of its connections.
StepDrains(closed) ==
    /\ UNCHANGED <<library, wire, phase, conn, taken, sent, asked, late>>
    /\ library = "python"
    /\ \A c \in Connection :
          /\ c \in closed => reader'[c] = "finished" /\ socket'[c] = "closed" /\ pending'[c] = {}
          /\ c \notin closed => /\ reader'[c] = reader[c] /\ socket'[c] = socket[c]
                                /\ pending'[c] = pending[c] /\ queue'[c] = queue[c]
          /\ serving'[c] \subseteq serving[c]
          /\ queue'[c] = queue[c] \/ (Len(queue[c]) > 0 /\ queue'[c] = Tail(queue[c]))
    /\ items' = Told({q \in Request : \E c \in closed : q \in pending[c]}, "dropped")

\* A message is taken from the queue: the balancer receives it, ...
StepUnqueues(c) ==
    /\ UNCHANGED <<library, socket, wire, reader, pending>>
    /\ UNCHANGED <<phase, conn, items, taken, sent, late>>
    /\ Len(queue[c]) > 0 /\ queue[c][1] \in Message /\ queue[c][1].id \in Request
    /\ queue'[c] = Tail(queue[c]) /\ OtherQueues(c) /\ OtherServing(c)

StepAsks(c) ==
    /\ StepUnqueues(c)
    /\ socket[c] = "open" /\ queue[c][1].type = "request"
    /\ serving'[c] = serving[c] \cup {queue[c][1].id}
    /\ asked'[queue[c][1].id] = asked[queue[c][1].id] + 1
    /\ \A q \in Request : q # queue[c][1].id => asked'[q] = asked[q]

StepOrdersStop(c) ==
    /\ StepUnqueues(c)
    /\ queue[c][1].type = "stop" /\ asked' = asked
    /\ serving'[c] = serving[c] \ {queue[c][1].id}

\* ... or it is lost.
StepLoses(c) ==
    /\ StepUnqueues(c)
    /\ socket[c] = "closed" /\ UNCHANGED <<asked, serving>>

StepDrops(c) ==
    /\ UNCHANGED <<library, queue, reader, writer, pending>>
    /\ UNCHANGED <<phase, conn, items, taken, sent, asked, late>>
    /\ socket'[c] = "closed" /\ \A d \in Connection : d # c => socket'[d] = socket[d]
    /\ \E n \in 0 .. Len(wire[c]) : wire'[c] = SubSeq(wire[c], 1, n)
    /\ OtherWires(c)
    /\ serving'[c] = {} /\ OtherServing(c)

StepAnswers(c, r, kind) ==
    /\ UNCHANGED <<library, socket, queue, reader, writer, pending>>
    /\ UNCHANGED <<phase, conn, items, taken, asked, late>>
    /\ socket[c] = "open" /\ r \in serving[c]
    /\ sent'[r] = Append(sent[r], [to |-> r, kind |-> kind])
    /\ \A q \in Request : q # r => sent'[q] = sent[q]
    /\ wire'[c] = Append(wire[c], [to |-> r, kind |-> kind]) /\ OtherWires(c)
    /\ OtherServing(c) /\ serving'[c] \subseteq serving[c] /\ (kind \in RustTerminal => r \notin serving'[c])
    /\ \A q \in serving[c] : q # r => q \in serving'[c]

Step ==
    \/ StepQuiet
    \/ \E r \in Request, c \in Connection :
          \/ StepRegisters(r, c) \/ StepSends(r, c) \/ StepWrites(r, c) \/ StepRefused(r, c)
          \/ StepStops(r, c)
    \/ \E r \in Request : StepYields(r) \/ StepEnds(r)
    \/ \E c \in Connection :
          \/ StepDelivers(c) \/ StepReadEnds(c) \/ StepClears(c)
          \/ StepAsks(c) \/ StepOrdersStop(c) \/ StepLoses(c) \/ StepDrops(c)
    \/ \E c \in Connection : \E S \in SUBSET pending[c] : StepSpoils(c, S)
    \/ \E closed \in SUBSET Connection : StepDrains(closed)
    \/ \E c \in Connection, r \in Request, kind \in Kind : StepAnswers(c, r, kind)

\* A caller that has sent nothing moves.
LEMMA PhaseMoves ==
    ASSUME SocketShape, NEW r \in Request, phase[r] \in Before,
           NEW T, \E to \in T : phase' = [phase EXCEPT ![r] = to]
    PROVE  \A q \in Request : phase'[q] = phase[q] \/ (phase[q] \in Before /\ phase'[q] \in T)
BY DEF SocketShape

\* A request is put on a connection.
LEMMA SendsOne ==
    ASSUME SocketShape, NEW r \in Request, library # "rust", phase[r] \in {"idle", "connect"},
           UNCHANGED <<library, socket, wire, reader, writer, serving, items, taken, sent, asked, late>>,
           \E c \in Connection :
              /\ pending' = [pending EXCEPT ![c] = pending[c] \cup {r}]
              /\ queue' = [queue EXCEPT ![c] = Append(queue[c], [type |-> "request", id |-> r])]
              /\ conn' = [conn EXCEPT ![r] = c]
              /\ phase' = [phase EXCEPT ![r] = "streaming"]
    PROVE  \E c \in Connection : StepSends(r, c)
<1>1. PICK c \in Connection :
              /\ pending' = [pending EXCEPT ![c] = pending[c] \cup {r}]
              /\ queue' = [queue EXCEPT ![c] = Append(queue[c], [type |-> "request", id |-> r])]
              /\ conn' = [conn EXCEPT ![r] = c]
              /\ phase' = [phase EXCEPT ![r] = "streaming"]
  OBVIOUS
<1>2. phase'[r] = "streaming" /\ conn'[r] = c /\ OtherCallers(r)
  BY <1>1 DEF SocketShape, OtherCallers
<1>3. pending'[c] = pending[c] \cup {r} /\ OtherPending(c)
  BY <1>1 DEF SocketShape, OtherPending
<1>4. queue'[c] = Append(queue[c], [type |-> "request", id |-> r]) /\ OtherQueues(c)
  BY <1>1 DEF SocketShape, OtherQueues
<1>5. StepSends(r, c)
  BY <1>2, <1>3, <1>4, Zenon DEF StepSends
<1>6. QED
  BY <1>5

\* The Python client ends one of its connections.
LEMMA DrainsOne ==
    ASSUME SocketShape, NEW c \in Connection, library = "python", socket[c] = "closed",
           UNCHANGED <<library, socket, wire, serving, phase, conn, taken, sent, asked, late>>,
           reader' = [reader EXCEPT ![c] = "finished"], pending' = [pending EXCEPT ![c] = {}],
           items' = Told(pending[c], "dropped"),
           \/ queue' = queue
           \/ Len(queue[c]) > 0 /\ queue' = [queue EXCEPT ![c] = Tail(queue[c])]
    PROVE  StepDrains({c})
<1>1. {q \in Request : \E d \in {c} : q \in pending[d]} = pending[c]
  BY DEF SocketShape
<1>2. ASSUME NEW d \in Connection
      PROVE  /\ d \in {c} => reader'[d] = "finished" /\ socket'[d] = "closed" /\ pending'[d] = {}
             /\ d \notin {c} => /\ reader'[d] = reader[d] /\ socket'[d] = socket[d]
                                /\ pending'[d] = pending[d] /\ queue'[d] = queue[d]
             /\ serving'[d] \subseteq serving[d]
             /\ queue'[d] = queue[d] \/ (Len(queue[d]) > 0 /\ queue'[d] = Tail(queue[d]))
  BY DEF SocketShape
<1>3. QED
  BY <1>1, <1>2, Zenon DEF StepDrains

\* Every step of the sockets is of one of these kinds.
LEMMA StepIs ==
    ASSUME SocketInv, [SocketNext]_socketClientVars
    PROVE  Step
<1>0. SocketShape /\ CallerShape
  BY Zenon DEF SocketInv
<1>1. ASSUME NEW c \in Connection, ReadFrame(c) PROVE Step
  <2>1. StepReads(c)
    <3>1. /\ reader[c] = "running" /\ Len(wire[c]) > 0
          /\ wire[c][1].to \in Request /\ wire[c][1].kind \in Kind
          /\ wire' = [wire EXCEPT ![c] = Tail(wire[c])]
          /\ UNCHANGED <<library, socket, queue, reader, writer, serving>>
          /\ UNCHANGED <<phase, conn, taken, sent, asked, late>>
      BY <1>1, <1>0, ReadFrameDoes, Zenon
    <3>2. wire'[c] = Tail(wire[c]) /\ OtherWires(c)
      BY <1>0, <3>1 DEF SocketShape, OtherWires
    <3>3. \/ pending' = [pending EXCEPT ![c] = pending[c] \ {wire[c][1].to}]
          \/ pending' = pending
          \/ \E S \in SUBSET pending[c] : pending' = [pending EXCEPT ![c] = pending[c] \ S]
      BY <1>1, <1>0, ReadFrameDoes, Zenon
    <3>4. pending' = pending \/ \E S : pending' = [pending EXCEPT ![c] = pending[c] \ S]
      BY <3>3, Zenon
    <3>5. OtherPending(c)
      BY <1>0, <3>4 DEF SocketShape, OtherPending
    <3>6. QED
      BY <3>1, <3>2, <3>5, Zenon DEF StepReads
  <2>2. CASE /\ wire[c][1].to \in pending[c]
             /\ items' = [items EXCEPT ![wire[c][1].to] = Append(items[wire[c][1].to], wire[c][1])]
             /\ \/ /\ IsTerminal(wire[c][1].kind)
                   /\ pending' = [pending EXCEPT ![c] = pending[c] \ {wire[c][1].to}]
                \/ pending' = pending
    <3>1. wire[c][1].to \in Request
      BY <2>1, Zenon DEF StepReads
    <3>2. /\ items'[wire[c][1].to] = Append(items[wire[c][1].to], wire[c][1])
          /\ \A q \in Request : q # wire[c][1].to => items'[q] = items[q]
      BY <1>0, <2>2, <3>1 DEF SocketShape
    <3>3. pending' = [pending EXCEPT ![c] = pending[c] \ {wire[c][1].to}]
              => pending'[c] = pending[c] \ {wire[c][1].to}
      BY <1>0 DEF SocketShape
    <3>4. StepDelivers(c)
      BY <2>1, <2>2, <3>2, <3>3, Zenon DEF StepDelivers
    <3>5. QED
      BY <3>4, Zenon DEF Step
  <2>3. CASE \E spoiled \in SUBSET pending[c] :
                /\ library = "rust" => spoiled = {}
                /\ wire[c][1].to \in pending[c] => wire[c][1].to \in spoiled
                /\ items' = Told(spoiled, "unparsable")
                /\ pending' = [pending EXCEPT ![c] = pending[c] \ spoiled]
    <3>1. PICK S \in SUBSET pending[c] :
                /\ library = "rust" => S = {}
                /\ wire[c][1].to \in pending[c] => wire[c][1].to \in S
                /\ items' = Told(S, "unparsable")
                /\ pending' = [pending EXCEPT ![c] = pending[c] \ S]
      BY <2>3, Zenon
    <3>2. pending'[c] = pending[c] \ S
      BY <1>0, <3>1 DEF SocketShape
    <3>3. StepSpoils(c, S)
      BY <2>1, <3>1, <3>2, Zenon DEF StepSpoils
    <3>4. QED
      BY <3>3, Zenon DEF Step
  <2>4. QED
    BY <1>1, <1>0, <2>2, <2>3, ReadFrameDoes, Zenon
<1>2. ASSUME NEW c \in Connection, ReadEnds(c) PROVE Step
  <2>1. /\ reader[c] = "running" /\ socket[c] = "closed"
        /\ items' = Told(pending[c], "dropped")
        /\ UNCHANGED <<library, socket, wire, queue, serving, phase, conn, taken, sent, asked, late>>
    BY <1>2, ReadingEndsDoes, Zenon
  <2>2. library = "rust" /\ reader' = [reader EXCEPT ![c] = "draining"] /\ UNCHANGED <<writer, pending>>
    BY <1>2, Zenon DEF ReadEnds
  <2>3. reader'[c] = "draining" /\ \A d \in Connection : d # c => reader'[d] = reader[d]
    BY <1>0, <2>2 DEF SocketShape
  <2>4. StepReadEnds(c)
    BY <2>1, <2>2, <2>3, Zenon DEF StepReadEnds
  <2>5. QED
    BY <2>4, Zenon DEF Step
<1>3. ASSUME NEW c \in Connection, ClearPending(c) PROVE Step
  <2>1. /\ reader[c] = "draining"
        /\ UNCHANGED <<library, socket, wire, queue, writer, serving>>
        /\ UNCHANGED <<phase, conn, items, taken, sent, asked, late>>
        /\ reader' = [reader EXCEPT ![c] = "finished"]
        /\ pending' = [pending EXCEPT ![c] = {}]
    BY <1>3, Zenon DEF ClearPending, callerVars, historyVars, streamVars
  <2>2. reader'[c] = "finished" /\ \A d \in Connection : d # c => reader'[d] = reader[d]
    BY <1>0, <2>1 DEF SocketShape
  <2>3. pending'[c] = {} /\ OtherPending(c)
    BY <1>0, <2>1 DEF SocketShape, OtherPending
  <2>4. StepClears(c)
    BY <2>1, <2>2, <2>3, Zenon DEF StepClears
  <2>5. QED
    BY <2>4, Zenon DEF Step
<1>4. ASSUME NEW c \in Connection, ReadLoopEnds(c) PROVE Step
  <2>1. /\ reader[c] = "running" /\ socket[c] = "closed"
        /\ items' = Told(pending[c], "dropped")
        /\ UNCHANGED <<library, socket, wire, queue, serving, phase, conn, taken, sent, asked, late>>
    BY <1>4, ReadingEndsDoes, Zenon
  <2>2. library = "python" /\ DrainPending(c)
    BY <1>4, Zenon DEF ReadLoopEnds
  <2>3. /\ reader' = [reader EXCEPT ![c] = "finished"]
        /\ pending' = [pending EXCEPT ![c] = {}]
    BY <2>2, Zenon DEF DrainPending
  <2>4. StepDrains({c})
    BY <1>0, <2>1, <2>2, <2>3, DrainsOne
  <2>5. {c} \in SUBSET Connection
    OBVIOUS
  <2>6. QED
    BY <2>4, <2>5, Zenon DEF Step
<1>5. ASSUME NEW c \in Connection, WriteMessage(c) PROVE Step
  <2>1. /\ Len(queue[c]) > 0 /\ socket[c] = "open"
        /\ queue[c][1] \in Message /\ queue[c][1].id \in Request
        /\ queue' = [queue EXCEPT ![c] = Tail(queue[c])]
        /\ UNCHANGED <<library, socket, wire, reader, pending, phase, conn, items, taken, sent, late>>
    BY <1>5, <1>0, WriteMessageDoes, Zenon
  <2>2. queue'[c] = Tail(queue[c]) /\ OtherQueues(c)
    BY <1>0, <2>1 DEF SocketShape, OtherQueues
  <2>3. CASE /\ queue[c][1].type = "request"
             /\ serving' = [serving EXCEPT ![c] = serving[c] \cup {queue[c][1].id}]
             /\ asked' = [asked EXCEPT ![queue[c][1].id] = asked[queue[c][1].id] + 1]
    <3>1. serving'[c] = serving[c] \cup {queue[c][1].id} /\ OtherServing(c)
      BY <1>0, <2>3 DEF SocketShape, OtherServing
    <3>2. /\ asked'[queue[c][1].id] = asked[queue[c][1].id] + 1
          /\ \A q \in Request : q # queue[c][1].id => asked'[q] = asked[q]
      BY <1>0, <2>1, <2>3 DEF SocketShape
    <3>3. StepAsks(c)
      BY <2>1, <2>2, <2>3, <3>1, <3>2, Zenon DEF StepAsks, StepUnqueues
    <3>4. QED
      BY <3>3, Zenon DEF Step
  <2>4. CASE /\ queue[c][1].type = "stop"
             /\ serving' = [serving EXCEPT ![c] = serving[c] \ {queue[c][1].id}]
             /\ asked' = asked
    <3>1. serving'[c] = serving[c] \ {queue[c][1].id} /\ OtherServing(c)
      BY <1>0, <2>4 DEF SocketShape, OtherServing
    <3>2. StepOrdersStop(c)
      BY <2>1, <2>2, <2>4, <3>1, Zenon DEF StepOrdersStop, StepUnqueues
    <3>3. QED
      BY <3>2, Zenon DEF Step
  <2>5. QED
    BY <1>5, <1>0, <2>3, <2>4, WriteMessageDoes, Zenon
<1>6. ASSUME NEW c \in Connection, WriteFails(c) PROVE Step
  <2>1. /\ Len(queue[c]) > 0 /\ socket[c] = "closed"
        /\ queue' = [queue EXCEPT ![c] = Tail(queue[c])]
        /\ UNCHANGED <<library, socket, wire, serving, phase, conn, taken, sent, asked, late>>
    BY <1>6, <1>0, WriteFailsDoes, Zenon
  <2>2. CASE library # "python" /\ UNCHANGED <<reader, pending, items>>
    <3>1. queue[c][1] \in Message /\ queue[c][1].id \in Request
      <4>1. queue[c][1] \in Message
        BY <1>0, <2>1 DEF SocketShape
      <4>2. QED
        BY <4>1 DEF Message
    <3>2. queue'[c] = Tail(queue[c]) /\ OtherQueues(c) /\ OtherServing(c)
      BY <1>0, <2>1 DEF SocketShape, OtherQueues, OtherServing
    <3>3. StepLoses(c)
      BY <2>1, <2>2, <3>1, <3>2, Zenon DEF StepLoses, StepUnqueues
    <3>4. QED
      BY <3>3, Zenon DEF Step
  <2>3. CASE /\ library = "python"
             /\ reader' = [reader EXCEPT ![c] = "finished"]
             /\ pending' = [pending EXCEPT ![c] = {}]
             /\ items' = Told(pending[c], "dropped")
    <3>1. StepDrains({c})
      BY <1>0, <2>1, <2>3, DrainsOne
    <3>2. {c} \in SUBSET Connection
      OBVIOUS
    <3>3. QED
      BY <3>1, <3>2, Zenon DEF Step
  <2>4. "rust" # "python" /\ "javascript" # "python"
    OBVIOUS
  <2>5. QED
    BY <1>6, <1>0, <2>2, <2>3, <2>4, WriteFailsDoes, Zenon
<1>7. ASSUME NEW c \in Connection, SocketDrops(c) PROVE Step
  <2>1. /\ UNCHANGED <<library, queue, reader, writer, pending>>
        /\ UNCHANGED <<phase, conn, items, taken, sent, asked, late>>
        /\ socket' = [socket EXCEPT ![c] = "closed"]
        /\ serving' = [serving EXCEPT ![c] = {}]
        /\ \E n \in 0 .. Len(wire[c]) : wire' = [wire EXCEPT ![c] = SubSeq(wire[c], 1, n)]
    BY <1>7, Zenon DEF SocketDrops, callerVars, streamVars
  <2>2. socket'[c] = "closed" /\ \A d \in Connection : d # c => socket'[d] = socket[d]
    BY <1>0, <2>1 DEF SocketShape
  <2>3. serving'[c] = {} /\ OtherServing(c)
    BY <1>0, <2>1 DEF SocketShape, OtherServing
  <2>4. PICK n \in 0 .. Len(wire[c]) : wire' = [wire EXCEPT ![c] = SubSeq(wire[c], 1, n)]
    BY <2>1
  <2>5. wire'[c] = SubSeq(wire[c], 1, n) /\ OtherWires(c)
    BY <1>0, <2>4 DEF SocketShape, OtherWires
  <2>6. StepDrops(c)
    BY <2>1, <2>2, <2>3, <2>5, Zenon DEF StepDrops
  <2>7. QED
    BY <2>6, Zenon DEF Step
<1>8. ASSUME NEW c \in Connection, NEW r \in Request, NEW kind \in Kind, Answer(c, r, kind) PROVE Step
  <2>1. /\ socket[c] = "open" /\ r \in serving[c]
        /\ UNCHANGED <<library, socket, queue, reader, writer, pending>>
        /\ UNCHANGED <<phase, conn, items, taken, asked, late>>
        /\ sent' = [sent EXCEPT ![r] = Append(sent[r], [to |-> r, kind |-> kind])]
        /\ wire' = [wire EXCEPT ![c] = Append(wire[c], [to |-> r, kind |-> kind])]
        /\ serving' = IF kind \in RustTerminal THEN [serving EXCEPT ![c] = serving[c] \ {r}] ELSE serving
    BY <1>8, Zenon DEF Answer, callerVars, streamVars
  <2>2. /\ sent'[r] = Append(sent[r], [to |-> r, kind |-> kind])
        /\ \A q \in Request : q # r => sent'[q] = sent[q]
    BY <1>0, <2>1 DEF SocketShape
  <2>3. wire'[c] = Append(wire[c], [to |-> r, kind |-> kind]) /\ OtherWires(c)
    BY <1>0, <2>1 DEF SocketShape, OtherWires
  <2>4. /\ OtherServing(c) /\ serving'[c] \subseteq serving[c]
        /\ kind \in RustTerminal => r \notin serving'[c]
        /\ \A q \in serving[c] : q # r => q \in serving'[c]
    BY <1>0, <2>1 DEF SocketShape, OtherServing
  <2>5. StepAnswers(c, r, kind)
    BY <2>1, <2>2, <2>3, <2>4, Zenon DEF StepAnswers
  <2>6. QED
    BY <2>5, Zenon DEF Step
<1>9. ASSUME NEW r \in Request, SendRequest(r) PROVE Step
  <2>1. phase[r] \in Before
    BY <1>9 DEF SendRequest, Before
  <2>2. \E to \in Before \cup {"cancelled", "failed"} : phase' = [phase EXCEPT ![r] = to]
    BY <1>9 DEF SendRequest, Move, Before
  <2>3. /\ UNCHANGED <<library, socket, wire, queue, reader, writer, pending, serving>>
        /\ UNCHANGED <<conn, items, taken, sent, asked, late>>
    BY <1>9, Zenon DEF SendRequest, poolVars, connectionVars, callerVars, streamVars, historyVars
  <2>4. StepQuiet
    BY <1>0, <2>1, <2>2, <2>3, PhaseMoves, Zenon DEF StepQuiet
  <2>5. QED
    BY <2>4, Zenon DEF Step
<1>10. ASSUME NEW r \in Request, CheckConnection(r) PROVE Step
  <2>1. phase[r] \in Before
    BY <1>10 DEF CheckConnection, Before
  <2>2. \E to \in Before \cup {"cancelled", "failed"} : phase' = [phase EXCEPT ![r] = to]
    BY <1>10 DEF CheckConnection, Move, Before
  <2>3. /\ UNCHANGED <<library, socket, wire, queue, reader, writer, pending, serving>>
        /\ UNCHANGED <<conn, items, taken, sent, asked, late>>
    BY <1>10, Zenon DEF CheckConnection, poolVars, connectionVars, callerVars, streamVars, historyVars
  <2>4. StepQuiet
    BY <1>0, <2>1, <2>2, <2>3, PhaseMoves, Zenon DEF StepQuiet
  <2>5. QED
    BY <2>4, Zenon DEF Step
<1>11. ASSUME NEW r \in Request, Connect(r) PROVE Step
  <2>1. phase[r] \in Before
    BY <1>11 DEF Connect, Before
  <2>2. \E to \in Before \cup {"cancelled", "failed"} : phase' = [phase EXCEPT ![r] = to]
    BY <1>11 DEF Connect, Move, Before
  <2>3. /\ UNCHANGED <<library, socket, wire, queue, reader, writer, pending, serving>>
        /\ UNCHANGED <<conn, items, taken, sent, asked, late>>
    BY <1>11, Zenon DEF Connect, poolVars, connectionVars, callerVars, streamVars, historyVars
  <2>4. StepQuiet
    BY <1>0, <2>1, <2>2, <2>3, PhaseMoves, Zenon DEF StepQuiet
  <2>5. QED
    BY <2>4, Zenon DEF Step
<1>12. ASSUME NEW r \in Request, Register(r) PROVE Step
  <2>1. PICK c \in Connection :
              /\ phase[r] = "get"
              /\ conn' = [conn EXCEPT ![r] = c]
              /\ pending' = [pending EXCEPT ![c] = pending[c] \cup {r}]
              /\ late' = [late EXCEPT ![r] = reader[c] # "running"]
              /\ items' = [items EXCEPT ![r] = <<>>]
              /\ phase' = [phase EXCEPT ![r] = "write"]
              /\ UNCHANGED <<library, socket, wire, queue, reader, writer, serving, taken, sent, asked>>
    BY <1>12, <1>0, RegisterDoes, Zenon
  <2>2. library = "rust"
    BY <1>0, <2>1 DEF CallerShape, CallerOf
  <2>3. phase'[r] = "write" /\ conn'[r] = c /\ OtherCallers(r)
    BY <1>0, <2>1 DEF SocketShape, OtherCallers
  <2>4. pending'[c] = pending[c] \cup {r} /\ OtherPending(c)
    BY <1>0, <2>1 DEF SocketShape, OtherPending
  <2>5. /\ items'[r] = <<>>
        /\ \A q \in Request : q # r => items'[q] = items[q]
    BY <1>0, <2>1 DEF SocketShape
  <2>6. /\ late'[r] = (reader[c] # "running")
        /\ \A q \in Request : q # r => late'[q] = late[q]
    BY <1>0, <2>1, Zenon DEF SocketShape
  <2>7. StepRegisters(r, c)
    BY <2>1, <2>2, <2>3, <2>4, <2>5, <2>6, Zenon DEF StepRegisters
  <2>8. QED
    BY <2>7, Zenon DEF Step
<1>13. ASSUME NEW r \in Request, Write(r) PROVE Step
  <2>1. /\ phase[r] = "write" /\ writer[conn[r]] = "running"
        /\ queue' = [queue EXCEPT ![conn[r]] = Append(queue[conn[r]], [type |-> "request", id |-> r])]
        /\ phase' = [phase EXCEPT ![r] = "streaming"]
        /\ UNCHANGED <<library, socket, wire, reader, writer, pending, serving>>
        /\ UNCHANGED <<conn, items, taken, sent, asked, late>>
    BY <1>13, Zenon DEF Write, Move, Enqueue, streamVars, historyVars
  <2>2. library = "rust" /\ conn[r] \in Connection
    BY <1>0, <2>1, HeldIsConnection DEF CallerShape, CallerOf
  <2>3. phase'[r] = "streaming" /\ OtherCallers(r)
    BY <1>0, <2>1 DEF SocketShape, OtherCallers
  <2>4. /\ queue'[conn[r]] = Append(queue[conn[r]], [type |-> "request", id |-> r])
        /\ OtherQueues(conn[r])
    BY <1>0, <2>1, <2>2 DEF SocketShape, OtherQueues
  <2>5. StepWrites(r, conn[r])
    BY <2>1, <2>2, <2>3, <2>4, Zenon DEF StepWrites
  <2>6. QED
    BY <2>2, <2>5, Zenon DEF Step
<1>14. ASSUME NEW r \in Request, WriteRefused(r) PROVE Step
  <2>1. /\ phase[r] = "write" /\ conn[r] \in Connection
        /\ pending' = [pending EXCEPT ![conn[r]] = pending[conn[r]] \ {r}]
        /\ UNCHANGED <<library, socket, wire, queue, reader, writer, serving>>
        /\ UNCHANGED <<conn, items, taken, sent, asked, late>>
        /\ phase' = [phase EXCEPT ![r] = "check"] \/ phase' = [phase EXCEPT ![r] = "failed"]
    BY <1>14, <1>0, WriteRefusedDoes, Zenon
  <2>2. phase'[r] \in {"check", "failed"} /\ OtherCallers(r)
    BY <1>0, <2>1 DEF SocketShape, OtherCallers
  <2>3. pending'[conn[r]] = pending[conn[r]] \ {r} /\ OtherPending(conn[r])
    BY <1>0, <2>1 DEF SocketShape, OtherPending
  <2>4. StepRefused(r, conn[r])
    BY <2>1, <2>2, <2>3, Zenon DEF StepRefused
  <2>5. QED
    BY <2>1, <2>4, Zenon DEF Step
<1>15. ASSUME NEW r \in Request, CancelRequest(r) PROVE Step
  <2>1. phase[r] \in Before
    BY <1>15 DEF CancelRequest, Before
  <2>2. \E to \in Before \cup {"cancelled", "failed"} : phase' = [phase EXCEPT ![r] = to]
    BY <1>15 DEF CancelRequest, Move, Before
  <2>3. /\ UNCHANGED <<library, socket, wire, queue, reader, writer, pending, serving>>
        /\ UNCHANGED <<conn, items, taken, sent, asked, late>>
    BY <1>15, Zenon DEF CancelRequest, poolVars, connectionVars, callerVars, streamVars, historyVars
  <2>4. StepQuiet
    BY <1>0, <2>1, <2>2, <2>3, PhaseMoves, Zenon DEF StepQuiet
  <2>5. QED
    BY <2>4, Zenon DEF Step
<1>16. ASSUME NEW r \in Request, LockPool(r) PROVE Step
  <2>1. /\ library = "python" /\ phase[r] = "idle"
        /\ UNCHANGED <<library, socket, wire, reader, writer, serving, items, taken, sent, asked, late>>
    BY <1>16, <1>0, LockPoolDoes, Zenon
  <2>2. CASE \E c \in Connection :
                /\ pending' = [pending EXCEPT ![c] = pending[c] \cup {r}]
                /\ queue' = [queue EXCEPT ![c] = Append(queue[c], [type |-> "request", id |-> r])]
                /\ conn' = [conn EXCEPT ![r] = c]
                /\ phase' = [phase EXCEPT ![r] = "streaming"]
    <3>1. library # "rust" /\ phase[r] \in {"idle", "connect"}
      BY <2>1
    <3>2. QED
      BY <1>0, <2>1, <2>2, <3>1, SendsOne, Zenon DEF Step
  <2>3. CASE phase' = [phase EXCEPT ![r] = "connect"] /\ UNCHANGED <<pending, queue, conn>>
    <3>1. phase[r] \in Before /\ "connect" \in Before \cup {"cancelled", "failed"}
      BY <2>1 DEF Before
    <3>2. \E to \in Before \cup {"cancelled", "failed"} : phase' = [phase EXCEPT ![r] = to]
      BY <2>3, <3>1, Zenon
    <3>3. StepQuiet
      BY <1>0, <2>1, <2>3, <3>1, <3>2, PhaseMoves, Zenon DEF StepQuiet
    <3>4. QED
      BY <3>3, Zenon DEF Step
  <2>4. QED
    BY <1>16, <1>0, <2>2, <2>3, LockPoolDoes, Zenon
<1>17. ASSUME NEW r \in Request, ConnectLocked(r) PROVE Step
  <2>1. /\ library # "rust" /\ phase[r] \in {"idle", "connect"}
        /\ UNCHANGED <<library, socket, wire, reader, writer, serving, items, taken, sent, asked, late>>
        /\ \E c \in Connection :
              /\ pending' = [pending EXCEPT ![c] = pending[c] \cup {r}]
              /\ queue' = [queue EXCEPT ![c] = Append(queue[c], [type |-> "request", id |-> r])]
              /\ conn' = [conn EXCEPT ![r] = c]
              /\ phase' = [phase EXCEPT ![r] = "streaming"]
    BY <1>17, <1>0, SendDoes, Zenon
  <2>2. QED
    BY <1>0, <2>1, SendsOne, Zenon DEF Step
<1>18. ASSUME NEW r \in Request, ConnectFails(r) PROVE Step
  <2>1. phase[r] \in Before
    BY <1>18 DEF ConnectFails, Before
  <2>2. \E to \in Before \cup {"cancelled", "failed"} : phase' = [phase EXCEPT ![r] = to]
    BY <1>18 DEF ConnectFails, Move, Before
  <2>3. /\ UNCHANGED <<library, socket, wire, queue, reader, writer, pending, serving>>
        /\ UNCHANGED <<conn, items, taken, sent, asked, late>>
    BY <1>18, Zenon DEF ConnectFails, poolVars, connectionVars, callerVars, streamVars, historyVars
  <2>4. StepQuiet
    BY <1>0, <2>1, <2>2, <2>3, PhaseMoves, Zenon DEF StepQuiet
  <2>5. QED
    BY <2>4, Zenon DEF Step
<1>19. ASSUME NEW r \in Request, ContinueConversation(r) PROVE Step
  <2>1. /\ library # "rust" /\ phase[r] \in {"idle", "connect"}
        /\ UNCHANGED <<library, socket, wire, reader, writer, serving, items, taken, sent, asked, late>>
        /\ \E c \in Connection :
              /\ pending' = [pending EXCEPT ![c] = pending[c] \cup {r}]
              /\ queue' = [queue EXCEPT ![c] = Append(queue[c], [type |-> "request", id |-> r])]
              /\ conn' = [conn EXCEPT ![r] = c]
              /\ phase' = [phase EXCEPT ![r] = "streaming"]
    BY <1>19, <1>0, SendDoes, Zenon
  <2>2. QED
    BY <1>0, <2>1, SendsOne, Zenon DEF Step
<1>20. ASSUME NEW r \in Request, YieldItem(r) PROVE Step
  <2>1. /\ phase[r] = "streaming" /\ taken[r] < Len(items[r])
        /\ taken' = [taken EXCEPT ![r] = taken[r] + 1]
        /\ UNCHANGED <<library, socket, wire, queue, reader, writer, pending, serving>>
        /\ UNCHANGED <<conn, items, sent, asked, late>>
    BY <1>20, <1>0, YieldItemDoes, Zenon
  <2>2. taken'[r] = taken[r] + 1 /\ \A q \in Request : q # r => taken'[q] = taken[q]
    BY <1>0, <2>1 DEF SocketShape
  <2>3. \/ /\ library # "rust" /\ IsReason(items[r][taken[r] + 1])
           /\ phase' = [phase EXCEPT ![r] = "ended"]
        \/ phase' = phase
    BY <1>20, Zenon DEF YieldItem, Move, IsReason, Errors
  <2>4. phase' = [phase EXCEPT ![r] = "ended"] => phase'[r] = "ended" /\ OtherCallers(r)
    BY <1>0, <2>1 DEF SocketShape, OtherCallers
  <2>5. phase' = phase => phase'[r] = phase[r] /\ OtherCallers(r)
    BY <2>1 DEF OtherCallers
  <2>6. StepYields(r)
    BY <2>1, <2>2, <2>3, <2>4, <2>5, Zenon DEF StepYields
  <2>7. QED
    BY <2>6, Zenon DEF Step
<1>21. ASSUME NEW r \in Request, EndStream(r) PROVE Step
  <2>1. /\ library = "rust" /\ phase[r] = "streaming" /\ taken[r] = Len(items[r])
        /\ r \notin pending[conn[r]]
        /\ phase' = [phase EXCEPT ![r] = "ended"]
        /\ UNCHANGED <<library, socket, wire, queue, reader, writer, pending, serving>>
        /\ UNCHANGED <<conn, items, taken, sent, asked, late>>
    BY <1>21, Zenon DEF EndStream, Move, connectionVars, streamVars, historyVars
  <2>2. conn[r] \in Connection
    BY <1>0, <2>1, HeldIsConnection DEF CallerShape, CallerOf
  <2>3. phase'[r] = "ended" /\ OtherCallers(r)
    BY <1>0, <2>1 DEF SocketShape, OtherCallers
  <2>4. StepEnds(r)
    BY <2>1, <2>2, <2>3, Zenon DEF StepEnds
  <2>5. QED
    BY <2>4, Zenon DEF Step
<1>22. ASSUME NEW r \in Request, StopStream(r) PROVE Step
  <2>1. /\ phase[r] = "streaming" /\ conn[r] \in Connection
        /\ phase' = [phase EXCEPT ![r] = "stopped"]
        /\ UNCHANGED <<library, socket, wire, reader, writer, serving>>
        /\ UNCHANGED <<conn, items, taken, sent, asked, late>>
        /\ \/ pending' = pending
           \/ pending' = [pending EXCEPT ![conn[r]] = pending[conn[r]] \ {r}]
        /\ \/ /\ library = "rust"
              /\ queue' = [queue EXCEPT ![conn[r]] =
                                      Append(queue[conn[r]], [type |-> "stop", id |-> r])]
           \/ queue' = queue /\ (library # "rust" \/ writer[conn[r]] # "running")
    BY <1>22, <1>0, StopStreamDoes, Zenon
  <2>2. phase'[r] = "stopped" /\ OtherCallers(r)
    BY <1>0, <2>1 DEF SocketShape, OtherCallers
  <2>3. pending'[conn[r]] = pending[conn[r]] \/ pending'[conn[r]] = pending[conn[r]] \ {r}
    BY <1>0, <2>1 DEF SocketShape
  <2>4. OtherPending(conn[r]) /\ OtherQueues(conn[r])
    BY <1>0, <2>1 DEF SocketShape, OtherPending, OtherQueues
  <2>5. queue' = [queue EXCEPT ![conn[r]] = Append(queue[conn[r]], [type |-> "stop", id |-> r])]
          => queue'[conn[r]] = Append(queue[conn[r]], [type |-> "stop", id |-> r])
    BY <1>0, <2>1 DEF SocketShape
  <2>6. StepStops(r, conn[r])
    BY <2>1, <2>2, <2>3, <2>4, <2>5, Zenon DEF StepStops
  <2>7. QED
    BY <2>1, <2>6, Zenon DEF Step
<1>23. CASE ClosePool
  <2>1. PICK closed \in SUBSET Connection :
              /\ library = "python"
              /\ socket' = [c \in Connection |-> IF c \in closed THEN "closed" ELSE socket[c]]
              /\ reader' = [c \in Connection |-> IF c \in closed THEN "finished" ELSE reader[c]]
              /\ serving' = [c \in Connection |-> IF c \in closed THEN {} ELSE serving[c]]
              /\ pending' = [c \in Connection |-> IF c \in closed THEN {} ELSE pending[c]]
              /\ items' = Told({q \in Request : \E c \in closed : q \in pending[c]}, "dropped")
              /\ UNCHANGED <<library, wire, queue, phase, conn, taken, sent, asked, late>>
    BY <1>23, <1>0, ClosePoolDoes, Zenon
  <2>2. ASSUME NEW c \in Connection
        PROVE  /\ c \in closed => reader'[c] = "finished" /\ socket'[c] = "closed" /\ pending'[c] = {}
               /\ c \notin closed => /\ reader'[c] = reader[c] /\ socket'[c] = socket[c]
                                     /\ pending'[c] = pending[c] /\ queue'[c] = queue[c]
               /\ serving'[c] \subseteq serving[c]
               /\ queue'[c] = queue[c]
    BY <2>1
  <2>3. StepDrains(closed)
    BY <2>1, <2>2, Zenon DEF StepDrains
  <2>4. QED
    BY <2>3, Zenon DEF Step
<1>24. CASE UNCHANGED socketClientVars
  <2>1. StepQuiet
    BY <1>24, Zenon DEF StepQuiet, socketClientVars
  <2>2. QED
    BY <2>1, Zenon DEF Step
<1>25. QED
  BY <1>1, <1>2, <1>3, <1>4, <1>5, <1>6, <1>7, <1>8, <1>9, <1>10, <1>11, <1>12, <1>13, <1>14,
      <1>15, <1>16, <1>17, <1>18, <1>19, <1>20, <1>21, <1>22, <1>23, <1>24, Zenon DEF SocketNext

\* A step keeps the traces of a request on its connection.
LEMMA TracesKept ==
    ASSUME SocketInv, SocketShape', Step
    PROVE  TracesAreHeld'
<1>0. SocketShape /\ TracesAreHeld
  BY Zenon DEF SocketInv
<1>1. CASE StepQuiet
  <2>1. UNCHANGED <<wire, queue, pending, serving, conn, sent, asked>>
    BY <1>1, Zenon DEF StepQuiet
  <2>2. ASSUME NEW d \in Connection, NEW q \in pending[d] PROVE phase'[q] = phase[q]
    <3>1. q \in Request /\ phase[q] \notin Unsent \ {"write"}
      BY <1>0, <2>2 DEF SocketShape, TracesAreHeld, TraceOn
    <3>2. QED
      BY <1>1, <3>1 DEF StepQuiet, Unsent, Before
  <2>3. ASSUME NEW d \in Connection PROVE TraceOn(d)'
    <3>1. TraceOn(d)
      BY <1>0, Zenon DEF TracesAreHeld
    <3>2. \A q \in pending[d] : conn[q] = d /\ phase'[q] \notin Unsent \ {"write"}
      BY <2>2, <3>1, Zenon DEF TraceOn
    <3>3. QED
      BY <2>1, <3>1, <3>2, Zenon DEF TraceOn
  <2>4. QED
    BY <2>3, Zenon DEF TracesAreHeld
<1>2. ASSUME NEW r \in Request, NEW c \in Connection, StepRegisters(r, c) PROVE TracesAreHeld'
  <2>1. NoTrace(r)
    <3>1. phase[r] \in Unsent /\ phase[r] # "write"
      BY <1>2 DEF StepRegisters, Unsent, Before
    <3>2. QED
      BY <3>1, UnsentHasNoTrace
  <2>2. conn'[r] = c /\ (conn[r] = c \/ NoTrace(r))
    BY <1>2, <1>0, <2>1, Zenon DEF StepRegisters
  <2>3. /\ \A q \in Request : q # r => conn'[q] = conn[q] /\ phase'[q] = phase[q]
        /\ \A q \in Request : q # r => asked'[q] = asked[q] /\ sent'[q] = sent[q]
    BY <1>2, Zenon DEF StepRegisters, OtherCallers
  <2>4. (asked[r] = 1 => asked'[r] = 1) /\ (sent[r] # <<>> => sent'[r] # <<>>)
    BY <1>2, <1>0, <2>1, Zenon DEF StepRegisters
  <2>5. \A d \in Connection : \A q \in pending'[d] : q \in pending[d] \/ (q = r /\ d = c)
    BY <1>2 DEF StepRegisters, OtherPending
  <2>6. \A d \in Connection : r \in pending'[d] => phase'[r] \notin Unsent \ {"write"}
    BY <1>2 DEF StepRegisters, Unsent, Before
  <2>7. \A d \in Connection : \A q \in serving'[d] :
            q \in serving[d] \/ (q = r /\ d = c /\ asked'[r] = 1)
    BY <1>2, Zenon DEF StepRegisters, OtherServing
  <2>8. \A d \in Connection : Within(queue[d], queue[d]) /\ Within(wire[d], wire[d])
    BY <1>0, RestIsWithin DEF SocketShape
  <2>9. \A d \in Connection : Within(queue'[d], queue[d])
    BY <1>2, <2>8, Zenon DEF StepRegisters
  <2>10. \A d \in Connection : Within(wire'[d], wire[d])
    BY <1>2, <2>8, Zenon DEF StepRegisters
  <2>11. GrowsFor(r, c)
    BY <1>0, <2>1, <2>2, <2>3, <2>4, <2>5, <2>6, <2>7, <2>9, <2>10, Zenon DEF GrowsFor
  <2>12. QED
    BY <1>0, <2>11, TracesGrow, Zenon
<1>3. ASSUME NEW r \in Request, NEW c \in Connection, StepSends(r, c) PROVE TracesAreHeld'
  <2>1. NoTrace(r)
    <3>1. phase[r] \in Unsent /\ phase[r] # "write"
      BY <1>3 DEF StepSends, Unsent, Before
    <3>2. QED
      BY <3>1, UnsentHasNoTrace
  <2>2. conn'[r] = c /\ (conn[r] = c \/ NoTrace(r))
    BY <1>3, <1>0, <2>1, Zenon DEF StepSends
  <2>3. /\ \A q \in Request : q # r => conn'[q] = conn[q] /\ phase'[q] = phase[q]
        /\ \A q \in Request : q # r => asked'[q] = asked[q] /\ sent'[q] = sent[q]
    BY <1>3, Zenon DEF StepSends, OtherCallers
  <2>4. (asked[r] = 1 => asked'[r] = 1) /\ (sent[r] # <<>> => sent'[r] # <<>>)
    BY <1>3, <1>0, <2>1, Zenon DEF StepSends
  <2>5. \A d \in Connection : \A q \in pending'[d] : q \in pending[d] \/ (q = r /\ d = c)
    BY <1>3 DEF StepSends, OtherPending
  <2>6. \A d \in Connection : r \in pending'[d] => phase'[r] \notin Unsent \ {"write"}
    BY <1>3 DEF StepSends, Unsent, Before
  <2>7. \A d \in Connection : \A q \in serving'[d] :
            q \in serving[d] \/ (q = r /\ d = c /\ asked'[r] = 1)
    BY <1>3, Zenon DEF StepSends, OtherServing
  <2>8. \A d \in Connection : Within(queue[d], queue[d]) /\ Within(wire[d], wire[d])
    BY <1>0, RestIsWithin DEF SocketShape
  <2>9. [type |-> "request", id |-> r] \in Message /\ [type |-> "request", id |-> r].id = r
    BY DEF Message
  <2>10. \A d \in Connection :
            \/ Within(queue'[d], queue[d])
            \/ d = c /\ \E m \in Message : m.id = r /\ queue'[d] = Append(queue[d], m)
    BY <1>3, <2>8, <2>9, Zenon DEF StepSends, OtherQueues
  <2>11. \A d \in Connection : Within(wire'[d], wire[d])
    BY <1>3, <2>8, Zenon DEF StepSends
  <2>12. GrowsFor(r, c)
    BY <1>0, <2>1, <2>2, <2>3, <2>4, <2>5, <2>6, <2>7, <2>10, <2>11, Zenon DEF GrowsFor
  <2>13. QED
    BY <1>0, <2>12, TracesGrow, Zenon
<1>4. ASSUME NEW r \in Request, NEW c \in Connection, StepWrites(r, c) PROVE TracesAreHeld'
  <2>1. conn[r] = c
    BY <1>4, Zenon DEF StepWrites
  <2>2. conn'[r] = c /\ (conn[r] = c \/ NoTrace(r))
    BY <1>4, <1>0, <2>1, Zenon DEF StepWrites
  <2>3. /\ \A q \in Request : q # r => conn'[q] = conn[q] /\ phase'[q] = phase[q]
        /\ \A q \in Request : q # r => asked'[q] = asked[q] /\ sent'[q] = sent[q]
    BY <1>4, Zenon DEF StepWrites, OtherCallers
  <2>4. (asked[r] = 1 => asked'[r] = 1) /\ (sent[r] # <<>> => sent'[r] # <<>>)
    BY <1>4, <1>0, <2>1, Zenon DEF StepWrites
  <2>5. \A d \in Connection : \A q \in pending'[d] : q \in pending[d] \/ (q = r /\ d = c)
    BY <1>4 DEF StepWrites, OtherPending
  <2>6. \A d \in Connection : r \in pending'[d] => phase'[r] \notin Unsent \ {"write"}
    BY <1>4 DEF StepWrites, Unsent, Before
  <2>7. \A d \in Connection : \A q \in serving'[d] :
            q \in serving[d] \/ (q = r /\ d = c /\ asked'[r] = 1)
    BY <1>4, Zenon DEF StepWrites, OtherServing
  <2>8. \A d \in Connection : Within(queue[d], queue[d]) /\ Within(wire[d], wire[d])
    BY <1>0, RestIsWithin DEF SocketShape
  <2>9. [type |-> "request", id |-> r] \in Message /\ [type |-> "request", id |-> r].id = r
    BY DEF Message
  <2>10. \A d \in Connection :
            \/ Within(queue'[d], queue[d])
            \/ d = c /\ \E m \in Message : m.id = r /\ queue'[d] = Append(queue[d], m)
    BY <1>4, <2>8, <2>9, Zenon DEF StepWrites, OtherQueues
  <2>11. \A d \in Connection : Within(wire'[d], wire[d])
    BY <1>4, <2>8, Zenon DEF StepWrites
  <2>12. GrowsFor(r, c)
    BY <1>0, <2>1, <2>2, <2>3, <2>4, <2>5, <2>6, <2>7, <2>10, <2>11, Zenon DEF GrowsFor
  <2>13. QED
    BY <1>0, <2>12, TracesGrow, Zenon
<1>5. ASSUME NEW r \in Request, NEW c \in Connection, StepRefused(r, c) PROVE TracesAreHeld'
  <2>1. conn[r] = c
    BY <1>5, Zenon DEF StepRefused
  <2>2. conn'[r] = c /\ (conn[r] = c \/ NoTrace(r))
    BY <1>5, <1>0, <2>1, Zenon DEF StepRefused
  <2>3. /\ \A q \in Request : q # r => conn'[q] = conn[q] /\ phase'[q] = phase[q]
        /\ \A q \in Request : q # r => asked'[q] = asked[q] /\ sent'[q] = sent[q]
    BY <1>5, Zenon DEF StepRefused, OtherCallers
  <2>4. (asked[r] = 1 => asked'[r] = 1) /\ (sent[r] # <<>> => sent'[r] # <<>>)
    BY <1>5, <1>0, <2>1, Zenon DEF StepRefused
  <2>5. \A d \in Connection : \A q \in pending'[d] : q \in pending[d] \/ (q = r /\ d = c)
    BY <1>5 DEF StepRefused, OtherPending
  <2>6. \A d \in Connection : r \notin pending'[d]
    BY <1>5, <1>0 DEF StepRefused, OtherPending, TracesAreHeld, TraceOn
  <2>7. \A d \in Connection : r \in pending'[d] => phase'[r] \notin Unsent \ {"write"}
    BY <2>6, Zenon
  <2>8. \A d \in Connection : \A q \in serving'[d] :
            q \in serving[d] \/ (q = r /\ d = c /\ asked'[r] = 1)
    BY <1>5, Zenon DEF StepRefused, OtherServing
  <2>9. \A d \in Connection : Within(queue[d], queue[d]) /\ Within(wire[d], wire[d])
    BY <1>0, RestIsWithin DEF SocketShape
  <2>10. \A d \in Connection : Within(queue'[d], queue[d])
    BY <1>5, <2>9, Zenon DEF StepRefused
  <2>11. \A d \in Connection : Within(wire'[d], wire[d])
    BY <1>5, <2>9, Zenon DEF StepRefused
  <2>12. GrowsFor(r, c)
    BY <1>0, <2>1, <2>2, <2>3, <2>4, <2>5, <2>7, <2>8, <2>10, <2>11, Zenon DEF GrowsFor
  <2>13. QED
    BY <1>0, <2>12, TracesGrow, Zenon
<1>6. ASSUME NEW r \in Request, NEW c \in Connection, StepStops(r, c) PROVE TracesAreHeld'
  <2>1. conn[r] = c
    BY <1>6, Zenon DEF StepStops
  <2>2. conn'[r] = c /\ (conn[r] = c \/ NoTrace(r))
    BY <1>6, <1>0, <2>1, Zenon DEF StepStops
  <2>3. /\ \A q \in Request : q # r => conn'[q] = conn[q] /\ phase'[q] = phase[q]
        /\ \A q \in Request : q # r => asked'[q] = asked[q] /\ sent'[q] = sent[q]
    BY <1>6, Zenon DEF StepStops, OtherCallers
  <2>4. (asked[r] = 1 => asked'[r] = 1) /\ (sent[r] # <<>> => sent'[r] # <<>>)
    BY <1>6, <1>0, <2>1, Zenon DEF StepStops
  <2>5. \A d \in Connection : \A q \in pending'[d] : q \in pending[d] \/ (q = r /\ d = c)
    BY <1>6 DEF StepStops, OtherPending
  <2>6. \A d \in Connection : r \in pending'[d] => phase'[r] \notin Unsent \ {"write"}
    BY <1>6 DEF StepStops, Unsent, Before
  <2>7. \A d \in Connection : \A q \in serving'[d] :
            q \in serving[d] \/ (q = r /\ d = c /\ asked'[r] = 1)
    BY <1>6, Zenon DEF StepStops, OtherServing
  <2>8. \A d \in Connection : Within(queue[d], queue[d]) /\ Within(wire[d], wire[d])
    BY <1>0, RestIsWithin DEF SocketShape
  <2>9. [type |-> "stop", id |-> r] \in Message /\ [type |-> "stop", id |-> r].id = r
    BY DEF Message
  <2>10. \A d \in Connection :
            \/ Within(queue'[d], queue[d])
            \/ d = c /\ \E m \in Message : m.id = r /\ queue'[d] = Append(queue[d], m)
    BY <1>6, <2>8, <2>9, Zenon DEF StepStops, OtherQueues
  <2>11. \A d \in Connection : Within(wire'[d], wire[d])
    BY <1>6, <2>8, Zenon DEF StepStops
  <2>12. GrowsFor(r, c)
    BY <1>0, <2>1, <2>2, <2>3, <2>4, <2>5, <2>6, <2>7, <2>10, <2>11, Zenon DEF GrowsFor
  <2>13. QED
    BY <1>0, <2>12, TracesGrow, Zenon
<1>7. ASSUME NEW r \in Request, StepYields(r) PROVE TracesAreHeld'
  <2>1. conn[r] = conn[r]
    OBVIOUS
  <2>2. conn'[r] = conn[r] /\ (conn[r] = conn[r] \/ NoTrace(r))
    BY <1>7, <1>0, <2>1, Zenon DEF StepYields
  <2>3. /\ \A q \in Request : q # r => conn'[q] = conn[q] /\ phase'[q] = phase[q]
        /\ \A q \in Request : q # r => asked'[q] = asked[q] /\ sent'[q] = sent[q]
    BY <1>7, Zenon DEF StepYields, OtherCallers
  <2>4. (asked[r] = 1 => asked'[r] = 1) /\ (sent[r] # <<>> => sent'[r] # <<>>)
    BY <1>7, <1>0, <2>1, Zenon DEF StepYields
  <2>5. \A d \in Connection : \A q \in pending'[d] : q \in pending[d] \/ (q = r /\ d = conn[r])
    BY <1>7 DEF StepYields, OtherPending
  <2>6. \A d \in Connection : r \in pending'[d] => phase'[r] \notin Unsent \ {"write"}
    BY <1>7 DEF StepYields, Unsent, Before
  <2>7. \A d \in Connection : \A q \in serving'[d] :
            q \in serving[d] \/ (q = r /\ d = conn[r] /\ asked'[r] = 1)
    BY <1>7, Zenon DEF StepYields, OtherServing
  <2>8. \A d \in Connection : Within(queue[d], queue[d]) /\ Within(wire[d], wire[d])
    BY <1>0, RestIsWithin DEF SocketShape
  <2>9. \A d \in Connection : Within(queue'[d], queue[d])
    BY <1>7, <2>8, Zenon DEF StepYields
  <2>10. \A d \in Connection : Within(wire'[d], wire[d])
    BY <1>7, <2>8, Zenon DEF StepYields
  <2>11. GrowsFor(r, conn[r])
    BY <1>0, <2>1, <2>2, <2>3, <2>4, <2>5, <2>6, <2>7, <2>9, <2>10, Zenon DEF GrowsFor
  <2>12. QED
    BY <1>0, <2>11, TracesGrow, Zenon
<1>8. ASSUME NEW r \in Request, StepEnds(r) PROVE TracesAreHeld'
  <2>1. conn[r] = conn[r]
    OBVIOUS
  <2>2. conn'[r] = conn[r] /\ (conn[r] = conn[r] \/ NoTrace(r))
    BY <1>8, <1>0, <2>1, Zenon DEF StepEnds
  <2>3. /\ \A q \in Request : q # r => conn'[q] = conn[q] /\ phase'[q] = phase[q]
        /\ \A q \in Request : q # r => asked'[q] = asked[q] /\ sent'[q] = sent[q]
    BY <1>8, Zenon DEF StepEnds, OtherCallers
  <2>4. (asked[r] = 1 => asked'[r] = 1) /\ (sent[r] # <<>> => sent'[r] # <<>>)
    BY <1>8, <1>0, <2>1, Zenon DEF StepEnds
  <2>5. \A d \in Connection : \A q \in pending'[d] : q \in pending[d] \/ (q = r /\ d = conn[r])
    BY <1>8 DEF StepEnds, OtherPending
  <2>6. \A d \in Connection : r \in pending'[d] => phase'[r] \notin Unsent \ {"write"}
    BY <1>8 DEF StepEnds, Unsent, Before
  <2>7. \A d \in Connection : \A q \in serving'[d] :
            q \in serving[d] \/ (q = r /\ d = conn[r] /\ asked'[r] = 1)
    BY <1>8, Zenon DEF StepEnds, OtherServing
  <2>8. \A d \in Connection : Within(queue[d], queue[d]) /\ Within(wire[d], wire[d])
    BY <1>0, RestIsWithin DEF SocketShape
  <2>9. \A d \in Connection : Within(queue'[d], queue[d])
    BY <1>8, <2>8, Zenon DEF StepEnds
  <2>10. \A d \in Connection : Within(wire'[d], wire[d])
    BY <1>8, <2>8, Zenon DEF StepEnds
  <2>11. GrowsFor(r, conn[r])
    BY <1>0, <2>1, <2>2, <2>3, <2>4, <2>5, <2>6, <2>7, <2>9, <2>10, Zenon DEF GrowsFor
  <2>12. QED
    BY <1>0, <2>11, TracesGrow, Zenon
<1>9. ASSUME NEW c \in Connection, StepDelivers(c) PROVE TracesAreHeld'
  <2>1. UNCHANGED <<conn, phase, asked, sent>>
    BY <1>9, Zenon DEF StepDelivers,
      StepReads
  <2>2. \A d \in Connection : pending'[d] \subseteq pending[d] /\ serving'[d] \subseteq serving[d]
    BY <1>9 DEF StepDelivers, StepReads, OtherPending, OtherServing
  <2>3. \A d \in Connection : queue'[d] = queue[d] \/ (Len(queue[d]) > 0 /\ queue'[d] = Tail(queue[d]))
    BY <1>9, Zenon DEF StepDelivers, StepReads, OtherQueues
  <2>4. \A d \in Connection : \/ wire'[d] = wire[d]
                              \/ Len(wire[d]) > 0 /\ wire'[d] = Tail(wire[d])
                              \/ \E n \in 0 .. Len(wire[d]) : wire'[d] = SubSeq(wire[d], 1, n)
    BY <1>9, Zenon DEF StepDelivers, StepReads, OtherWires
  <2>5. /\ \A d \in Connection : Within(queue'[d], queue[d])
        /\ \A d \in Connection : Within(wire'[d], wire[d])
    BY <1>0, <2>3, <2>4, QueuesWithin, WiresWithin, Zenon
  <2>6. QED
    BY <1>0, <2>1, <2>2, <2>5, TracesShrink, Zenon
<1>10. ASSUME NEW c \in Connection, StepReadEnds(c) PROVE TracesAreHeld'
  <2>1. UNCHANGED <<conn, phase, asked, sent>>
    BY <1>10,
      Zenon DEF StepReadEnds
  <2>2. \A d \in Connection : pending'[d] \subseteq pending[d] /\ serving'[d] \subseteq serving[d]
    BY <1>10 DEF StepReadEnds, OtherPending, OtherServing
  <2>3. \A d \in Connection : queue'[d] = queue[d] \/ (Len(queue[d]) > 0 /\ queue'[d] = Tail(queue[d]))
    BY <1>10, Zenon DEF StepReadEnds, OtherQueues
  <2>4. \A d \in Connection : \/ wire'[d] = wire[d]
                              \/ Len(wire[d]) > 0 /\ wire'[d] = Tail(wire[d])
                              \/ \E n \in 0 .. Len(wire[d]) : wire'[d] = SubSeq(wire[d], 1, n)
    BY <1>10, Zenon DEF StepReadEnds, OtherWires
  <2>5. /\ \A d \in Connection : Within(queue'[d], queue[d])
        /\ \A d \in Connection : Within(wire'[d], wire[d])
    BY <1>0, <2>3, <2>4, QueuesWithin, WiresWithin, Zenon
  <2>6. QED
    BY <1>0, <2>1, <2>2, <2>5, TracesShrink, Zenon
<1>11. ASSUME NEW c \in Connection, StepClears(c) PROVE TracesAreHeld'
  <2>1. UNCHANGED <<conn, phase, asked, sent>>
    BY <1>11,
      Zenon DEF StepClears
  <2>2. \A d \in Connection : pending'[d] \subseteq pending[d] /\ serving'[d] \subseteq serving[d]
    BY <1>11 DEF StepClears, OtherPending, OtherServing
  <2>3. \A d \in Connection : queue'[d] = queue[d] \/ (Len(queue[d]) > 0 /\ queue'[d] = Tail(queue[d]))
    BY <1>11, Zenon DEF StepClears, OtherQueues
  <2>4. \A d \in Connection : \/ wire'[d] = wire[d]
                              \/ Len(wire[d]) > 0 /\ wire'[d] = Tail(wire[d])
                              \/ \E n \in 0 .. Len(wire[d]) : wire'[d] = SubSeq(wire[d], 1, n)
    BY <1>11, Zenon DEF StepClears, OtherWires
  <2>5. /\ \A d \in Connection : Within(queue'[d], queue[d])
        /\ \A d \in Connection : Within(wire'[d], wire[d])
    BY <1>0, <2>3, <2>4, QueuesWithin, WiresWithin, Zenon
  <2>6. QED
    BY <1>0, <2>1, <2>2, <2>5, TracesShrink, Zenon
<1>12. ASSUME NEW c \in Connection, StepAsks(c) PROVE TracesAreHeld'
  <2>1. 1 \in 1 .. Len(queue[c]) /\ queue[c][1].id \in Request
    BY <1>12, <1>0 DEF StepAsks, StepUnqueues, SocketShape
  <2>2. conn[queue[c][1].id] = c
    BY <1>0, <2>1, Zenon DEF TracesAreHeld, TraceOn
  <2>3. asked[queue[c][1].id] = 0
    BY <1>12, <2>1, Zenon DEF SocketInv, RequestIsSingle, MessageIsSingle, StepAsks, StepUnqueues
  <2>4. asked'[queue[c][1].id] = 1
    BY <1>12, <2>3 DEF StepAsks, StepUnqueues
  <2>5. conn'[queue[c][1].id] = c /\ (conn[queue[c][1].id] = c \/ NoTrace(queue[c][1].id))
    BY <1>12, <1>0, <2>1, <2>2, <2>3, <2>4, Zenon DEF StepAsks, StepUnqueues
  <2>6. /\ \A q \in Request : q # queue[c][1].id => conn'[q] = conn[q] /\ phase'[q] = phase[q]
        /\ \A q \in Request : q # queue[c][1].id => asked'[q] = asked[q] /\ sent'[q] = sent[q]
    BY <1>12, Zenon DEF StepAsks, StepUnqueues, OtherCallers
  <2>7. /\ asked[queue[c][1].id] = 1 => asked'[queue[c][1].id] = 1
        /\ sent[queue[c][1].id] # <<>> => sent'[queue[c][1].id] # <<>>
    BY <1>12, <1>0, <2>1, <2>2, <2>3, <2>4, Zenon DEF StepAsks, StepUnqueues
  <2>8. \A d \in Connection : \A q \in pending'[d] : q \in pending[d] \/ (q = queue[c][1].id /\ d = c)
    BY <1>12 DEF StepAsks, StepUnqueues, OtherPending
  <2>9. \A d \in Connection :
            queue[c][1].id \in pending'[d] => phase'[queue[c][1].id] \notin Unsent \ {"write"}
    BY <1>12, <1>0, Zenon DEF StepAsks, StepUnqueues, TracesAreHeld, TraceOn
  <2>10. \A d \in Connection : \A q \in serving'[d] :
             q \in serving[d] \/ (q = queue[c][1].id /\ d = c /\ asked'[queue[c][1].id] = 1)
    BY <1>12, <2>4 DEF StepAsks, StepUnqueues, OtherServing
  <2>11. \A d \in Connection : Within(queue[d], queue[d]) /\ Within(wire[d], wire[d])
    BY <1>0, RestIsWithin DEF SocketShape
  <2>12. \A d \in Connection : queue'[d] = queue[d] \/ (Len(queue[d]) > 0 /\ queue'[d] = Tail(queue[d]))
    BY <1>12, Zenon DEF StepAsks, StepUnqueues, OtherQueues
  <2>13. \A d \in Connection : Within(queue'[d], queue[d])
    BY <1>0, <2>12, QueuesWithin, Zenon
  <2>14. \A d \in Connection : Within(wire'[d], wire[d])
    BY <1>12, <2>11, Zenon DEF StepAsks, StepUnqueues
  <2>15. GrowsFor(queue[c][1].id, c)
    BY <1>0, <2>1, <2>2, <2>3, <2>4, <2>5, <2>6, <2>7, <2>8, <2>9, <2>10, <2>13, <2>14, Zenon DEF GrowsFor
  <2>16. QED
    BY <1>12, <1>0, <2>15, TracesGrow, Zenon DEF StepUnqueues, StepAsks
<1>13. ASSUME NEW c \in Connection, StepOrdersStop(c) PROVE TracesAreHeld'
  <2>1. UNCHANGED <<conn, phase, asked, sent>>
    BY <1>13, Zenon DEF StepOrdersStop,
      StepUnqueues
  <2>2. \A d \in Connection : pending'[d] \subseteq pending[d] /\ serving'[d] \subseteq serving[d]
    BY <1>13 DEF StepOrdersStop, StepUnqueues, OtherPending, OtherServing
  <2>3. \A d \in Connection : queue'[d] = queue[d] \/ (Len(queue[d]) > 0 /\ queue'[d] = Tail(queue[d]))
    BY <1>13, Zenon DEF StepOrdersStop, StepUnqueues, OtherQueues
  <2>4. \A d \in Connection : \/ wire'[d] = wire[d]
                              \/ Len(wire[d]) > 0 /\ wire'[d] = Tail(wire[d])
                              \/ \E n \in 0 .. Len(wire[d]) : wire'[d] = SubSeq(wire[d], 1, n)
    BY <1>13, Zenon DEF StepOrdersStop, StepUnqueues, OtherWires
  <2>5. /\ \A d \in Connection : Within(queue'[d], queue[d])
        /\ \A d \in Connection : Within(wire'[d], wire[d])
    BY <1>0, <2>3, <2>4, QueuesWithin, WiresWithin, Zenon
  <2>6. QED
    BY <1>0, <2>1, <2>2, <2>5, TracesShrink, Zenon
<1>14. ASSUME NEW c \in Connection, StepLoses(c) PROVE TracesAreHeld'
  <2>1. UNCHANGED <<conn, phase, asked, sent>>
    BY <1>14, Zenon DEF StepLoses,
      StepUnqueues
  <2>2. \A d \in Connection : pending'[d] \subseteq pending[d] /\ serving'[d] \subseteq serving[d]
    BY <1>14 DEF StepLoses, StepUnqueues, OtherPending, OtherServing
  <2>3. \A d \in Connection : queue'[d] = queue[d] \/ (Len(queue[d]) > 0 /\ queue'[d] = Tail(queue[d]))
    BY <1>14, Zenon DEF StepLoses, StepUnqueues, OtherQueues
  <2>4. \A d \in Connection : \/ wire'[d] = wire[d]
                              \/ Len(wire[d]) > 0 /\ wire'[d] = Tail(wire[d])
                              \/ \E n \in 0 .. Len(wire[d]) : wire'[d] = SubSeq(wire[d], 1, n)
    BY <1>14, Zenon DEF StepLoses, StepUnqueues, OtherWires
  <2>5. /\ \A d \in Connection : Within(queue'[d], queue[d])
        /\ \A d \in Connection : Within(wire'[d], wire[d])
    BY <1>0, <2>3, <2>4, QueuesWithin, WiresWithin, Zenon
  <2>6. QED
    BY <1>0, <2>1, <2>2, <2>5, TracesShrink, Zenon
<1>15. ASSUME NEW c \in Connection, StepDrops(c) PROVE TracesAreHeld'
  <2>1. UNCHANGED <<conn, phase, asked, sent>>
    BY <1>15,
      Zenon DEF StepDrops
  <2>2. \A d \in Connection : pending'[d] \subseteq pending[d] /\ serving'[d] \subseteq serving[d]
    BY <1>15 DEF StepDrops, OtherPending, OtherServing
  <2>3. \A d \in Connection : queue'[d] = queue[d] \/ (Len(queue[d]) > 0 /\ queue'[d] = Tail(queue[d]))
    BY <1>15, Zenon DEF StepDrops, OtherQueues
  <2>4. \A d \in Connection : \/ wire'[d] = wire[d]
                              \/ Len(wire[d]) > 0 /\ wire'[d] = Tail(wire[d])
                              \/ \E n \in 0 .. Len(wire[d]) : wire'[d] = SubSeq(wire[d], 1, n)
    BY <1>15, Zenon DEF StepDrops, OtherWires
  <2>5. /\ \A d \in Connection : Within(queue'[d], queue[d])
        /\ \A d \in Connection : Within(wire'[d], wire[d])
    BY <1>0, <2>3, <2>4, QueuesWithin, WiresWithin, Zenon
  <2>6. QED
    BY <1>0, <2>1, <2>2, <2>5, TracesShrink, Zenon
<1>16. ASSUME NEW c \in Connection, NEW S \in SUBSET pending[c], StepSpoils(c, S) PROVE TracesAreHeld'
  <2>1. UNCHANGED <<conn, phase, asked, sent>>
    BY <1>16, Zenon DEF StepSpoils,
      StepReads
  <2>2. \A d \in Connection : pending'[d] \subseteq pending[d] /\ serving'[d] \subseteq serving[d]
    BY <1>16 DEF StepSpoils, StepReads, OtherPending, OtherServing
  <2>3. \A d \in Connection : queue'[d] = queue[d] \/ (Len(queue[d]) > 0 /\ queue'[d] = Tail(queue[d]))
    BY <1>16, Zenon DEF StepSpoils, StepReads, OtherQueues
  <2>4. \A d \in Connection : \/ wire'[d] = wire[d]
                              \/ Len(wire[d]) > 0 /\ wire'[d] = Tail(wire[d])
                              \/ \E n \in 0 .. Len(wire[d]) : wire'[d] = SubSeq(wire[d], 1, n)
    BY <1>16, Zenon DEF StepSpoils, StepReads, OtherWires
  <2>5. /\ \A d \in Connection : Within(queue'[d], queue[d])
        /\ \A d \in Connection : Within(wire'[d], wire[d])
    BY <1>0, <2>3, <2>4, QueuesWithin, WiresWithin, Zenon
  <2>6. QED
    BY <1>0, <2>1, <2>2, <2>5, TracesShrink, Zenon
<1>17. ASSUME NEW closed \in SUBSET Connection, StepDrains(closed) PROVE TracesAreHeld'
  <2>1. UNCHANGED <<conn, phase, asked, sent>>
    BY <1>17,
      Zenon DEF StepDrains
  <2>2. \A d \in Connection : pending'[d] \subseteq pending[d] /\ serving'[d] \subseteq serving[d]
    BY <1>17 DEF StepDrains, OtherPending, OtherServing
  <2>3. \A d \in Connection : queue'[d] = queue[d] \/ (Len(queue[d]) > 0 /\ queue'[d] = Tail(queue[d]))
    BY <1>17, Zenon DEF StepDrains, OtherQueues
  <2>4. \A d \in Connection : \/ wire'[d] = wire[d]
                              \/ Len(wire[d]) > 0 /\ wire'[d] = Tail(wire[d])
                              \/ \E n \in 0 .. Len(wire[d]) : wire'[d] = SubSeq(wire[d], 1, n)
    BY <1>17, Zenon DEF StepDrains, OtherWires
  <2>5. /\ \A d \in Connection : Within(queue'[d], queue[d])
        /\ \A d \in Connection : Within(wire'[d], wire[d])
    BY <1>0, <2>3, <2>4, QueuesWithin, WiresWithin, Zenon
  <2>6. QED
    BY <1>0, <2>1, <2>2, <2>5, TracesShrink, Zenon
<1>18. ASSUME NEW c \in Connection, NEW r \in Request, NEW kind \in Kind,
            StepAnswers(c, r, kind)
     PROVE  TracesAreHeld'
  <2>1. conn[r] = c
    BY <1>18, <1>0, Zenon DEF TracesAreHeld, TraceOn, StepAnswers
  <2>2. conn'[r] = c /\ (conn[r] = c \/ NoTrace(r))
    BY <1>18, <1>0, <2>1, Zenon DEF StepAnswers
  <2>3. /\ \A q \in Request : q # r => conn'[q] = conn[q] /\ phase'[q] = phase[q]
        /\ \A q \in Request : q # r => asked'[q] = asked[q] /\ sent'[q] = sent[q]
    BY <1>18, Zenon DEF StepAnswers, OtherCallers
  <2>4. sent'[r] # <<>> /\ asked'[r] = asked[r]
    <3>1. sent'[r] = Append(sent[r], [to |-> r, kind |-> kind]) /\ sent[r] \in Seq(Frame)
      BY <1>18, <1>0 DEF StepAnswers, SocketShape
    <3>2. [to |-> r, kind |-> kind] \in Frame
      BY DEF Frame
    <3>3. sent'[r] # <<>>
      BY <3>1, <3>2
    <3>4. QED
      BY <1>18, <3>3, Zenon DEF StepAnswers
  <2>5. \A d \in Connection : \A q \in pending'[d] : q \in pending[d] \/ (q = r /\ d = c)
    BY <1>18 DEF StepAnswers, OtherPending
  <2>6. \A d \in Connection : r \in pending'[d] => phase'[r] \notin Unsent \ {"write"}
    BY <1>18, <1>0, Zenon DEF StepAnswers, TracesAreHeld, TraceOn
  <2>7. \A d \in Connection : \A q \in serving'[d] :
            q \in serving[d] \/ (q = r /\ d = c /\ asked'[r] = 1)
    BY <1>18 DEF StepAnswers, OtherServing
  <2>8. \A d \in Connection : Within(queue[d], queue[d]) /\ Within(wire[d], wire[d])
    BY <1>0, RestIsWithin DEF SocketShape
  <2>9. \A d \in Connection : Within(queue'[d], queue[d])
    BY <1>18, <2>8, Zenon DEF StepAnswers
  <2>10. [to |-> r, kind |-> kind] \in Frame /\ [to |-> r, kind |-> kind].to = r
    BY DEF Frame
  <2>11. \A d \in Connection :
            \/ Within(wire'[d], wire[d])
            \/ /\ d = c /\ sent'[r] # <<>>
               /\ \E f \in Frame : f.to = r /\ wire'[d] = Append(wire[d], f)
    BY <1>18, <2>4, <2>8, <2>10, Zenon DEF StepAnswers, OtherWires
  <2>12. GrowsFor(r, c)
    BY <1>0, <2>1, <2>2, <2>3, <2>4, <2>5, <2>6, <2>7, <2>9, <2>11, Zenon DEF GrowsFor
  <2>13. QED
    BY <1>0, <2>12, TracesGrow, Zenon
<1>19. QED
  BY <1>1, <1>2, <1>3, <1>4, <1>5, <1>6, <1>7, <1>8, <1>9, <1>10, <1>11, <1>12, <1>13, <1>14,
      <1>15, <1>16, <1>17, <1>18, Zenon DEF Step

\* A step that only takes messages away, and that sends or unsends no request.
LEMMA SingleShrinks ==
    ASSUME SocketShape, RequestIsSingle, UNCHANGED asked,
           \A q \in Request : phase'[q] \in Unsent <=> phase[q] \in Unsent,
           \A q \in Request : asked[q] = 0 => sent'[q] = sent[q],
           \A d \in Connection :
               queue'[d] = queue[d] \/ (Len(queue[d]) > 0 /\ queue'[d] = Tail(queue[d]))
    PROVE  RequestIsSingle'
<1>1. \A q \in Request : asked'[q] = 0 => sent'[q] = <<>>
  BY Zenon DEF RequestIsSingle
<1>2. \A q \in Request : phase'[q] \in Unsent => asked'[q] = 0
  BY Zenon DEF RequestIsSingle
<1>3. ASSUME NEW d \in Connection, NEW i \in 1 .. Len(queue'[d]) PROVE MessageIsSingle(d, i)'
  <2>1. queue[d] \in Seq(Message)
    BY Zenon DEF SocketShape
  <2>2. CASE queue'[d] = queue[d]
    <3>1. MessageIsSingle(d, i) /\ i \in 1 .. Len(queue[d])
      BY <2>2, Zenon DEF RequestIsSingle
    <3>2. queue[d][i] \in Message
      BY <2>1, <3>1
    <3>3. queue[d][i].id \in Request
      BY <3>2 DEF Message
    <3>4. QED
      BY <2>2, <3>1, <3>3, Zenon DEF MessageIsSingle
  <2>3. CASE Len(queue[d]) > 0 /\ queue'[d] = Tail(queue[d])
    <3>1. i + 1 \in 1 .. Len(queue[d]) /\ queue'[d][i] = queue[d][i + 1]
      BY <2>1, <2>3
    <3>2. MessageIsSingle(d, i + 1)
      BY <3>1, Zenon DEF RequestIsSingle
    <3>3. queue[d][i + 1] \in Message
      BY <2>1, <3>1
    <3>4. queue[d][i + 1].id \in Request
      BY <3>3 DEF Message
    <3>5. phase[queue[d][i + 1].id] \notin Unsent
      BY <3>2, Zenon DEF MessageIsSingle
    <3>6. phase'[queue'[d][i].id] \notin Unsent
      BY <3>1, <3>4, <3>5, Zenon
    <3>7. ASSUME queue'[d][i].type = "request"
          PROVE  /\ asked'[queue'[d][i].id] = 0
                 /\ \A j \in 1 .. Len(queue'[d]) : queue'[d][j] = queue'[d][i] => j = i
      <4>1. /\ asked[queue[d][i + 1].id] = 0
            /\ \A j \in 1 .. Len(queue[d]) : queue[d][j] = queue[d][i + 1] => j = i + 1
        BY <3>1, <3>2, <3>7, Zenon DEF MessageIsSingle
      <4>2. \A j \in 1 .. Len(queue'[d]) : j + 1 \in 1 .. Len(queue[d]) /\ queue'[d][j] = queue[d][j + 1]
        BY <2>1, <2>3
      <4>3. \A j \in 1 .. Len(queue'[d]) : queue'[d][j] = queue'[d][i] => j + 1 = i + 1
        BY <3>1, <4>1, <4>2, Zenon
      <4>4. Len(queue'[d]) \in Nat
        BY <2>1, <2>3
      <4>5. \A j \in 1 .. Len(queue'[d]) : queue'[d][j] = queue'[d][i] => j = i
        BY <4>3, <4>4
      <4>6. asked'[queue'[d][i].id] = 0
        BY <3>1, <4>1, Zenon
      <4>7. QED
        BY <4>5, <4>6, Zenon
    <3>8. QED
      BY <3>6, <3>7, Zenon DEF MessageIsSingle
  <2>4. QED
    BY <2>2, <2>3, Zenon
<1>4. QED
  BY <1>1, <1>2, <1>3, Zenon DEF RequestIsSingle

\* A message is queued: the order to stop, or a request that was not sent before.
LEMMA SingleGrows ==
    ASSUME SocketShape, RequestIsSingle, UNCHANGED <<asked, sent>>,
           NEW r \in Request, NEW c \in Connection, NEW m \in Message, m.id = r,
           m.type = "request" => phase[r] \in Unsent,
           phase'[r] \notin Unsent, \A q \in Request : q # r => phase'[q] = phase[q],
           queue'[c] = Append(queue[c], m), OtherQueues(c)
    PROVE  RequestIsSingle'
<1>1. \A q \in Request : asked'[q] = 0 => sent'[q] = <<>>
  BY Zenon DEF RequestIsSingle
<1>2. \A q \in Request : phase'[q] \in Unsent => asked'[q] = 0
  BY Zenon DEF RequestIsSingle
<1>3. ASSUME NEW d \in Connection, NEW i \in 1 .. Len(queue[d])
      PROVE  phase'[queue[d][i].id] \notin Unsent
  <2>1. queue[d] \in Seq(Message)
    BY Zenon DEF SocketShape
  <2>2. queue[d][i] \in Message
    BY <2>1
  <2>3. queue[d][i].id \in Request
    BY <2>2 DEF Message
  <2>4. phase[queue[d][i].id] \notin Unsent
    BY Zenon DEF RequestIsSingle, MessageIsSingle
  <2>5. QED
    BY <2>3, <2>4, Zenon
<1>4. ASSUME NEW d \in Connection, d # c, NEW i \in 1 .. Len(queue'[d]) PROVE MessageIsSingle(d, i)'
  <2>1. queue'[d] = queue[d]
    BY <1>4, Zenon DEF OtherQueues
  <2>2. MessageIsSingle(d, i)
    BY <2>1, Zenon DEF RequestIsSingle
  <2>3. QED
    BY <1>3, <2>1, <2>2, Zenon DEF MessageIsSingle
<1>5. queue[c] \in Seq(Message)
  BY Zenon DEF SocketShape
<1>6. /\ Len(queue'[c]) = Len(queue[c]) + 1 /\ queue'[c][Len(queue[c]) + 1] = m
      /\ \A j \in 1 .. Len(queue[c]) : queue'[c][j] = queue[c][j]
      /\ \A j \in 1 .. Len(queue'[c]) : j = Len(queue[c]) + 1 \/ j \in 1 .. Len(queue[c])
  BY <1>5, AppendIs
<1>7. ASSUME m.type = "request", NEW j \in 1 .. Len(queue[c]) PROVE queue[c][j] # m
  <2>1. phase[queue[c][j].id] \notin Unsent
    BY Zenon DEF RequestIsSingle, MessageIsSingle
  <2>2. QED
    BY <1>7, <2>1, Zenon
<1>8. ASSUME NEW i \in 1 .. Len(queue'[c]) PROVE MessageIsSingle(c, i)'
  <2>1. CASE i \in 1 .. Len(queue[c])
    <3>1. queue'[c][i] = queue[c][i] /\ MessageIsSingle(c, i)
      BY <1>6, <2>1, Zenon DEF RequestIsSingle
    <3>2. phase'[queue'[c][i].id] \notin Unsent
      BY <1>3, <2>1, <3>1, Zenon
    <3>3. ASSUME queue'[c][i].type = "request"
          PROVE  /\ asked'[queue'[c][i].id] = 0
                 /\ \A j \in 1 .. Len(queue'[c]) : queue'[c][j] = queue'[c][i] => j = i
      <4>1. /\ asked[queue[c][i].id] = 0
            /\ \A j \in 1 .. Len(queue[c]) : queue[c][j] = queue[c][i] => j = i
        BY <3>1, <3>3, Zenon DEF MessageIsSingle
      <4>2. queue[c][i] # m
        BY <1>7, <2>1, <3>1, <3>3, Zenon
      <4>3. QED
        BY <1>6, <3>1, <4>1, <4>2, Zenon
    <3>4. QED
      BY <3>2, <3>3, Zenon DEF MessageIsSingle
  <2>2. CASE i = Len(queue[c]) + 1
    <3>1. queue'[c][i] = m
      BY <1>6, <2>2, Zenon
    <3>2. phase'[queue'[c][i].id] \notin Unsent
      BY <3>1, Zenon
    <3>3. ASSUME m.type = "request"
          PROVE  /\ asked'[queue'[c][i].id] = 0
                 /\ \A j \in 1 .. Len(queue'[c]) : queue'[c][j] = queue'[c][i] => j = i
      <4>1. asked'[queue'[c][i].id] = 0
        BY <3>1, <3>3, Zenon DEF RequestIsSingle
      <4>2. QED
        BY <1>6, <1>7, <2>2, <3>1, <3>3, <4>1, Zenon
    <3>4. QED
      BY <3>1, <3>2, <3>3, Zenon DEF MessageIsSingle
  <2>3. QED
    BY <1>6, <2>1, <2>2, Zenon
<1>9. QED
  BY <1>1, <1>2, <1>4, <1>8, Zenon DEF RequestIsSingle

\* A step keeps every request single.
LEMMA SingleKept ==
    ASSUME SocketInv, SocketShape', Step
    PROVE  RequestIsSingle'
<1>0. SocketShape /\ RequestIsSingle /\ TracesAreHeld
  BY Zenon DEF SocketInv
<1>1. CASE StepQuiet
  <2>1. \A q \in Request : phase'[q] \in Unsent <=> phase[q] \in Unsent
    BY <1>1 DEF StepQuiet, OtherCallers, Unsent, Before
  <2>3. UNCHANGED <<asked, sent>>
    BY <1>1, Zenon DEF StepQuiet
  <2>4. \A d \in Connection : queue'[d] = queue[d] \/ (Len(queue[d]) > 0 /\ queue'[d] = Tail(queue[d]))
    BY <1>1, Zenon DEF StepQuiet, OtherQueues
  <2>5. QED
    BY <1>0, <2>1, <2>3, <2>4, SingleShrinks, Zenon
<1>2. ASSUME NEW r \in Request, NEW c \in Connection, StepRegisters(r, c) PROVE RequestIsSingle'
  <2>1. \A q \in Request : phase'[q] \in Unsent <=> phase[q] \in Unsent
    BY <1>2 DEF StepRegisters, OtherCallers, Unsent, Before
  <2>3. UNCHANGED <<asked, sent>>
    BY <1>2, Zenon DEF StepRegisters
  <2>4. \A d \in Connection : queue'[d] = queue[d] \/ (Len(queue[d]) > 0 /\ queue'[d] = Tail(queue[d]))
    BY <1>2, Zenon DEF StepRegisters, OtherQueues
  <2>5. QED
    BY <1>0, <2>1, <2>3, <2>4, SingleShrinks, Zenon
<1>3. ASSUME NEW r \in Request, NEW c \in Connection, StepSends(r, c) PROVE RequestIsSingle'
  <2>1. /\ [type |-> "request", id |-> r] \in Message /\ [type |-> "request", id |-> r].id = r
        /\ [type |-> "request", id |-> r].type = "request"
    BY DEF Message
  <2>2. UNCHANGED <<asked, sent>> /\ OtherQueues(c) /\ \A q \in Request : q # r => phase'[q] = phase[q]
    BY <1>3, Zenon DEF StepSends, OtherCallers
  <2>3. phase'[r] \notin Unsent
    BY <1>3 DEF StepSends, Unsent, Before
  <2>4. phase[r] \in Unsent
    BY <1>3 DEF StepSends, Unsent, Before
  <2>5. queue'[c] = Append(queue[c], [type |-> "request", id |-> r])
    BY <1>3, Zenon DEF StepSends
  <2>6. QED
    BY <1>0, <2>1, <2>2, <2>3, <2>4, <2>5, SingleGrows, Zenon
<1>4. ASSUME NEW r \in Request, NEW c \in Connection, StepWrites(r, c) PROVE RequestIsSingle'
  <2>1. /\ [type |-> "request", id |-> r] \in Message /\ [type |-> "request", id |-> r].id = r
        /\ [type |-> "request", id |-> r].type = "request"
    BY DEF Message
  <2>2. UNCHANGED <<asked, sent>> /\ OtherQueues(c) /\ \A q \in Request : q # r => phase'[q] = phase[q]
    BY <1>4, Zenon DEF StepWrites, OtherCallers
  <2>3. phase'[r] \notin Unsent
    BY <1>4 DEF StepWrites, Unsent, Before
  <2>4. phase[r] \in Unsent
    BY <1>4 DEF StepWrites, Unsent, Before
  <2>5. queue'[c] = Append(queue[c], [type |-> "request", id |-> r])
    BY <1>4, Zenon DEF StepWrites
  <2>6. QED
    BY <1>0, <2>1, <2>2, <2>3, <2>4, <2>5, SingleGrows, Zenon
<1>5. ASSUME NEW r \in Request, NEW c \in Connection, StepRefused(r, c) PROVE RequestIsSingle'
  <2>1. \A q \in Request : phase'[q] \in Unsent <=> phase[q] \in Unsent
    BY <1>5 DEF StepRefused, OtherCallers, Unsent, Before
  <2>3. UNCHANGED <<asked, sent>>
    BY <1>5, Zenon DEF StepRefused
  <2>4. \A d \in Connection : queue'[d] = queue[d] \/ (Len(queue[d]) > 0 /\ queue'[d] = Tail(queue[d]))
    BY <1>5, Zenon DEF StepRefused, OtherQueues
  <2>5. QED
    BY <1>0, <2>1, <2>3, <2>4, SingleShrinks, Zenon
<1>6. ASSUME NEW r \in Request, NEW c \in Connection, StepStops(r, c) PROVE RequestIsSingle'
  <2>1. /\ [type |-> "stop", id |-> r] \in Message /\ [type |-> "stop", id |-> r].id = r
        /\ [type |-> "stop", id |-> r].type = "stop"
    BY DEF Message
  <2>2. UNCHANGED <<asked, sent>> /\ OtherQueues(c) /\ \A q \in Request : q # r => phase'[q] = phase[q]
    BY <1>6, Zenon DEF StepStops, OtherCallers
  <2>3. phase'[r] \notin Unsent
    BY <1>6 DEF StepStops, Unsent, Before
  <2>4. CASE queue'[c] = Append(queue[c], [type |-> "stop", id |-> r])
    <3>1. [type |-> "stop", id |-> r].type # "request"
      BY <2>1
    <3>2. QED
      BY <1>0, <2>1, <2>2, <2>3, <2>4, <3>1, SingleGrows, Zenon
  <2>5. CASE queue'[c] = queue[c]
    <3>1. \A q \in Request : phase'[q] \in Unsent <=> phase[q] \in Unsent
      <4>1. phase[r] \notin Unsent
        BY <1>6 DEF StepStops, Unsent, Before
      <4>2. QED
        BY <2>2, <2>3, <4>1, Zenon
    <3>2. \A d \in Connection : queue'[d] = queue[d]
      BY <2>2, <2>5, Zenon DEF OtherQueues
    <3>3. QED
      BY <1>0, <2>2, <3>1, <3>2, SingleShrinks, Zenon
  <2>6. QED
    BY <1>6, <2>4, <2>5, Zenon DEF StepStops
<1>7. ASSUME NEW r \in Request, StepYields(r) PROVE RequestIsSingle'
  <2>1. \A q \in Request : phase'[q] \in Unsent <=> phase[q] \in Unsent
    BY <1>7 DEF StepYields, OtherCallers, Unsent, Before
  <2>3. UNCHANGED <<asked, sent>>
    BY <1>7, Zenon DEF StepYields
  <2>4. \A d \in Connection : queue'[d] = queue[d] \/ (Len(queue[d]) > 0 /\ queue'[d] = Tail(queue[d]))
    BY <1>7, Zenon DEF StepYields, OtherQueues
  <2>5. QED
    BY <1>0, <2>1, <2>3, <2>4, SingleShrinks, Zenon
<1>8. ASSUME NEW r \in Request, StepEnds(r) PROVE RequestIsSingle'
  <2>1. \A q \in Request : phase'[q] \in Unsent <=> phase[q] \in Unsent
    BY <1>8 DEF StepEnds, OtherCallers, Unsent, Before
  <2>3. UNCHANGED <<asked, sent>>
    BY <1>8, Zenon DEF StepEnds
  <2>4. \A d \in Connection : queue'[d] = queue[d] \/ (Len(queue[d]) > 0 /\ queue'[d] = Tail(queue[d]))
    BY <1>8, Zenon DEF StepEnds, OtherQueues
  <2>5. QED
    BY <1>0, <2>1, <2>3, <2>4, SingleShrinks, Zenon
<1>9. ASSUME NEW c \in Connection, StepDelivers(c) PROVE RequestIsSingle'
  <2>1. \A q \in Request : phase'[q] \in Unsent <=> phase[q] \in Unsent
    BY <1>9, Zenon DEF StepDelivers, StepReads
  <2>3. UNCHANGED <<asked, sent>>
    BY <1>9, Zenon DEF StepDelivers, StepReads
  <2>4. \A d \in Connection : queue'[d] = queue[d] \/ (Len(queue[d]) > 0 /\ queue'[d] = Tail(queue[d]))
    BY <1>9, Zenon DEF StepDelivers, StepReads, OtherQueues
  <2>5. QED
    BY <1>0, <2>1, <2>3, <2>4, SingleShrinks, Zenon
<1>10. ASSUME NEW c \in Connection, StepReadEnds(c) PROVE RequestIsSingle'
  <2>1. \A q \in Request : phase'[q] \in Unsent <=> phase[q] \in Unsent
    BY <1>10, Zenon DEF StepReadEnds
  <2>3. UNCHANGED <<asked, sent>>
    BY <1>10, Zenon DEF StepReadEnds
  <2>4. \A d \in Connection : queue'[d] = queue[d] \/ (Len(queue[d]) > 0 /\ queue'[d] = Tail(queue[d]))
    BY <1>10, Zenon DEF StepReadEnds, OtherQueues
  <2>5. QED
    BY <1>0, <2>1, <2>3, <2>4, SingleShrinks, Zenon
<1>11. ASSUME NEW c \in Connection, StepClears(c) PROVE RequestIsSingle'
  <2>1. \A q \in Request : phase'[q] \in Unsent <=> phase[q] \in Unsent
    BY <1>11, Zenon DEF StepClears
  <2>3. UNCHANGED <<asked, sent>>
    BY <1>11, Zenon DEF StepClears
  <2>4. \A d \in Connection : queue'[d] = queue[d] \/ (Len(queue[d]) > 0 /\ queue'[d] = Tail(queue[d]))
    BY <1>11, Zenon DEF StepClears, OtherQueues
  <2>5. QED
    BY <1>0, <2>1, <2>3, <2>4, SingleShrinks, Zenon
<1>12. ASSUME NEW c \in Connection, StepAsks(c) PROVE RequestIsSingle'
  <2> DEFINE r == queue[c][1].id
  <2>1. /\ Len(queue[c]) > 0 /\ queue'[c] = Tail(queue[c]) /\ OtherQueues(c)
        /\ queue[c][1] \in Message /\ r \in Request /\ queue[c][1].type = "request"
        /\ UNCHANGED <<phase, sent>> /\ asked'[r] = asked[r] + 1
        /\ \A q \in Request : q # r => asked'[q] = asked[q]
    BY <1>12, Zenon DEF StepAsks, StepUnqueues
  <2>2. queue[c] \in Seq(Message) /\ 1 \in 1 .. Len(queue[c])
    BY <1>0, <2>1 DEF SocketShape
  <2>3. MessageIsSingle(c, 1) /\ conn[r] = c
    BY <1>0, <2>2, Zenon DEF RequestIsSingle, TracesAreHeld, TraceOn
  <2>4. asked[r] = 0 /\ phase[r] \notin Unsent
    BY <2>1, <2>3, Zenon DEF MessageIsSingle
  <2>5. asked'[r] = 1
    BY <2>1, <2>4
  <2>6. \A q \in Request : asked'[q] = 0 => sent'[q] = <<>>
    <3>1. asked'[r] # 0
      BY <2>5
    <3>2. QED
      BY <1>0, <2>1, <3>1, Zenon DEF RequestIsSingle
  <2>7. \A q \in Request : phase'[q] \in Unsent => asked'[q] = 0
    BY <1>0, <2>1, <2>4, Zenon DEF RequestIsSingle
  <2>8. ASSUME NEW d \in Connection, NEW i \in 1 .. Len(queue'[d]) PROVE MessageIsSingle(d, i)'
    <3>0. queue[d] \in Seq(Message)
      BY <1>0, Zenon DEF SocketShape
    <3>1. CASE d # c
      <4>1. queue'[d] = queue[d] /\ i \in 1 .. Len(queue[d])
        BY <2>1, <3>1, Zenon DEF OtherQueues
      <4>2. MessageIsSingle(d, i) /\ conn[queue[d][i].id] = d
        BY <1>0, <4>1, Zenon DEF RequestIsSingle, TracesAreHeld, TraceOn
      <4>3. queue[d][i].id # r
        BY <2>3, <3>1, <4>2, Zenon
      <4>4. queue[d][i] \in Message
        BY <3>0, <4>1
      <4>5. queue[d][i].id \in Request
        BY <4>4 DEF Message
      <4>6. asked'[queue[d][i].id] = asked[queue[d][i].id]
        BY <2>1, <4>3, <4>5, Zenon
      <4>7. QED
        BY <2>1, <4>1, <4>2, <4>6, Zenon DEF MessageIsSingle
    <3>2. CASE d = c
      <4>0. i \in 1 .. Len(Tail(queue[c])) /\ queue'[c] = Tail(queue[c])
        BY <2>1, <3>2, Zenon
      <4>1. i + 1 \in 1 .. Len(queue[c]) /\ queue'[c][i] = queue[c][i + 1] /\ i + 1 # 1
        BY <2>1, <2>2, <4>0
      <4>2. MessageIsSingle(c, i + 1)
        BY <1>0, <4>1, Zenon DEF RequestIsSingle
      <4>3. queue[c][i + 1] \in Message
        BY <2>2, <4>1
      <4>4. queue[c][i + 1].id \in Request
        BY <4>3 DEF Message
      <4>5. phase'[queue'[c][i].id] \notin Unsent
        BY <2>1, <4>1, <4>2, Zenon DEF MessageIsSingle
      <4>6. ASSUME queue'[c][i].type = "request"
            PROVE  /\ asked'[queue'[c][i].id] = 0
                   /\ \A j \in 1 .. Len(queue'[c]) : queue'[c][j] = queue'[c][i] => j = i
        <5>1. /\ asked[queue[c][i + 1].id] = 0
              /\ \A j \in 1 .. Len(queue[c]) : queue[c][j] = queue[c][i + 1] => j = i + 1
          BY <4>1, <4>2, <4>6, Zenon DEF MessageIsSingle
        <5>2. queue[c][1] # queue[c][i + 1]
          BY <2>2, <4>1, <5>1, Zenon
        <5>3. queue[c][i + 1].type = "request"
          BY <4>1, <4>6, Zenon
        <5>4. queue[c][i + 1].id # r
          BY <2>1, <4>3, <5>2, <5>3 DEF Message
        <5>5. asked'[queue'[c][i].id] = 0
          BY <2>1, <4>1, <4>4, <5>1, <5>4, Zenon
        <5>6. \A j \in 1 .. Len(queue'[c]) : j + 1 \in 1 .. Len(queue[c]) /\ queue'[c][j] = queue[c][j + 1]
          BY <2>1, <2>2
        <5>7. \A j \in 1 .. Len(queue'[c]) : queue'[c][j] = queue'[c][i] => j + 1 = i + 1
          BY <4>1, <5>1, <5>6, Zenon
        <5>8. Len(queue'[c]) \in Nat
          BY <2>1, <2>2
        <5>9. i \in Nat
          BY <3>2, <5>8
        <5>10. \A j \in 1 .. Len(queue'[c]) : queue'[c][j] = queue'[c][i] => j = i
          BY <5>7, <5>8, <5>9
        <5>11. QED
          BY <5>5, <5>10, Zenon
      <4>7. MessageIsSingle(c, i)'
        BY <4>5, <4>6, Zenon DEF MessageIsSingle
      <4>8. QED
        BY <3>2, <4>7
    <3>3. QED
      BY <3>1, <3>2, Zenon
  <2>9. QED
    BY <2>6, <2>7, <2>8, Zenon DEF RequestIsSingle
<1>13. ASSUME NEW c \in Connection, StepOrdersStop(c) PROVE RequestIsSingle'
  <2>1. \A q \in Request : phase'[q] \in Unsent <=> phase[q] \in Unsent
    BY <1>13, Zenon DEF StepOrdersStop, StepUnqueues
  <2>3. UNCHANGED <<asked, sent>>
    BY <1>13, Zenon DEF StepOrdersStop, StepUnqueues
  <2>4. \A d \in Connection : queue'[d] = queue[d] \/ (Len(queue[d]) > 0 /\ queue'[d] = Tail(queue[d]))
    BY <1>13, Zenon DEF StepOrdersStop, StepUnqueues, OtherQueues
  <2>5. QED
    BY <1>0, <2>1, <2>3, <2>4, SingleShrinks, Zenon
<1>14. ASSUME NEW c \in Connection, StepLoses(c) PROVE RequestIsSingle'
  <2>1. \A q \in Request : phase'[q] \in Unsent <=> phase[q] \in Unsent
    BY <1>14, Zenon DEF StepLoses, StepUnqueues
  <2>3. UNCHANGED <<asked, sent>>
    BY <1>14, Zenon DEF StepLoses, StepUnqueues
  <2>4. \A d \in Connection : queue'[d] = queue[d] \/ (Len(queue[d]) > 0 /\ queue'[d] = Tail(queue[d]))
    BY <1>14, Zenon DEF StepLoses, StepUnqueues, OtherQueues
  <2>5. QED
    BY <1>0, <2>1, <2>3, <2>4, SingleShrinks, Zenon
<1>15. ASSUME NEW c \in Connection, StepDrops(c) PROVE RequestIsSingle'
  <2>1. \A q \in Request : phase'[q] \in Unsent <=> phase[q] \in Unsent
    BY <1>15, Zenon DEF StepDrops
  <2>3. UNCHANGED <<asked, sent>>
    BY <1>15, Zenon DEF StepDrops
  <2>4. \A d \in Connection : queue'[d] = queue[d] \/ (Len(queue[d]) > 0 /\ queue'[d] = Tail(queue[d]))
    BY <1>15, Zenon DEF StepDrops, OtherQueues
  <2>5. QED
    BY <1>0, <2>1, <2>3, <2>4, SingleShrinks, Zenon
<1>16. ASSUME NEW c \in Connection, NEW S \in SUBSET pending[c], StepSpoils(c, S) PROVE RequestIsSingle'
  <2>1. \A q \in Request : phase'[q] \in Unsent <=> phase[q] \in Unsent
    BY <1>16, Zenon DEF StepSpoils, StepReads
  <2>3. UNCHANGED <<asked, sent>>
    BY <1>16, Zenon DEF StepSpoils, StepReads
  <2>4. \A d \in Connection : queue'[d] = queue[d] \/ (Len(queue[d]) > 0 /\ queue'[d] = Tail(queue[d]))
    BY <1>16, Zenon DEF StepSpoils, StepReads, OtherQueues
  <2>5. QED
    BY <1>0, <2>1, <2>3, <2>4, SingleShrinks, Zenon
<1>17. ASSUME NEW closed \in SUBSET Connection, StepDrains(closed) PROVE RequestIsSingle'
  <2>1. \A q \in Request : phase'[q] \in Unsent <=> phase[q] \in Unsent
    BY <1>17, Zenon DEF StepDrains
  <2>3. UNCHANGED <<asked, sent>>
    BY <1>17, Zenon DEF StepDrains
  <2>4. \A d \in Connection : queue'[d] = queue[d] \/ (Len(queue[d]) > 0 /\ queue'[d] = Tail(queue[d]))
    BY <1>17, Zenon DEF StepDrains, OtherQueues
  <2>5. QED
    BY <1>0, <2>1, <2>3, <2>4, SingleShrinks, Zenon
<1>18. ASSUME NEW c \in Connection, NEW r \in Request, NEW kind \in Kind,
            StepAnswers(c, r, kind)
     PROVE  RequestIsSingle'
  <2>1. \A q \in Request : phase'[q] \in Unsent <=> phase[q] \in Unsent
    BY <1>18, Zenon DEF StepAnswers
  <2>2. asked[r] # 0
    <3>1. asked[r] = 1
      BY <1>18, <1>0, Zenon DEF TracesAreHeld, TraceOn, StepAnswers
    <3>2. QED
      BY <3>1
  <2>3. UNCHANGED asked /\ \A q \in Request : asked[q] = 0 => sent'[q] = sent[q]
    BY <1>18, <2>2, Zenon DEF StepAnswers
  <2>4. \A d \in Connection : queue'[d] = queue[d] \/ (Len(queue[d]) > 0 /\ queue'[d] = Tail(queue[d]))
    BY <1>18, Zenon DEF StepAnswers, OtherQueues
  <2>5. QED
    BY <1>0, <2>1, <2>3, <2>4, SingleShrinks, Zenon
<1>19. QED
  BY <1>1, <1>2, <1>3, <1>4, <1>5, <1>6, <1>7, <1>8, <1>9, <1>10, <1>11, <1>12, <1>13, <1>14,
      <1>15, <1>16, <1>17, <1>18, Zenon DEF Step

\* Nothing was sent to the request, and nothing is under way to it.
LEMMA ContinuesNothing ==
    ASSUME NEW w \in Seq(Frame), NEW r, NEW whole, \A i \in 1 .. Len(w) : w[i].to # r
    PROVE  Continues(w, r, 0, <<>>, whole)
<1> DEFINE number == [i \in 0 .. Len(w) |-> 0]
<1>1. Len(w) \in Nat /\ Len(<<>>) = 0
  OBVIOUS
<1>2. number \in [0 .. Len(w) -> 0 .. Len(<<>>)]
  BY <1>1
<1>3. \A i \in 0 .. Len(w) : number[i] = 0
  OBVIOUS
<1> HIDE DEF number
<1>4. /\ 0 \in 0 .. Len(w) /\ Len(w) \in 0 .. Len(w)
      /\ \A i \in 1 .. Len(w) : i \in 0 .. Len(w) /\ i - 1 \in 0 .. Len(w)
  BY <1>1
<1>5. Numbers(number, w, r, 0, <<>>)
  BY <1>3, <1>4, Zenon DEF Numbers
<1>6. number[Len(w)] = Len(<<>>)
  BY <1>1, <1>3, <1>4
<1>7. QED
  BY <1>2, <1>5, <1>6, Zenon DEF Continues

\* A frame is taken from the wire: the next one for the request, or another's.
LEMMA ContinuesTail ==
    ASSUME NEW w \in Seq(Frame), NEW r, NEW base \in Nat, NEW frames \in Seq(Frame), NEW whole,
           Len(w) > 0, Continues(w, r, base, frames, whole)
    PROVE  /\ w[1].to = r => /\ base + 1 <= Len(frames) /\ w[1] = frames[base + 1]
                             /\ Continues(Tail(w), r, base + 1, frames, whole)
           /\ w[1].to # r => Continues(Tail(w), r, base, frames, whole)
<1>1. PICK number \in [0 .. Len(w) -> 0 .. Len(frames)] :
          Numbers(number, w, r, base, frames) /\ (whole => number[Len(w)] = Len(frames))
  BY Zenon DEF Continues
<1>2. /\ number[0] = base
      /\ \A i \in 1 .. Len(w) : number[i] = IF w[i].to = r THEN number[i - 1] + 1 ELSE number[i - 1]
      /\ \A i \in 1 .. Len(w) : w[i].to = r => number[i] >= 1 /\ w[i] = frames[number[i]]
  BY <1>1, Zenon DEF Numbers
<1> DEFINE rest == [i \in 0 .. Len(Tail(w)) |-> number[i + 1]]
<1>3. /\ Len(w) \in Nat /\ Len(Tail(w)) = Len(w) - 1 /\ Len(frames) \in Nat
      /\ \A i \in 1 .. Len(Tail(w)) : Tail(w)[i] = w[i + 1]
  OBVIOUS
<1>4. rest \in [0 .. Len(Tail(w)) -> 0 .. Len(frames)]
  BY <1>3
<1>5. \A i \in 0 .. Len(Tail(w)) : rest[i] = number[i + 1]
  OBVIOUS
<1> HIDE DEF rest
<1>6. rest[0] = number[1] /\ rest[Len(Tail(w))] = number[Len(w)]
  BY <1>3, <1>5
<1>7. ASSUME NEW i \in 1 .. Len(Tail(w))
      PROVE  /\ rest[i] = IF Tail(w)[i].to = r THEN rest[i - 1] + 1 ELSE rest[i - 1]
             /\ Tail(w)[i].to = r => rest[i] >= 1 /\ Tail(w)[i] = frames[rest[i]]
  <2>1. i + 1 \in 1 .. Len(w) /\ i \in 0 .. Len(Tail(w)) /\ i - 1 \in 0 .. Len(Tail(w)) /\ (i + 1) - 1 = i
    BY <1>3
  <2>2. rest[i] = number[i + 1] /\ rest[i - 1] = number[i] /\ Tail(w)[i] = w[i + 1]
    BY <1>3, <1>5, <2>1
  <2>3. number[i + 1] = IF w[i + 1].to = r THEN number[(i + 1) - 1] + 1 ELSE number[(i + 1) - 1]
    BY <1>2, <2>1, Zenon
  <2>4. w[i + 1].to = r => number[i + 1] >= 1 /\ w[i + 1] = frames[number[i + 1]]
    BY <1>2, <2>1, Zenon
  <2>5. QED
    BY <2>1, <2>2, <2>3, <2>4
<1>8. Numbers(rest, Tail(w), r, number[1], frames)
  BY <1>6, <1>7, Zenon DEF Numbers
<1>9. Continues(Tail(w), r, number[1], frames, whole)
  BY <1>1, <1>4, <1>6, <1>8, Zenon DEF Continues
<1>10. 1 \in 1 .. Len(w) /\ 1 - 1 = 0
  BY <1>3
<1>11. CASE w[1].to = r
  <2>1. number[1] = base + 1 /\ w[1] = frames[number[1]]
    BY <1>2, <1>10, <1>11
  <2>2. number[1] \in 0 .. Len(frames)
    BY <1>10
  <2>3. base + 1 <= Len(frames)
    BY <1>3, <2>1, <2>2
  <2>4. w[1] = frames[base + 1] /\ Continues(Tail(w), r, base + 1, frames, whole)
    BY <1>9, <2>1, Zenon
  <2>5. QED
    BY <1>11, <2>3, <2>4, Zenon
<1>12. CASE w[1].to # r
  <2>1. number[1] = base
    BY <1>2, <1>10, <1>12
  <2>2. QED
    BY <1>9, <1>12, <2>1, Zenon
<1>13. QED
  BY <1>11, <1>12, Zenon

\* A frame is put on the wire, for the request or for another.
LEMMA ContinuesAppend ==
    ASSUME NEW w \in Seq(Frame), NEW r, NEW base \in Nat, NEW frames \in Seq(Frame), NEW whole,
           NEW e \in Frame, Continues(w, r, base, frames, whole)
    PROVE  /\ e.to # r => Continues(Append(w, e), r, base, frames, whole)
           /\ e.to = r /\ whole => Continues(Append(w, e), r, base, Append(frames, e), whole)
<1>1. PICK number \in [0 .. Len(w) -> 0 .. Len(frames)] :
          Numbers(number, w, r, base, frames) /\ (whole => number[Len(w)] = Len(frames))
  BY Zenon DEF Continues
<1>2. /\ number[0] = base
      /\ \A i \in 1 .. Len(w) : number[i] = IF w[i].to = r THEN number[i - 1] + 1 ELSE number[i - 1]
      /\ \A i \in 1 .. Len(w) : w[i].to = r => number[i] >= 1 /\ w[i] = frames[number[i]]
  BY <1>1, Zenon DEF Numbers
<1> DEFINE n == Len(w)
           long == Append(w, e)
<1>3. /\ n \in Nat /\ Len(long) = n + 1 /\ long[n + 1] = e /\ long \in Seq(Frame)
      /\ \A i \in 1 .. n : long[i] = w[i]
      /\ Len(frames) \in Nat
  OBVIOUS
<1> HIDE DEF n, long
<1>4. \A i \in 1 .. n : i \in 0 .. n + 1 /\ i - 1 \in 0 .. n + 1 /\ i # n + 1 /\ i - 1 # n + 1
  BY <1>3
<1>5. \A i \in 1 .. n + 1 : i = n + 1 \/ i \in 1 .. n
  BY <1>3
<1>6. CASE e.to # r
  <2> DEFINE more == [i \in 0 .. n + 1 |-> IF i = n + 1 THEN number[n] ELSE number[i]]
  <2>1. more \in [0 .. n + 1 -> 0 .. Len(frames)]
    BY <1>3 DEF n
  <2>2. more[n + 1] = number[n] /\ \A i \in 0 .. n : more[i] = number[i]
    BY <1>3
  <2> HIDE DEF more
  <2>3. ASSUME NEW i \in 1 .. n
        PROVE  /\ more[i] = IF long[i].to = r THEN more[i - 1] + 1 ELSE more[i - 1]
               /\ long[i].to = r => more[i] >= 1 /\ long[i] = frames[more[i]]
    <3>0. i \in 0 .. n /\ i - 1 \in 0 .. n
      BY <1>3
    <3>1. long[i] = w[i] /\ more[i] = number[i] /\ more[i - 1] = number[i - 1]
      BY <1>3, <2>2, <3>0, Zenon
    <3>2. i \in 1 .. Len(w)
      BY DEF n
    <3>3. QED
      BY <1>2, <3>1, <3>2, Zenon
  <2>4. more[n + 1] = more[(n + 1) - 1] /\ long[n + 1].to # r
    BY <1>3, <1>6, <2>2
  <2>5. ASSUME NEW i \in 1 .. Len(long)
        PROVE  /\ more[i] = IF long[i].to = r THEN more[i - 1] + 1 ELSE more[i - 1]
               /\ long[i].to = r => more[i] >= 1 /\ long[i] = frames[more[i]]
    BY <1>3, <1>5, <2>3, <2>4, Zenon
  <2>6. more[0] = base
    BY <1>2, <1>3, <2>2
  <2>7. Numbers(more, long, r, base, frames)
    BY <2>5, <2>6, Zenon DEF Numbers
  <2>8. whole => more[Len(long)] = Len(frames)
    BY <1>1, <1>3, <2>2, Zenon DEF n
  <2>9. more \in [0 .. Len(long) -> 0 .. Len(frames)]
    BY <1>3, <2>1, Zenon
  <2>10. Continues(long, r, base, frames, whole)
    BY <2>7, <2>8, <2>9, Zenon DEF Continues
  <2>11. QED
    BY <1>6, <2>10, Zenon DEF long
<1>7. CASE e.to = r /\ whole
  <2> DEFINE k == Len(frames)
             grown == Append(frames, e)
             more == [i \in 0 .. n + 1 |-> IF i = n + 1 THEN k + 1 ELSE number[i]]
  <2>1. /\ Len(grown) = k + 1 /\ grown[k + 1] = e /\ k \in Nat
        /\ \A i \in 1 .. k : grown[i] = frames[i]
    OBVIOUS
  <2> HIDE DEF grown
  <2>2. \A i \in 0 .. n : number[i] \in 0 .. k
    BY DEF n
  <2> HIDE DEF k
  <2>3. more \in [0 .. n + 1 -> 0 .. Len(grown)]
    BY <1>3, <2>1, <2>2
  <2>4. more[n + 1] = k + 1 /\ \A i \in 0 .. n : more[i] = number[i]
    BY <1>3
  <2> HIDE DEF more
  <2>5. ASSUME NEW i \in 1 .. n
        PROVE  /\ more[i] = IF long[i].to = r THEN more[i - 1] + 1 ELSE more[i - 1]
               /\ long[i].to = r => more[i] >= 1 /\ long[i] = grown[more[i]]
    <3>0. i \in 0 .. n /\ i - 1 \in 0 .. n
      BY <1>3
    <3>1. long[i] = w[i] /\ more[i] = number[i] /\ more[i - 1] = number[i - 1]
      BY <1>3, <2>4, <3>0, Zenon
    <3>2. i \in 1 .. Len(w)
      BY DEF n
    <3>3. w[i].to = r => number[i] >= 1 /\ w[i] = frames[number[i]]
      BY <1>2, <3>2, Zenon
    <3>4. number[i] \in 0 .. k
      BY <1>3, <2>2
    <3>5. number[i] >= 1 => grown[number[i]] = frames[number[i]]
      BY <2>1, <3>4
    <3>6. number[i] = IF w[i].to = r THEN number[i - 1] + 1 ELSE number[i - 1]
      BY <1>2, <3>2, Zenon
    <3>7. QED
      BY <3>1, <3>3, <3>5, <3>6, Zenon
  <2>6. number[n] = k
    BY <1>1, <1>7, Zenon DEF n, k
  <2>7. more[n + 1] = more[(n + 1) - 1] + 1 /\ more[n + 1] >= 1
    BY <1>3, <2>1, <2>4, <2>6
  <2>8. long[n + 1].to = r /\ long[n + 1] = grown[more[n + 1]]
    BY <1>3, <1>7, <2>1, <2>4, Zenon
  <2>9. ASSUME NEW i \in 1 .. Len(long)
        PROVE  /\ more[i] = IF long[i].to = r THEN more[i - 1] + 1 ELSE more[i - 1]
               /\ long[i].to = r => more[i] >= 1 /\ long[i] = grown[more[i]]
    BY <1>3, <1>5, <2>5, <2>7, <2>8, Zenon
  <2>10. more[0] = base
    BY <1>2, <1>3, <2>4
  <2>11. Numbers(more, long, r, base, grown)
    BY <2>9, <2>10, Zenon DEF Numbers
  <2>12. more[Len(long)] = Len(grown)
    BY <1>3, <2>1, <2>4, Zenon
  <2>13. more \in [0 .. Len(long) -> 0 .. Len(grown)]
    BY <1>3, <2>3, Zenon
  <2>14. Continues(long, r, base, grown, whole)
    BY <2>11, <2>12, <2>13, Zenon DEF Continues
  <2>15. QED
    BY <1>7, <2>14, Zenon DEF long, grown
<1>8. CASE e.to = r /\ ~whole
  BY <1>8, Zenon
<1>9. QED
  BY <1>6, <1>7, <1>8, Zenon

\* The wire is cut off: what is left still continues, and the rest is lost.
LEMMA ContinuesCut ==
    ASSUME NEW w \in Seq(Frame), NEW r, NEW base \in Nat, NEW frames \in Seq(Frame), NEW whole,
           NEW n \in 0 .. Len(w), Continues(w, r, base, frames, whole)
    PROVE  Continues(SubSeq(w, 1, n), r, base, frames, FALSE)
<1>1. PICK number \in [0 .. Len(w) -> 0 .. Len(frames)] : Numbers(number, w, r, base, frames)
  BY Zenon DEF Continues
<1> DEFINE cut == SubSeq(w, 1, n)
           first == [i \in 0 .. n |-> number[i]]
<1>2. /\ Len(w) \in Nat /\ n \in Nat /\ n <= Len(w) /\ Len(cut) = n
      /\ \A i \in 1 .. n : i \in 1 .. Len(w) /\ cut[i] = w[i]
  BY CutIs
<1>3. first \in [0 .. n -> 0 .. Len(frames)]
  BY <1>2
<1>4. \A i \in 0 .. n : first[i] = number[i]
  OBVIOUS
<1> HIDE DEF cut, first
<1>5. 0 \in 0 .. n /\ \A i \in 1 .. n : i \in 0 .. n /\ i - 1 \in 0 .. n
  BY <1>2
<1>6. Numbers(first, cut, r, base, frames)
  BY <1>1, <1>2, <1>4, <1>5, Zenon DEF Numbers
<1>7. Continues(cut, r, base, frames, FALSE)
  BY <1>2, <1>3, <1>6, Zenon DEF Continues
<1>8. QED
  BY <1>7 DEF cut

\* A request is pending on one connection at most.
LEMMA PendingOnce ==
    ASSUME TracesAreHeld, NEW c \in Connection, NEW d \in Connection, NEW q \in pending[c],
           q \in pending[d]
    PROVE  c = d
<1>1. conn[q] = c
  BY DEF TracesAreHeld, TraceOn
<1>2. conn[q] = d
  BY DEF TracesAreHeld, TraceOn
<1>3. QED
  BY <1>1, <1>2

\* What a request that is pending, and that is told nothing, keeps.
LEMMA UntoldKeeps ==
    ASSUME SocketShape, NEW S \in SUBSET Request, NEW kind \in Errors, items' = Told(S, kind),
           NEW q \in Request, q \notin S
    PROVE  items'[q] = items[q]
<1>1. \A p \in Request \ S : Told(S, kind)[p] = items[p]
  BY ToldIs
<1>2. QED
  BY <1>1

\* The requests that the Python client ends are those of its connections.
LEMMA DrainedAreTold ==
    ASSUME SocketShape, TracesAreHeld, NEW closed \in SUBSET Connection, StepDrains(closed),
           NEW d \in Connection, d \notin closed, NEW q \in pending[d]
    PROVE  q \in Request /\ items'[q] = items[q]
<1> DEFINE S == {p \in Request : \E c \in closed : p \in pending[c]}
<1>1. S \in SUBSET Request
  OBVIOUS
<1>2. q \in Request
  BY DEF SocketShape
<1>3. q \notin S
  <2>1. SUFFICES ASSUME NEW c \in closed, q \in pending[c] PROVE FALSE
    BY Zenon
  <2>2. c \in Connection /\ c # d
    OBVIOUS
  <2>3. QED
    BY <2>1, <2>2, PendingOnce
<1>4. items' = Told(S, "dropped")
  BY Zenon DEF StepDrains
<1>5. "dropped" \in Errors
  BY DEF Errors
<1> HIDE DEF S
<1>6. QED
  BY <1>1, <1>2, <1>3, <1>4, <1>5, UntoldKeeps, Zenon

\* Nothing was put on the wire, and the channels of those that are pending are the same.
LEMMA FramesSame ==
    ASSUME FramesContinue,
           \A d \in Connection : \A q \in pending'[d] :
               reader'[d] = "running" =>
                   /\ q \in pending[d] /\ reader[d] = "running" /\ wire'[d] = wire[d]
                   /\ items'[q] = items[q] /\ sent'[q] = sent[q] /\ socket'[d] = socket[d]
    PROVE  FramesContinue'
<1>1. SUFFICES ASSUME NEW d \in Connection, NEW q \in pending'[d], reader'[d] = "running"
               PROVE  Continues(wire'[d], q, Len(items'[q]), sent'[q], socket'[d] = "open")
  BY Zenon DEF FramesContinue, Continues, Numbers
<1>2. /\ q \in pending[d] /\ reader[d] = "running" /\ wire'[d] = wire[d]
      /\ items'[q] = items[q] /\ sent'[q] = sent[q] /\ socket'[d] = socket[d]
  BY <1>1, Zenon
<1>3. Continues(wire[d], q, Len(items[q]), sent[q], socket[d] = "open")
  BY <1>2, Zenon DEF FramesContinue
<1>4. QED
  BY <1>2, <1>3, Zenon

\* A request that is sent has an empty channel, and no frame was sent to it.
LEMMA FirstIsNothing ==
    ASSUME SocketInv, NEW r \in Request, phase[r] \in Unsent, phase[r] # "write",
           NEW d \in Connection, NEW whole
    PROVE  Continues(wire[d], r, 0, sent[r], whole)
<1>1. NoTrace(r) /\ sent[r] = <<>>
  BY UnsentHasNoTrace, Zenon DEF SocketInv, RequestIsSingle
<1>2. wire[d] \in Seq(Frame)
  BY Zenon DEF SocketInv, SocketShape
<1>3. \A i \in 1 .. Len(wire[d]) : wire[d][i].to # r
  BY <1>1, Zenon DEF NoTrace
<1>4. Continues(wire[d], r, 0, <<>>, whole)
  BY <1>2, <1>3, ContinuesNothing
<1>5. QED
  BY <1>1, <1>4, Zenon

\* A request is sent: its frames are none, and those of the others are as they were.
LEMMA FramesBegin ==
    ASSUME SocketInv, UNCHANGED <<socket, wire, reader, sent>>, NEW r \in Request,
           NEW c \in Connection, phase[r] \in Unsent, phase[r] # "write", Len(items'[r]) = 0,
           \A q \in Request : q # r => items'[q] = items[q],
           pending'[c] = pending[c] \cup {r}, OtherPending(c)
    PROVE  FramesContinue'
<1>0. SocketShape /\ FramesContinue
  BY Zenon DEF SocketInv
<1>1. ASSUME NEW d \in Connection, NEW q \in pending'[d], reader'[d] = "running"
      PROVE  Continues(wire'[d], q, Len(items'[q]), sent'[q], socket'[d] = "open")
  <2>1. CASE q = r
    <3>1. Continues(wire[d], r, 0, sent[r], socket[d] = "open")
      BY FirstIsNothing
    <3>2. QED
      BY <2>1, <3>1, Zenon
  <2>2. CASE q # r
    <3>1. q \in pending[d] /\ q \in Request
      BY <1>0, <2>2 DEF OtherPending, SocketShape
    <3>2. items'[q] = items[q]
      BY <2>2, <3>1, Zenon
    <3>3. Continues(wire[d], q, Len(items[q]), sent[q], socket[d] = "open")
      BY <1>0, <1>1, <3>1, Zenon DEF FramesContinue
    <3>4. QED
      BY <3>2, <3>3, Zenon
  <2>3. QED
    BY <2>1, <2>2, Zenon
<1>2. QED
  BY <1>1, Zenon DEF FramesContinue, Continues, Numbers

\* A step keeps the frames under way in line with the channels.
LEMMA FramesKept ==
    ASSUME SocketInv, SocketShape', Step
    PROVE  FramesContinue'
<1>0. SocketShape /\ CallerShape /\ TracesAreHeld /\ FramesContinue
  BY Zenon DEF SocketInv
<1>1. CASE StepQuiet
  <2>1. \A d \in Connection : \A q \in pending'[d] :
            reader'[d] = "running" =>
                /\ q \in pending[d] /\ reader[d] = "running" /\ wire'[d] = wire[d]
                /\ items'[q] = items[q] /\ sent'[q] = sent[q] /\ socket'[d] = socket[d]
    BY <1>1, Zenon DEF StepQuiet, OtherPending
  <2>2. QED
    BY <1>0, <2>1, FramesSame, Zenon
<1>2. ASSUME NEW r \in Request, NEW c \in Connection, StepRegisters(r, c) PROVE FramesContinue'
  <2>1. /\ UNCHANGED <<socket, wire, reader, sent>> /\ items'[r] = <<>>
        /\ pending'[c] = pending[c] \cup {r} /\ OtherPending(c)
        /\ \A q \in Request : q # r => items'[q] = items[q]
    BY <1>2, Zenon DEF StepRegisters
  <2>2. phase[r] \in Unsent /\ phase[r] # "write"
    BY <1>2 DEF StepRegisters, Unsent, Before
  <2>3. Len(items'[r]) = 0
    BY <2>1
  <2>4. QED
    BY <1>0, <2>1, <2>2, <2>3, FramesBegin
<1>3. ASSUME NEW r \in Request, NEW c \in Connection, StepSends(r, c) PROVE FramesContinue'
  <2>1. /\ UNCHANGED <<socket, wire, reader, sent, items>>
        /\ pending'[c] = pending[c] \cup {r} /\ OtherPending(c)
    BY <1>3, Zenon DEF StepSends
  <2>2. phase[r] \in Unsent /\ phase[r] # "write" /\ library # "rust"
    BY <1>3 DEF StepSends, Unsent, Before
  <2>3. items[r] = <<>>
    BY <1>0, <2>2 DEF CallerShape, CallerOf
  <2>4. Len(items'[r]) = 0
    BY <2>1, <2>3
  <2>5. QED
    BY <1>0, <2>1, <2>2, <2>4, FramesBegin
<1>4. ASSUME NEW r \in Request, NEW c \in Connection, StepWrites(r, c) PROVE FramesContinue'
  <2>1. \A d \in Connection : \A q \in pending'[d] :
            reader'[d] = "running" =>
                /\ q \in pending[d] /\ reader[d] = "running" /\ wire'[d] = wire[d]
                /\ items'[q] = items[q] /\ sent'[q] = sent[q] /\ socket'[d] = socket[d]
    BY <1>4, Zenon DEF StepWrites, OtherPending
  <2>2. QED
    BY <1>0, <2>1, FramesSame, Zenon
<1>5. ASSUME NEW r \in Request, NEW c \in Connection, StepRefused(r, c) PROVE FramesContinue'
  <2>1. \A d \in Connection : \A q \in pending'[d] :
            reader'[d] = "running" =>
                /\ q \in pending[d] /\ reader[d] = "running" /\ wire'[d] = wire[d]
                /\ items'[q] = items[q] /\ sent'[q] = sent[q] /\ socket'[d] = socket[d]
    BY <1>5 DEF StepRefused, OtherPending
  <2>2. QED
    BY <1>0, <2>1, FramesSame, Zenon
<1>6. ASSUME NEW r \in Request, NEW c \in Connection, StepStops(r, c) PROVE FramesContinue'
  <2>1. \A d \in Connection : \A q \in pending'[d] :
            reader'[d] = "running" =>
                /\ q \in pending[d] /\ reader[d] = "running" /\ wire'[d] = wire[d]
                /\ items'[q] = items[q] /\ sent'[q] = sent[q] /\ socket'[d] = socket[d]
    BY <1>6 DEF StepStops, OtherPending
  <2>2. QED
    BY <1>0, <2>1, FramesSame, Zenon
<1>7. ASSUME NEW r \in Request, StepYields(r) PROVE FramesContinue'
  <2>1. \A d \in Connection : \A q \in pending'[d] :
            reader'[d] = "running" =>
                /\ q \in pending[d] /\ reader[d] = "running" /\ wire'[d] = wire[d]
                /\ items'[q] = items[q] /\ sent'[q] = sent[q] /\ socket'[d] = socket[d]
    BY <1>7, Zenon DEF StepYields, OtherPending
  <2>2. QED
    BY <1>0, <2>1, FramesSame, Zenon
<1>8. ASSUME NEW r \in Request, StepEnds(r) PROVE FramesContinue'
  <2>1. \A d \in Connection : \A q \in pending'[d] :
            reader'[d] = "running" =>
                /\ q \in pending[d] /\ reader[d] = "running" /\ wire'[d] = wire[d]
                /\ items'[q] = items[q] /\ sent'[q] = sent[q] /\ socket'[d] = socket[d]
    BY <1>8, Zenon DEF StepEnds, OtherPending
  <2>2. QED
    BY <1>0, <2>1, FramesSame, Zenon
<1>9. ASSUME NEW c \in Connection, StepDelivers(c) PROVE FramesContinue'
  <2> DEFINE f == wire[c][1]
  <2>1. /\ UNCHANGED <<socket, reader, sent>> /\ Len(wire[c]) > 0 /\ wire'[c] = Tail(wire[c])
        /\ OtherWires(c) /\ OtherPending(c) /\ f.to \in pending[c] /\ f.to \in Request
        /\ items'[f.to] = Append(items[f.to], f)
        /\ \A q \in Request : q # f.to => items'[q] = items[q]
        /\ pending'[c] = pending[c] \/ pending'[c] = pending[c] \ {f.to}
    BY <1>9, Zenon DEF StepDelivers, StepReads
  <2>2. ASSUME NEW d \in Connection, NEW q \in pending'[d], reader'[d] = "running"
        PROVE  Continues(wire'[d], q, Len(items'[q]), sent'[q], socket'[d] = "open")
    <3>1. q \in pending[d] /\ q \in Request
      <4>1. pending[d] \subseteq Request /\ pending'[d] \subseteq pending[d]
        BY <1>0, <2>1 DEF SocketShape, OtherPending
      <4>2. QED
        BY <4>1
    <3>2. Continues(wire[d], q, Len(items[q]), sent[q], socket[d] = "open")
      BY <1>0, <2>1, <2>2, <3>1, Zenon DEF FramesContinue
    <3>3. /\ wire[d] \in Seq(Frame) /\ sent[q] \in Seq(Frame) /\ items[q] \in Seq(Item)
          /\ Len(items[q]) \in Nat
      BY <1>0, <3>1 DEF SocketShape
    <3>4. CASE d # c
      <4>1. q # f.to
        BY <1>0, <2>1, <3>1, <3>4, PendingOnce
      <4>2. wire'[d] = wire[d] /\ items'[q] = items[q]
        BY <2>1, <3>1, <3>4, <4>1, Zenon DEF OtherWires
      <4>3. QED
        BY <2>1, <3>2, <4>2, Zenon
    <3>5. CASE d = c /\ q # f.to
      <4>1. items'[q] = items[q] /\ wire'[d] = Tail(wire[d]) /\ Len(wire[d]) > 0 /\ wire[d][1].to # q
        BY <2>1, <3>1, <3>5, Zenon
      <4>2. Continues(Tail(wire[d]), q, Len(items[q]), sent[q], socket[d] = "open")
        BY <3>2, <3>3, <4>1, ContinuesTail
      <4>3. QED
        BY <2>1, <4>1, <4>2, Zenon
    <3>6. CASE d = c /\ q = f.to
      <4>1. items'[q] = Append(items[q], f) /\ wire'[d] = Tail(wire[d]) /\ Len(wire[d]) > 0
            /\ wire[d][1].to = q
        BY <2>1, <3>6, Zenon
      <4>2. Continues(Tail(wire[d]), q, Len(items[q]) + 1, sent[q], socket[d] = "open")
        BY <3>2, <3>3, <4>1, ContinuesTail
      <4>3. Len(items'[q]) = Len(items[q]) + 1
        BY <3>3, <4>1
      <4>4. QED
        BY <2>1, <4>1, <4>2, <4>3, Zenon
    <3>7. QED
      BY <3>4, <3>5, <3>6, Zenon
  <2>3. QED
    BY <2>2, Zenon DEF FramesContinue, Continues, Numbers
<1>10. ASSUME NEW c \in Connection, StepReadEnds(c) PROVE FramesContinue'
  <2>1. /\ UNCHANGED <<wire, pending, sent, socket>> /\ reader'[c] = "draining"
        /\ \A d \in Connection : d # c => reader'[d] = reader[d]
        /\ items' = Told(pending[c], "dropped")
    BY <1>10, Zenon DEF StepReadEnds
  <2>2. ASSUME NEW d \in Connection, NEW q \in pending'[d], reader'[d] = "running"
        PROVE  /\ q \in pending[d] /\ reader[d] = "running" /\ wire'[d] = wire[d]
               /\ items'[q] = items[q] /\ sent'[q] = sent[q] /\ socket'[d] = socket[d]
    <3>1. d # c
      BY <2>1, <2>2
    <3>2. q \in pending[d] /\ q \in Request /\ pending[c] \in SUBSET Request
      BY <1>0, <2>1 DEF SocketShape
    <3>3. q \notin pending[c]
      BY <1>0, <3>1, <3>2, PendingOnce
    <3>4. "dropped" \in Errors
      BY DEF Errors
    <3>5. items'[q] = items[q]
      BY <1>0, <2>1, <3>2, <3>3, <3>4, UntoldKeeps, Zenon
    <3>6. QED
      BY <2>1, <2>2, <3>1, <3>2, <3>5, Zenon
  <2>3. QED
    BY <1>0, <2>2, FramesSame, Zenon
<1>11. ASSUME NEW c \in Connection, StepClears(c) PROVE FramesContinue'
  <2>1. \A d \in Connection : \A q \in pending'[d] :
            reader'[d] = "running" =>
                /\ q \in pending[d] /\ reader[d] = "running" /\ wire'[d] = wire[d]
                /\ items'[q] = items[q] /\ sent'[q] = sent[q] /\ socket'[d] = socket[d]
    BY <1>11 DEF StepClears, OtherPending
  <2>2. QED
    BY <1>0, <2>1, FramesSame, Zenon
<1>12. ASSUME NEW c \in Connection, StepAsks(c) PROVE FramesContinue'
  <2>1. \A d \in Connection : \A q \in pending'[d] :
            reader'[d] = "running" =>
                /\ q \in pending[d] /\ reader[d] = "running" /\ wire'[d] = wire[d]
                /\ items'[q] = items[q] /\ sent'[q] = sent[q] /\ socket'[d] = socket[d]
    BY <1>12, Zenon DEF StepAsks, StepUnqueues, OtherPending
  <2>2. QED
    BY <1>0, <2>1, FramesSame, Zenon
<1>13. ASSUME NEW c \in Connection, StepOrdersStop(c) PROVE FramesContinue'
  <2>1. \A d \in Connection : \A q \in pending'[d] :
            reader'[d] = "running" =>
                /\ q \in pending[d] /\ reader[d] = "running" /\ wire'[d] = wire[d]
                /\ items'[q] = items[q] /\ sent'[q] = sent[q] /\ socket'[d] = socket[d]
    BY <1>13, Zenon DEF StepOrdersStop, StepUnqueues, OtherPending
  <2>2. QED
    BY <1>0, <2>1, FramesSame, Zenon
<1>14. ASSUME NEW c \in Connection, StepLoses(c) PROVE FramesContinue'
  <2>1. \A d \in Connection : \A q \in pending'[d] :
            reader'[d] = "running" =>
                /\ q \in pending[d] /\ reader[d] = "running" /\ wire'[d] = wire[d]
                /\ items'[q] = items[q] /\ sent'[q] = sent[q] /\ socket'[d] = socket[d]
    BY <1>14, Zenon DEF StepLoses, StepUnqueues, OtherPending
  <2>2. QED
    BY <1>0, <2>1, FramesSame, Zenon
<1>15. ASSUME NEW c \in Connection, StepDrops(c) PROVE FramesContinue'
  <2>1. /\ UNCHANGED <<reader, pending, items, sent>> /\ OtherWires(c)
        /\ socket'[c] = "closed" /\ \A d \in Connection : d # c => socket'[d] = socket[d]
    BY <1>15, Zenon DEF StepDrops
  <2>2. PICK n \in 0 .. Len(wire[c]) : wire'[c] = SubSeq(wire[c], 1, n)
    BY <1>15, Zenon DEF StepDrops
  <2>3. ASSUME NEW d \in Connection, NEW q \in pending'[d], reader'[d] = "running"
        PROVE  Continues(wire'[d], q, Len(items'[q]), sent'[q], socket'[d] = "open")
    <3>1. q \in pending[d] /\ q \in Request
      BY <1>0, <2>1 DEF SocketShape
    <3>2. Continues(wire[d], q, Len(items[q]), sent[q], socket[d] = "open")
      BY <1>0, <2>1, <2>3, <3>1, Zenon DEF FramesContinue
    <3>3. CASE d # c
      BY <2>1, <3>2, <3>3, Zenon DEF OtherWires
    <3>4. CASE d = c
      <4>1. wire[d] \in Seq(Frame) /\ sent[q] \in Seq(Frame) /\ Len(items[q]) \in Nat
        BY <1>0, <3>1 DEF SocketShape
      <4>2. Continues(SubSeq(wire[d], 1, n), q, Len(items[q]), sent[q], FALSE)
        BY <3>2, <3>4, <4>1, ContinuesCut
      <4>3. Continues(SubSeq(wire[d], 1, n), q, Len(items[q]), sent[q], socket'[d] = "open")
        <5>1. ~(socket'[d] = "open")
          BY <2>1, <3>4
        <5>2. QED
          BY <4>2, <5>1, Zenon DEF Continues
      <4>4. QED
        BY <2>1, <2>2, <3>4, <4>3, Zenon
    <3>5. QED
      BY <3>3, <3>4, Zenon
  <2>4. QED
    BY <2>3, Zenon DEF FramesContinue, Continues, Numbers
<1>16. ASSUME NEW c \in Connection, NEW S \in SUBSET pending[c], StepSpoils(c, S) PROVE FramesContinue'
  <2> DEFINE f == wire[c][1]
  <2>1. /\ UNCHANGED <<socket, reader, sent>> /\ Len(wire[c]) > 0 /\ wire'[c] = Tail(wire[c])
        /\ OtherWires(c) /\ OtherPending(c) /\ (f.to \in pending[c] => f.to \in S)
        /\ items' = Told(S, "unparsable") /\ pending'[c] = pending[c] \ S
    BY <1>16, Zenon DEF StepSpoils, StepReads
  <2>2. S \in SUBSET Request /\ "unparsable" \in Errors
    BY <1>0 DEF SocketShape, Errors
  <2>3. ASSUME NEW d \in Connection, NEW q \in pending'[d], reader'[d] = "running"
        PROVE  Continues(wire'[d], q, Len(items'[q]), sent'[q], socket'[d] = "open")
    <3>1. q \in pending[d] /\ q \in Request /\ (d = c => q \notin S)
      <4>1. pending[d] \subseteq Request /\ pending'[d] \subseteq pending[d]
        BY <1>0, <2>1 DEF SocketShape, OtherPending
      <4>2. d = c => q \notin S
        BY <2>1
      <4>3. QED
        BY <4>1, <4>2
    <3>2. q \notin S
      <4>1. q \in S => q \in pending[c]
        OBVIOUS
      <4>2. QED
        BY <1>0, <3>1, <4>1, PendingOnce
    <3>3. items'[q] = items[q]
      BY <1>0, <2>1, <2>2, <3>1, <3>2, UntoldKeeps, Zenon
    <3>4. Continues(wire[d], q, Len(items[q]), sent[q], socket[d] = "open")
      BY <1>0, <2>1, <2>3, <3>1, Zenon DEF FramesContinue
    <3>5. CASE d # c
      BY <2>1, <3>3, <3>4, <3>5, Zenon DEF OtherWires
    <3>6. CASE d = c
      <4>1. wire[d] \in Seq(Frame) /\ sent[q] \in Seq(Frame) /\ Len(items[q]) \in Nat
        BY <1>0, <3>1 DEF SocketShape
      <4>2. wire'[d] = Tail(wire[d]) /\ Len(wire[d]) > 0 /\ wire[d][1].to # q
        BY <2>1, <3>1, <3>2, <3>6, Zenon
      <4>3. Continues(Tail(wire[d]), q, Len(items[q]), sent[q], socket[d] = "open")
        BY <3>4, <4>1, <4>2, ContinuesTail
      <4>4. QED
        BY <2>1, <3>3, <4>2, <4>3, Zenon
    <3>7. QED
      BY <3>5, <3>6, Zenon
  <2>4. QED
    BY <2>3, Zenon DEF FramesContinue, Continues, Numbers
<1>17. ASSUME NEW closed \in SUBSET Connection, StepDrains(closed) PROVE FramesContinue'
  <2>1. ASSUME NEW d \in Connection, NEW q \in pending'[d], reader'[d] = "running"
        PROVE  /\ q \in pending[d] /\ reader[d] = "running" /\ wire'[d] = wire[d]
               /\ items'[q] = items[q] /\ sent'[q] = sent[q] /\ socket'[d] = socket[d]
    <3>1. d \notin closed
      BY <1>17, <2>1 DEF StepDrains
    <3>2. /\ q \in pending[d] /\ reader[d] = "running" /\ UNCHANGED <<wire, sent>>
          /\ socket'[d] = socket[d]
      BY <1>17, <2>1, <3>1, Zenon DEF StepDrains
    <3>3. items'[q] = items[q]
      BY <1>17, <1>0, <3>1, <3>2, DrainedAreTold
    <3>4. QED
      BY <3>2, <3>3, Zenon
  <2>2. QED
    BY <1>0, <2>1, FramesSame, Zenon
<1>18. ASSUME NEW c \in Connection, NEW r \in Request, NEW kind \in Kind,
            StepAnswers(c, r, kind)
     PROVE  FramesContinue'
  <2> DEFINE f == [to |-> r, kind |-> kind]
  <2>1. /\ UNCHANGED <<reader, pending, items, socket>> /\ OtherWires(c)
        /\ socket[c] = "open" /\ r \in serving[c]
        /\ sent'[r] = Append(sent[r], f) /\ \A q \in Request : q # r => sent'[q] = sent[q]
        /\ wire'[c] = Append(wire[c], f)
    BY <1>18, Zenon DEF StepAnswers
  <2>2. f \in Frame /\ f.to = r
    BY DEF Frame
  <2>3. conn[r] = c
    BY <1>0, <2>1, Zenon DEF TracesAreHeld, TraceOn
  <2> HIDE DEF f
  <2>4. ASSUME NEW d \in Connection, NEW q \in pending'[d], reader'[d] = "running"
        PROVE  Continues(wire'[d], q, Len(items'[q]), sent'[q], socket'[d] = "open")
    <3>1. q \in pending[d] /\ q \in Request
      BY <1>0, <2>1 DEF SocketShape
    <3>2. Continues(wire[d], q, Len(items[q]), sent[q], socket[d] = "open")
      BY <1>0, <2>1, <2>4, <3>1, Zenon DEF FramesContinue
    <3>3. wire[d] \in Seq(Frame) /\ sent[q] \in Seq(Frame) /\ Len(items[q]) \in Nat
      BY <1>0, <3>1 DEF SocketShape
    <3>4. CASE d # c
      <4>0. conn[q] = d
        BY <1>0, <3>1 DEF TracesAreHeld, TraceOn
      <4>1. q # r
        BY <2>3, <3>4, <4>0, Zenon
      <4>2. QED
        BY <2>1, <3>1, <3>2, <3>4, <4>1, Zenon DEF OtherWires
    <3>5. CASE d = c /\ q # r
      <4>1. wire'[d] = Append(wire[d], f) /\ sent'[q] = sent[q] /\ f.to # q
        BY <2>1, <2>2, <3>1, <3>5, Zenon
      <4>2. Continues(Append(wire[d], f), q, Len(items[q]), sent[q], socket[d] = "open")
        BY <2>2, <3>2, <3>3, <4>1, ContinuesAppend
      <4>3. QED
        BY <2>1, <4>1, <4>2, Zenon
    <3>6. CASE d = c /\ q = r
      <4>1. /\ wire'[d] = Append(wire[d], f) /\ sent'[q] = Append(sent[q], f) /\ f.to = q
            /\ socket[d] = "open"
        BY <2>1, <2>2, <3>6, Zenon
      <4>2. Continues(Append(wire[d], f), q, Len(items[q]), Append(sent[q], f), socket[d] = "open")
        BY <2>2, <3>2, <3>3, <4>1, ContinuesAppend
      <4>3. QED
        BY <2>1, <4>1, <4>2, Zenon
    <3>7. QED
      BY <3>4, <3>5, <3>6, Zenon
  <2>5. QED
    BY <2>4, Zenon DEF FramesContinue, Continues, Numbers
<1>19. QED
  BY <1>1, <1>2, <1>3, <1>4, <1>5, <1>6, <1>7, <1>8, <1>9, <1>10, <1>11, <1>12, <1>13, <1>14,
      <1>15, <1>16, <1>17, <1>18, Zenon DEF Step

\* An error is no frame's kind.
LEMMA ErrorIsNoFrame == ASSUME NEW k \in Kind PROVE k \notin {"dropped", "unparsable"}
BY DEF Kind

\* Some requests are told of an error, after frames only: it is the last they are given.
LEMMA ErrorIsLast ==
    ASSUME SocketShape, OwnFramesInOrder, NEW S \in SUBSET Request, NEW kind \in Errors,
           items' = Told(S, kind), UNCHANGED sent,
           \A q \in S : \A i \in 1 .. Len(items[q]) : items[q][i].kind \in Kind
    PROVE  OwnFramesInOrder'
<1>1. ASSUME NEW q \in Request, NEW i \in 1 .. Len(items'[q])
      PROVE  \/ i <= Len(sent'[q]) /\ items'[q][i] = sent'[q][i]
             \/ i = Len(items'[q]) /\ items'[q][i].kind \in {"dropped", "unparsable"}
  <2>1. CASE q \notin S
    <3>1. items'[q] = items[q]
      BY <2>1, UntoldKeeps
    <3>2. QED
      BY <3>1, Zenon DEF OwnFramesInOrder
  <2>2. CASE q \in S
    <3>1. /\ Len(items'[q]) = Len(items[q]) + 1 /\ items'[q][Len(items[q]) + 1].kind = kind
          /\ \A j \in 1 .. Len(items[q]) : items'[q][j] = items[q][j]
      <4>1. /\ \A p \in S : /\ Len(Told(S, kind)[p]) = Len(items[p]) + 1
                            /\ Told(S, kind)[p][Len(items[p]) + 1].kind = kind
            /\ \A p \in Request : \A j \in 1 .. Len(items[p]) : Told(S, kind)[p][j] = items[p][j]
        BY ToldIs, Zenon
      <4>2. QED
        BY <2>2, <4>1, Zenon
    <3>2. Len(items[q]) \in Nat
      BY DEF SocketShape
    <3>3. i = Len(items[q]) + 1 \/ i \in 1 .. Len(items[q])
      BY <3>1, <3>2
    <3>4. CASE i = Len(items[q]) + 1
      BY <3>1, <3>4, Zenon DEF Errors
    <3>5. CASE i \in 1 .. Len(items[q])
      <4>1. items'[q][i] = items[q][i] /\ items[q][i].kind \in Kind
        BY <2>2, <3>1, <3>5, Zenon
      <4>2. items[q][i].kind \notin {"dropped", "unparsable"}
        BY <4>1, ErrorIsNoFrame
      <4>3. i <= Len(sent[q]) /\ items[q][i] = sent[q][i]
        BY <3>5, <4>2, Zenon DEF OwnFramesInOrder
      <4>4. QED
        BY <4>1, <4>3, Zenon
    <3>6. QED
      BY <3>3, <3>4, <3>5, Zenon
  <2>3. QED
    BY <2>1, <2>2, Zenon
<1>2. QED
  BY <1>1, Zenon DEF OwnFramesInOrder

\* The frame that is delivered is the one that its channel lacks.
LEMMA NextIsDelivered ==
    ASSUME SocketInv, NEW c \in Connection, StepDelivers(c)
    PROVE  /\ wire[c][1].to \in Request
           /\ Len(items[wire[c][1].to]) + 1 <= Len(sent[wire[c][1].to])
           /\ wire[c][1] = sent[wire[c][1].to][Len(items[wire[c][1].to]) + 1]
<1> DEFINE r == wire[c][1].to
<1>0. SocketShape /\ FramesContinue
  BY Zenon DEF SocketInv
<1>1. r \in Request /\ r \in pending[c] /\ reader[c] = "running" /\ Len(wire[c]) > 0
  BY Zenon DEF StepDelivers, StepReads
<1>2. Continues(wire[c], r, Len(items[r]), sent[r], socket[c] = "open")
  BY <1>0, <1>1, Zenon DEF FramesContinue
<1>3. wire[c] \in Seq(Frame) /\ sent[r] \in Seq(Frame) /\ Len(items[r]) \in Nat
  BY <1>0, <1>1 DEF SocketShape
<1>4. Len(items[r]) + 1 <= Len(sent[r]) /\ wire[c][1] = sent[r][Len(items[r]) + 1]
  BY <1>1, <1>2, <1>3, ContinuesTail
<1>5. QED
  BY <1>1, <1>4

\* A request is sent, and its channel holds no error.
LEMMA NoErrorBegins ==
    ASSUME SocketShape, NoErrorYet, UNCHANGED reader, NEW r \in Request, NEW c \in Connection,
           pending'[c] = pending[c] \cup {r}, OtherPending(c),
           \A q \in Request : q # r => items'[q] = items[q],
           \A i \in 1 .. Len(items'[r]) : items'[r][i].kind \in Kind
    PROVE  NoErrorYet'
<1>1. ASSUME NEW d \in Connection, NEW q \in pending'[d], reader'[d] # "draining"
      PROVE  \A i \in 1 .. Len(items'[q]) : items'[q][i].kind \in Kind
  <2>1. CASE q = r
    BY <2>1
  <2>2. CASE q # r
    <3>0. pending[d] \subseteq Request /\ (pending'[d] = pending[d] \/ pending'[d] = pending[d] \cup {r})
      BY DEF OtherPending, SocketShape
    <3>1. q \in pending[d] /\ q \in Request
      BY <2>2, <3>0
    <3>2. items'[q] = items[q] /\ reader[d] # "draining"
      BY <1>1, <2>2, <3>1, Zenon
    <3>3. QED
      BY <3>1, <3>2, Zenon DEF NoErrorYet
  <2>3. QED
    BY <2>1, <2>2
<1>2. QED
  BY <1>1, Zenon DEF NoErrorYet

\* A step gives no error to a request that stays pending.
LEMMA NoErrorKept ==
    ASSUME SocketInv, SocketShape', Step
    PROVE  NoErrorYet'
<1>0. SocketShape /\ CallerShape /\ TracesAreHeld /\ NoErrorYet
  BY Zenon DEF SocketInv
<1>1. CASE StepQuiet
  <2>1. \A d \in Connection : \A q \in pending'[d] :
            reader'[d] # "draining" => q \in pending[d] /\ reader[d] # "draining" /\ items'[q] = items[q]
    BY <1>1, Zenon DEF StepQuiet, OtherPending
  <2>2. QED
    BY <1>0, <2>1, Zenon DEF NoErrorYet
<1>2. ASSUME NEW r \in Request, NEW c \in Connection, StepRegisters(r, c) PROVE NoErrorYet'
  <2>1. /\ UNCHANGED reader /\ items'[r] = <<>> /\ pending'[c] = pending[c] \cup {r} /\ OtherPending(c)
        /\ \A q \in Request : q # r => items'[q] = items[q]
    BY <1>2, Zenon DEF StepRegisters
  <2>2. \A i \in 1 .. Len(items'[r]) : items'[r][i].kind \in Kind
    BY <2>1
  <2>3. QED
    BY <1>0, <2>1, <2>2, NoErrorBegins
<1>3. ASSUME NEW r \in Request, NEW c \in Connection, StepSends(r, c) PROVE NoErrorYet'
  <2>1. UNCHANGED <<reader, items>> /\ pending'[c] = pending[c] \cup {r} /\ OtherPending(c)
    BY <1>3, Zenon DEF StepSends
  <2>2. items[r] = <<>>
    BY <1>3, <1>0 DEF StepSends, CallerShape, CallerOf, Unsent, Before
  <2>3. \A i \in 1 .. Len(items'[r]) : items'[r][i].kind \in Kind
    BY <2>1, <2>2
  <2>4. QED
    BY <1>0, <2>1, <2>3, NoErrorBegins
<1>4. ASSUME NEW r \in Request, NEW c \in Connection, StepWrites(r, c) PROVE NoErrorYet'
  <2>1. \A d \in Connection : \A q \in pending'[d] :
            reader'[d] # "draining" => q \in pending[d] /\ reader[d] # "draining" /\ items'[q] = items[q]
    BY <1>4, Zenon DEF StepWrites, OtherPending
  <2>2. QED
    BY <1>0, <2>1, Zenon DEF NoErrorYet
<1>5. ASSUME NEW r \in Request, NEW c \in Connection, StepRefused(r, c) PROVE NoErrorYet'
  <2>1. \A d \in Connection : \A q \in pending'[d] :
            reader'[d] # "draining" => q \in pending[d] /\ reader[d] # "draining" /\ items'[q] = items[q]
    BY <1>5 DEF StepRefused, OtherPending
  <2>2. QED
    BY <1>0, <2>1, Zenon DEF NoErrorYet
<1>6. ASSUME NEW r \in Request, NEW c \in Connection, StepStops(r, c) PROVE NoErrorYet'
  <2>1. \A d \in Connection : \A q \in pending'[d] :
            reader'[d] # "draining" => q \in pending[d] /\ reader[d] # "draining" /\ items'[q] = items[q]
    BY <1>6 DEF StepStops, OtherPending
  <2>2. QED
    BY <1>0, <2>1, Zenon DEF NoErrorYet
<1>7. ASSUME NEW r \in Request, StepYields(r) PROVE NoErrorYet'
  <2>1. \A d \in Connection : \A q \in pending'[d] :
            reader'[d] # "draining" => q \in pending[d] /\ reader[d] # "draining" /\ items'[q] = items[q]
    BY <1>7, Zenon DEF StepYields, OtherPending
  <2>2. QED
    BY <1>0, <2>1, Zenon DEF NoErrorYet
<1>8. ASSUME NEW r \in Request, StepEnds(r) PROVE NoErrorYet'
  <2>1. \A d \in Connection : \A q \in pending'[d] :
            reader'[d] # "draining" => q \in pending[d] /\ reader[d] # "draining" /\ items'[q] = items[q]
    BY <1>8, Zenon DEF StepEnds, OtherPending
  <2>2. QED
    BY <1>0, <2>1, Zenon DEF NoErrorYet
<1>9. ASSUME NEW c \in Connection, StepDelivers(c) PROVE NoErrorYet'
  <2> DEFINE f == wire[c][1]
  <2>1. /\ UNCHANGED reader /\ OtherPending(c) /\ f.to \in pending[c] /\ f.to \in Request
        /\ f.kind \in Kind /\ reader[c] = "running"
        /\ items'[f.to] = Append(items[f.to], f)
        /\ \A q \in Request : q # f.to => items'[q] = items[q]
        /\ pending'[c] = pending[c] \/ pending'[c] = pending[c] \ {f.to}
    BY <1>9, Zenon DEF StepDelivers, StepReads
  <2>2. ASSUME NEW d \in Connection, NEW q \in pending'[d], reader'[d] # "draining",
               NEW i \in 1 .. Len(items'[q])
        PROVE  items'[q][i].kind \in Kind
    <3>1. q \in pending[d] /\ q \in Request
      <4>1. pending[d] \subseteq Request /\ pending'[d] \subseteq pending[d]
        BY <1>0, <2>1 DEF SocketShape, OtherPending
      <4>2. QED
        BY <4>1
    <3>2. \A j \in 1 .. Len(items[q]) : items[q][j].kind \in Kind
      BY <1>0, <2>1, <2>2, <3>1, Zenon DEF NoErrorYet
    <3>3. CASE q # f.to
      BY <2>1, <3>1, <3>2, <3>3, Zenon
    <3>4. CASE q = f.to
      <4>1. items'[q] = Append(items[q], f) /\ items[q] \in Seq(Item)
        BY <1>0, <2>1, <3>1, <3>4 DEF SocketShape
      <4>2. items'[q][i] = f \/ (i \in 1 .. Len(items[q]) /\ items'[q][i] = items[q][i])
        BY <4>1
      <4>3. QED
        BY <2>1, <3>2, <4>2, Zenon
    <3>5. QED
      BY <3>3, <3>4, Zenon
  <2>3. QED
    BY <2>2, Zenon DEF NoErrorYet
<1>10. ASSUME NEW c \in Connection, StepReadEnds(c) PROVE NoErrorYet'
  <2>1. /\ UNCHANGED pending /\ reader'[c] = "draining" /\ reader[c] = "running"
        /\ \A d \in Connection : d # c => reader'[d] = reader[d]
        /\ items' = Told(pending[c], "dropped")
    BY <1>10, Zenon DEF StepReadEnds
  <2>2. ASSUME NEW d \in Connection, NEW q \in pending'[d], reader'[d] # "draining"
        PROVE  q \in pending[d] /\ reader[d] # "draining" /\ items'[q] = items[q]
    <3>1. d # c
      BY <2>1, <2>2
    <3>2. q \in pending[d] /\ q \in Request /\ pending[c] \in SUBSET Request
      BY <1>0, <2>1 DEF SocketShape
    <3>3. q \notin pending[c]
      BY <1>0, <3>1, <3>2, PendingOnce
    <3>4. "dropped" \in Errors
      BY DEF Errors
    <3>5. items'[q] = items[q]
      BY <1>0, <2>1, <3>2, <3>3, <3>4, UntoldKeeps, Zenon
    <3>6. QED
      BY <2>1, <2>2, <3>1, <3>2, <3>5, Zenon
  <2>3. QED
    BY <1>0, <2>2, Zenon DEF NoErrorYet
<1>11. ASSUME NEW c \in Connection, StepClears(c) PROVE NoErrorYet'
  <2>1. \A d \in Connection : \A q \in pending'[d] :
            reader'[d] # "draining" => q \in pending[d] /\ reader[d] # "draining" /\ items'[q] = items[q]
    BY <1>11 DEF StepClears, OtherPending
  <2>2. QED
    BY <1>0, <2>1, Zenon DEF NoErrorYet
<1>12. ASSUME NEW c \in Connection, StepAsks(c) PROVE NoErrorYet'
  <2>1. \A d \in Connection : \A q \in pending'[d] :
            reader'[d] # "draining" => q \in pending[d] /\ reader[d] # "draining" /\ items'[q] = items[q]
    BY <1>12, Zenon DEF StepAsks, StepUnqueues, OtherPending
  <2>2. QED
    BY <1>0, <2>1, Zenon DEF NoErrorYet
<1>13. ASSUME NEW c \in Connection, StepOrdersStop(c) PROVE NoErrorYet'
  <2>1. \A d \in Connection : \A q \in pending'[d] :
            reader'[d] # "draining" => q \in pending[d] /\ reader[d] # "draining" /\ items'[q] = items[q]
    BY <1>13, Zenon DEF StepOrdersStop, StepUnqueues, OtherPending
  <2>2. QED
    BY <1>0, <2>1, Zenon DEF NoErrorYet
<1>14. ASSUME NEW c \in Connection, StepLoses(c) PROVE NoErrorYet'
  <2>1. \A d \in Connection : \A q \in pending'[d] :
            reader'[d] # "draining" => q \in pending[d] /\ reader[d] # "draining" /\ items'[q] = items[q]
    BY <1>14, Zenon DEF StepLoses, StepUnqueues, OtherPending
  <2>2. QED
    BY <1>0, <2>1, Zenon DEF NoErrorYet
<1>15. ASSUME NEW c \in Connection, StepDrops(c) PROVE NoErrorYet'
  <2>1. \A d \in Connection : \A q \in pending'[d] :
            reader'[d] # "draining" => q \in pending[d] /\ reader[d] # "draining" /\ items'[q] = items[q]
    BY <1>15, Zenon DEF StepDrops, OtherPending
  <2>2. QED
    BY <1>0, <2>1, Zenon DEF NoErrorYet
<1>16. ASSUME NEW c \in Connection, NEW S \in SUBSET pending[c], StepSpoils(c, S) PROVE NoErrorYet'
  <2>1. /\ UNCHANGED reader /\ OtherPending(c)
        /\ items' = Told(S, "unparsable") /\ pending'[c] = pending[c] \ S
    BY <1>16, Zenon DEF StepSpoils, StepReads
  <2>2. S \in SUBSET Request /\ "unparsable" \in Errors
    BY <1>0 DEF SocketShape, Errors
  <2>3. ASSUME NEW d \in Connection, NEW q \in pending'[d], reader'[d] # "draining"
        PROVE  q \in pending[d] /\ reader[d] # "draining" /\ items'[q] = items[q]
    <3>1. q \in pending[d] /\ q \in Request /\ (d = c => q \notin S)
      <4>1. pending[d] \subseteq Request /\ pending'[d] \subseteq pending[d]
        BY <1>0, <2>1 DEF SocketShape, OtherPending
      <4>2. d = c => q \notin S
        BY <2>1
      <4>3. QED
        BY <4>1, <4>2
    <3>2. q \notin S
      <4>1. q \in S => q \in pending[c]
        OBVIOUS
      <4>2. QED
        BY <1>0, <3>1, <4>1, PendingOnce
    <3>3. items'[q] = items[q]
      BY <1>0, <2>1, <2>2, <3>1, <3>2, UntoldKeeps, Zenon
    <3>4. QED
      BY <2>1, <2>3, <3>1, <3>3, Zenon
  <2>4. QED
    BY <1>0, <2>3, Zenon DEF NoErrorYet
<1>17. ASSUME NEW closed \in SUBSET Connection, StepDrains(closed) PROVE NoErrorYet'
  <2>1. ASSUME NEW d \in Connection, NEW q \in pending'[d], reader'[d] # "draining"
        PROVE  q \in pending[d] /\ reader[d] # "draining" /\ items'[q] = items[q]
    <3>1. d \notin closed
      BY <1>17, <2>1 DEF StepDrains
    <3>2. q \in pending[d] /\ reader[d] # "draining"
      BY <1>17, <2>1, <3>1, Zenon DEF StepDrains
    <3>3. items'[q] = items[q]
      BY <1>17, <1>0, <3>1, <3>2, DrainedAreTold
    <3>4. QED
      BY <3>2, <3>3, Zenon
  <2>2. QED
    BY <1>0, <2>1, Zenon DEF NoErrorYet
<1>18. ASSUME NEW c \in Connection, NEW r \in Request, NEW kind \in Kind,
            StepAnswers(c, r, kind)
     PROVE  NoErrorYet'
  <2>1. \A d \in Connection : \A q \in pending'[d] :
            reader'[d] # "draining" => q \in pending[d] /\ reader[d] # "draining" /\ items'[q] = items[q]
    BY <1>18, Zenon DEF StepAnswers, OtherPending
  <2>2. QED
    BY <1>0, <2>1, Zenon DEF NoErrorYet
<1>19. QED
  BY <1>1, <1>2, <1>3, <1>4, <1>5, <1>6, <1>7, <1>8, <1>9, <1>10, <1>11, <1>12, <1>13, <1>14,
      <1>15, <1>16, <1>17, <1>18, Zenon DEF Step

\* A step keeps every channel a beginning of what was sent.
LEMMA OwnKept ==
    ASSUME SocketInv, SocketShape', Step
    PROVE  OwnFramesInOrder'
<1>0. SocketShape /\ TasksFollowSocket /\ NoErrorYet /\ OwnFramesInOrder
  BY Zenon DEF SocketInv
<1>1. CASE StepQuiet
  <2>1. UNCHANGED <<items, sent>>
    BY <1>1, Zenon DEF StepQuiet
  <2>2. QED
    BY <1>0, <2>1, Zenon DEF OwnFramesInOrder
<1>2. ASSUME NEW r \in Request, NEW c \in Connection, StepRegisters(r, c) PROVE OwnFramesInOrder'
  <2>1. UNCHANGED sent /\ items'[r] = <<>> /\ \A q \in Request : q # r => items'[q] = items[q]
    BY <1>2, Zenon DEF StepRegisters
  <2>2. ASSUME NEW i \in 1 .. Len(items'[r]) PROVE FALSE
    BY <2>1, <2>2
  <2>3. QED
    BY <1>0, <2>1, <2>2, Zenon DEF OwnFramesInOrder
<1>3. ASSUME NEW r \in Request, NEW c \in Connection, StepSends(r, c) PROVE OwnFramesInOrder'
  <2>1. UNCHANGED <<items, sent>>
    BY <1>3, Zenon DEF StepSends
  <2>2. QED
    BY <1>0, <2>1, Zenon DEF OwnFramesInOrder
<1>4. ASSUME NEW r \in Request, NEW c \in Connection, StepWrites(r, c) PROVE OwnFramesInOrder'
  <2>1. UNCHANGED <<items, sent>>
    BY <1>4, Zenon DEF StepWrites
  <2>2. QED
    BY <1>0, <2>1, Zenon DEF OwnFramesInOrder
<1>5. ASSUME NEW r \in Request, NEW c \in Connection, StepRefused(r, c) PROVE OwnFramesInOrder'
  <2>1. UNCHANGED <<items, sent>>
    BY <1>5, Zenon DEF StepRefused
  <2>2. QED
    BY <1>0, <2>1, Zenon DEF OwnFramesInOrder
<1>6. ASSUME NEW r \in Request, NEW c \in Connection, StepStops(r, c) PROVE OwnFramesInOrder'
  <2>1. UNCHANGED <<items, sent>>
    BY <1>6, Zenon DEF StepStops
  <2>2. QED
    BY <1>0, <2>1, Zenon DEF OwnFramesInOrder
<1>7. ASSUME NEW r \in Request, StepYields(r) PROVE OwnFramesInOrder'
  <2>1. UNCHANGED <<items, sent>>
    BY <1>7, Zenon DEF StepYields
  <2>2. QED
    BY <1>0, <2>1, Zenon DEF OwnFramesInOrder
<1>8. ASSUME NEW r \in Request, StepEnds(r) PROVE OwnFramesInOrder'
  <2>1. UNCHANGED <<items, sent>>
    BY <1>8, Zenon DEF StepEnds
  <2>2. QED
    BY <1>0, <2>1, Zenon DEF OwnFramesInOrder
<1>9. ASSUME NEW c \in Connection, StepDelivers(c) PROVE OwnFramesInOrder'
  <2> DEFINE f == wire[c][1]
             r == wire[c][1].to
  <2>1. /\ UNCHANGED sent /\ r \in pending[c] /\ r \in Request /\ reader[c] = "running"
        /\ items'[r] = Append(items[r], f)
        /\ \A q \in Request : q # r => items'[q] = items[q]
    BY <1>9, Zenon DEF StepDelivers, StepReads
  <2>2. Len(items[r]) + 1 <= Len(sent[r]) /\ f = sent[r][Len(items[r]) + 1]
    BY <1>9, NextIsDelivered
  <2> HIDE DEF f, r
  <2>3. ASSUME NEW i \in 1 .. Len(items'[r])
        PROVE  i <= Len(sent'[r]) /\ items'[r][i] = sent'[r][i]
    <3>1. items[r] \in Seq(Item)
      BY <1>0, <2>1 DEF SocketShape
    <3>2. \/ i = Len(items[r]) + 1 /\ items'[r][i] = f
          \/ i \in 1 .. Len(items[r]) /\ items'[r][i] = items[r][i]
      BY <2>1, <3>1
    <3>3. CASE i = Len(items[r]) + 1 /\ items'[r][i] = f
      BY <2>1, <2>2, <3>3, Zenon
    <3>4. CASE i \in 1 .. Len(items[r]) /\ items'[r][i] = items[r][i]
      <4>1. reader[c] # "draining"
        BY <2>1
      <4>2. items[r][i].kind \in Kind
        BY <1>0, <2>1, <3>4, <4>1, Zenon DEF NoErrorYet
      <4>3. items[r][i].kind \notin {"dropped", "unparsable"}
        BY <4>2, ErrorIsNoFrame
      <4>4. i <= Len(sent[r]) /\ items[r][i] = sent[r][i]
        BY <1>0, <2>1, <3>4, <4>3, Zenon DEF OwnFramesInOrder
      <4>5. QED
        BY <2>1, <3>4, <4>4, Zenon
    <3>5. QED
      BY <3>2, <3>3, <3>4, Zenon
  <2>4. ASSUME NEW q \in Request, q # r, NEW i \in 1 .. Len(items'[q])
        PROVE  \/ i <= Len(sent'[q]) /\ items'[q][i] = sent'[q][i]
               \/ i = Len(items'[q]) /\ items'[q][i].kind \in {"dropped", "unparsable"}
    BY <1>0, <2>1, <2>4, Zenon DEF OwnFramesInOrder
  <2>5. QED
    BY <2>3, <2>4, Zenon DEF OwnFramesInOrder
<1>10. ASSUME NEW c \in Connection, StepReadEnds(c) PROVE OwnFramesInOrder'
  <2>1. UNCHANGED sent /\ reader[c] = "running" /\ items' = Told(pending[c], "dropped")
    BY <1>10, Zenon DEF StepReadEnds
  <2>2. pending[c] \in SUBSET Request /\ "dropped" \in Errors /\ reader[c] # "draining"
    BY <1>0, <2>1 DEF SocketShape, Errors
  <2>3. \A q \in pending[c] : \A i \in 1 .. Len(items[q]) : items[q][i].kind \in Kind
    BY <1>0, <2>2, Zenon DEF NoErrorYet
  <2>4. QED
    BY <1>0, <2>1, <2>2, <2>3, ErrorIsLast, Zenon
<1>11. ASSUME NEW c \in Connection, StepClears(c) PROVE OwnFramesInOrder'
  <2>1. UNCHANGED <<items, sent>>
    BY <1>11, Zenon DEF StepClears
  <2>2. QED
    BY <1>0, <2>1, Zenon DEF OwnFramesInOrder
<1>12. ASSUME NEW c \in Connection, StepAsks(c) PROVE OwnFramesInOrder'
  <2>1. UNCHANGED <<items, sent>>
    BY <1>12, Zenon DEF StepAsks, StepUnqueues
  <2>2. QED
    BY <1>0, <2>1, Zenon DEF OwnFramesInOrder
<1>13. ASSUME NEW c \in Connection, StepOrdersStop(c) PROVE OwnFramesInOrder'
  <2>1. UNCHANGED <<items, sent>>
    BY <1>13, Zenon DEF StepOrdersStop, StepUnqueues
  <2>2. QED
    BY <1>0, <2>1, Zenon DEF OwnFramesInOrder
<1>14. ASSUME NEW c \in Connection, StepLoses(c) PROVE OwnFramesInOrder'
  <2>1. UNCHANGED <<items, sent>>
    BY <1>14, Zenon DEF StepLoses, StepUnqueues
  <2>2. QED
    BY <1>0, <2>1, Zenon DEF OwnFramesInOrder
<1>15. ASSUME NEW c \in Connection, StepDrops(c) PROVE OwnFramesInOrder'
  <2>1. UNCHANGED <<items, sent>>
    BY <1>15, Zenon DEF StepDrops
  <2>2. QED
    BY <1>0, <2>1, Zenon DEF OwnFramesInOrder
<1>16. ASSUME NEW c \in Connection, NEW S \in SUBSET pending[c], StepSpoils(c, S)
       PROVE  OwnFramesInOrder'
  <2>1. UNCHANGED sent /\ reader[c] = "running" /\ items' = Told(S, "unparsable")
    BY <1>16, Zenon DEF StepSpoils, StepReads
  <2>2. S \in SUBSET Request /\ "unparsable" \in Errors /\ reader[c] # "draining"
    BY <1>0, <2>1 DEF SocketShape, Errors
  <2>3. \A q \in pending[c] : \A i \in 1 .. Len(items[q]) : items[q][i].kind \in Kind
    BY <1>0, <2>2, Zenon DEF NoErrorYet
  <2>4. \A q \in S : q \in pending[c]
    OBVIOUS
  <2>5. QED
    BY <1>0, <2>1, <2>2, <2>3, <2>4, ErrorIsLast, Zenon
<1>17. ASSUME NEW closed \in SUBSET Connection, StepDrains(closed) PROVE OwnFramesInOrder'
  <2> DEFINE S == {q \in Request : \E d \in closed : q \in pending[d]}
  <2>1. UNCHANGED sent /\ items' = Told(S, "dropped") /\ library = "python"
    BY <1>17, Zenon DEF StepDrains
  <2>2. S \in SUBSET Request /\ "dropped" \in Errors
    BY DEF Errors
  <2>3. \A d \in Connection : reader[d] # "draining"
    BY <1>0, <2>1 DEF TasksFollowSocket
  <2>4. \A q \in S : \A i \in 1 .. Len(items[q]) : items[q][i].kind \in Kind
    <3>1. SUFFICES ASSUME NEW q \in S PROVE \A i \in 1 .. Len(items[q]) : items[q][i].kind \in Kind
      OBVIOUS
    <3>2. PICK d \in closed : q \in pending[d]
      OBVIOUS
    <3>3. d \in Connection
      OBVIOUS
    <3>4. QED
      BY <1>0, <2>3, <3>2, <3>3, Zenon DEF NoErrorYet
  <2> HIDE DEF S
  <2>5. QED
    BY <1>0, <2>1, <2>2, <2>4, ErrorIsLast, Zenon
<1>18. ASSUME NEW c \in Connection, NEW r \in Request, NEW kind \in Kind,
            StepAnswers(c, r, kind)
     PROVE  OwnFramesInOrder'
  <2> DEFINE f == [to |-> r, kind |-> kind]
  <2>1. UNCHANGED items /\ sent'[r] = Append(sent[r], f) /\ \A q \in Request : q # r => sent'[q] = sent[q]
    BY <1>18, Zenon DEF StepAnswers
  <2>2. f \in Frame /\ sent[r] \in Seq(Frame)
    BY <1>0 DEF Frame, SocketShape
  <2> HIDE DEF f
  <2>3. \A i \in 1 .. Len(sent[r]) : i <= Len(sent'[r]) /\ sent'[r][i] = sent[r][i]
    BY <2>1, <2>2
  <2>4. items[r] \in Seq(Item)
    BY <1>0, Zenon DEF SocketShape
  <2>5. Len(items[r]) \in Nat /\ Len(sent[r]) \in Nat
    BY <2>2, <2>4
  <2>6. \A i \in 1 .. Len(items[r]) : i <= Len(sent[r]) => i \in 1 .. Len(sent[r])
    BY <2>5
  <2>7. ASSUME NEW q \in Request, NEW i \in 1 .. Len(items'[q])
        PROVE  \/ i <= Len(sent'[q]) /\ items'[q][i] = sent'[q][i]
               \/ i = Len(items'[q]) /\ items'[q][i].kind \in {"dropped", "unparsable"}
    <3>1. \/ i <= Len(sent[q]) /\ items[q][i] = sent[q][i]
          \/ i = Len(items[q]) /\ items[q][i].kind \in {"dropped", "unparsable"}
      BY <1>0, <2>1, <2>7, Zenon DEF OwnFramesInOrder
    <3>2. CASE q # r
      BY <2>1, <3>1, <3>2, Zenon
    <3>3. CASE q = r
      BY <2>1, <2>3, <2>6, <3>1, <3>3, Zenon
    <3>4. QED
      BY <3>2, <3>3, Zenon
  <2>8. QED
    BY <2>7, Zenon DEF OwnFramesInOrder
<1>19. QED
  BY <1>1, <1>2, <1>3, <1>4, <1>5, <1>6, <1>7, <1>8, <1>9, <1>10, <1>11, <1>12, <1>13, <1>14,
      <1>15, <1>16, <1>17, <1>18, Zenon DEF Step

\* A request whose frames grow, or stay, stays answered.
LEMMA AnsweredStays ==
    ASSUME SocketShape, NEW c \in Connection, NEW r \in Request, NEW kind \in Kind,
           StepAnswers(c, r, kind), NEW q \in Request
    PROVE  /\ Answered(q) => Answered(q)'
           /\ Answered(q)' => Answered(q) \/ (q = r /\ kind \in RustTerminal)
<1> DEFINE f == [to |-> r, kind |-> kind]
<1>1. sent'[r] = Append(sent[r], f) /\ \A p \in Request : p # r => sent'[p] = sent[p]
  BY Zenon DEF StepAnswers
<1>2. f \in Frame /\ f.kind = kind
  BY DEF Frame
<1>3. sent[r] \in Seq(Frame)
  BY Zenon DEF SocketShape
<1> HIDE DEF f
<1>4. /\ \A i \in 1 .. Len(sent[r]) : i \in 1 .. Len(sent'[r]) /\ sent'[r][i] = sent[r][i]
      /\ \A i \in 1 .. Len(sent'[r]) :
            sent'[r][i] = f \/ (i \in 1 .. Len(sent[r]) /\ sent'[r][i] = sent[r][i])
  BY <1>1, <1>2, <1>3
<1>5. CASE q # r
  BY <1>1, <1>5, Zenon DEF Answered
<1>6. CASE q = r
  <2>1. Answered(r) => Answered(r)'
    BY <1>4, Zenon DEF Answered
  <2>2. ASSUME Answered(r)' PROVE Answered(r) \/ kind \in RustTerminal
    <3>1. PICK i \in 1 .. Len(sent'[r]) : sent'[r][i].kind \in RustTerminal
      BY <2>2, Zenon DEF Answered
    <3>2. CASE sent'[r][i] = f
      BY <1>2, <3>1, <3>2, Zenon
    <3>3. CASE i \in 1 .. Len(sent[r]) /\ sent'[r][i] = sent[r][i]
      BY <3>1, <3>3, Zenon DEF Answered
    <3>4. QED
      BY <1>4, <3>2, <3>3, Zenon
  <2>3. QED
    BY <1>6, <2>1, <2>2, Zenon
<1>7. QED
  BY <1>5, <1>6, Zenon

\* The same answers, if no frame is sent.
LEMMA AnsweredSame == ASSUME UNCHANGED sent, NEW q PROVE Answered(q)' <=> Answered(q)
BY Zenon DEF Answered

\* A request that the balancer has not received is not answered.
LEMMA UnaskedIsUnanswered ==
    ASSUME RequestIsSingle, NEW q \in Request, asked[q] = 0 PROVE ~Answered(q)
<1>1. sent[q] = <<>>
  BY Zenon DEF RequestIsSingle
<1>2. QED
  BY <1>1 DEF Answered

\* A step keeps the balancer from answering after its last frame.
LEMMA AnsweredKept ==
    ASSUME SocketInv, SocketShape', Step
    PROVE  AnsweredIsServed'
<1>0. SocketShape /\ TracesAreHeld /\ RequestIsSingle /\ AnsweredIsServed
  BY Zenon DEF SocketInv
<1>1. CASE StepQuiet
  <2>1. UNCHANGED sent /\ \A d \in Connection : \A q \in serving'[d] : q \in serving[d]
    BY <1>1, Zenon DEF StepQuiet, OtherServing
  <2>2. QED
    BY <1>0, <2>1, AnsweredSame, Zenon DEF AnsweredIsServed
<1>2. ASSUME NEW r \in Request, NEW c \in Connection, StepRegisters(r, c) PROVE AnsweredIsServed'
  <2>1. UNCHANGED sent /\ \A d \in Connection : \A q \in serving'[d] : q \in serving[d]
    BY <1>2, Zenon DEF StepRegisters, OtherServing
  <2>2. QED
    BY <1>0, <2>1, AnsweredSame, Zenon DEF AnsweredIsServed
<1>3. ASSUME NEW r \in Request, NEW c \in Connection, StepSends(r, c) PROVE AnsweredIsServed'
  <2>1. UNCHANGED sent /\ \A d \in Connection : \A q \in serving'[d] : q \in serving[d]
    BY <1>3, Zenon DEF StepSends, OtherServing
  <2>2. QED
    BY <1>0, <2>1, AnsweredSame, Zenon DEF AnsweredIsServed
<1>4. ASSUME NEW r \in Request, NEW c \in Connection, StepWrites(r, c) PROVE AnsweredIsServed'
  <2>1. UNCHANGED sent /\ \A d \in Connection : \A q \in serving'[d] : q \in serving[d]
    BY <1>4, Zenon DEF StepWrites, OtherServing
  <2>2. QED
    BY <1>0, <2>1, AnsweredSame, Zenon DEF AnsweredIsServed
<1>5. ASSUME NEW r \in Request, NEW c \in Connection, StepRefused(r, c) PROVE AnsweredIsServed'
  <2>1. UNCHANGED sent /\ \A d \in Connection : \A q \in serving'[d] : q \in serving[d]
    BY <1>5, Zenon DEF StepRefused, OtherServing
  <2>2. QED
    BY <1>0, <2>1, AnsweredSame, Zenon DEF AnsweredIsServed
<1>6. ASSUME NEW r \in Request, NEW c \in Connection, StepStops(r, c) PROVE AnsweredIsServed'
  <2>1. UNCHANGED sent /\ \A d \in Connection : \A q \in serving'[d] : q \in serving[d]
    BY <1>6, Zenon DEF StepStops, OtherServing
  <2>2. QED
    BY <1>0, <2>1, AnsweredSame, Zenon DEF AnsweredIsServed
<1>7. ASSUME NEW r \in Request, StepYields(r) PROVE AnsweredIsServed'
  <2>1. UNCHANGED sent /\ \A d \in Connection : \A q \in serving'[d] : q \in serving[d]
    BY <1>7, Zenon DEF StepYields, OtherServing
  <2>2. QED
    BY <1>0, <2>1, AnsweredSame, Zenon DEF AnsweredIsServed
<1>8. ASSUME NEW r \in Request, StepEnds(r) PROVE AnsweredIsServed'
  <2>1. UNCHANGED sent /\ \A d \in Connection : \A q \in serving'[d] : q \in serving[d]
    BY <1>8, Zenon DEF StepEnds, OtherServing
  <2>2. QED
    BY <1>0, <2>1, AnsweredSame, Zenon DEF AnsweredIsServed
<1>9. ASSUME NEW c \in Connection, StepDelivers(c) PROVE AnsweredIsServed'
  <2>1. UNCHANGED sent /\ \A d \in Connection : \A q \in serving'[d] : q \in serving[d]
    BY <1>9, Zenon DEF StepDelivers, StepReads, OtherServing
  <2>2. QED
    BY <1>0, <2>1, AnsweredSame, Zenon DEF AnsweredIsServed
<1>10. ASSUME NEW c \in Connection, StepReadEnds(c) PROVE AnsweredIsServed'
  <2>1. UNCHANGED sent /\ \A d \in Connection : \A q \in serving'[d] : q \in serving[d]
    BY <1>10, Zenon DEF StepReadEnds, OtherServing
  <2>2. QED
    BY <1>0, <2>1, AnsweredSame, Zenon DEF AnsweredIsServed
<1>11. ASSUME NEW c \in Connection, StepClears(c) PROVE AnsweredIsServed'
  <2>1. UNCHANGED sent /\ \A d \in Connection : \A q \in serving'[d] : q \in serving[d]
    BY <1>11, Zenon DEF StepClears, OtherServing
  <2>2. QED
    BY <1>0, <2>1, AnsweredSame, Zenon DEF AnsweredIsServed
<1>12. ASSUME NEW c \in Connection, StepAsks(c) PROVE AnsweredIsServed'
  <2> DEFINE r == queue[c][1].id
  <2>1. /\ UNCHANGED sent /\ r \in Request /\ queue[c][1].type = "request" /\ Len(queue[c]) > 0
        /\ serving'[c] = serving[c] \cup {r} /\ OtherServing(c)
    BY <1>12, Zenon DEF StepAsks, StepUnqueues
  <2>2. queue[c] \in Seq(Message)
    BY <1>0, Zenon DEF SocketShape
  <2>3. 1 \in 1 .. Len(queue[c])
    BY <2>1, <2>2
  <2>4. asked[r] = 0
    BY <1>0, <2>1, <2>3, Zenon DEF RequestIsSingle, MessageIsSingle
  <2>5. ~Answered(r)
    BY <1>0, <2>1, <2>4, UnaskedIsUnanswered, Zenon
  <2> HIDE DEF r
  <2>6. \A d \in Connection : \A q \in serving'[d] : q \in serving[d] \/ q = r
    BY <2>1 DEF OtherServing
  <2>7. \A q \in Request : Answered(q)' => Answered(q)
    BY <2>1, AnsweredSame, Zenon
  <2>8. QED
    BY <1>0, <2>5, <2>6, <2>7, Zenon DEF AnsweredIsServed
<1>13. ASSUME NEW c \in Connection, StepOrdersStop(c) PROVE AnsweredIsServed'
  <2>1. UNCHANGED sent /\ \A d \in Connection : \A q \in serving'[d] : q \in serving[d]
    BY <1>13 DEF StepOrdersStop, StepUnqueues, OtherServing
  <2>2. QED
    BY <1>0, <2>1, AnsweredSame, Zenon DEF AnsweredIsServed
<1>14. ASSUME NEW c \in Connection, StepLoses(c) PROVE AnsweredIsServed'
  <2>1. UNCHANGED sent /\ \A d \in Connection : \A q \in serving'[d] : q \in serving[d]
    BY <1>14, Zenon DEF StepLoses, StepUnqueues, OtherServing
  <2>2. QED
    BY <1>0, <2>1, AnsweredSame, Zenon DEF AnsweredIsServed
<1>15. ASSUME NEW c \in Connection, StepDrops(c) PROVE AnsweredIsServed'
  <2>1. UNCHANGED sent /\ \A d \in Connection : \A q \in serving'[d] : q \in serving[d]
    BY <1>15 DEF StepDrops, OtherServing
  <2>2. QED
    BY <1>0, <2>1, AnsweredSame, Zenon DEF AnsweredIsServed
<1>16. ASSUME NEW c \in Connection, NEW S \in SUBSET pending[c], StepSpoils(c, S)
       PROVE  AnsweredIsServed'
  <2>1. UNCHANGED sent /\ \A d \in Connection : \A q \in serving'[d] : q \in serving[d]
    BY <1>16, Zenon DEF StepSpoils, StepReads, OtherServing
  <2>2. QED
    BY <1>0, <2>1, AnsweredSame, Zenon DEF AnsweredIsServed
<1>17. ASSUME NEW closed \in SUBSET Connection, StepDrains(closed) PROVE AnsweredIsServed'
  <2>1. UNCHANGED sent /\ \A d \in Connection : \A q \in serving'[d] : q \in serving[d]
    BY <1>17 DEF StepDrains, OtherServing
  <2>2. QED
    BY <1>0, <2>1, AnsweredSame, Zenon DEF AnsweredIsServed
<1>18. ASSUME NEW c \in Connection, NEW r \in Request, NEW kind \in Kind,
            StepAnswers(c, r, kind)
     PROVE  AnsweredIsServed'
  <2>1. r \in serving[c] /\ OtherServing(c) /\ serving'[c] \subseteq serving[c]
        /\ (kind \in RustTerminal => r \notin serving'[c])
    BY <1>18, Zenon DEF StepAnswers
  <2>2. \A d \in Connection : serving'[d] \subseteq serving[d]
    BY <2>1 DEF OtherServing
  <2>3. \A d \in Connection : r \in serving[d] => d = c
    <3>1. conn[r] = c
      BY <1>0, <2>1, Zenon DEF TracesAreHeld, TraceOn
    <3>2. \A d \in Connection : r \in serving[d] => conn[r] = d
      BY <1>0, Zenon DEF TracesAreHeld, TraceOn
    <3>3. QED
      BY <3>1, <3>2, Zenon
  <2>4. \A q \in Request : Answered(q)' => Answered(q) \/ (q = r /\ kind \in RustTerminal)
    BY <1>18, <1>0, AnsweredStays, Zenon
  <2>5. ASSUME NEW q \in Request, Answered(q)', NEW d \in Connection PROVE q \notin serving'[d]
    <3>1. CASE Answered(q)
      <4>1. q \notin serving[d]
        BY <1>0, <3>1, Zenon DEF AnsweredIsServed
      <4>2. QED
        BY <2>2, <4>1
    <3>2. CASE q = r /\ kind \in RustTerminal
      <4>1. d = c \/ r \notin serving[d]
        BY <2>3, Zenon
      <4>2. QED
        BY <2>1, <2>2, <3>2, <4>1
    <3>3. QED
      BY <2>4, <2>5, <3>1, <3>2, Zenon
  <2>6. QED
    BY <2>5, Zenon DEF AnsweredIsServed
<1>19. QED
  BY <1>1, <1>2, <1>3, <1>4, <1>5, <1>6, <1>7, <1>8, <1>9, <1>10, <1>11, <1>12, <1>13, <1>14,
      <1>15, <1>16, <1>17, <1>18, Zenon DEF Step

\* A step tells who is no longer pending.
LEMMA GoneKept ==
    ASSUME SocketInv, SocketShape', Step
    PROVE  GoneIsTold'
<1>0. SocketShape /\ CallerShape /\ TasksFollowSocket /\ TracesAreHeld /\ GoneIsTold
  BY Zenon DEF SocketInv
<1>1. CASE StepQuiet
  <2>1. UNCHANGED <<library, socket, reader, pending, conn, items, sent, late>>
    BY <1>1, Zenon DEF StepQuiet
  <2>2. \A q \in Request : phase'[q] \in {"write", "streaming"} => phase[q] \in {"write", "streaming"}
    BY <1>1 DEF StepQuiet, Before
  <2>3. QED
    BY <1>0, <2>1, <2>2, AnsweredSame, Zenon DEF GoneIsTold, ToldOf
<1>2. ASSUME NEW r \in Request, NEW c \in Connection, StepRegisters(r, c) PROVE GoneIsTold'
  <2>1. /\ UNCHANGED <<library, socket, reader, sent>> /\ conn'[r] = c
        /\ pending'[c] = pending[c] \cup {r} /\ OtherPending(c) /\ OtherCallers(r)
        /\ late'[r] <=> reader[c] # "running"
        /\ \A q \in Request : q # r => items'[q] = items[q] /\ late'[q] = late[q]
    BY <1>2, Zenon DEF StepRegisters
  <2>2. ToldOf(r)'
    <3>1. r \in pending'[c]
      BY <2>1
    <3>2. "running" # "draining" /\ "running" # "finished"
      OBVIOUS
    <3>3. QED
      BY <2>1, <3>1, <3>2, Zenon DEF ToldOf
  <2>3. ASSUME NEW q \in Request, q # r, library = "rust", phase'[q] \in {"write", "streaming"}
        PROVE  ToldOf(q)'
    <3>1. phase'[q] = phase[q] /\ conn'[q] = conn[q] /\ items'[q] = items[q] /\ late'[q] = late[q]
      BY <2>1, <2>3, Zenon DEF OtherCallers
    <3>2. ToldOf(q) /\ conn[q] \in Connection
      BY <1>0, <2>3, <3>1, HeldIsConnection DEF GoneIsTold, CallerShape, CallerOf
    <3>3. q \in pending'[conn[q]] <=> q \in pending[conn[q]]
      BY <2>1, <2>3, <3>2 DEF OtherPending
    <3>4. QED
      BY <2>1, <3>1, <3>2, <3>3, AnsweredSame, Zenon DEF ToldOf
  <2>4. QED
    BY <2>1, <2>2, <2>3, Zenon DEF GoneIsTold
<1>3. ASSUME NEW r \in Request, NEW c \in Connection, StepSends(r, c) PROVE GoneIsTold'
  <2>1. library' # "rust"
    BY <1>3 DEF StepSends
  <2>2. QED
    BY <2>1, Zenon DEF GoneIsTold
<1>4. ASSUME NEW r \in Request, NEW c \in Connection, StepWrites(r, c) PROVE GoneIsTold'
  <2>1. UNCHANGED <<library, socket, reader, pending, conn, items, sent, late>>
    BY <1>4, Zenon DEF StepWrites
  <2>2. \A q \in Request : phase'[q] \in {"write", "streaming"} => phase[q] \in {"write", "streaming"}
    BY <1>4 DEF StepWrites, OtherCallers
  <2>3. QED
    BY <1>0, <2>1, <2>2, AnsweredSame, Zenon DEF GoneIsTold, ToldOf
<1>5. ASSUME NEW r \in Request, NEW c \in Connection, StepRefused(r, c) PROVE GoneIsTold'
  <2>1. /\ UNCHANGED <<library, socket, reader, conn, items, sent, late>>
        /\ OtherPending(c) /\ OtherCallers(r)
        /\ pending'[c] = pending[c] \/ pending'[c] = pending[c] \ {r}
    BY <1>5, Zenon DEF StepRefused
  <2>2. phase'[r] \notin {"write", "streaming"}
    BY <1>5 DEF StepRefused
  <2>3. ASSUME NEW q \in Request, q # r, library = "rust", phase'[q] \in {"write", "streaming"}
        PROVE  ToldOf(q)'
    <3>1. phase'[q] = phase[q]
      BY <2>1, <2>3, Zenon DEF OtherCallers
    <3>2. ToldOf(q) /\ conn[q] \in Connection
      BY <1>0, <2>3, <3>1, HeldIsConnection DEF GoneIsTold, CallerShape, CallerOf
    <3>3. q \in pending'[conn[q]] <=> q \in pending[conn[q]]
      BY <2>1, <2>3, <3>2 DEF OtherPending
    <3>4. QED
      BY <2>1, <3>2, <3>3, AnsweredSame, Zenon DEF ToldOf
  <2>4. QED
    BY <2>1, <2>2, <2>3, Zenon DEF GoneIsTold
<1>6. ASSUME NEW r \in Request, NEW c \in Connection, StepStops(r, c) PROVE GoneIsTold'
  <2>1. /\ UNCHANGED <<library, socket, reader, conn, items, sent, late>>
        /\ OtherPending(c) /\ OtherCallers(r)
        /\ pending'[c] = pending[c] \/ pending'[c] = pending[c] \ {r}
    BY <1>6, Zenon DEF StepStops
  <2>2. phase'[r] \notin {"write", "streaming"}
    BY <1>6 DEF StepStops
  <2>3. ASSUME NEW q \in Request, q # r, library = "rust", phase'[q] \in {"write", "streaming"}
        PROVE  ToldOf(q)'
    <3>1. phase'[q] = phase[q]
      BY <2>1, <2>3, Zenon DEF OtherCallers
    <3>2. ToldOf(q) /\ conn[q] \in Connection
      BY <1>0, <2>3, <3>1, HeldIsConnection DEF GoneIsTold, CallerShape, CallerOf
    <3>3. q \in pending'[conn[q]] <=> q \in pending[conn[q]]
      BY <2>1, <2>3, <3>2 DEF OtherPending
    <3>4. QED
      BY <2>1, <3>2, <3>3, AnsweredSame, Zenon DEF ToldOf
  <2>4. QED
    BY <2>1, <2>2, <2>3, Zenon DEF GoneIsTold
<1>7. ASSUME NEW r \in Request, StepYields(r) PROVE GoneIsTold'
  <2>1. UNCHANGED <<library, socket, reader, pending, conn, items, sent, late>>
    BY <1>7, Zenon DEF StepYields
  <2>2. \A q \in Request : phase'[q] \in {"write", "streaming"} => phase[q] \in {"write", "streaming"}
    BY <1>7 DEF StepYields, OtherCallers
  <2>3. QED
    BY <1>0, <2>1, <2>2, AnsweredSame, Zenon DEF GoneIsTold, ToldOf
<1>8. ASSUME NEW r \in Request, StepEnds(r) PROVE GoneIsTold'
  <2>1. UNCHANGED <<library, socket, reader, pending, conn, items, sent, late>>
    BY <1>8, Zenon DEF StepEnds
  <2>2. \A q \in Request : phase'[q] \in {"write", "streaming"} => phase[q] \in {"write", "streaming"}
    BY <1>8 DEF StepEnds, OtherCallers
  <2>3. QED
    BY <1>0, <2>1, <2>2, AnsweredSame, Zenon DEF GoneIsTold, ToldOf
<1>9. ASSUME NEW c \in Connection, StepDelivers(c) PROVE GoneIsTold'
  <2>1. PICK r \in Request, f \in Frame :
            /\ f = wire[c][1] /\ r = f.to /\ r \in pending[c] /\ reader[c] = "running"
            /\ UNCHANGED <<library, phase, socket, reader, conn, sent, late>> /\ OtherPending(c)
            /\ items'[r] = Append(items[r], f)
            /\ \A q \in Request : q # r => items'[q] = items[q]
            /\ \/ pending'[c] = pending[c]
               \/ IsTerminal(f.kind) /\ pending'[c] = pending[c] \ {r}
    <3>1. wire[c] \in Seq(Frame) /\ Len(wire[c]) > 0
      BY <1>9, <1>0, Zenon DEF SocketShape, StepDelivers, StepReads
    <3>2. wire[c][1] \in Frame
      BY <3>1
    <3>3. QED
      BY <1>9, <3>2, Zenon DEF StepDelivers, StepReads
  <2>2. Len(items[r]) + 1 <= Len(sent[r]) /\ f = sent[r][Len(items[r]) + 1]
    BY <1>9, <2>1, NextIsDelivered
  <2>3. conn[r] = c
    BY <1>0, <2>1, Zenon DEF TracesAreHeld, TraceOn
  <2>4. ASSUME library = "rust" PROVE ToldOf(r)'
    <3>1. CASE pending'[c] = pending[c]
      <4>1. reader[c] # "draining" /\ reader[c] # "finished"
        BY <2>1
      <4>2. QED
        BY <2>1, <2>3, <3>1, <4>1, Zenon DEF ToldOf
    <3>2. CASE IsTerminal(f.kind)
      <4>1. items[r] \in Seq(Item) /\ sent[r] \in Seq(Frame)
        BY <1>0, <2>1, Zenon DEF SocketShape
      <4>2. Len(items'[r]) = Len(items[r]) + 1 /\ items'[r][Len(items[r]) + 1] = f /\ Len(items'[r]) > 0
        BY <2>1, <4>1
      <4>3. items'[r][Len(items'[r])].kind \in RustTerminal \cup Errors
        <5>1. items'[r][Len(items'[r])] = f
          BY <4>2, Zenon
        <5>2. f.kind \in RustTerminal
          BY <2>4, <3>2 DEF IsTerminal
        <5>3. QED
          BY <5>1, <5>2, Zenon
      <4>4. Answered(r)
        <5>1. Len(items[r]) + 1 \in 1 .. Len(sent[r])
          BY <2>2, <4>1
        <5>2. f.kind \in RustTerminal
          BY <2>4, <3>2 DEF IsTerminal
        <5>3. QED
          BY <2>2, <5>1, <5>2, Zenon DEF Answered
      <4>5. reader[c] # "finished"
        BY <2>1
      <4>6. QED
        BY <2>1, <2>3, <4>2, <4>3, <4>4, <4>5, AnsweredSame, Zenon DEF ToldOf
    <3>3. QED
      BY <2>1, <3>1, <3>2, Zenon
  <2>5. ASSUME NEW q \in Request, q # r, library = "rust", phase'[q] \in {"write", "streaming"}
        PROVE  ToldOf(q)'
    <3>1. items'[q] = items[q]
      BY <2>1, <2>5, Zenon
    <3>2. ToldOf(q) /\ conn[q] \in Connection
      BY <1>0, <2>1, <2>5, HeldIsConnection DEF GoneIsTold, CallerShape, CallerOf
    <3>3. q \in pending'[conn[q]] <=> q \in pending[conn[q]]
      BY <2>1, <2>5, <3>2 DEF OtherPending
    <3>4. QED
      BY <2>1, <3>1, <3>2, <3>3, AnsweredSame, Zenon DEF ToldOf
  <2>6. QED
    BY <2>1, <2>4, <2>5, Zenon DEF GoneIsTold
<1>10. ASSUME NEW c \in Connection, StepReadEnds(c) PROVE GoneIsTold'
  <2>1. /\ UNCHANGED <<library, phase, socket, pending, conn, sent, late>>
        /\ library = "rust" /\ reader'[c] = "draining"
        /\ \A d \in Connection : d # c => reader'[d] = reader[d]
        /\ items' = Told(pending[c], "dropped")
    BY <1>10, Zenon DEF StepReadEnds
  <2>2. pending[c] \in SUBSET Request /\ "dropped" \in Errors
    BY <1>0 DEF SocketShape, Errors
  <2>3. ASSUME NEW q \in Request, phase'[q] \in {"write", "streaming"} PROVE ToldOf(q)'
    <3>1. ToldOf(q) /\ conn[q] \in Connection
      BY <1>0, <2>1, <2>3, HeldIsConnection DEF GoneIsTold, CallerShape, CallerOf
    <3>2. CASE q \in pending[c]
      <4>1. conn[q] = c
        BY <1>0, <3>2, Zenon DEF TracesAreHeld, TraceOn
      <4>2. \A p \in pending[c] :
                /\ Len(Told(pending[c], "dropped")[p]) = Len(items[p]) + 1
                /\ Told(pending[c], "dropped")[p][Len(items[p]) + 1].kind = "dropped"
        BY <1>0, <2>2, ToldIs, Zenon
      <4>3. Len(items'[q]) = Len(items[q]) + 1 /\ items'[q][Len(items'[q])].kind = "dropped"
        BY <2>1, <3>2, <4>2, Zenon
      <4>4. Len(items'[q]) > 0
        <5>1. items[q] \in Seq(Item)
          BY <1>0, Zenon DEF SocketShape
        <5>2. QED
          BY <4>3, <5>1
      <4>5. items'[q][Len(items'[q])].kind \in RustTerminal \cup Errors
        BY <4>3, Zenon DEF Errors
      <4>6. "draining" # "finished"
        OBVIOUS
      <4>7. QED
        BY <2>1, <3>2, <4>1, <4>4, <4>5, <4>6, Zenon DEF ToldOf
    <3>3. CASE q \notin pending[c]
      <4>1. items'[q] = items[q]
        BY <1>0, <2>1, <2>2, <3>3, UntoldKeeps, Zenon
      <4>2. CASE conn[q] = c
        BY <2>1, <3>1, <3>3, <4>1, <4>2, AnsweredSame, Zenon DEF ToldOf
      <4>3. CASE conn[q] # c
        BY <2>1, <3>1, <4>1, <4>3, AnsweredSame, Zenon DEF ToldOf
      <4>4. QED
        BY <4>2, <4>3, Zenon
    <3>4. QED
      BY <3>2, <3>3, Zenon
  <2>4. QED
    BY <2>3, Zenon DEF GoneIsTold
<1>11. ASSUME NEW c \in Connection, StepClears(c) PROVE GoneIsTold'
  <2>1. /\ UNCHANGED <<library, phase, socket, conn, items, sent, late>> /\ OtherPending(c)
        /\ reader[c] = "draining" /\ reader'[c] = "finished" /\ pending'[c] = {}
        /\ \A d \in Connection : d # c => reader'[d] = reader[d]
    BY <1>11, Zenon DEF StepClears
  <2>2. socket[c] = "closed"
    BY <1>0, <2>1 DEF TasksFollowSocket
  <2>3. ASSUME NEW q \in Request, library = "rust", phase'[q] \in {"write", "streaming"}
        PROVE  ToldOf(q)'
    <3>1. ToldOf(q) /\ conn[q] \in Connection
      BY <1>0, <2>1, <2>3, HeldIsConnection DEF GoneIsTold, CallerShape, CallerOf
    <3>2. CASE conn[q] = c
      <4>1. q \notin pending'[c]
        BY <2>1
      <4>2. QED
        BY <2>1, <2>2, <3>1, <3>2, <4>1, AnsweredSame, Zenon DEF ToldOf
    <3>3. CASE conn[q] # c
      BY <2>1, <3>1, <3>3, AnsweredSame, Zenon DEF ToldOf, OtherPending
    <3>4. QED
      BY <3>2, <3>3, Zenon
  <2>4. QED
    BY <2>1, <2>3, Zenon DEF GoneIsTold
<1>12. ASSUME NEW c \in Connection, StepAsks(c) PROVE GoneIsTold'
  <2>1. UNCHANGED <<library, phase, socket, reader, pending, conn, items, sent, late>>
    BY <1>12, Zenon DEF StepAsks, StepUnqueues
  <2>2. QED
    BY <1>0, <2>1, AnsweredSame, Zenon DEF GoneIsTold, ToldOf
<1>13. ASSUME NEW c \in Connection, StepOrdersStop(c) PROVE GoneIsTold'
  <2>1. UNCHANGED <<library, phase, socket, reader, pending, conn, items, sent, late>>
    BY <1>13, Zenon DEF StepOrdersStop, StepUnqueues
  <2>2. QED
    BY <1>0, <2>1, AnsweredSame, Zenon DEF GoneIsTold, ToldOf
<1>14. ASSUME NEW c \in Connection, StepLoses(c) PROVE GoneIsTold'
  <2>1. UNCHANGED <<library, phase, socket, reader, pending, conn, items, sent, late>>
    BY <1>14, Zenon DEF StepLoses, StepUnqueues
  <2>2. QED
    BY <1>0, <2>1, AnsweredSame, Zenon DEF GoneIsTold, ToldOf
<1>15. ASSUME NEW c \in Connection, StepDrops(c) PROVE GoneIsTold'
  <2>1. /\ UNCHANGED <<library, phase, reader, pending, conn, items, sent, late>>
        /\ socket'[c] = "closed" /\ \A d \in Connection : d # c => socket'[d] = socket[d]
    BY <1>15, Zenon DEF StepDrops
  <2>2. \A d \in Connection : socket[d] = "closed" => socket'[d] = "closed"
    BY <2>1, Zenon
  <2>3. ASSUME NEW q \in Request, library = "rust", phase'[q] \in {"write", "streaming"}
        PROVE  ToldOf(q)'
    <3>1. ToldOf(q) /\ conn[q] \in Connection
      BY <1>0, <2>1, <2>3, HeldIsConnection DEF GoneIsTold, CallerShape, CallerOf
    <3>2. QED
      BY <2>1, <2>2, <3>1, AnsweredSame, Zenon DEF ToldOf
  <2>4. QED
    BY <2>1, <2>3, Zenon DEF GoneIsTold
<1>16. ASSUME NEW c \in Connection, NEW S \in SUBSET pending[c], StepSpoils(c, S) PROVE GoneIsTold'
  <2>1. /\ UNCHANGED <<library, phase, socket, reader, conn, sent, late>> /\ OtherPending(c)
        /\ items' = Told(S, "unparsable") /\ pending'[c] = pending[c] \ S
        /\ library = "rust" => S = {}
    BY <1>16, Zenon DEF StepSpoils, StepReads
  <2>2. ASSUME library = "rust"
        PROVE  /\ \A q \in Request : items'[q] = items[q]
               /\ \A d \in Connection : pending'[d] = pending[d]
    <3>1. S = {} /\ S \in SUBSET Request /\ "unparsable" \in Errors
      BY <2>1, <2>2 DEF Errors
    <3>2. \A q \in Request : items'[q] = items[q]
      BY <1>0, <2>1, <3>1, UntoldKeeps
    <3>3. QED
      BY <2>1, <3>1, <3>2 DEF OtherPending
  <2>3. ASSUME NEW q \in Request, library = "rust", phase'[q] \in {"write", "streaming"}
        PROVE  ToldOf(q)'
    <3>1. ToldOf(q) /\ conn[q] \in Connection
      BY <1>0, <2>1, <2>3, HeldIsConnection DEF GoneIsTold, CallerShape, CallerOf
    <3>2. QED
      BY <2>1, <2>2, <2>3, <3>1, AnsweredSame, Zenon DEF ToldOf
  <2>4. QED
    BY <2>1, <2>3, Zenon DEF GoneIsTold
<1>17. ASSUME NEW closed \in SUBSET Connection, StepDrains(closed) PROVE GoneIsTold'
  <2>1. library' # "rust"
    BY <1>17 DEF StepDrains
  <2>2. QED
    BY <2>1, Zenon DEF GoneIsTold
<1>18. ASSUME NEW c \in Connection, NEW r \in Request, NEW kind \in Kind,
            StepAnswers(c, r, kind)
     PROVE  GoneIsTold'
  <2>1. UNCHANGED <<library, phase, socket, reader, pending, conn, items, late>>
    BY <1>18, Zenon DEF StepAnswers
  <2>2. \A q \in Request : Answered(q) => Answered(q)'
    BY <1>18, <1>0, AnsweredStays, Zenon
  <2>3. QED
    BY <1>0, <2>1, <2>2, Zenon DEF GoneIsTold, ToldOf
<1>19. QED
  BY <1>1, <1>2, <1>3, <1>4, <1>5, <1>6, <1>7, <1>8, <1>9, <1>10, <1>11, <1>12, <1>13, <1>14,
      <1>15, <1>16, <1>17, <1>18, Zenon DEF Step

\* The two messages of a request.
LEMMA MessagesOf ==
    ASSUME NEW q \in Request
    PROVE  /\ Ask(q) \in Message /\ Stop(q) \in Message /\ Ask(q) # Stop(q)
           /\ Ask(q).id = q /\ Stop(q).id = q /\ Ask(q).type = "request" /\ Stop(q).type = "stop"
           /\ \A m \in Message : m.id = q => m = Ask(q) \/ m = Stop(q)
BY DEF Ask, Stop, Message

\* Nothing is queued or taken, and no more is served.
LEMMA FollowedSame ==
    ASSUME NEW q, NEW d, FollowedOn(q, d), queue'[d] = queue[d],
           q \in serving'[d] => q \in serving[d]
    PROVE  FollowedOn(q, d)'
BY Zenon DEF FollowedOn, Ask, Stop

\* A message is taken: not the order to stop, unless the balancer obeys it.
LEMMA FollowedTail ==
    ASSUME NEW q, NEW d, queue[d] \in Seq(Message), Len(queue[d]) > 0, FollowedOn(q, d),
           queue'[d] = Tail(queue[d]),
           q \in serving'[d] => /\ q \in serving[d] \/ queue[d][1] = Ask(q)
                                /\ queue[d][1] # Stop(q)
    PROVE  FollowedOn(q, d)'
<1>1. /\ \A i \in 1 .. Len(queue'[d]) : i + 1 \in 1 .. Len(queue[d]) /\ queue'[d][i] = queue[d][i + 1]
      /\ \A i \in 1 .. Len(queue[d]) :
            i = 1 \/ (i - 1 \in 1 .. Len(queue'[d]) /\ queue'[d][i - 1] = queue[d][i])
      /\ 1 \in 1 .. Len(queue[d])
      /\ Len(queue[d]) \in Nat /\ Len(queue'[d]) \in Nat
  OBVIOUS
<1>2. ASSUME NEW i \in 1 .. Len(queue[d]), queue[d][i] = Ask(q)
      PROVE  \E j \in 1 .. Len(queue'[d]) : j > i - 1 /\ queue'[d][j] = Stop(q)
  <2>1. PICK j \in 1 .. Len(queue[d]) : j > i /\ queue[d][j] = Stop(q)
    BY <1>2, Zenon DEF FollowedOn
  <2>2. j # 1 /\ j - 1 > i - 1
    BY <1>1, <2>1
  <2>3. j - 1 \in 1 .. Len(queue'[d]) /\ queue'[d][j - 1] = Stop(q)
    BY <1>1, <2>1, <2>2, Zenon
  <2>4. QED
    BY <2>2, <2>3, Zenon
<1>3. ASSUME NEW i \in 1 .. Len(queue'[d]), queue'[d][i] = Ask(q)
      PROVE  \E j \in 1 .. Len(queue'[d]) : j > i /\ queue'[d][j] = Stop(q)
  <2>1. i + 1 \in 1 .. Len(queue[d]) /\ queue[d][i + 1] = Ask(q) /\ (i + 1) - 1 = i
    BY <1>1, <1>3
  <2>2. \E j \in 1 .. Len(queue'[d]) : j > (i + 1) - 1 /\ queue'[d][j] = Stop(q)
    BY <1>2, <2>1, Zenon
  <2>3. QED
    BY <2>1, <2>2
<1>4. ASSUME q \in serving'[d] PROVE \E j \in 1 .. Len(queue'[d]) : queue'[d][j] = Stop(q)
  <2>1. CASE queue[d][1] = Ask(q)
    BY <1>1, <1>2, <2>1, Zenon
  <2>2. CASE q \in serving[d]
    <3>1. PICK j \in 1 .. Len(queue[d]) : queue[d][j] = Stop(q)
      BY <2>2, Zenon DEF FollowedOn
    <3>2. j # 1
      BY <1>4, <3>1, Zenon
    <3>3. QED
      BY <1>1, <3>1, <3>2, Zenon
  <2>3. QED
    BY <1>4, <2>1, <2>2, Zenon
<1>5. QED
  BY <1>3, <1>4, Zenon DEF FollowedOn, Ask, Stop

\* A message is queued, which is not the request; or it is the order to stop it.
LEMMA FollowedAppend ==
    ASSUME NEW q, NEW d, NEW m \in Message, queue[d] \in Seq(Message),
           queue'[d] = Append(queue[d], m), m # Ask(q), m = Stop(q) \/ FollowedOn(q, d),
           q \in serving'[d] => q \in serving[d]
    PROVE  FollowedOn(q, d)'
<1>1. /\ Len(queue[d]) \in Nat
      /\ Len(queue[d]) + 1 \in 1 .. Len(queue'[d]) /\ queue'[d][Len(queue[d]) + 1] = m
      /\ \A i \in 1 .. Len(queue[d]) :
            i \in 1 .. Len(queue'[d]) /\ queue'[d][i] = queue[d][i] /\ Len(queue[d]) + 1 > i
      /\ \A i \in 1 .. Len(queue'[d]) : i = Len(queue[d]) + 1 \/ i \in 1 .. Len(queue[d])
  OBVIOUS
<1>2. ASSUME NEW i \in 1 .. Len(queue'[d]), queue'[d][i] = Ask(q)
      PROVE  \E j \in 1 .. Len(queue'[d]) : j > i /\ queue'[d][j] = Stop(q)
  <2>1. i \in 1 .. Len(queue[d]) /\ queue[d][i] = Ask(q)
    BY <1>1, <1>2, Zenon
  <2>2. CASE m = Stop(q)
    BY <1>1, <2>1, <2>2, Zenon
  <2>3. CASE FollowedOn(q, d)
    BY <1>1, <2>1, <2>3, Zenon DEF FollowedOn
  <2>4. QED
    BY <2>2, <2>3, Zenon
<1>3. ASSUME q \in serving'[d] PROVE \E j \in 1 .. Len(queue'[d]) : queue'[d][j] = Stop(q)
  <2>1. CASE m = Stop(q)
    BY <1>1, <2>1, Zenon
  <2>2. CASE FollowedOn(q, d)
    BY <1>1, <1>3, <2>2, Zenon DEF FollowedOn
  <2>3. QED
    BY <2>1, <2>2, Zenon
<1>4. QED
  BY <1>2, <1>3, Zenon DEF FollowedOn, Ask, Stop

\* Where a request has no trace there is nothing to stop.
LEMMA FollowedElsewhere ==
    ASSUME SocketShape, TracesAreHeld, NEW q \in Request, NEW d \in Connection, conn[q] # d
    PROVE  FollowedOn(q, d)
<1>1. TraceOn(d)
  BY Zenon DEF TracesAreHeld
<1>2. q \notin serving[d]
  BY <1>1, Zenon DEF TraceOn
<1>3. ASSUME NEW i \in 1 .. Len(queue[d]) PROVE queue[d][i] # Ask(q)
  <2>1. conn[queue[d][i].id] = d
    BY <1>1, Zenon DEF TraceOn
  <2>2. queue[d][i].id # q
    BY <2>1, Zenon
  <2>3. QED
    BY <2>2, MessagesOf, Zenon
<1>4. QED
  BY <1>2, <1>3, Zenon DEF FollowedOn

\* Some callers move, and none of them stops reading.
LEMMA FollowedPhases ==
    ASSUME StopFollows, UNCHANGED <<library, queue>>,
           \A q \in Request : phase'[q] # "streaming" => phase[q] # "streaming",
           \A d \in Connection : /\ socket'[d] = "open" => socket[d] = "open"
                                 /\ \A q \in serving'[d] : q \in serving[d]
    PROVE  StopFollows'
<1>1. ASSUME library = "rust", NEW q \in Request, NEW d \in Connection,
             socket'[d] = "open", phase'[q] # "streaming"
      PROVE  FollowedOn(q, d)'
  <2>1. FollowedOn(q, d)
    BY <1>1, Zenon DEF StopFollows
  <2>2. QED
    BY <2>1, FollowedSame, Zenon
<1>2. QED
  BY <1>1, Zenon DEF StopFollows

\* A step leaves no request behind that is not followed by its order to stop.
LEMMA StopKept ==
    ASSUME SocketInv, SocketShape', Step
    PROVE  StopFollows'
<1>0. /\ SocketShape /\ TasksFollowSocket /\ TracesAreHeld /\ RequestIsSingle
      /\ AnsweredIsServed /\ GoneIsTold /\ StopFollows
  BY Zenon DEF SocketInv
<1>1. CASE StepQuiet
  <2>1. UNCHANGED <<library, queue>>
    BY <1>1, Zenon DEF StepQuiet
  <2>2. \A q \in Request : phase'[q] # "streaming" => phase[q] # "streaming"
    BY <1>1, <1>0 DEF StepQuiet, OtherCallers, Before
  <2>3. \A d \in Connection : /\ socket'[d] = "open" => socket[d] = "open"
                              /\ \A q \in serving'[d] : q \in serving[d]
    BY <1>1 DEF StepQuiet, OtherServing
  <2>4. QED
    BY <1>0, <2>1, <2>2, <2>3, FollowedPhases, Zenon
<1>2. ASSUME NEW r \in Request, NEW c \in Connection, StepRegisters(r, c) PROVE StopFollows'
  <2>1. UNCHANGED <<library, queue>>
    BY <1>2, Zenon DEF StepRegisters
  <2>2. \A q \in Request : phase'[q] # "streaming" => phase[q] # "streaming"
    BY <1>2, <1>0 DEF StepRegisters, OtherCallers, Before
  <2>3. \A d \in Connection : /\ socket'[d] = "open" => socket[d] = "open"
                              /\ \A q \in serving'[d] : q \in serving[d]
    BY <1>2 DEF StepRegisters, OtherServing
  <2>4. QED
    BY <1>0, <2>1, <2>2, <2>3, FollowedPhases, Zenon
<1>3. ASSUME NEW r \in Request, NEW c \in Connection, StepSends(r, c) PROVE StopFollows'
  <2>1. library' # "rust"
    BY <1>3 DEF StepSends
  <2>2. QED
    BY <2>1, Zenon DEF StopFollows
<1>4. ASSUME NEW r \in Request, NEW c \in Connection, StepWrites(r, c) PROVE StopFollows'
  <2>1. /\ UNCHANGED <<library, socket, serving>> /\ phase'[r] = "streaming" /\ OtherCallers(r)
        /\ queue'[c] = Append(queue[c], Ask(r)) /\ OtherQueues(c)
    BY <1>4, Zenon DEF StepWrites, Ask
  <2>2. ASSUME library = "rust", NEW q \in Request, NEW d \in Connection,
               socket'[d] = "open", phase'[q] # "streaming"
        PROVE  FollowedOn(q, d)'
    <3>1. q # r /\ phase[q] # "streaming"
      BY <2>1, <2>2, Zenon DEF OtherCallers
    <3>2. FollowedOn(q, d)
      BY <1>0, <2>1, <2>2, <3>1, Zenon DEF StopFollows
    <3>3. CASE d # c
      BY <2>1, <3>2, <3>3, FollowedSame, Zenon DEF OtherQueues
    <3>4. CASE d = c
      <4>1. Ask(r) # Ask(q) /\ Ask(r) \in Message
        <5>1. Ask(r).id = r /\ Ask(q).id = q /\ Ask(r) \in Message
          BY MessagesOf
        <5>2. QED
          BY <3>1, <5>1, Zenon
      <4>2. queue[d] \in Seq(Message)
        BY <1>0, Zenon DEF SocketShape
      <4>3. QED
        BY <2>1, <3>2, <3>4, <4>1, <4>2, FollowedAppend, Zenon
    <3>5. QED
      BY <3>3, <3>4, Zenon
  <2>3. QED
    BY <2>1, <2>2, Zenon DEF StopFollows
<1>5. ASSUME NEW r \in Request, NEW c \in Connection, StepRefused(r, c) PROVE StopFollows'
  <2>1. UNCHANGED <<library, queue>>
    BY <1>5, Zenon DEF StepRefused
  <2>2. \A q \in Request : phase'[q] # "streaming" => phase[q] # "streaming"
    BY <1>5, <1>0 DEF StepRefused, OtherCallers, Before
  <2>3. \A d \in Connection : /\ socket'[d] = "open" => socket[d] = "open"
                              /\ \A q \in serving'[d] : q \in serving[d]
    BY <1>5 DEF StepRefused, OtherServing
  <2>4. QED
    BY <1>0, <2>1, <2>2, <2>3, FollowedPhases, Zenon
<1>6. ASSUME NEW r \in Request, NEW c \in Connection, StepStops(r, c) PROVE StopFollows'
  <2>1. /\ UNCHANGED <<library, socket, serving>> /\ conn[r] = c /\ OtherCallers(r) /\ OtherQueues(c)
        /\ \/ library = "rust" /\ queue'[c] = Append(queue[c], Stop(r))
           \/ queue'[c] = queue[c] /\ (library # "rust" \/ writer[c] # "running")
    BY <1>6, Zenon DEF StepStops, Stop
  <2>2. ASSUME library = "rust", NEW q \in Request, NEW d \in Connection,
               socket'[d] = "open", phase'[q] # "streaming"
        PROVE  FollowedOn(q, d)'
    <3>1. CASE q # r
      <4>1. FollowedOn(q, d)
        BY <1>0, <2>1, <2>2, <3>1, Zenon DEF StopFollows, OtherCallers
      <4>2. CASE queue'[d] = queue[d]
        BY <2>1, <4>1, <4>2, FollowedSame, Zenon
      <4>3. CASE queue'[d] = Append(queue[d], Stop(r))
        <5>1. Stop(r) # Ask(q) /\ Stop(r) \in Message
          <6>1. Stop(r) \in Message /\ Stop(r).type = "stop" /\ Ask(q).type = "request"
            BY MessagesOf
          <6>2. QED
            BY <6>1
        <5>2. queue[d] \in Seq(Message)
          BY <1>0, Zenon DEF SocketShape
        <5>3. QED
          BY <2>1, <4>1, <4>3, <5>1, <5>2, FollowedAppend, Zenon
      <4>4. QED
        BY <2>1, <4>2, <4>3, Zenon DEF OtherQueues
    <3>2. CASE q = r /\ d # c
      <4>1. FollowedOn(q, d)
        BY <1>0, <2>1, <3>2, FollowedElsewhere, Zenon
      <4>2. QED
        BY <2>1, <3>2, <4>1, FollowedSame, Zenon DEF OtherQueues
    <3>3. CASE q = r /\ d = c
      <4>1. writer[c] = "running"
        <5>1. socket[c] # "closed"
          BY <2>1, <2>2, <3>3
        <5>2. QED
          BY <1>0, <5>1 DEF TasksFollowSocket
      <4>2. queue'[d] = Append(queue[d], Stop(q))
        BY <2>1, <2>2, <3>3, <4>1, Zenon
      <4>3. Stop(q) # Ask(q) /\ Stop(q) \in Message
        BY MessagesOf, Zenon
      <4>4. queue[d] \in Seq(Message)
        BY <1>0, Zenon DEF SocketShape
      <4>5. QED
        BY <2>1, <4>2, <4>3, <4>4, FollowedAppend, Zenon
    <3>4. QED
      BY <3>1, <3>2, <3>3, Zenon
  <2>3. QED
    BY <2>1, <2>2, Zenon DEF StopFollows
<1>7. ASSUME NEW r \in Request, StepYields(r) PROVE StopFollows'
  <2>1. /\ UNCHANGED <<library, queue, socket, serving>> /\ OtherCallers(r)
        /\ (library = "rust" => phase'[r] = phase[r])
    BY <1>7, Zenon DEF StepYields
  <2>2. CASE library # "rust"
    BY <2>1, <2>2, Zenon DEF StopFollows
  <2>3. CASE library = "rust"
    <3>1. \A q \in Request : phase'[q] # "streaming" => phase[q] # "streaming"
      BY <2>1, <2>3, Zenon DEF OtherCallers
    <3>2. \A d \in Connection : /\ socket'[d] = "open" => socket[d] = "open"
                                /\ \A q \in serving'[d] : q \in serving[d]
      BY <2>1, Zenon
    <3>3. QED
      BY <1>0, <2>1, <3>1, <3>2, FollowedPhases, Zenon
  <2>4. QED
    BY <2>2, <2>3, Zenon
<1>8. ASSUME NEW r \in Request, StepEnds(r) PROVE StopFollows'
  <2>1. /\ UNCHANGED <<library, socket, serving, queue>> /\ OtherCallers(r) /\ library = "rust"
        /\ phase[r] = "streaming" /\ conn[r] \in Connection /\ r \notin pending[conn[r]]
    BY <1>8, Zenon DEF StepEnds
  <2>2. ASSUME NEW q \in Request, NEW d \in Connection, socket'[d] = "open", phase'[q] # "streaming"
        PROVE  FollowedOn(q, d)
    <3>1. CASE q # r
      BY <1>0, <2>1, <2>2, <3>1, Zenon DEF StopFollows, OtherCallers
    <3>2. CASE q = r /\ d # conn[r]
      BY <1>0, <3>2, FollowedElsewhere, Zenon
    <3>3. CASE q = r /\ d = conn[r]
      <4>1. ToldOf(r) /\ socket[conn[r]] # "closed"
        BY <1>0, <2>1, <2>2, <3>3 DEF GoneIsTold
      <4>2. Answered(r)
        BY <2>1, <4>1, Zenon DEF ToldOf
      <4>3. r \notin serving[d] /\ asked[r] # 0
        BY <1>0, <4>2, UnaskedIsUnanswered, Zenon DEF AnsweredIsServed
      <4>4. ASSUME NEW i \in 1 .. Len(queue[d]) PROVE queue[d][i] # Ask(r)
        <5>1. MessageIsSingle(d, i)
          BY <1>0, Zenon DEF RequestIsSingle
        <5>2. Ask(r).type = "request" /\ Ask(r).id = r
          BY MessagesOf
        <5>3. QED
          BY <4>3, <5>1, <5>2, Zenon DEF MessageIsSingle
      <4>5. QED
        BY <3>3, <4>3, <4>4, Zenon DEF FollowedOn
    <3>4. QED
      BY <3>1, <3>2, <3>3, Zenon
  <2>3. ASSUME NEW q \in Request, NEW d \in Connection, socket'[d] = "open", phase'[q] # "streaming"
        PROVE  FollowedOn(q, d)'
    BY <2>1, <2>2, <2>3, FollowedSame, Zenon
  <2>4. QED
    BY <2>3, Zenon DEF StopFollows
<1>9. ASSUME NEW c \in Connection, StepDelivers(c) PROVE StopFollows'
  <2>1. UNCHANGED <<library, queue>>
    BY <1>9, Zenon DEF StepDelivers, StepReads
  <2>2. \A q \in Request : phase'[q] # "streaming" => phase[q] # "streaming"
    BY <1>9, <1>0 DEF StepDelivers, StepReads, OtherCallers, Before
  <2>3. \A d \in Connection : /\ socket'[d] = "open" => socket[d] = "open"
                              /\ \A q \in serving'[d] : q \in serving[d]
    BY <1>9 DEF StepDelivers, StepReads, OtherServing
  <2>4. QED
    BY <1>0, <2>1, <2>2, <2>3, FollowedPhases, Zenon
<1>10. ASSUME NEW c \in Connection, StepReadEnds(c) PROVE StopFollows'
  <2>1. UNCHANGED <<library, queue>>
    BY <1>10, Zenon DEF StepReadEnds
  <2>2. \A q \in Request : phase'[q] # "streaming" => phase[q] # "streaming"
    BY <1>10, <1>0 DEF StepReadEnds, OtherCallers, Before
  <2>3. \A d \in Connection : /\ socket'[d] = "open" => socket[d] = "open"
                              /\ \A q \in serving'[d] : q \in serving[d]
    BY <1>10 DEF StepReadEnds, OtherServing
  <2>4. QED
    BY <1>0, <2>1, <2>2, <2>3, FollowedPhases, Zenon
<1>11. ASSUME NEW c \in Connection, StepClears(c) PROVE StopFollows'
  <2>1. UNCHANGED <<library, queue>>
    BY <1>11, Zenon DEF StepClears
  <2>2. \A q \in Request : phase'[q] # "streaming" => phase[q] # "streaming"
    BY <1>11, <1>0 DEF StepClears, OtherCallers, Before
  <2>3. \A d \in Connection : /\ socket'[d] = "open" => socket[d] = "open"
                              /\ \A q \in serving'[d] : q \in serving[d]
    BY <1>11 DEF StepClears, OtherServing
  <2>4. QED
    BY <1>0, <2>1, <2>2, <2>3, FollowedPhases, Zenon
<1>12. ASSUME NEW c \in Connection, StepAsks(c) PROVE StopFollows'
  <2>1. /\ UNCHANGED <<library, socket, phase>> /\ OtherQueues(c) /\ OtherServing(c)
        /\ Len(queue[c]) > 0 /\ queue[c][1] \in Message /\ queue[c][1].id \in Request
        /\ queue'[c] = Tail(queue[c])
    BY <1>12, Zenon DEF StepAsks, StepUnqueues
  <2>2. ASSUME NEW q \in Request, q \in serving'[c]
        PROVE  (q \in serving[c] \/ queue[c][1] = Ask(q)) /\ queue[c][1] # Stop(q)
    <3>1. queue[c][1].type = "request" /\ serving'[c] = serving[c] \cup {queue[c][1].id}
      BY <1>12, Zenon DEF StepAsks
    <3>2. queue[c][1] # Stop(q)
      BY <3>1, MessagesOf
    <3>3. q \in serving[c] \/ q = queue[c][1].id
      BY <2>2, <3>1
    <3>4. q = queue[c][1].id => queue[c][1] = Ask(q)
      BY <2>1, <3>2, MessagesOf, Zenon
    <3>5. QED
      BY <3>2, <3>3, <3>4, Zenon
  <2>3. ASSUME library = "rust", NEW q \in Request, NEW d \in Connection,
               socket'[d] = "open", phase'[q] # "streaming"
        PROVE  FollowedOn(q, d)'
    <3>1. FollowedOn(q, d)
      BY <1>0, <2>1, <2>3, Zenon DEF StopFollows
    <3>2. CASE d # c
      BY <2>1, <3>1, <3>2, FollowedSame, Zenon DEF OtherQueues, OtherServing
    <3>3. CASE d = c
      <4>1. queue[d] \in Seq(Message)
        BY <1>0, Zenon DEF SocketShape
      <4>2. QED
        BY <2>1, <2>2, <3>1, <3>3, <4>1, FollowedTail, Zenon
    <3>4. QED
      BY <3>2, <3>3, Zenon
  <2>4. QED
    BY <2>1, <2>3, Zenon DEF StopFollows
<1>13. ASSUME NEW c \in Connection, StepOrdersStop(c) PROVE StopFollows'
  <2>1. /\ UNCHANGED <<library, socket, phase>> /\ OtherQueues(c) /\ OtherServing(c)
        /\ Len(queue[c]) > 0 /\ queue[c][1] \in Message /\ queue[c][1].id \in Request
        /\ queue'[c] = Tail(queue[c])
    BY <1>13, Zenon DEF StepOrdersStop, StepUnqueues
  <2>2. ASSUME NEW q \in Request, q \in serving'[c]
        PROVE  (q \in serving[c] \/ queue[c][1] = Ask(q)) /\ queue[c][1] # Stop(q)
    <3>1. serving'[c] = serving[c] \ {queue[c][1].id}
      BY <1>13, Zenon DEF StepOrdersStop
    <3>2. q \in serving[c] /\ q # queue[c][1].id
      BY <2>2, <3>1
    <3>3. Stop(q).id = q
      BY MessagesOf
    <3>4. QED
      BY <3>2, <3>3, Zenon
  <2>3. ASSUME library = "rust", NEW q \in Request, NEW d \in Connection,
               socket'[d] = "open", phase'[q] # "streaming"
        PROVE  FollowedOn(q, d)'
    <3>1. FollowedOn(q, d)
      BY <1>0, <2>1, <2>3, Zenon DEF StopFollows
    <3>2. CASE d # c
      BY <2>1, <3>1, <3>2, FollowedSame, Zenon DEF OtherQueues, OtherServing
    <3>3. CASE d = c
      <4>1. queue[d] \in Seq(Message)
        BY <1>0, Zenon DEF SocketShape
      <4>2. QED
        BY <2>1, <2>2, <3>1, <3>3, <4>1, FollowedTail, Zenon
    <3>4. QED
      BY <3>2, <3>3, Zenon
  <2>4. QED
    BY <2>1, <2>3, Zenon DEF StopFollows
<1>14. ASSUME NEW c \in Connection, StepLoses(c) PROVE StopFollows'
  <2>1. /\ UNCHANGED <<library, socket, phase, serving>> /\ OtherQueues(c) /\ socket[c] = "closed"
    BY <1>14, Zenon DEF StepLoses, StepUnqueues
  <2>2. ASSUME library = "rust", NEW q \in Request, NEW d \in Connection,
               socket'[d] = "open", phase'[q] # "streaming"
        PROVE  FollowedOn(q, d)'
    <3>1. FollowedOn(q, d)
      BY <1>0, <2>1, <2>2, Zenon DEF StopFollows
    <3>2. d # c
      BY <2>1, <2>2
    <3>3. QED
      BY <2>1, <3>1, <3>2, FollowedSame, Zenon DEF OtherQueues
  <2>3. QED
    BY <2>1, <2>2, Zenon DEF StopFollows
<1>15. ASSUME NEW c \in Connection, StepDrops(c) PROVE StopFollows'
  <2>1. UNCHANGED <<library, queue>>
    BY <1>15, Zenon DEF StepDrops
  <2>2. \A q \in Request : phase'[q] # "streaming" => phase[q] # "streaming"
    BY <1>15, <1>0 DEF StepDrops, OtherCallers, Before
  <2>3. \A d \in Connection : /\ socket'[d] = "open" => socket[d] = "open"
                              /\ \A q \in serving'[d] : q \in serving[d]
    BY <1>15 DEF StepDrops, OtherServing
  <2>4. QED
    BY <1>0, <2>1, <2>2, <2>3, FollowedPhases, Zenon
<1>16. ASSUME NEW c \in Connection, NEW S \in SUBSET pending[c], StepSpoils(c, S) PROVE StopFollows'
  <2>1. UNCHANGED <<library, queue>>
    BY <1>16, Zenon DEF StepSpoils, StepReads
  <2>2. \A q \in Request : phase'[q] # "streaming" => phase[q] # "streaming"
    BY <1>16, <1>0 DEF StepSpoils, StepReads, OtherCallers, Before
  <2>3. \A d \in Connection : /\ socket'[d] = "open" => socket[d] = "open"
                              /\ \A q \in serving'[d] : q \in serving[d]
    BY <1>16 DEF StepSpoils, StepReads, OtherServing
  <2>4. QED
    BY <1>0, <2>1, <2>2, <2>3, FollowedPhases, Zenon
<1>17. ASSUME NEW closed \in SUBSET Connection, StepDrains(closed) PROVE StopFollows'
  <2>1. library' # "rust"
    BY <1>17 DEF StepDrains
  <2>2. QED
    BY <2>1, Zenon DEF StopFollows
<1>18. ASSUME NEW c \in Connection, NEW r \in Request, NEW kind \in Kind,
            StepAnswers(c, r, kind)
     PROVE  StopFollows'
  <2>1. UNCHANGED <<library, queue>>
    BY <1>18, Zenon DEF StepAnswers
  <2>2. \A q \in Request : phase'[q] # "streaming" => phase[q] # "streaming"
    BY <1>18, <1>0 DEF StepAnswers, OtherCallers, Before
  <2>3. \A d \in Connection : /\ socket'[d] = "open" => socket[d] = "open"
                              /\ \A q \in serving'[d] : q \in serving[d]
    BY <1>18 DEF StepAnswers, OtherServing
  <2>4. QED
    BY <1>0, <2>1, <2>2, <2>3, FollowedPhases, Zenon
<1>19. QED
  BY <1>1, <1>2, <1>3, <1>4, <1>5, <1>6, <1>7, <1>8, <1>9, <1>10, <1>11, <1>12, <1>13, <1>14,
      <1>15, <1>16, <1>17, <1>18, Zenon DEF Step

\* A stream that has ended did so with a reason, unless it was registered late.
EndedWell(r) == ~late[r] => taken[r] > 0 /\ IsReason(items[r][taken[r]])

\* What EndsWithReason says of one stream.
LEMMA EndsWell == EndsWithReason <=> \A r \in Request : phase[r] = "ended" => EndedWell(r)
BY Zenon DEF EndsWithReason, EndedWell, IsReason, LastTaken, Errors

\* No stream ends, and those that have keep what they were given.
LEMMA ReasonsStay ==
    ASSUME SocketShape, CallerShape, EndsWithReason, UNCHANGED <<library, taken>>,
           \A q \in Request : phase'[q] = "ended" => phase[q] = "ended" /\ late'[q] = late[q],
           \A q \in Request : phase[q] = "ended" =>
               \A i \in 1 .. Len(items[q]) : items'[q][i] = items[q][i]
    PROVE  EndsWithReason'
<1>1. ASSUME NEW q \in Request, phase'[q] = "ended", ~late'[q]
      PROVE  taken'[q] > 0 /\ IsReason(items'[q][taken'[q]])
  <2>1. taken[q] > 0 /\ IsReason(items[q][taken[q]])
    BY <1>1, EndsWell, Zenon DEF EndedWell
  <2>2. taken[q] \in 1 .. Len(items[q])
    <3>1. taken[q] \in Nat /\ Len(items[q]) \in Nat
      BY DEF SocketShape
    <3>2. taken[q] <= Len(items[q])
      BY DEF CallerShape, CallerOf
    <3>3. QED
      BY <2>1, <3>1, <3>2
  <2>3. items'[q][taken[q]] = items[q][taken[q]]
    BY <1>1, <2>2, Zenon
  <2>4. QED
    BY <2>1, <2>3, Zenon
<1>2. QED
  BY <1>1, Zenon DEF EndsWithReason, LastTaken, IsReason, Errors, IsTerminal

\* What the streams that have ended must show, where no item changes.
LEMMA ReasonsOf ==
    ASSUME UNCHANGED <<library, items>>,
           \A q \in Request : phase'[q] = "ended" /\ ~late'[q] =>
               taken'[q] > 0 /\ IsReason(items[q][taken'[q]])
    PROVE  EndsWithReason'
BY Zenon DEF EndsWithReason, LastTaken, IsReason, Errors, IsTerminal

\* A step ends no stream without a reason.
LEMMA ReasonKept ==
    ASSUME SocketInv, SocketShape', Step
    PROVE  EndsWithReason'
<1>0. SocketShape /\ CallerShape /\ GoneIsTold /\ EndsWithReason
  BY Zenon DEF SocketInv
<1>1. CASE StepQuiet
  <2>1. UNCHANGED <<library, taken, items, late>>
    BY <1>1, Zenon DEF StepQuiet
  <2>2. \A q \in Request : phase'[q] = "ended" => phase[q] = "ended"
    BY <1>1 DEF StepQuiet, OtherCallers, Before
  <2>3. QED
    BY <1>0, <2>1, <2>2, ReasonsStay, Zenon
<1>2. ASSUME NEW r \in Request, NEW c \in Connection, StepRegisters(r, c) PROVE EndsWithReason'
  <2>1. UNCHANGED <<library, taken>>
    BY <1>2, Zenon DEF StepRegisters
  <2>2. phase[r] # "ended" /\ phase'[r] # "ended"
    BY <1>2 DEF StepRegisters
  <2>3. \A q \in Request : q # r => phase'[q] = phase[q] /\ items'[q] = items[q] /\ late'[q] = late[q]
    BY <1>2, Zenon DEF StepRegisters, OtherCallers
  <2>4. \A q \in Request : phase'[q] = "ended" => phase[q] = "ended" /\ late'[q] = late[q]
    BY <2>2, <2>3, Zenon
  <2>5. \A q \in Request : phase[q] = "ended" => items'[q] = items[q]
    BY <2>2, <2>3, Zenon
  <2>6. QED
    BY <1>0, <2>1, <2>4, <2>5, ReasonsStay, Zenon
<1>3. ASSUME NEW r \in Request, NEW c \in Connection, StepSends(r, c) PROVE EndsWithReason'
  <2>1. UNCHANGED <<library, taken, items, late>>
    BY <1>3, Zenon DEF StepSends
  <2>2. \A q \in Request : phase'[q] = "ended" => phase[q] = "ended"
    BY <1>3 DEF StepSends, OtherCallers, Before
  <2>3. QED
    BY <1>0, <2>1, <2>2, ReasonsStay, Zenon
<1>4. ASSUME NEW r \in Request, NEW c \in Connection, StepWrites(r, c) PROVE EndsWithReason'
  <2>1. UNCHANGED <<library, taken, items, late>>
    BY <1>4, Zenon DEF StepWrites
  <2>2. \A q \in Request : phase'[q] = "ended" => phase[q] = "ended"
    BY <1>4 DEF StepWrites, OtherCallers, Before
  <2>3. QED
    BY <1>0, <2>1, <2>2, ReasonsStay, Zenon
<1>5. ASSUME NEW r \in Request, NEW c \in Connection, StepRefused(r, c) PROVE EndsWithReason'
  <2>1. UNCHANGED <<library, taken, items, late>>
    BY <1>5, Zenon DEF StepRefused
  <2>2. \A q \in Request : phase'[q] = "ended" => phase[q] = "ended"
    BY <1>5 DEF StepRefused, OtherCallers, Before
  <2>3. QED
    BY <1>0, <2>1, <2>2, ReasonsStay, Zenon
<1>6. ASSUME NEW r \in Request, NEW c \in Connection, StepStops(r, c) PROVE EndsWithReason'
  <2>1. UNCHANGED <<library, taken, items, late>>
    BY <1>6, Zenon DEF StepStops
  <2>2. \A q \in Request : phase'[q] = "ended" => phase[q] = "ended"
    BY <1>6 DEF StepStops, OtherCallers, Before
  <2>3. QED
    BY <1>0, <2>1, <2>2, ReasonsStay, Zenon
<1>7. ASSUME NEW r \in Request, StepYields(r) PROVE EndsWithReason'
  <2>1. /\ UNCHANGED <<library, items, late>> /\ OtherCallers(r) /\ phase[r] = "streaming"
        /\ taken'[r] = taken[r] + 1 /\ \A q \in Request : q # r => taken'[q] = taken[q]
        /\ IsReason(items[r][taken[r] + 1]) \/ phase'[r] = phase[r]
    BY <1>7, Zenon DEF StepYields
  <2>2. "streaming" # "ended"
    OBVIOUS
  <2>3. taken[r] + 1 > 0
    BY <1>0 DEF SocketShape
  <2>4. ASSUME NEW q \in Request, phase'[q] = "ended", ~late'[q]
        PROVE  taken'[q] > 0 /\ IsReason(items[q][taken'[q]])
    <3>1. CASE q = r
      BY <2>1, <2>2, <2>3, <2>4, <3>1, Zenon
    <3>2. CASE q # r
      BY <1>0, <2>1, <2>4, <3>2, EndsWell, Zenon DEF EndedWell, OtherCallers
    <3>3. QED
      BY <3>1, <3>2, Zenon
  <2>5. QED
    BY <2>1, <2>4, ReasonsOf, Zenon
<1>8. ASSUME NEW r \in Request, StepEnds(r) PROVE EndsWithReason'
  <2>1. /\ UNCHANGED <<library, items, late, taken>> /\ OtherCallers(r) /\ phase[r] = "streaming"
        /\ library = "rust" /\ taken[r] = Len(items[r]) /\ r \notin pending[conn[r]]
    BY <1>8, Zenon DEF StepEnds
  <2>2. ASSUME NEW q \in Request, phase'[q] = "ended", ~late'[q]
        PROVE  taken'[q] > 0 /\ IsReason(items[q][taken'[q]])
    <3>1. CASE q = r
      <4>1. ToldOf(r)
        BY <1>0, <2>1 DEF GoneIsTold
      <4>2. Len(items[r]) > 0 /\ items[r][Len(items[r])].kind \in RustTerminal \cup Errors
        BY <2>1, <2>2, <3>1, <4>1, Zenon DEF ToldOf
      <4>3. IsTerminal(items[r][Len(items[r])].kind) <=> items[r][Len(items[r])].kind \in RustTerminal
        BY <2>1 DEF IsTerminal
      <4>4. QED
        BY <2>1, <3>1, <4>2, <4>3, Zenon DEF IsReason
    <3>2. CASE q # r
      BY <1>0, <2>1, <2>2, <3>2, EndsWell, Zenon DEF EndedWell, OtherCallers
    <3>3. QED
      BY <3>1, <3>2, Zenon
  <2>3. QED
    BY <2>1, <2>2, ReasonsOf, Zenon
<1>9. ASSUME NEW c \in Connection, StepDelivers(c) PROVE EndsWithReason'
  <2>1. UNCHANGED <<library, taken, phase, late>>
    BY <1>9, Zenon DEF StepDelivers, StepReads
  <2>2. ASSUME NEW q \in Request, NEW i \in 1 .. Len(items[q]) PROVE items'[q][i] = items[q][i]
    <3>1. items[q] \in Seq(Item) /\ wire[c] \in Seq(Frame) /\ Len(wire[c]) > 0
      BY <1>9, <1>0, Zenon DEF SocketShape, StepDelivers, StepReads
    <3>2. items'[q] = items[q] \/ items'[q] = Append(items[q], wire[c][1])
      BY <1>9, Zenon DEF StepDelivers
    <3>3. Append(items[q], wire[c][1])[i] = items[q][i]
      BY <3>1
    <3>4. QED
      BY <3>2, <3>3, Zenon
  <2>3. QED
    BY <1>0, <2>1, <2>2, ReasonsStay, Zenon
<1>10. ASSUME NEW c \in Connection, StepReadEnds(c) PROVE EndsWithReason'
  <2>1. UNCHANGED <<library, taken, phase, late>>
    BY <1>10, Zenon DEF StepReadEnds
  <2>2. PICK T \in SUBSET Request, k \in Errors : items' = Told(T, k)
    <3>1. items' = Told(pending[c], "dropped")
      BY <1>10, Zenon DEF StepReadEnds
    <3>2. pending[c] \in SUBSET Request /\ "dropped" \in Errors
      BY <1>0 DEF SocketShape, Errors
    <3>3. QED
      BY <3>1, <3>2, Zenon
  <2>3. \A q \in Request : \A i \in 1 .. Len(items[q]) : items'[q][i] = items[q][i]
    <3>1. \A q \in Request : \A i \in 1 .. Len(items[q]) : Told(T, k)[q][i] = items[q][i]
      BY <1>0, ToldIs, Zenon
    <3>2. QED
      BY <2>2, <3>1, Zenon
  <2>4. QED
    BY <1>0, <2>1, <2>3, ReasonsStay, Zenon
<1>11. ASSUME NEW c \in Connection, StepClears(c) PROVE EndsWithReason'
  <2>1. UNCHANGED <<library, taken, items, late>>
    BY <1>11, Zenon DEF StepClears
  <2>2. \A q \in Request : phase'[q] = "ended" => phase[q] = "ended"
    BY <1>11 DEF StepClears, OtherCallers, Before
  <2>3. QED
    BY <1>0, <2>1, <2>2, ReasonsStay, Zenon
<1>12. ASSUME NEW c \in Connection, StepAsks(c) PROVE EndsWithReason'
  <2>1. UNCHANGED <<library, taken, items, late>>
    BY <1>12, Zenon DEF StepAsks, StepUnqueues
  <2>2. \A q \in Request : phase'[q] = "ended" => phase[q] = "ended"
    BY <1>12 DEF StepAsks, StepUnqueues, OtherCallers, Before
  <2>3. QED
    BY <1>0, <2>1, <2>2, ReasonsStay, Zenon
<1>13. ASSUME NEW c \in Connection, StepOrdersStop(c) PROVE EndsWithReason'
  <2>1. UNCHANGED <<library, taken, items, late>>
    BY <1>13, Zenon DEF StepOrdersStop, StepUnqueues
  <2>2. \A q \in Request : phase'[q] = "ended" => phase[q] = "ended"
    BY <1>13 DEF StepOrdersStop, StepUnqueues, OtherCallers, Before
  <2>3. QED
    BY <1>0, <2>1, <2>2, ReasonsStay, Zenon
<1>14. ASSUME NEW c \in Connection, StepLoses(c) PROVE EndsWithReason'
  <2>1. UNCHANGED <<library, taken, items, late>>
    BY <1>14, Zenon DEF StepLoses, StepUnqueues
  <2>2. \A q \in Request : phase'[q] = "ended" => phase[q] = "ended"
    BY <1>14 DEF StepLoses, StepUnqueues, OtherCallers, Before
  <2>3. QED
    BY <1>0, <2>1, <2>2, ReasonsStay, Zenon
<1>15. ASSUME NEW c \in Connection, StepDrops(c) PROVE EndsWithReason'
  <2>1. UNCHANGED <<library, taken, items, late>>
    BY <1>15, Zenon DEF StepDrops
  <2>2. \A q \in Request : phase'[q] = "ended" => phase[q] = "ended"
    BY <1>15 DEF StepDrops, OtherCallers, Before
  <2>3. QED
    BY <1>0, <2>1, <2>2, ReasonsStay, Zenon
<1>16. ASSUME NEW c \in Connection, NEW S \in SUBSET pending[c], StepSpoils(c, S) PROVE EndsWithReason'
  <2>1. UNCHANGED <<library, taken, phase, late>>
    BY <1>16, Zenon DEF StepSpoils, StepReads
  <2>2. PICK T \in SUBSET Request, k \in Errors : items' = Told(T, k)
    <3>1. items' = Told(S, "unparsable")
      BY <1>16, Zenon DEF StepSpoils
    <3>2. S \in SUBSET Request /\ "unparsable" \in Errors
      BY <1>0 DEF SocketShape, Errors
    <3>3. QED
      BY <3>1, <3>2, Zenon
  <2>3. \A q \in Request : \A i \in 1 .. Len(items[q]) : items'[q][i] = items[q][i]
    <3>1. \A q \in Request : \A i \in 1 .. Len(items[q]) : Told(T, k)[q][i] = items[q][i]
      BY <1>0, ToldIs, Zenon
    <3>2. QED
      BY <2>2, <3>1, Zenon
  <2>4. QED
    BY <1>0, <2>1, <2>3, ReasonsStay, Zenon
<1>17. ASSUME NEW closed \in SUBSET Connection, StepDrains(closed) PROVE EndsWithReason'
  <2>1. UNCHANGED <<library, taken, phase, late>>
    BY <1>17, Zenon DEF StepDrains
  <2>2. PICK T \in SUBSET Request, k \in Errors : items' = Told(T, k)
    <3>1. items' = Told({q \in Request : \E c \in closed : q \in pending[c]}, "dropped")
      BY <1>17, Zenon DEF StepDrains
    <3>2. {q \in Request : \E c \in closed : q \in pending[c]} \in SUBSET Request /\ "dropped" \in Errors
      BY DEF Errors
    <3>3. QED
      BY <3>1, <3>2, Zenon
  <2>3. \A q \in Request : \A i \in 1 .. Len(items[q]) : items'[q][i] = items[q][i]
    <3>1. \A q \in Request : \A i \in 1 .. Len(items[q]) : Told(T, k)[q][i] = items[q][i]
      BY <1>0, ToldIs, Zenon
    <3>2. QED
      BY <2>2, <3>1, Zenon
  <2>4. QED
    BY <1>0, <2>1, <2>3, ReasonsStay, Zenon
<1>18. ASSUME NEW c \in Connection, NEW r \in Request, NEW kind \in Kind,
            StepAnswers(c, r, kind)
     PROVE  EndsWithReason'
  <2>1. UNCHANGED <<library, taken, items, late>>
    BY <1>18, Zenon DEF StepAnswers
  <2>2. \A q \in Request : phase'[q] = "ended" => phase[q] = "ended"
    BY <1>18 DEF StepAnswers, OtherCallers, Before
  <2>3. QED
    BY <1>0, <2>1, <2>2, ReasonsStay, Zenon
<1>19. QED
  BY <1>1, <1>2, <1>3, <1>4, <1>5, <1>6, <1>7, <1>8, <1>9, <1>10, <1>11, <1>12, <1>13, <1>14,
      <1>15, <1>16, <1>17, <1>18, Zenon DEF Step

\* What the sockets start with.
LEMMA SocketStarts == ASSUME SocketInit PROVE SocketInv
<1> USE SocketClientAssumption
<1>0. /\ library \in {"rust", "python", "javascript"}
      /\ made = IF library = "javascript" THEN 1 ELSE 0
      /\ pool = [i \in Slot |-> IF library = "javascript" THEN 1 ELSE None]
      /\ next = 0 /\ lock = None /\ drops = 0
  BY Zenon DEF SocketInit
<1>1. /\ \A c \in Connection : /\ wire[c] = <<>> /\ queue[c] = <<>> /\ pending[c] = {} /\ serving[c] = {}
                               /\ reader[c] = "running" /\ writer[c] = "running" /\ socket[c] = "open"
      /\ \A r \in Request : /\ phase[r] = "idle" /\ items[r] = <<>> /\ taken[r] = 0 /\ sent[r] = <<>>
                            /\ asked[r] = 0 /\ ~late[r]
  BY Zenon DEF SocketInit
<1>2. SocketShape
  <2>1. /\ made \in 0 .. MaxConnections /\ pool \in [Slot -> 0 .. made] /\ next \in Nat /\ drops \in Nat
        /\ lock \in Request \cup {None} /\ 0 \in Slot
    BY <1>0 DEF None, Slot
  <2>2. /\ socket \in [Connection -> {"open", "closed"}]
        /\ wire \in [Connection -> Seq(Frame)] /\ queue \in [Connection -> Seq(Message)]
        /\ reader \in [Connection -> {"running", "draining", "finished"}]
        /\ writer \in [Connection -> {"running", "finished"}]
        /\ pending \in [Connection -> SUBSET Request] /\ serving \in [Connection -> SUBSET Request]
    BY DEF SocketInit
  <2>3. phase \in [Request -> Phase]
    BY DEF SocketInit, Phase, Before
  <2>4. /\ slot \in [Request -> Slot] /\ conn \in [Request -> 0 .. made] /\ attempt \in [Request -> 1 .. 2]
        /\ taken \in [Request -> Nat] /\ asked \in [Request -> 0 .. 1]
    BY <2>1 DEF SocketInit, None
  <2>5. /\ items \in [Request -> Seq(Item)] /\ sent \in [Request -> Seq(Frame)]
        /\ late \in [Request -> BOOLEAN]
    BY DEF SocketInit
  <2>6. QED
    BY <1>0, <2>1, <2>2, <2>3, <2>4, <2>5, Zenon DEF SocketShape
<1>3. NextCounts
  <2>1. Begun = {}
    BY <1>1 DEF Begun
  <2>2. Cardinality({}) = 0
    BY FS_EmptySet
  <2>3. QED
    BY <1>0, <2>1, <2>2 DEF NextCounts
<1>4. CallerShape
  <2>1. \A r \in Request : CallerOf(r)
    BY <1>1 DEF CallerOf, Unsent, Before
  <2>2. QED
    BY <1>0, <2>1 DEF CallerShape
<1>5. TasksFollowSocket
  BY <1>1 DEF TasksFollowSocket
<1>6. ASSUME NEW c \in Connection PROVE 1 .. Len(wire[c]) = {} /\ 1 .. Len(queue[c]) = {}
  BY <1>1
<1>7. ASSUME NEW r \in Request PROVE 1 .. Len(items[r]) = {} /\ 1 .. Len(sent[r]) = {}
  BY <1>1
<1>8. TracesAreHeld
  BY <1>1, <1>6 DEF TracesAreHeld, TraceOn
<1>9. RequestIsSingle
  BY <1>1, <1>6, Zenon DEF RequestIsSingle
<1>10. FramesContinue /\ NoErrorYet
  BY <1>1 DEF FramesContinue, NoErrorYet
<1>11. OwnFramesInOrder
  BY <1>7 DEF OwnFramesInOrder
<1>12. AnsweredIsServed
  BY <1>1 DEF AnsweredIsServed
<1>13. GoneIsTold
  BY <1>1 DEF GoneIsTold
<1>14. StopFollows
  BY <1>1, <1>6 DEF StopFollows, FollowedOn
<1>15. EndsWithReason
  BY <1>1 DEF EndsWithReason
<1>16. QED
  BY <1>2, <1>3, <1>4, <1>5, <1>8, <1>9, <1>10, <1>11, <1>12, <1>13, <1>14, <1>15, Zenon DEF SocketInv

\* A step of a client keeps the invariant.
LEMMA SocketsStay ==
    ASSUME SocketInv, [SocketNext]_socketClientVars
    PROVE  SocketInv'
<1>1. SocketShape' /\ NextCounts' /\ CallerShape' /\ TasksFollowSocket'
  BY ShapeKept, CountKept, CallerKept, TasksKept, Zenon
<1>2. Step
  BY StepIs, Zenon
<1>3. TracesAreHeld' /\ RequestIsSingle' /\ FramesContinue' /\ NoErrorYet' /\ OwnFramesInOrder'
  BY <1>1, <1>2, TracesKept, SingleKept, FramesKept, NoErrorKept, OwnKept, Zenon
<1>4. AnsweredIsServed' /\ GoneIsTold' /\ StopFollows' /\ EndsWithReason'
  BY <1>1, <1>2, AnsweredKept, GoneKept, StopKept, ReasonKept, Zenon
<1>5. QED
  BY <1>1, <1>3, <1>4, Zenon DEF SocketInv

\* What the invariant says of the sockets.
LEMMA SocketsAreFaithful ==
    ASSUME SocketInv
    PROVE  SocketTypeOK /\ OwnFramesInOrder /\ AskedOnce /\ EndsWithReason /\ AbandonedIsStopped
<1>0. /\ SocketShape /\ NextCounts /\ CallerShape /\ TracesAreHeld /\ StopFollows
      /\ OwnFramesInOrder /\ EndsWithReason
  BY Zenon DEF SocketInv
<1>1. SocketTypeOK
  <2>1. next \in 0 .. Cardinality(Request)
    <3>1. Begun \subseteq Request
      BY DEF Begun
    <3>2. /\ IsFiniteSet(Request) /\ Cardinality(Request) \in Nat
          /\ Cardinality(Begun) <= Cardinality(Request)
      BY <3>1, SocketClientAssumption, FS_Subset, FS_CardinalityType
    <3>3. next \in Nat
      BY <1>0 DEF SocketShape
    <3>4. QED
      BY <1>0, <3>2, <3>3 DEF NextCounts
  <2>2. \A c \in Connection : Range(wire[c]) \subseteq Frame /\ Range(queue[c]) \subseteq Message
    BY <1>0 DEF SocketShape, Range
  <2>3. ASSUME NEW r \in Request
        PROVE  Range(items[r]) \subseteq Item /\ taken[r] \in 0 .. Len(items[r])
    <3>1. items[r] \in Seq(Item) /\ taken[r] \in Nat /\ Len(items[r]) \in Nat
      BY <1>0 DEF SocketShape
    <3>2. Range(items[r]) \subseteq Item
      BY <3>1 DEF Range
    <3>3. taken[r] <= Len(items[r])
      BY <1>0 DEF CallerShape, CallerOf
    <3>4. QED
      BY <3>1, <3>2, <3>3
  <2>4. Phase = {"idle", "check", "connect", "get", "write", "streaming"} \cup Over
    BY DEF Phase, Before
  <2>5. QED
    BY <1>0, <2>1, <2>2, <2>3, <2>4, Zenon DEF SocketShape, SocketTypeOK
<1>2. AskedOnce
  <2>1. ASSUME NEW r \in Request PROVE asked[r] <= 1
    <3>1. asked[r] \in 0 .. 1
      BY <1>0 DEF SocketShape
    <3>2. QED
      BY <3>1
  <2>2. QED
    BY <2>1 DEF AskedOnce
<1>3. AbandonedIsStopped
  <2>1. ASSUME library = "rust", NEW r \in Request, NEW c \in Connection, r \in serving[c],
               socket[c] = "open", phase[r] # "streaming"
        PROVE  \E i \in DOMAIN queue[c] : queue[c][i] = [type |-> "stop", id |-> r]
    <3>1. FollowedOn(r, c)
      BY <1>0, <2>1, Zenon DEF StopFollows
    <3>2. \E j \in 1 .. Len(queue[c]) : queue[c][j] = Stop(r)
      BY <2>1, <3>1, Zenon DEF FollowedOn
    <3>3. DOMAIN queue[c] = 1 .. Len(queue[c])
      BY <1>0 DEF SocketShape
    <3>4. QED
      BY <3>2, <3>3, Zenon DEF Stop
  <2>2. ASSUME NEW r \in Request, NEW c \in Connection, r \in serving[c] PROVE conn[r] = c
    BY <1>0, <2>2, Zenon DEF TracesAreHeld, TraceOn
  <2>3. QED
    BY <2>1, <2>2, Zenon DEF AbandonedIsStopped
<1>4. QED
  BY <1>0, <1>1, <1>2, <1>3, Zenon

-----------------------------------------------------------------------------
(***************************************************************************)
(* A call over HTTP: before its answer nothing was received, and a body    *)
(* that is read whole has yielded nothing until it is over.                *)
(***************************************************************************)
Yields == {"document", "invalid", "transport"}

HttpInv ==
    /\ call \in Call
    /\ answer \in {"unreachable", "unavailable", "refused", "ok"}
    /\ yielded \in Seq(Yields)
    /\ stage \in {"idle", "sending", "reading", "sleeping", "over"}
    /\ outcome \in Outcome \cup {"none"}
    /\ stage # "over" => outcome = "none"
    /\ stage \in {"idle", "sending", "sleeping"} =>
           buffer = <<>> /\ yielded = <<>> /\ arriving = Bytes(lines, terminated)
    /\ stage = "reading" /\ call = "rust_get" => yielded = <<>>
    /\ stage = "reading" => call # "health"
    /\ ErrorIsTrue

\* What a line yields.
LEMMA LinesYield == ASSUME NEW line PROVE ParseLine(line) \in Seq(Yields)
<1>1. <<>> \in Seq(Yields) /\ <<"document">> \in Seq(Yields) /\ <<"invalid">> \in Seq(Yields)
  BY DEF Yields
<1>2. NdjsonItem(line) \in {<<>>, <<"document">>, <<"invalid">>}
  BY DEF NdjsonItem
<1>3. SseItem(line) \in {<<>>, <<"document">>, <<"invalid">>}
  BY DEF SseItem
<1>4. QED
  BY <1>1, <1>2, <1>3 DEF ParseLine

\* ErrorIsTrue, where a call ends in what it may say of any body.
LEMMA AnyEndIsTrue ==
    ASSUME outcome \in {"none", "cancelled", "failed"}
    PROVE  ErrorIsTrue
BY DEF ErrorIsTrue, Outcome

\* A step that ends nothing, and leaves an ended call as it is.
LEMMA NoEndIsTrue ==
    ASSUME HttpInv, outcome' = outcome, outcome = "none"
    PROVE  ErrorIsTrue'
BY DEF ErrorIsTrue, Outcome

\* A call starts without an outcome.
LEMMA CallStarts == ASSUME HttpInit \/ HttpUnused PROVE HttpInv
<1>1. <<>> \in Seq(Yields)
  OBVIOUS
<1>2. CASE HttpInit
  <2>1. ErrorIsTrue
    BY <1>2, AnyEndIsTrue DEF HttpInit
  <2>2. QED
    BY <1>1, <1>2, <2>1 DEF HttpInit, HttpInv
<1>3. CASE HttpUnused
  <2>1. ErrorIsTrue
    BY <1>3, AnyEndIsTrue DEF HttpUnused
  <2>2. QED
    BY <1>1, <1>3, <2>1 DEF HttpUnused, HttpInv, Call
<1>4. QED
  BY <1>2, <1>3

\* A step of a call keeps the invariant.
LEMMA CallStays ==
    ASSUME HttpInv, [HttpNext]_httpClientVars
    PROVE  HttpInv'
<1>0. /\ call \in Call /\ yielded \in Seq(Yields)
      /\ answer \in {"unreachable", "unavailable", "refused", "ok"}
  BY Zenon DEF HttpInv
<1>1. CASE HttpRequest
  <2>1. outcome = "none" /\ outcome' = outcome
    BY <1>1 DEF HttpInv, HttpRequest
  <2>2. ErrorIsTrue'
    BY <2>1, NoEndIsTrue
  <2>3. QED
    BY <1>1, <2>2 DEF HttpInv, HttpRequest
<1>2. CASE SendCheckedRequest
  <2>1. /\ UNCHANGED <<call, answer, lines, terminated, arriving, buffer, yielded>>
        /\ buffer = <<>> /\ yielded = <<>> /\ arriving = Bytes(lines, terminated) /\ outcome = "none"
    BY <1>2 DEF HttpInv, SendCheckedRequest
  <2>2. CASE stage' \in {"reading", "sleeping"} /\ outcome' = outcome
    <3>1. ErrorIsTrue'
      BY <2>1, <2>2, NoEndIsTrue
    <3>2. stage' = "reading" => call # "health"
      BY <1>2, <2>2 DEF SendCheckedRequest, Bodied, End
    <3>3. QED
      BY <1>0, <2>1, <2>2, <3>1, <3>2 DEF HttpInv
  <2>3. CASE answer = "ok" /\ ~Bodied(call) /\ End("complete")
    <3>1. call # "rust_get"
      BY <2>3 DEF Bodied
    <3>2. ErrorIsTrue'
      BY <2>1, <2>3, <3>1 DEF ErrorIsTrue, End, Outcome
    <3>3. QED
      BY <1>0, <2>1, <2>3, <3>2 DEF HttpInv, End, Outcome
  <2>4. ASSUME NEW error \in {"Http"} \cup ReadErrorBody, End(IF Rust(call) THEN error ELSE "failed")
        PROVE  HttpInv'
    <3>1. error \in {"Http", "Connect", "ErrorBodyUnreadable", "ServiceUnavailable",
                     "UnexpectedResponseStatus"}
      BY <2>4 DEF ReadErrorBody
    <3>2. stage' = "over" /\ outcome' \in {"failed", "Http", "Connect", "ErrorBodyUnreadable",
                                           "ServiceUnavailable", "UnexpectedResponseStatus"}
      BY <2>4, <3>1 DEF End
    <3>3. ErrorIsTrue'
      BY <2>1, <3>2 DEF ErrorIsTrue, Outcome
    <3>4. QED
      BY <1>0, <2>1, <3>2, <3>3 DEF HttpInv, Outcome
  <2>5. QED
    BY <1>2, <2>2, <2>3, <2>4 DEF SendCheckedRequest
<1>3. CASE ProbeAgain
  <2>1. outcome = "none" /\ outcome' = outcome
    BY <1>3 DEF HttpInv, ProbeAgain
  <2>2. ErrorIsTrue'
    BY <2>1, NoEndIsTrue
  <2>3. QED
    BY <1>3, <2>2 DEF HttpInv, ProbeAgain
<1>4. CASE ServiceStarts
  <2>1. /\ answer # "ok" /\ answer' \in {"unavailable", "ok"}
        /\ UNCHANGED <<call, lines, terminated, arriving, buffer, yielded, stage, outcome>>
    BY <1>4 DEF ServiceStarts
  <2>2. ErrorIsTrue'
    BY <2>1 DEF HttpInv, ErrorIsTrue
  <2>3. QED
    BY <2>1, <2>2 DEF HttpInv
<1>5. CASE CancelCall
  <2>1. /\ UNCHANGED <<call, answer, lines, terminated, arriving, buffer, yielded>> /\ stage' = "over"
        /\ \/ outcome' \in {"cancelled"}
           \/ outcome' = "RequestCancelled" /\ stage = "sending"
    BY <1>5 DEF CancelCall, End
  <2>2. CASE outcome' = "cancelled"
    <3>1. ErrorIsTrue'
      BY <2>2 DEF ErrorIsTrue, Outcome
    <3>2. QED
      BY <1>0, <2>1, <2>2, <3>1 DEF HttpInv, Outcome
  <2>3. CASE outcome' = "RequestCancelled" /\ stage = "sending"
    <3>1. ErrorIsTrue'
      BY <2>1, <2>3 DEF ErrorIsTrue, HttpInv
    <3>2. QED
      BY <1>0, <2>1, <2>3, <3>1 DEF HttpInv, Outcome
  <2>4. QED
    BY <2>1, <2>2, <2>3
<1>6. CASE TakeLine
  <2>1. PICK line : /\ stage = "reading" /\ call # "rust_get"
                    /\ UNCHANGED <<call, answer, lines, terminated, arriving>>
                    /\ yielded' = yielded \o ParseLine(line)
                    /\ (stage' = "over" /\ outcome' = "failed") \/ UNCHANGED <<stage, outcome>>
    BY <1>6, Zenon DEF TakeLine, Yield, End
  <2>2. yielded' \in Seq(Yields)
    BY <1>0, <2>1, LinesYield
  <2>3. outcome = "none"
    BY <2>1 DEF HttpInv
  <2>4. ErrorIsTrue'
    BY <2>1, <2>3 DEF ErrorIsTrue, Outcome
  <2>5. QED
    BY <1>0, <2>1, <2>2, <2>3, <2>4 DEF HttpInv, Outcome
<1>7. CASE PushChunk
  <2>1. /\ stage = "reading" /\ UNCHANGED <<call, answer, yielded, stage, outcome>> /\ outcome = "none"
    BY <1>7 DEF PushChunk, HttpInv
  <2>2. ErrorIsTrue'
    BY <2>1, NoEndIsTrue
  <2>3. QED
    BY <2>1, <2>2 DEF HttpInv
<1>8. CASE TakeRemainder
  <2>1. PICK item \in Seq(Yields) :
            /\ call # "rust_get" /\ stage = "reading"
            /\ UNCHANGED <<call, answer, lines, terminated, arriving>>
            /\ yielded' = yielded \o item /\ stage' = "over" /\ outcome' \in {"failed", "complete"}
    <3>1. (IF call = "rust_sse" THEN <<>> ELSE ParseLine(buffer)) \in Seq(Yields)
      BY LinesYield
    <3>2. QED
      BY <1>8, <3>1, Zenon DEF TakeRemainder, End
  <2>2. yielded' \in Seq(Yields)
    BY <1>0, <2>1
  <2>3. call # "health"
    BY <1>8 DEF TakeRemainder, HttpInv
  <2>4. ErrorIsTrue'
    BY <2>1, <2>3 DEF ErrorIsTrue, Outcome
  <2>5. QED
    BY <1>0, <2>1, <2>2, <2>4 DEF HttpInv, Outcome
<1>9. CASE ReadJson
  <2>1. /\ call = "rust_get" /\ stage' = "over" /\ arriving = <<>>
        /\ UNCHANGED <<call, answer, lines, terminated, arriving, buffer>>
        /\ yielded' = JsonItem(buffer)
        /\ outcome' = IF JsonItem(buffer) = <<"document">> THEN "complete" ELSE "Http"
    BY <1>9, Zenon DEF ReadJson, End
  <2>2. JsonItem(buffer) \in {<<"document">>, <<"invalid">>}
    BY DEF JsonItem
  <2>3. yielded' \in Seq(Yields)
    <3>1. <<"document">> \in Seq(Yields) /\ <<"invalid">> \in Seq(Yields)
      BY DEF Yields
    <3>2. QED
      BY <2>1, <2>2, <3>1, Zenon
  <2>4. ErrorIsTrue'
    <3>1. \/ outcome' = "complete" /\ arriving' = <<>> /\ yielded' = <<"document">>
          \/ outcome' = "Http" /\ yielded' # <<"document">>
      BY <2>1, Zenon
    <3>2. QED
      BY <2>1, <3>1 DEF ErrorIsTrue, Outcome
  <2>5. QED
    BY <1>0, <2>1, <2>3, <2>4 DEF HttpInv, Outcome
<1>10. CASE TransportFails
  <2>1. /\ stage = "reading" /\ stage' = "over" /\ outcome' \in {"Http", "failed"}
        /\ UNCHANGED <<call, answer, lines, terminated, arriving, buffer>>
        /\ yielded' = IF call = "rust_get" THEN yielded ELSE Append(yielded, "transport")
    BY <1>10 DEF TransportFails, End
  <2>2. yielded' \in Seq(Yields)
    BY <1>0, <2>1 DEF Yields
  <2>3. call = "rust_get" => yielded' = <<>>
    BY <2>1 DEF HttpInv
  <2>4. call = "rust_get" => outcome' = "Http"
    BY <1>10 DEF TransportFails, End, Rust, Management
  <2>5. ErrorIsTrue'
    <3>1. <<>> # <<"document">>
      OBVIOUS
    <3>2. QED
      BY <2>1, <2>3, <2>4, <3>1 DEF ErrorIsTrue, Outcome
  <2>6. QED
    BY <1>0, <2>1, <2>2, <2>5 DEF HttpInv, Outcome
<1>11. CASE UNCHANGED httpClientVars
  BY <1>11 DEF httpClientVars, HttpInv, ErrorIsTrue
<1>12. QED
  BY <1>1, <1>2, <1>3, <1>4, <1>5, <1>6, <1>7, <1>8, <1>9, <1>10, <1>11, Zenon DEF HttpNext

\* What the invariant says of a call.
LEMMA CallIsTrue == ASSUME HttpInv PROVE HttpTypeOK /\ ErrorIsTrue
<1>1. Range(yielded) \subseteq {"document", "invalid", "transport"}
  <2>1. yielded \in Seq(Yields)
    BY Zenon DEF HttpInv
  <2>2. QED
    BY <2>1 DEF Range, Yields
<1>2. QED
  BY <1>1, Zenon DEF HttpInv, HttpTypeOK

-----------------------------------------------------------------------------
(***************************************************************************)
(* The harness: what the test has seen of its agents, and what is under    *)
(* way, is still so while nothing is lost.                                 *)
(***************************************************************************)
Seen == [Member -> Known \cup {"absent"}]
Down == {"stop", "over"}
ParamsOf == [state : {"none", "empty", "model"}, wait : BOOLEAN]
StepNames == {"pick", "spawn_balancer", "health", "put", "watch", "spawn_agent", "until_ready",
              "until_count", "test", "stop", "over"}
Results == {"none", "ok", "failed", "disappeared"}
PortStates == {"unpicked", "free", "taken", "bound"}
BalancerStates == {"none", "starting", "serving", "ending", "ended"}
DesiredStates == {"none", "empty", "model"}
AgentStates == Running \cup {"none", "ending", "ended"}
FeedStates == {"unopened", "open", "closed"}

\* The types, the snapshots' with them.
HarnessShape ==
    /\ params \in ParamsOf /\ step \in StepNames /\ result \in Results
    /\ ports \in PortStates /\ balancer \in BalancerStates /\ stored \in DesiredStates
    /\ agents \in [Member -> AgentStates] /\ spawned \in 0 .. MaxAgents
    /\ feed \in FeedStates /\ behind \in BOOLEAN
    /\ snapshots \in Seq(Seen) /\ Len(snapshots) <= 1
    /\ ready \in Seen /\ ids \in SUBSET Member /\ trouble \in 0 .. MaxTrouble

\* The desired state is the one that was put, from the step on that puts it.
StoredFollows ==
    /\ step \in {"pick", "spawn_balancer", "health", "put"} => stored = "none"
    /\ step \in {"watch", "spawn_agent", "until_ready", "until_count", "test"} => stored = params.state
    /\ step = "until_ready" => params.wait
    /\ step = "until_count" => ~params.wait
    /\ step = "put" => params.state # "none"

\* The balancer knows the agent, and the snapshot under way has it.
IsPresent(a) == agents[a] \in Known /\ (snapshots # <<>> => snapshots[1][a] # "absent")

\* The agent has its slots, and the test has seen it.
IsSettled(a) == ready[a] # "absent" /\ agents[a] = "ready"

\* What the snapshot under way says is so.
SnapshotIsTrue(a) ==
    snapshots # <<>> => /\ snapshots[1][a] # "absent" => agents[a] \in Known
                        /\ snapshots[1][a] = "ready" => agents[a] = "ready"

Calm ==
    /\ step \in {"pick", "spawn_balancer", "health", "put", "watch"} => spawned = 0
    /\ \A a \in Member : a > spawned => agents[a] = "none"
    /\ \A a \in Member : SnapshotIsTrue(a)
    /\ \A a \in Member : ready[a] # "absent" => IsPresent(a)
    /\ step = "spawn_agent" /\ params.wait => \A a \in Member : a <= spawned => IsSettled(a)
    /\ step = "until_ready" => /\ spawned \in Member
                               /\ \A a \in Member : a < spawned => IsSettled(a)
    /\ step = "test" => /\ ids = Member
                        /\ \A a \in Member : IsPresent(a)
                        /\ params.wait => \A a \in Member : agents[a] = "ready"

\* The test has its processes, and says of none that it is lost while it is not.
ProcessesAreKept ==
    /\ step \notin Down => balancer # "ending"
    /\ DisappearedWasLost
    /\ NoneIsOrphaned

SeenIsSo == step \notin Down /\ trouble = 0 => Calm

HarnessInv == HarnessShape /\ StoredFollows /\ ProcessesAreKept /\ SeenIsSo

\* The steps, but for those that return an error: the test's, the processes', the
\* feed's and what may be lost.
Failing ==
    \/ Pick \/ SpawnBalancer \/ WaitUntilHealthy \/ PutBalancerDesiredState \/ ConnectWatchers
    \/ SpawnAdditionalAgent \/ UntilAgentReady \/ WaitForSlotsReady \/ EndOfTest

HarnessGoes ==
    \/ BalancerEnds \/ BalancerBinds \/ PortIsTaken \/ BalancerDies \/ AllSpawned
    \/ SendPoolSnapshot \/ UntilAgentCount \/ ShutdownBalancer \/ ClusterIsDown
    \/ \E a \in Member : \/ AgentEnds(a) \/ AgentRegisters(a) \/ AgentLoads(a) \/ AgentIsLost(a)
                         \/ ShutdownAgent(a)
                         \/ UntilAgent(a) /\ ~FailsWith("disappeared")
    \/ Failing /\ ~Fails

\* A step keeps the types.
LEMMA HarnessShapeKept ==
    ASSUME HarnessInv, HarnessGoes
    PROVE  HarnessShape'
<1> USE ClusterHarnessAssumption
<1>0. HarnessShape
  BY Zenon DEF HarnessInv
<1>1. CASE BalancerEnds
  BY <1>1, <1>0 DEF BalancerEnds, testVars, HarnessShape, StepNames, Results, PortStates,
      BalancerStates, DesiredStates, AgentStates, FeedStates, ParamsOf, Running, Known, Seen,
      Member
<1>2. ASSUME NEW a \in Member, AgentEnds(a) PROVE HarnessShape'
  BY <1>2, <1>0 DEF AgentEnds, testVars, balancerVars, HarnessShape, StepNames, Results,
      PortStates, BalancerStates, DesiredStates, AgentStates, FeedStates, ParamsOf, Running,
      Known, Seen, Member
<1>3. CASE BalancerBinds
  BY <1>3, <1>0 DEF BalancerBinds, testVars, feedVars, HarnessShape, StepNames, Results,
      PortStates, BalancerStates, DesiredStates, AgentStates, FeedStates, ParamsOf, Running,
      Known, Seen, Member
<1>4. ASSUME NEW a \in Member, AgentRegisters(a) PROVE HarnessShape'
  BY <1>4, <1>0 DEF AgentRegisters, testVars, balancerVars, HarnessShape, StepNames, Results,
      PortStates, BalancerStates, DesiredStates, AgentStates, FeedStates, ParamsOf, Running,
      Known, Seen, Member
<1>5. ASSUME NEW a \in Member, AgentLoads(a) PROVE HarnessShape'
  BY <1>5, <1>0 DEF AgentLoads, testVars, balancerVars, HarnessShape, StepNames, Results,
      PortStates, BalancerStates, DesiredStates, AgentStates, FeedStates, ParamsOf, Running,
      Known, Seen, Member
<1>6. CASE PortIsTaken
  BY <1>6, <1>0 DEF PortIsTaken, Trouble, testVars, feedVars, HarnessShape, StepNames, Results,
      PortStates, BalancerStates, DesiredStates, AgentStates, FeedStates, ParamsOf, Running,
      Known, Seen, Member
<1>7. CASE BalancerDies
  <2>1. /\ trouble' \in 0 .. MaxTrouble /\ balancer' = "ended" /\ ports' = "free" /\ behind' = FALSE
        /\ UNCHANGED <<params, step, result, spawned, ready, ids, stored, agents, snapshots>>
    BY <1>7, <1>0 DEF BalancerDies, Trouble, testVars, HarnessShape
  <2>2. feed' \in FeedStates
    BY <1>7, <1>0 DEF BalancerDies, Trouble, testVars, HarnessShape, FeedStates
  <2>3. /\ behind' \in BOOLEAN /\ "ended" \in BalancerStates
        /\ "free" \in PortStates
    BY <2>1 DEF BalancerStates, PortStates
  <2>4. QED
    BY <1>0, <2>1, <2>2, <2>3, Zenon DEF HarnessShape
<1>8. ASSUME NEW a \in Member, AgentIsLost(a) PROVE HarnessShape'
  BY <1>8, <1>0 DEF AgentIsLost, Trouble, testVars, balancerVars, HarnessShape, StepNames,
      Results, PortStates, BalancerStates, DesiredStates, AgentStates, FeedStates, ParamsOf,
      Running, Known, Seen, Member
<1>9. CASE Pick /\ ~Fails
  BY <1>9, <1>0 DEF Pick, To, feedVars, HarnessShape, StepNames, Results, PortStates,
      BalancerStates, DesiredStates, AgentStates, FeedStates, ParamsOf, Running, Known, Seen,
      Member
<1>10. CASE SpawnBalancer /\ ~Fails
  BY <1>10, <1>0 DEF SpawnBalancer, To, feedVars, HarnessShape, StepNames, Results, PortStates,
      BalancerStates, DesiredStates, AgentStates, FeedStates, ParamsOf, Running, Known, Seen,
      Member
<1>11. CASE WaitUntilHealthy /\ ~Fails
  BY <1>11, <1>0 DEF WaitUntilHealthy, To, balancerVars, feedVars, HarnessShape, StepNames,
      Results, PortStates, BalancerStates, DesiredStates, AgentStates, FeedStates, ParamsOf,
      Running, Known, Seen, Member
<1>12. CASE PutBalancerDesiredState /\ ~Fails
  BY <1>12, <1>0 DEF PutBalancerDesiredState, Calls, To, feedVars, HarnessShape, StepNames,
      Results, PortStates, BalancerStates, DesiredStates, AgentStates, FeedStates, ParamsOf,
      Running, Known, Seen, Member
<1>13. CASE ConnectWatchers /\ ~Fails
  BY <1>13, <1>0 DEF ConnectWatchers, Calls, To, balancerVars, HarnessShape, StepNames, Results,
      PortStates, BalancerStates, DesiredStates, AgentStates, FeedStates, ParamsOf, Running,
      Known, Seen, Member
<1>14. CASE SpawnAdditionalAgent /\ ~Fails
  <2>1. /\ spawned < MaxAgents /\ spawned' = spawned + 1 /\ step' \in {"until_ready", "spawn_agent"}
        /\ agents' = [agents EXCEPT ![spawned + 1] = "starting"]
        /\ UNCHANGED <<params, result, ready, ids, ports, balancer, stored, feed, behind, snapshots,
                       trouble>>
    BY <1>14 DEF SpawnAdditionalAgent, balancerVars, feedVars
  <2>2. agents' \in [Member -> AgentStates]
    <3>1. agents \in [Member -> AgentStates]
      BY <1>0, Zenon DEF HarnessShape
    <3>2. QED
      BY <2>1, <3>1 DEF Running, AgentStates, Member
  <2>3. spawned' \in 0 .. MaxAgents
    BY <1>0, <2>1 DEF HarnessShape
  <2>4. step' \in StepNames
    BY <2>1 DEF StepNames
  <2>5. QED
    BY <1>0, <2>1, <2>2, <2>3, <2>4, Zenon DEF HarnessShape
<1>15. CASE AllSpawned
  <2>1. /\ step' \in {"test", "until_count"} /\ (result' = result \/ result' = "ok")
        /\ UNCHANGED <<params, spawned, ready, ports, balancer, stored, agents, feed, behind,
                       snapshots, trouble>>
    BY <1>15 DEF AllSpawned, StartedWith, balancerVars, feedVars
  <2>2. ids' \in SUBSET Member
    BY <1>15, <1>0 DEF AllSpawned, StartedWith, balancerVars, feedVars, HarnessShape
  <2>3. result' \in Results
    BY <1>0, <2>1 DEF HarnessShape, Results
  <2>4. step' \in StepNames
    BY <2>1 DEF StepNames
  <2>5. QED
    BY <1>0, <2>1, <2>2, <2>3, <2>4, Zenon DEF HarnessShape
<1>16. CASE SendPoolSnapshot
  <2>1. PICK f : /\ f = [a \in Member |-> IF agents[a] \in Known THEN agents[a] ELSE "absent"]
                 /\ snapshots' = <<f>> /\ behind' = FALSE
                 /\ UNCHANGED <<params, step, result, spawned, ready, ids, ports, balancer, stored,
                                agents, feed, trouble>>
    BY <1>16, Zenon DEF SendPoolSnapshot, testVars, balancerVars
  <2>2. f \in Seen
    BY <2>1 DEF Seen
  <2>3. snapshots' \in Seq(Seen) /\ Len(snapshots') <= 1
    BY <2>1, <2>2
  <2>4. behind' \in BOOLEAN
    BY <2>1
  <2>5. QED
    BY <1>0, <2>1, <2>3, <2>4, Zenon DEF HarnessShape
<1>17. CASE UntilAgentReady /\ ~Fails
  <2>1. /\ snapshots # <<>> /\ snapshots' = <<>>
        /\ ready' = ready \/ ready' = Head(snapshots)
        /\ UNCHANGED <<params, result, spawned, ids, ports, balancer, stored, agents, feed, behind,
                       trouble>>
    BY <1>17 DEF UntilAgentReady, AgentIsReady, balancerVars
  <2>2. snapshots' \in Seq(Seen) /\ Len(snapshots') <= 1 /\ Head(snapshots) \in Seen
    BY <1>0, <2>1 DEF HarnessShape
  <2>3. ready' \in Seen
    BY <1>0, <2>1, <2>2, Zenon DEF HarnessShape, Seen
  <2>4. step' \in StepNames
    BY <1>17, <1>0 DEF UntilAgentReady, AgentIsReady, balancerVars, HarnessShape, StepNames
  <2>5. QED
    BY <1>0, <2>1, <2>2, <2>3, <2>4, Zenon DEF HarnessShape
<1>18. CASE UntilAgentCount
  <2>1. /\ snapshots' = <<>> /\ (step' = step \/ step' = "test") /\ (result' = result \/ result' = "ok")
        /\ UNCHANGED <<params, spawned, ready, ports, balancer, stored, agents, feed, behind, trouble>>
    BY <1>18 DEF UntilAgentCount, AgentCount, StartedWith, balancerVars
  <2>2. ids' \in SUBSET Member
    BY <1>18, <1>0 DEF UntilAgentCount, AgentCount, StartedWith, balancerVars, HarnessShape
  <2>3. result' \in Results
    BY <1>0, <2>1 DEF HarnessShape, Results
  <2>4. step' \in StepNames
    BY <1>0, <2>1 DEF HarnessShape, StepNames
  <2>5. snapshots' \in Seq(Seen) /\ Len(snapshots') <= 1
    BY <2>1
  <2>6. QED
    BY <1>0, <2>1, <2>2, <2>3, <2>4, <2>5, Zenon DEF HarnessShape
<1>19. ASSUME NEW a \in Member, UntilAgent(a), ~FailsWith("disappeared") PROVE HarnessShape'
  <2>1. /\ snapshots' = <<>>
        /\ UNCHANGED <<params, step, result, spawned, ready, ids, ports, balancer, stored, agents, feed,
                       behind, trouble>>
    BY <1>19 DEF UntilAgent, testVars, balancerVars
  <2>2. snapshots' \in Seq(Seen) /\ Len(snapshots') <= 1
    BY <2>1
  <2>3. QED
    BY <1>0, <2>1, <2>2, Zenon DEF HarnessShape
<1>20. CASE WaitForSlotsReady /\ ~Fails
  <2>1. /\ snapshots' = <<>>
        /\ UNCHANGED <<params, step, result, spawned, ready, ids, ports, balancer, stored, agents, feed,
                       behind, trouble>>
    BY <1>20 DEF WaitForSlotsReady, testVars, balancerVars
  <2>2. snapshots' \in Seq(Seen) /\ Len(snapshots') <= 1
    BY <2>1
  <2>3. QED
    BY <1>0, <2>1, <2>2, Zenon DEF HarnessShape
<1>21. CASE EndOfTest /\ ~Fails
  <2>1. /\ step' = "stop"
        /\ UNCHANGED <<params, result, spawned, ready, ids, ports, balancer, stored, agents, feed, behind,
                       snapshots, trouble>>
    BY <1>21, Zenon DEF EndOfTest, To, balancerVars, feedVars
  <2>2. step' \in StepNames
    BY <2>1 DEF StepNames
  <2>3. QED
    BY <1>0, <2>1, <2>2, Zenon DEF HarnessShape
<1>22. ASSUME NEW a \in Member, ShutdownAgent(a) PROVE HarnessShape'
  BY <1>22, <1>0 DEF ShutdownAgent, testVars, balancerVars, feedVars, HarnessShape, StepNames,
      Results, PortStates, BalancerStates, DesiredStates, AgentStates, FeedStates, ParamsOf,
      Running, Known, Seen, Member
<1>23. CASE ShutdownBalancer
  BY <1>23, <1>0 DEF ShutdownBalancer, testVars, feedVars, HarnessShape, StepNames, Results,
      PortStates, BalancerStates, DesiredStates, AgentStates, FeedStates, ParamsOf, Running,
      Known, Seen, Member
<1>24. CASE ClusterIsDown
  BY <1>24, <1>0 DEF ClusterIsDown, To, balancerVars, feedVars, HarnessShape, StepNames, Results,
      PortStates, BalancerStates, DesiredStates, AgentStates, FeedStates, ParamsOf, Running,
      Known, Seen, Member
<1>25. QED
  BY <1>1, <1>2, <1>3, <1>4, <1>5, <1>6, <1>7, <1>8, <1>9, <1>10, <1>11, <1>12, <1>13, <1>14,
      <1>15, <1>16, <1>17, <1>18, <1>19, <1>20, <1>21, <1>22, <1>23, <1>24,
      Zenon DEF HarnessGoes, Failing

\* A step keeps the state that was put.
LEMMA StoredKept ==
    ASSUME HarnessInv, HarnessGoes
    PROVE  StoredFollows'
<1>0. HarnessShape /\ StoredFollows
  BY Zenon DEF HarnessInv
<1>1. CASE BalancerEnds
  BY <1>1, <1>0 DEF BalancerEnds, testVars, StoredFollows
<1>2. ASSUME NEW a \in Member, AgentEnds(a) PROVE StoredFollows'
  BY <1>2, <1>0 DEF AgentEnds, testVars, balancerVars, StoredFollows
<1>3. CASE BalancerBinds
  BY <1>3, <1>0 DEF BalancerBinds, testVars, feedVars, StoredFollows
<1>4. ASSUME NEW a \in Member, AgentRegisters(a) PROVE StoredFollows'
  BY <1>4, <1>0 DEF AgentRegisters, testVars, balancerVars, StoredFollows
<1>5. ASSUME NEW a \in Member, AgentLoads(a) PROVE StoredFollows'
  BY <1>5, <1>0 DEF AgentLoads, testVars, balancerVars, StoredFollows
<1>6. CASE PortIsTaken
  BY <1>6, <1>0 DEF PortIsTaken, Trouble, testVars, feedVars, StoredFollows
<1>7. CASE BalancerDies
  BY <1>7, <1>0 DEF BalancerDies, Trouble, testVars, StoredFollows
<1>8. ASSUME NEW a \in Member, AgentIsLost(a) PROVE StoredFollows'
  BY <1>8, <1>0 DEF AgentIsLost, Trouble, testVars, balancerVars, StoredFollows
<1>9. CASE Pick /\ ~Fails
  BY <1>9, <1>0 DEF Pick, To, feedVars, StoredFollows
<1>10. CASE SpawnBalancer /\ ~Fails
  BY <1>10, <1>0 DEF SpawnBalancer, To, feedVars, StoredFollows
<1>11. CASE WaitUntilHealthy /\ ~Fails
  BY <1>11, <1>0 DEF WaitUntilHealthy, To, balancerVars, feedVars, StoredFollows
<1>12. CASE PutBalancerDesiredState /\ ~Fails
  BY <1>12, <1>0 DEF PutBalancerDesiredState, Calls, To, feedVars, StoredFollows
<1>13. CASE ConnectWatchers /\ ~Fails
  BY <1>13, <1>0 DEF ConnectWatchers, Calls, To, balancerVars, StoredFollows
<1>14. CASE SpawnAdditionalAgent /\ ~Fails
  BY <1>14, <1>0 DEF SpawnAdditionalAgent, balancerVars, feedVars, StoredFollows
<1>15. CASE AllSpawned
  BY <1>15, <1>0 DEF AllSpawned, StartedWith, balancerVars, feedVars, StoredFollows
<1>16. CASE SendPoolSnapshot
  BY <1>16, <1>0 DEF SendPoolSnapshot, testVars, balancerVars, StoredFollows
<1>17. CASE UntilAgentReady /\ ~Fails
  BY <1>17, <1>0 DEF UntilAgentReady, AgentIsReady, balancerVars, StoredFollows
<1>18. CASE UntilAgentCount
  BY <1>18, <1>0 DEF UntilAgentCount, AgentCount, StartedWith, balancerVars, StoredFollows
<1>19. ASSUME NEW a \in Member, UntilAgent(a), ~FailsWith("disappeared") PROVE StoredFollows'
  BY <1>19, <1>0 DEF UntilAgent, testVars, balancerVars, StoredFollows
<1>20. CASE WaitForSlotsReady /\ ~Fails
  BY <1>20, <1>0 DEF WaitForSlotsReady, testVars, balancerVars, StoredFollows
<1>21. CASE EndOfTest /\ ~Fails
  BY <1>21, <1>0 DEF EndOfTest, To, balancerVars, feedVars, StoredFollows
<1>22. ASSUME NEW a \in Member, ShutdownAgent(a) PROVE StoredFollows'
  BY <1>22, <1>0 DEF ShutdownAgent, testVars, balancerVars, feedVars, StoredFollows
<1>23. CASE ShutdownBalancer
  BY <1>23, <1>0 DEF ShutdownBalancer, testVars, feedVars, StoredFollows
<1>24. CASE ClusterIsDown
  BY <1>24, <1>0 DEF ClusterIsDown, To, balancerVars, feedVars, StoredFollows
<1>25. QED
  BY <1>1, <1>2, <1>3, <1>4, <1>5, <1>6, <1>7, <1>8, <1>9, <1>10, <1>11, <1>12, <1>13, <1>14,
      <1>15, <1>16, <1>17, <1>18, <1>19, <1>20, <1>21, <1>22, <1>23, <1>24,
      Zenon DEF HarnessGoes, Failing

\* A step leaves no process behind, and says of none that it is lost.
LEMMA EndsKept ==
    ASSUME HarnessInv, HarnessGoes
    PROVE  ProcessesAreKept'
<1>0. HarnessShape /\ ProcessesAreKept
  BY Zenon DEF HarnessInv
<1>1. CASE BalancerEnds
  BY <1>1, <1>0 DEF BalancerEnds, testVars, ProcessesAreKept, DisappearedWasLost, NoneIsOrphaned,
      Down, Running, Known, HarnessShape
<1>2. ASSUME NEW a \in Member, AgentEnds(a) PROVE ProcessesAreKept'
  BY <1>2, <1>0 DEF AgentEnds, testVars, balancerVars, ProcessesAreKept, DisappearedWasLost,
      NoneIsOrphaned, Down, Running, Known, HarnessShape
<1>3. CASE BalancerBinds
  BY <1>3, <1>0 DEF BalancerBinds, testVars, feedVars, ProcessesAreKept, DisappearedWasLost,
      NoneIsOrphaned, Down, Running, Known, HarnessShape
<1>4. ASSUME NEW a \in Member, AgentRegisters(a) PROVE ProcessesAreKept'
  BY <1>4, <1>0 DEF AgentRegisters, testVars, balancerVars, ProcessesAreKept, DisappearedWasLost,
      NoneIsOrphaned, Down, Running, Known, HarnessShape
<1>5. ASSUME NEW a \in Member, AgentLoads(a) PROVE ProcessesAreKept'
  BY <1>5, <1>0 DEF AgentLoads, testVars, balancerVars, ProcessesAreKept, DisappearedWasLost,
      NoneIsOrphaned, Down, Running, Known, HarnessShape
<1>6. CASE PortIsTaken
  BY <1>6, <1>0 DEF PortIsTaken, Trouble, testVars, feedVars, ProcessesAreKept,
      DisappearedWasLost, NoneIsOrphaned, Down, Running, Known, HarnessShape
<1>7. CASE BalancerDies
  BY <1>7, <1>0 DEF BalancerDies, Trouble, testVars, ProcessesAreKept, DisappearedWasLost,
      NoneIsOrphaned, Down, Running, Known, HarnessShape
<1>8. ASSUME NEW a \in Member, AgentIsLost(a) PROVE ProcessesAreKept'
  <2>1. /\ agents[a] \in Running /\ trouble' = trouble + 1
        /\ UNCHANGED <<step, result, balancer>>
    BY <1>8, Zenon DEF AgentIsLost, Trouble, testVars, balancerVars
  <2>2. agents[a] \notin {"none", "ending", "ended"}
    BY <2>1 DEF Running, Known
  <2>3. step # "over" /\ ~(step = "stop" /\ balancer = "ending")
    BY <1>0, <2>2 DEF ProcessesAreKept, NoneIsOrphaned
  <2>4. DisappearedWasLost'
    BY <1>0, <2>1 DEF HarnessShape, ProcessesAreKept, DisappearedWasLost
  <2>5. QED
    BY <1>0, <2>1, <2>3, <2>4, Zenon DEF ProcessesAreKept, NoneIsOrphaned
<1>9. CASE Pick /\ ~Fails
  BY <1>9, <1>0 DEF Pick, To, feedVars, ProcessesAreKept, DisappearedWasLost, NoneIsOrphaned,
      Down, Running, Known, HarnessShape
<1>10. CASE SpawnBalancer /\ ~Fails
  BY <1>10, <1>0 DEF SpawnBalancer, To, feedVars, ProcessesAreKept, DisappearedWasLost,
      NoneIsOrphaned, Down, Running, Known, HarnessShape
<1>11. CASE WaitUntilHealthy /\ ~Fails
  BY <1>11, <1>0 DEF WaitUntilHealthy, To, balancerVars, feedVars, ProcessesAreKept,
      DisappearedWasLost, NoneIsOrphaned, Down, Running, Known, HarnessShape
<1>12. CASE PutBalancerDesiredState /\ ~Fails
  BY <1>12, <1>0 DEF PutBalancerDesiredState, Calls, To, feedVars, ProcessesAreKept,
      DisappearedWasLost, NoneIsOrphaned, Down, Running, Known, HarnessShape
<1>13. CASE ConnectWatchers /\ ~Fails
  BY <1>13, <1>0 DEF ConnectWatchers, Calls, To, balancerVars, ProcessesAreKept,
      DisappearedWasLost, NoneIsOrphaned, Down, Running, Known, HarnessShape
<1>14. CASE SpawnAdditionalAgent /\ ~Fails
  BY <1>14, <1>0 DEF SpawnAdditionalAgent, balancerVars, feedVars, ProcessesAreKept,
      DisappearedWasLost, NoneIsOrphaned, Down, Running, Known, HarnessShape
<1>15. CASE AllSpawned
  BY <1>15, <1>0 DEF AllSpawned, StartedWith, balancerVars, feedVars, ProcessesAreKept,
      DisappearedWasLost, NoneIsOrphaned, Down, Running, Known, HarnessShape
<1>16. CASE SendPoolSnapshot
  BY <1>16, <1>0 DEF SendPoolSnapshot, testVars, balancerVars, ProcessesAreKept,
      DisappearedWasLost, NoneIsOrphaned, Down, Running, Known, HarnessShape
<1>17. CASE UntilAgentReady /\ ~Fails
  BY <1>17, <1>0 DEF UntilAgentReady, AgentIsReady, balancerVars, ProcessesAreKept,
      DisappearedWasLost, NoneIsOrphaned, Down, Running, Known, HarnessShape
<1>18. CASE UntilAgentCount
  BY <1>18, <1>0 DEF UntilAgentCount, AgentCount, StartedWith, balancerVars, ProcessesAreKept,
      DisappearedWasLost, NoneIsOrphaned, Down, Running, Known, HarnessShape
<1>19. ASSUME NEW a \in Member, UntilAgent(a), ~FailsWith("disappeared") PROVE ProcessesAreKept'
  BY <1>19, <1>0 DEF UntilAgent, testVars, balancerVars, ProcessesAreKept, DisappearedWasLost,
      NoneIsOrphaned, Down, Running, Known, HarnessShape
<1>20. CASE WaitForSlotsReady /\ ~Fails
  BY <1>20, <1>0 DEF WaitForSlotsReady, testVars, balancerVars, ProcessesAreKept,
      DisappearedWasLost, NoneIsOrphaned, Down, Running, Known, HarnessShape
<1>21. CASE EndOfTest /\ ~Fails
  BY <1>21, <1>0 DEF EndOfTest, To, balancerVars, feedVars, ProcessesAreKept, DisappearedWasLost,
      NoneIsOrphaned, Down, Running, Known, HarnessShape
<1>22. ASSUME NEW a \in Member, ShutdownAgent(a) PROVE ProcessesAreKept'
  BY <1>22, <1>0 DEF ShutdownAgent, testVars, balancerVars, feedVars, ProcessesAreKept,
      DisappearedWasLost, NoneIsOrphaned, Down, Running, Known, HarnessShape
<1>23. CASE ShutdownBalancer
  BY <1>23, <1>0 DEF ShutdownBalancer, testVars, feedVars, ProcessesAreKept, DisappearedWasLost,
      NoneIsOrphaned, Down, Running, Known, HarnessShape
<1>24. CASE ClusterIsDown
  BY <1>24, <1>0 DEF ClusterIsDown, To, balancerVars, feedVars, ProcessesAreKept,
      DisappearedWasLost, NoneIsOrphaned, Down, Running, Known, HarnessShape
<1>25. QED
  BY <1>1, <1>2, <1>3, <1>4, <1>5, <1>6, <1>7, <1>8, <1>9, <1>10, <1>11, <1>12, <1>13, <1>14,
      <1>15, <1>16, <1>17, <1>18, <1>19, <1>20, <1>21, <1>22, <1>23, <1>24,
      Zenon DEF HarnessGoes, Failing

\* What the test has seen stays so.
LEMMA SeenKept ==
    ASSUME HarnessInv, HarnessGoes
    PROVE  SeenIsSo'
<1>0. HarnessShape /\ StoredFollows /\ SeenIsSo /\ HarnessShape'
  BY HarnessShapeKept, Zenon DEF HarnessInv
<1>1. CASE BalancerEnds
  BY <1>1, <1>0 DEF BalancerEnds, testVars, SeenIsSo, Calm, SnapshotIsTrue, IsPresent, IsSettled,
      StoredFollows, HarnessShape, Down, Running, Known, Seen, Member
<1>2. ASSUME NEW a \in Member, AgentEnds(a) PROVE SeenIsSo'
  BY <1>2, <1>0 DEF AgentEnds, testVars, balancerVars, SeenIsSo, Calm, SnapshotIsTrue, IsPresent,
      IsSettled, StoredFollows, HarnessShape, Down, Running, Known, Seen, Member
<1>3. CASE BalancerBinds
  BY <1>3, <1>0 DEF BalancerBinds, testVars, feedVars, SeenIsSo, Calm, SnapshotIsTrue, IsPresent,
      IsSettled, StoredFollows, HarnessShape, Down, Running, Known, Seen, Member
<1>4. ASSUME NEW a \in Member, AgentRegisters(a) PROVE SeenIsSo'
  BY <1>4, <1>0 DEF AgentRegisters, testVars, balancerVars, SeenIsSo, Calm, SnapshotIsTrue,
      IsPresent, IsSettled, StoredFollows, HarnessShape, Down, Running, Known, Seen, Member
<1>5. ASSUME NEW a \in Member, AgentLoads(a) PROVE SeenIsSo'
  BY <1>5, <1>0 DEF AgentLoads, testVars, balancerVars, SeenIsSo, Calm, SnapshotIsTrue,
      IsPresent, IsSettled, StoredFollows, HarnessShape, Down, Running, Known, Seen, Member
<1>6. CASE PortIsTaken
  BY <1>6, <1>0 DEF PortIsTaken, Trouble, testVars, feedVars, SeenIsSo, Calm, SnapshotIsTrue,
      IsPresent, IsSettled, StoredFollows, HarnessShape, Down, Running, Known, Seen, Member
<1>7. CASE BalancerDies
  BY <1>7, <1>0 DEF BalancerDies, Trouble, testVars, SeenIsSo, Calm, SnapshotIsTrue, IsPresent,
      IsSettled, StoredFollows, HarnessShape, Down, Running, Known, Seen, Member
<1>8. ASSUME NEW a \in Member, AgentIsLost(a) PROVE SeenIsSo'
  BY <1>8, <1>0 DEF AgentIsLost, Trouble, testVars, balancerVars, SeenIsSo, Calm, SnapshotIsTrue,
      IsPresent, IsSettled, StoredFollows, HarnessShape, Down, Running, Known, Seen, Member
<1>9. CASE Pick /\ ~Fails
  BY <1>9, <1>0 DEF Pick, To, feedVars, SeenIsSo, Calm, SnapshotIsTrue, IsPresent, IsSettled,
      StoredFollows, HarnessShape, Down, Running, Known, Seen, Member
<1>10. CASE SpawnBalancer /\ ~Fails
  BY <1>10, <1>0 DEF SpawnBalancer, To, feedVars, SeenIsSo, Calm, SnapshotIsTrue, IsPresent,
      IsSettled, StoredFollows, HarnessShape, Down, Running, Known, Seen, Member
<1>11. CASE WaitUntilHealthy /\ ~Fails
  BY <1>11, <1>0 DEF WaitUntilHealthy, To, balancerVars, feedVars, SeenIsSo, Calm,
      SnapshotIsTrue, IsPresent, IsSettled, StoredFollows, HarnessShape, Down, Running, Known,
      Seen, Member
<1>12. CASE PutBalancerDesiredState /\ ~Fails
  BY <1>12, <1>0 DEF PutBalancerDesiredState, Calls, To, feedVars, SeenIsSo, Calm,
      SnapshotIsTrue, IsPresent, IsSettled, StoredFollows, HarnessShape, Down, Running, Known,
      Seen, Member
<1>13. CASE ConnectWatchers /\ ~Fails
  BY <1>13, <1>0 DEF ConnectWatchers, Calls, To, balancerVars, SeenIsSo, Calm, SnapshotIsTrue,
      IsPresent, IsSettled, StoredFollows, HarnessShape, Down, Running, Known, Seen, Member
<1>14. CASE SpawnAdditionalAgent /\ ~Fails
  BY <1>14, <1>0 DEF SpawnAdditionalAgent, balancerVars, feedVars, SeenIsSo, Calm,
      SnapshotIsTrue, IsPresent, IsSettled, StoredFollows, HarnessShape, Down, Running, Known,
      Seen, Member
<1>15. CASE AllSpawned
  <2>1. /\ step = "spawn_agent" /\ spawned = MaxAgents
        /\ UNCHANGED <<params, spawned, ready, agents, snapshots, trouble>>
        /\ \/ params.wait /\ step' = "test" /\ ids' = {a \in Member : ready[a] # "absent"}
           \/ ~params.wait /\ step' = "until_count"
    BY <1>15, Zenon DEF AllSpawned, StartedWith, balancerVars, feedVars
  <2>2. SUFFICES ASSUME trouble' = 0 PROVE Calm'
    BY DEF SeenIsSo
  <2>3. Calm
    BY <1>0, <2>1, <2>2 DEF SeenIsSo, Down
  <2>4. /\ \A a \in Member : a > spawned => agents[a] = "none"
        /\ \A a \in Member : SnapshotIsTrue(a)
        /\ \A a \in Member : ready[a] # "absent" => IsPresent(a)
    BY <2>3, Zenon DEF Calm
  <2>5. CASE ~params.wait /\ step' = "until_count"
    BY <2>1, <2>4, <2>5 DEF Calm, SnapshotIsTrue, IsPresent
  <2>6. CASE params.wait /\ step' = "test" /\ ids' = {a \in Member : ready[a] # "absent"}
    <3>1. \A a \in Member : a <= spawned
      BY <2>1 DEF Member
    <3>2. \A a \in Member : IsSettled(a)
      BY <2>1, <2>3, <2>6, <3>1, Zenon DEF Calm
    <3>3. ids' = Member
      BY <2>6, <3>2 DEF IsSettled
    <3>4. \A a \in Member : IsPresent(a) /\ agents[a] = "ready"
      BY <2>4, <3>2, Zenon DEF IsSettled
    <3>5. QED
      BY <2>1, <2>4, <2>6, <3>3, <3>4 DEF Calm, SnapshotIsTrue, IsPresent
  <2>7. QED
    BY <2>1, <2>5, <2>6, Zenon
<1>16. CASE SendPoolSnapshot
  BY <1>16, <1>0 DEF SendPoolSnapshot, testVars, balancerVars, SeenIsSo, Calm, SnapshotIsTrue,
      IsPresent, IsSettled, StoredFollows, HarnessShape, Down, Running, Known, Seen, Member
<1>17. CASE UntilAgentReady /\ ~Fails
  <2>1. /\ step = "until_ready" /\ snapshots' = <<>> /\ snapshots # <<>>
        /\ UNCHANGED <<params, spawned, ids, agents, trouble>>
        /\ \/ /\ ready' = Head(snapshots) /\ step' = "spawn_agent" /\ Head(snapshots)[spawned] = "ready"
           \/ UNCHANGED <<ready, step>>
    BY <1>17 DEF UntilAgentReady, AgentIsReady, balancerVars
  <2>2. SUFFICES ASSUME trouble' = 0 PROVE Calm'
    BY DEF SeenIsSo
  <2>3. Calm /\ Head(snapshots) = snapshots[1]
    BY <1>0, <2>1, <2>2 DEF SeenIsSo, Down, HarnessShape
  <2>4. /\ \A a \in Member : a > spawned => agents[a] = "none"
        /\ \A a \in Member : SnapshotIsTrue(a)
        /\ \A a \in Member : ready[a] # "absent" => IsPresent(a)
        /\ spawned \in Member /\ \A a \in Member : a < spawned => IsSettled(a)
    BY <2>1, <2>3, Zenon DEF Calm
  <2>5. CASE UNCHANGED <<ready, step>>
    BY <2>1, <2>4, <2>5 DEF Calm, SnapshotIsTrue, IsPresent, IsSettled
  <2>6. CASE ready' = snapshots[1] /\ step' = "spawn_agent" /\ snapshots[1][spawned] = "ready"
    <3>1. ASSUME NEW a \in Member, a <= spawned PROVE snapshots[1][a] # "absent" /\ agents[a] = "ready"
      <4>1. a < spawned \/ a = spawned
        BY <2>4, <3>1 DEF Member
      <4>2. CASE a < spawned
        BY <2>1, <2>4, <4>2, Zenon DEF IsSettled, IsPresent
      <4>3. CASE a = spawned
        BY <2>1, <2>4, <2>6, <4>3 DEF SnapshotIsTrue
      <4>4. QED
        BY <4>1, <4>2, <4>3
    <3>2. \A a \in Member : snapshots[1][a] # "absent" => agents[a] \in Known
      BY <2>1, <2>4, Zenon DEF SnapshotIsTrue
    <3>3. QED
      BY <2>1, <2>4, <2>6, <3>1, <3>2 DEF Calm, SnapshotIsTrue, IsPresent, IsSettled
  <2>7. QED
    BY <2>1, <2>3, <2>5, <2>6, Zenon
<1>18. CASE UntilAgentCount
  <2>1. /\ step = "until_count" /\ snapshots' = <<>> /\ snapshots # <<>>
        /\ UNCHANGED <<params, spawned, ready, agents, trouble>>
        /\ \/ /\ step' = "test" /\ ids' = {a \in Member : Head(snapshots)[a] # "absent"}
              /\ \A a \in Member : Head(snapshots)[a] # "absent"
           \/ UNCHANGED <<step, ids>>
    BY <1>18, Zenon DEF UntilAgentCount, AgentCount, StartedWith, balancerVars
  <2>2. SUFFICES ASSUME trouble' = 0 PROVE Calm'
    BY DEF SeenIsSo
  <2>3. Calm /\ Head(snapshots) = snapshots[1] /\ ~params.wait
    BY <1>0, <2>1, <2>2 DEF SeenIsSo, Down, HarnessShape, StoredFollows
  <2>4. /\ \A a \in Member : a > spawned => agents[a] = "none"
        /\ \A a \in Member : SnapshotIsTrue(a)
        /\ \A a \in Member : ready[a] # "absent" => IsPresent(a)
    BY <2>1, <2>3, Zenon DEF Calm
  <2>5. CASE UNCHANGED <<step, ids>>
    BY <2>1, <2>4, <2>5 DEF Calm, SnapshotIsTrue, IsPresent
  <2>6. CASE /\ step' = "test" /\ ids' = {a \in Member : snapshots[1][a] # "absent"}
             /\ \A a \in Member : snapshots[1][a] # "absent"
    <3>1. ids' = Member
      BY <2>6
    <3>2. \A a \in Member : agents[a] \in Known
      BY <2>1, <2>4, <2>6, Zenon DEF SnapshotIsTrue
    <3>3. QED
      BY <2>1, <2>3, <2>4, <2>6, <3>1, <3>2 DEF Calm, SnapshotIsTrue, IsPresent
  <2>7. QED
    BY <2>1, <2>3, <2>5, <2>6, Zenon
<1>19. ASSUME NEW a \in Member, UntilAgent(a), ~FailsWith("disappeared") PROVE SeenIsSo'
  BY <1>19, <1>0 DEF UntilAgent, testVars, balancerVars, SeenIsSo, Calm, SnapshotIsTrue,
      IsPresent, IsSettled, StoredFollows, HarnessShape, Down, Running, Known, Seen, Member
<1>20. CASE WaitForSlotsReady /\ ~Fails
  BY <1>20, <1>0 DEF WaitForSlotsReady, testVars, balancerVars, SeenIsSo, Calm, SnapshotIsTrue,
      IsPresent, IsSettled, StoredFollows, HarnessShape, Down, Running, Known, Seen, Member
<1>21. CASE EndOfTest /\ ~Fails
  BY <1>21, <1>0 DEF EndOfTest, To, balancerVars, feedVars, SeenIsSo, Calm, SnapshotIsTrue,
      IsPresent, IsSettled, StoredFollows, HarnessShape, Down, Running, Known, Seen, Member
<1>22. ASSUME NEW a \in Member, ShutdownAgent(a) PROVE SeenIsSo'
  BY <1>22, <1>0 DEF ShutdownAgent, testVars, balancerVars, feedVars, SeenIsSo, Calm,
      SnapshotIsTrue, IsPresent, IsSettled, StoredFollows, HarnessShape, Down, Running, Known,
      Seen, Member
<1>23. CASE ShutdownBalancer
  BY <1>23, <1>0 DEF ShutdownBalancer, testVars, feedVars, SeenIsSo, Calm, SnapshotIsTrue,
      IsPresent, IsSettled, StoredFollows, HarnessShape, Down, Running, Known, Seen, Member
<1>24. CASE ClusterIsDown
  BY <1>24, <1>0 DEF ClusterIsDown, To, balancerVars, feedVars, SeenIsSo, Calm, SnapshotIsTrue,
      IsPresent, IsSettled, StoredFollows, HarnessShape, Down, Running, Known, Seen, Member
<1>25. QED
  BY <1>1, <1>2, <1>3, <1>4, <1>5, <1>6, <1>7, <1>8, <1>9, <1>10, <1>11, <1>12, <1>13, <1>14,
      <1>15, <1>16, <1>17, <1>18, <1>19, <1>20, <1>21, <1>22, <1>23, <1>24,
      Zenon DEF HarnessGoes, Failing

\* A step that fails drops what was started.
LEMMA FailureKeeps ==
    ASSUME HarnessInv, step \notin Down, NEW error \in {"failed", "disappeared"}, FailsWith(error),
           error = "disappeared" => trouble > 0
    PROVE  HarnessInv'
<1>0. HarnessShape /\ StoredFollows /\ ProcessesAreKept
  BY Zenon DEF HarnessInv
<1>1. /\ step' = "over" /\ result' = error /\ balancer' = TerminateChild(balancer)
      /\ agents' = [a \in Member |-> TerminateChild(agents[a])]
      /\ UNCHANGED <<params, ports, stored, spawned, feed, behind, snapshots, ready, ids, trouble>>
  BY Zenon DEF FailsWith, DropProcesses, feedVars
<1>2. TerminateChild(balancer) \in {"none", "ending", "ended"}
  BY DEF TerminateChild
<1>3. \A a \in Member : TerminateChild(agents[a]) \in {"none", "ending", "ended"}
  BY DEF TerminateChild
<1>4. HarnessShape'
  <2>1. balancer' \in BalancerStates
    BY <1>1, <1>2 DEF BalancerStates
  <2>2. agents' \in [Member -> AgentStates]
    BY <1>1, <1>3 DEF AgentStates
  <2>3. step' \in StepNames /\ result' \in Results
    BY <1>1 DEF StepNames, Results
  <2>4. QED
    BY <1>0, <1>1, <2>1, <2>2, <2>3, Zenon DEF HarnessShape
<1>5. StoredFollows'
  BY <1>1 DEF StoredFollows
<1>6. ProcessesAreKept'
  <2>1. DisappearedWasLost'
    BY <1>1 DEF DisappearedWasLost
  <2>2. NoneIsOrphaned'
    BY <1>1, <1>2, <1>3 DEF NoneIsOrphaned
  <2>3. QED
    BY <1>1, <2>1, <2>2 DEF ProcessesAreKept, Down
<1>7. SeenIsSo'
  BY <1>1 DEF SeenIsSo, Down
<1>8. QED
  BY <1>4, <1>5, <1>6, <1>7, Zenon DEF HarnessInv

\* A step of the harness goes on, or returns an error that is so.
LEMMA HarnessGoesOrFails ==
    ASSUME HarnessInv, HarnessNext
    PROVE  \/ HarnessGoes
           \/ step \notin Down /\ Fails
           \/ step \notin Down /\ FailsWith("disappeared") /\ trouble > 0
<1>0. HarnessShape /\ SeenIsSo
  BY Zenon DEF HarnessInv
<1>1. ASSUME Failing \/ UntilFails, Fails PROVE step \notin Down
  <2>1. step \in {"pick", "spawn_balancer", "health", "put", "watch", "spawn_agent", "until_ready", "until_count", "test"}
    BY <1>1 DEF Failing, UntilFails, Pick, SpawnBalancer, WaitUntilHealthy, PutBalancerDesiredState, ConnectWatchers,
         SpawnAdditionalAgent, UntilAgentReady, WaitForSlotsReady, EndOfTest
  <2>2. QED
    BY <2>1 DEF Down
<1>2. UntilFails => Fails
  BY DEF UntilFails
<1>3. ASSUME NEW a \in Member, UntilAgent(a), FailsWith("disappeared")
      PROVE  HarnessGoes \/ (step \notin Down /\ trouble > 0)
  <2>1. step = "test" /\ snapshots # <<>> /\ a \in ids
    BY <1>3, Zenon DEF UntilAgent
  <2>2. CASE Head(snapshots)[a] = "absent"
    <3>1. step \notin Down
      BY <2>1 DEF Down
    <3>2. Head(snapshots) = snapshots[1] /\ trouble \in Nat
      BY <1>0, <2>1 DEF HarnessShape
    <3>3. trouble # 0
      BY <1>0, <2>1, <2>2, <3>1, <3>2, Zenon DEF SeenIsSo, Calm, IsPresent
    <3>4. QED
      BY <3>1, <3>2, <3>3
  <2>3. CASE Head(snapshots)[a] # "absent"
    <3>1. step' = step /\ step' = "over"
      BY <1>3, <2>3, Zenon DEF UntilAgent, FailsWith, testVars
    <3>2. QED
      BY <2>1, <3>1
  <2>4. QED
    BY <2>2, <2>3, Zenon
<1>4. QED
  BY <1>1, <1>2, <1>3, Zenon DEF HarnessNext, HarnessStep, ProcessStep, HarnessGoes, Failing

\* A step of the harness keeps the invariant.
LEMMA HarnessStays ==
    ASSUME HarnessInv, [HarnessNext]_harnessVars
    PROVE  HarnessInv'
<1>1. CASE HarnessGoes
  BY <1>1, HarnessShapeKept, StoredKept, EndsKept, SeenKept, Zenon DEF HarnessInv
<1>2. CASE step \notin Down /\ Fails
  <2>1. "failed" \in {"failed", "disappeared"} /\ "failed" # "disappeared"
    OBVIOUS
  <2>2. QED
    BY <1>2, <2>1, FailureKeeps, Zenon DEF Fails
<1>3. CASE step \notin Down /\ FailsWith("disappeared") /\ trouble > 0
  <2>1. "disappeared" \in {"failed", "disappeared"}
    OBVIOUS
  <2>2. QED
    BY <1>3, <2>1, FailureKeeps, Zenon
<1>4. CASE UNCHANGED harnessVars
  <2>1. UNCHANGED <<params, step, result, ports, balancer, stored, agents, spawned, feed, behind, snapshots,
                    ready, ids, trouble>>
    BY <1>4, Zenon DEF harnessVars
  <2>2. HarnessShape' /\ StoredFollows'
    BY <2>1, Zenon DEF HarnessInv, HarnessShape, StoredFollows
  <2>3. ProcessesAreKept'
    BY <2>1, Zenon DEF HarnessInv, ProcessesAreKept, DisappearedWasLost, NoneIsOrphaned
  <2>4. SeenIsSo'
    BY <2>1, Zenon DEF HarnessInv, SeenIsSo, Calm, SnapshotIsTrue, IsPresent, IsSettled
  <2>5. QED
    BY <2>2, <2>3, <2>4, Zenon DEF HarnessInv
<1>5. QED
  BY <1>1, <1>2, <1>3, <1>4, HarnessGoesOrFails, Zenon

\* What the harness starts with.
LEMMA HarnessStarts == ASSUME HarnessInit PROVE HarnessInv
<1>1. /\ step = "pick" /\ result = "none" /\ ports = "unpicked" /\ balancer = "none" /\ stored = "none"
      /\ agents = [a \in Member |-> "none"] /\ spawned = 0 /\ feed = "unopened" /\ behind = FALSE
      /\ snapshots = <<>> /\ ready = [a \in Member |-> "absent"] /\ ids = {} /\ trouble = 0
      /\ params \in ParamsOf
  BY DEF HarnessInit, NoSnapshot, ParamsOf
<1>2. HarnessShape
  <2>1. /\ step \in StepNames /\ result \in Results /\ ports \in PortStates
        /\ balancer \in BalancerStates /\ stored \in DesiredStates /\ feed \in FeedStates
    BY <1>1 DEF StepNames, Results, PortStates, BalancerStates, DesiredStates, FeedStates
  <2>2. agents \in [Member -> AgentStates] /\ ready \in Seen
    BY <1>1 DEF AgentStates, Seen
  <2>3. /\ spawned \in 0 .. MaxAgents /\ behind \in BOOLEAN /\ ids \in SUBSET Member
        /\ trouble \in 0 .. MaxTrouble
    <3>1. 0 \in 0 .. MaxAgents /\ 0 \in 0 .. MaxTrouble
      BY ClusterHarnessAssumption
    <3>2. {} \in SUBSET Member /\ FALSE \in BOOLEAN
      OBVIOUS
    <3>3. QED
      BY <1>1, <3>1, <3>2, Zenon
  <2>4. snapshots \in Seq(Seen) /\ Len(snapshots) <= 1
    BY <1>1
  <2>5. QED
    BY <1>1, <2>1, <2>2, <2>3, <2>4, Zenon DEF HarnessShape
<1>3. StoredFollows
  BY <1>1 DEF StoredFollows
<1>4. ProcessesAreKept
  BY <1>1 DEF ProcessesAreKept, DisappearedWasLost, NoneIsOrphaned, Down
<1>5. SeenIsSo
  BY <1>1 DEF SeenIsSo, Calm, SnapshotIsTrue, IsPresent, IsSettled, Member
<1>6. QED
  BY <1>2, <1>3, <1>4, <1>5, Zenon DEF HarnessInv

\* What the invariant says of the cluster.
LEMMA ClusterIsTrue ==
    ASSUME HarnessInv
    PROVE  HarnessTypeOK /\ ClusterIsReady /\ DisappearedWasLost /\ NoneIsOrphaned
<1>1. HarnessTypeOK
  BY DEF HarnessInv, HarnessShape, HarnessTypeOK, ParamsOf, StepNames, Results, PortStates,
      BalancerStates,
      DesiredStates, AgentStates, FeedStates, Seen
<1>2. ClusterIsReady
  <2>1. SUFFICES ASSUME step = "test", trouble = 0
                 PROVE  /\ ids = Member /\ stored = params.state
                        /\ params.wait => \A a \in Member : agents[a] = "ready"
    BY Zenon DEF ClusterIsReady
  <2>2. step \notin Down
    BY <2>1 DEF Down
  <2>3. Calm
    BY <2>1, <2>2, Zenon DEF HarnessInv, SeenIsSo
  <2>4. stored = params.state
    BY <2>1 DEF HarnessInv, StoredFollows
  <2>5. QED
    BY <2>1, <2>3, <2>4, Zenon DEF Calm
<1>3. QED
  BY <1>1, <1>2, Zenon DEF HarnessInv, ProcessesAreKept

-----------------------------------------------------------------------------
(***************************************************************************)
(* The clients and the harness together.                                   *)
(***************************************************************************)
ClientInv == SocketInv /\ HttpInv /\ HarnessInv

\* What the sockets, the calls and the test's cluster show holds in every behaviour:
\* the inductive invariant of the client libraries and the harness
\* (inference_socket/pool.rs, connection.rs, line_buffer.rs, start_subprocess_cluster).
THEOREM ClientsAreSound == Spec => []ClientInv
<1>1. Init => ClientInv
  <2>1. Init => SocketInit /\ (HttpInit \/ HttpUnused) /\ HarnessInit
    BY Zenon DEF Init
  <2>2. QED
    BY <2>1, SocketStarts, CallStarts, HarnessStarts, Zenon DEF ClientInv
<1>2. ClientInv /\ [Next]_<<transport, socketClientVars, httpClientVars, harnessVars>> => ClientInv'
  <2>1. SUFFICES ASSUME ClientInv, [Next]_<<transport, socketClientVars, httpClientVars, harnessVars>>
                 PROVE  ClientInv'
    BY Zenon
  <2>2. /\ [SocketNext]_socketClientVars /\ [HttpNext]_httpClientVars /\ [HarnessNext]_harnessVars
    <3>1. CASE Next
      BY <3>1, Zenon DEF Next
    <3>2. CASE UNCHANGED <<transport, socketClientVars, httpClientVars, harnessVars>>
      BY <3>2, Zenon
    <3>3. QED
      BY <2>1, <3>1, <3>2, Zenon
  <2>3. QED
    BY <2>1, <2>2, SocketsStay, CallStays, HarnessStays, Zenon DEF ClientInv
<1>3. QED
  BY <1>1, <1>2, PTL DEF Spec

\* Whatever is lost, cut or cancelled, what a client reads is what the balancer sent
\* it, in order, once, and ended with a reason; what it says of a call that failed is
\* so; and a test is given the cluster it asked for (AnswerIsFaithful).
THEOREM AnswersAreAlwaysFaithful == Spec => []AnswerIsFaithful
<1>1. ClientInv => AnswerIsFaithful
  BY SocketsAreFaithful, CallIsTrue, ClusterIsTrue, Zenon DEF ClientInv, AnswerIsFaithful
<1>2. QED
  BY <1>1, ClientsAreSound, PTL
=============================================================================
