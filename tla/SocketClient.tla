---------------------------- MODULE SocketClient ----------------------------
(***************************************************************************)
(* The inference sockets of the three client libraries.  A request is sent *)
(* over a WebSocket of a small pool and its answer is a stream of frames   *)
(* that carry the request's id; many requests share a socket, sockets drop *)
(* and are replaced, and a caller may give up at any time.                 *)
(*                                                                         *)
(* The libraries promise the same and keep it differently, so a behaviour  *)
(* picks one of them: the Rust client, whose pool connects without a lock  *)
(* and whose reader, writer and callers are tasks of several threads; the  *)
(* Python client, whose pool connects under a lock in one event loop; the  *)
(* JavaScript client, which is handed one open socket and has no pool.     *)
(*                                                                         *)
(* The balancer's end is external: it answers a request it received as     *)
(* Forwarding and ResponseStream show, until it is told to stop.           *)
(***************************************************************************)
EXTENDS Naturals, Sequences, FiniteSets, SequencesExt

CONSTANTS
    Request,         \* the requests of the callers, one id each
    PoolSize,        \* the sockets of a pool
    MaxConnections,  \* bound: sockets that are ever opened
    MaxTokens,       \* bound: frames of an answer before its Done
    MaxDrops         \* bound: sockets that are lost

ASSUME SocketClientAssumption ==
    /\ IsFiniteSet(Request)
    /\ PoolSize \in Nat \ {0}
    /\ MaxConnections \in Nat \ {0}
    /\ MaxTokens \in Nat
    /\ MaxDrops \in Nat

VARIABLES
    library,         \* which client this is
    pool,            \* per slot, its connection; 0 for None
    next,            \* next_idx
    lock,            \* the request that holds the Python pool's lock, or None
    made,            \* how many connections were made
    \* per connection
    socket,          \* "open" or "closed"
    wire,            \* the frames under way to the client
    queue,           \* the messages the write task has not written
    reader,          \* the read task: "running", "draining", "finished"
    writer,          \* the write task: "running", "finished"
    pending,         \* the requests that have a sender
    serving,         \* the requests the balancer is answering
    \* per request
    phase,           \* where its caller stands
    slot,            \* the slot it was given
    conn,            \* the connection it holds; 0 for none
    attempt,         \* which send this is
    items,           \* what was put into its response channel
    taken,           \* how many of them its stream has yielded
    \* history
    sent,            \* per request, the frames the balancer sent
    asked,           \* per request, how often the balancer received it
    late,            \* registered on a connection whose reader had left its loop
    drops

poolVars == <<pool, next, lock, made>>
connectionVars == <<socket, wire, queue, reader, writer, pending, serving>>
callerVars == <<phase, slot, conn, attempt>>
streamVars == <<items, taken>>
historyVars == <<sent, asked, late, drops>>
socketClientVars ==
    <<library, pool, next, lock, made, socket, wire, queue, reader, writer, pending, serving,
      phase, slot, conn, attempt, items, taken, sent, asked, late, drops>>

Slot == 0 .. PoolSize - 1
Connection == 1 .. MaxConnections
None == 0
Kind == {"token", "tool", "done", "timeout", "disabled"}
Frame == [to : Request, kind : Kind]
Item == [to : Request, kind : Kind \cup {"dropped", "unparsable"}]
Message == [type : {"request", "stop"}, id : Request]
Over == {"ended", "stopped", "cancelled", "failed"}

SocketTypeOK ==
    /\ library \in {"rust", "python", "javascript"}
    /\ pool \in [Slot -> 0 .. made]
    /\ next \in 0 .. Cardinality(Request)
    /\ lock \in Request \cup {None}
    /\ made \in 0 .. MaxConnections
    /\ socket \in [Connection -> {"open", "closed"}]
    /\ \A c \in Connection : Range(wire[c]) \subseteq Frame /\ Range(queue[c]) \subseteq Message
    /\ reader \in [Connection -> {"running", "draining", "finished"}]
    /\ writer \in [Connection -> {"running", "finished"}]
    /\ pending \in [Connection -> SUBSET Request]
    /\ serving \in [Connection -> SUBSET Request]
    /\ phase \in [Request -> {"idle", "check", "connect", "get", "write", "streaming"} \cup Over]
    /\ slot \in [Request -> Slot]
    /\ conn \in [Request -> 0 .. made]
    /\ attempt \in [Request -> 1 .. 2]
    /\ \A r \in Request : Range(items[r]) \subseteq Item /\ taken[r] \in 0 .. Len(items[r])
    /\ late \in [Request -> BOOLEAN]

\* The JavaScript client is given an open socket; the pools connect when asked.
SocketInit ==
    /\ library \in {"rust", "python", "javascript"}
    /\ pool = [i \in Slot |-> IF library = "javascript" THEN 1 ELSE None]
    /\ next = 0
    /\ lock = None
    /\ made = IF library = "javascript" THEN 1 ELSE 0
    /\ socket = [c \in Connection |-> "open"]
    /\ wire = [c \in Connection |-> <<>>]
    /\ queue = [c \in Connection |-> <<>>]
    /\ reader = [c \in Connection |-> "running"]
    /\ writer = [c \in Connection |-> "running"]
    /\ pending = [c \in Connection |-> {}]
    /\ serving = [c \in Connection |-> {}]
    /\ phase = [r \in Request |-> "idle"]
    /\ slot = [r \in Request |-> 0]
    /\ conn = [r \in Request |-> None]
    /\ attempt = [r \in Request |-> 1]
    /\ items = [r \in Request |-> <<>>]
    /\ taken = [r \in Request |-> 0]
    /\ sent = [r \in Request |-> <<>>]
    /\ asked = [r \in Request |-> 0]
    /\ late = [r \in Request |-> FALSE]
    /\ drops = 0

(***************************************************************************)
(* What the libraries tell apart.                                          *)
(***************************************************************************)
\* The responses after which the balancer sends no other.
\* GeneratedTokenResult::is_done is true of "done" and "disabled", which is
\* TokenGenerationDisabled, and false of "tool", which is ToolCallParsed.
GeneratedTokenDone == {"done", "disabled"}
\* response_is_terminal adds a timeout and a full buffer.
RustTerminal == GeneratedTokenDone \cup {"timeout"}
\* is_terminal of the Python client: whatever is neither a token nor an embedding.
PythonTerminal == {"tool", "done", "timeout"}
\* The Python parser has no case for TokenGenerationDisabled.
PythonParses(frame) == frame.kind # "disabled"
\* The responses the JavaScript schema marks as done.
JavascriptTerminal == {"done", "disabled"}
\* The JavaScript schema knows no response but a generated token.
JavascriptParses(frame) == frame.kind # "timeout"

IsTerminal(kind) ==
    kind \in CASE library = "rust" -> RustTerminal
               [] library = "python" -> PythonTerminal
               [] library = "javascript" -> JavascriptTerminal

(***************************************************************************)
(* Connections.                                                            *)
(***************************************************************************)
\* Faulty variant: a replaced connection goes although a stream has it.
HeldByPool(c) == library # "rust" \/ \E i \in Slot : pool[i] = c

\* A connection lives as long as the pool or a caller has it: dropping the
\* last Arc aborts its tasks and closes its socket.
Held(c) ==
    \/ library # "rust"
    \/ \E i \in Slot : pool[i] = c
    \/ \E r \in Request : conn[r] = c /\ phase[r] \notin Over

\* The write channel is closed, or the read task is over.
IsDisconnected(c) == writer[c] = "finished" \/ reader[c] = "finished"

\* Each request that is pending is told that the connection dropped.
Dropped(c, channels) ==
    [r \in Request |-> IF r \in pending[c]
                       THEN Append(channels[r], [to |-> r, kind |-> "dropped"])
                       ELSE channels[r]]

\* The requests that are told of a frame nobody can read: in Python the one
\* whose id it carries, in JavaScript all that listen.
Spoiled(c, frame) ==
    CASE library = "python" /\ ~PythonParses(frame) -> {frame.to} \cap pending[c]
      [] library = "javascript" /\ ~JavascriptParses(frame) -> pending[c]
      [] OTHER -> {}

\* What a frame does to the channels: it goes to the request it is for, which
\* is forgotten after a terminal one, or it spoils streams.
Route(c, frame) ==
    LET spoiled == Spoiled(c, frame)
    IN  IF spoiled = {} /\ frame.to \in pending[c]
        THEN /\ items' = [items EXCEPT ![frame.to] = Append(@, frame)]
             /\ pending' = IF IsTerminal(frame.kind)
                           THEN [pending EXCEPT ![c] = @ \ {frame.to}] ELSE pending
        ELSE /\ items' = [r \in Request |->
                             IF r \in spoiled THEN Append(items[r], [to |-> r, kind |-> "unparsable"])
                                              ELSE items[r]]
             /\ pending' = [pending EXCEPT ![c] = @ \ spoiled]

\* The read task handles one frame.
ReadFrame(c) ==
    /\ Held(c)
    /\ reader[c] = "running"
    /\ wire[c] # <<>>
    /\ wire' = [wire EXCEPT ![c] = Tail(@)]
    /\ Route(c, Head(wire[c]))
    /\ UNCHANGED <<library, poolVars, socket, queue, reader, writer, serving, callerVars, taken,
                   historyVars>>

\* Faulty variant: nobody is told that the connection dropped.
ReadEndsSilently(c) ==
    /\ library = "rust"
    /\ Held(c)
    /\ reader[c] = "running"
    /\ socket[c] = "closed"
    /\ wire[c] = <<>>
    /\ reader' = [reader EXCEPT ![c] = "draining"]
    /\ UNCHANGED <<library, poolVars, socket, wire, queue, writer, pending, serving, callerVars,
                   items, taken, historyVars>>

\* The socket has nothing more: the Rust reader tells those that are pending,
\* one by one; the map is cleared afterwards.
ReadEnds(c) ==
    /\ library = "rust"
    /\ Held(c)
    /\ reader[c] = "running"
    /\ socket[c] = "closed"
    /\ wire[c] = <<>>
    /\ reader' = [reader EXCEPT ![c] = "draining"]
    /\ items' = Dropped(c, items)
    /\ UNCHANGED <<library, poolVars, socket, wire, queue, writer, pending, serving, callerVars,
                   taken, historyVars>>

ClearPending(c) ==
    /\ Held(c)
    /\ reader[c] = "draining"
    /\ reader' = [reader EXCEPT ![c] = "finished"]
    /\ pending' = [pending EXCEPT ![c] = {}]
    /\ UNCHANGED <<library, poolVars, socket, wire, queue, writer, serving, callerVars, streamVars,
                   historyVars>>

\* The Python loops drain the pending requests in one step, and either of
\* them ends the other.
DrainPending(c) ==
    /\ reader' = [reader EXCEPT ![c] = "finished"]
    /\ writer' = [writer EXCEPT ![c] = "finished"]
    /\ pending' = [pending EXCEPT ![c] = {}]
    /\ items' = Dropped(c, items)

ReadLoopEnds(c) ==
    /\ library = "python"
    /\ reader[c] = "running"
    /\ socket[c] = "closed"
    /\ wire[c] = <<>>
    /\ DrainPending(c)
    /\ UNCHANGED <<library, poolVars, socket, wire, queue, serving, callerVars, taken, historyVars>>

\* What the balancer does with a message it receives.
Deliver(c, message) ==
    IF message.type = "request"
    THEN /\ serving' = [serving EXCEPT ![c] = @ \cup {message.id}]
         /\ asked' = [asked EXCEPT ![message.id] = @ + 1]
    ELSE /\ serving' = [serving EXCEPT ![c] = @ \ {message.id}]
         /\ UNCHANGED asked

\* The write task writes one message.
WriteMessage(c) ==
    /\ Held(c)
    /\ writer[c] = "running"
    /\ queue[c] # <<>>
    /\ socket[c] = "open"
    /\ queue' = [queue EXCEPT ![c] = Tail(@)]
    /\ Deliver(c, Head(queue[c]))
    /\ UNCHANGED <<library, poolVars, socket, wire, reader, writer, pending, callerVars,
                   streamVars, sent, late, drops>>

\* Writing to a closed socket ends the Rust writer, and both Python loops;
\* a browser's socket drops what is sent once it is closed.
WriteFails(c) ==
    /\ Held(c)
    /\ writer[c] = "running"
    /\ queue[c] # <<>>
    /\ socket[c] = "closed"
    /\ queue' = [queue EXCEPT ![c] = Tail(@)]
    /\ CASE library = "rust" ->
              /\ writer' = [writer EXCEPT ![c] = "finished"]
              /\ UNCHANGED <<reader, pending, items>>
         [] library = "python" -> DrainPending(c)
         [] library = "javascript" -> UNCHANGED <<reader, writer, pending, items>>
    /\ UNCHANGED <<library, poolVars, socket, wire, serving, callerVars, taken, historyVars>>

(***************************************************************************)
(* The balancer and the network, which are external.                       *)
(***************************************************************************)
\* The kinds that may follow what a request was sent so far.
Following(frames) ==
    LET kinds == [i \in DOMAIN frames |-> frames[i].kind]
    IN  IF \E i \in DOMAIN kinds : kinds[i] = "tool" THEN {"done"}
        ELSE {"done"} \cup (IF Len(kinds) < MaxTokens THEN {"token", "tool"} ELSE {})
                      \cup (IF kinds = <<>> THEN {"timeout", "disabled"} ELSE {})

Answer(c, r, kind) ==
    /\ socket[c] = "open"
    /\ r \in serving[c]
    /\ kind \in Following(sent[r])
    /\ sent' = [sent EXCEPT ![r] = Append(@, [to |-> r, kind |-> kind])]
    /\ wire' = [wire EXCEPT ![c] = Append(@, [to |-> r, kind |-> kind])]
    /\ serving' = IF kind \in RustTerminal THEN [serving EXCEPT ![c] = @ \ {r}] ELSE serving
    /\ UNCHANGED <<library, poolVars, socket, queue, reader, writer, pending, callerVars,
                   streamVars, asked, late, drops>>

\* A socket is lost, with the last of the frames that were under way.
SocketDrops(c) ==
    /\ c <= made
    /\ socket[c] = "open"
    /\ drops < MaxDrops
    /\ \E n \in 0 .. Len(wire[c]) : wire' = [wire EXCEPT ![c] = SubSeq(@, 1, n)]
    /\ socket' = [socket EXCEPT ![c] = "closed"]
    /\ serving' = [serving EXCEPT ![c] = {}]
    /\ drops' = drops + 1
    /\ UNCHANGED <<library, poolVars, queue, reader, writer, pending, callerVars, streamVars,
                   sent, asked, late>>

(***************************************************************************)
(* The Rust pool: every await is a step of its own.                        *)
(***************************************************************************)
Move(r, to) == phase' = [phase EXCEPT ![r] = to]

SendRequest(r) ==
    /\ library = "rust"
    /\ phase[r] = "idle"
    /\ slot' = [slot EXCEPT ![r] = next % PoolSize]
    /\ next' = next + 1
    /\ Move(r, "check")
    /\ UNCHANGED <<library, pool, lock, made, connectionVars, conn, attempt, streamVars,
                   historyVars>>

\* ensure_connection looks at the slot and lets go of the lock.
CheckConnection(r) ==
    /\ phase[r] = "check"
    /\ LET c == pool[slot[r]]
       IN  Move(r, IF c = None \/ IsDisconnected(c) THEN "connect" ELSE "get")
    /\ UNCHANGED <<library, poolVars, connectionVars, slot, conn, attempt, streamVars, historyVars>>

\* The new connection overwrites the slot, whatever another request has put
\* there meanwhile.
Connect(r) ==
    /\ library = "rust"
    /\ phase[r] = "connect"
    /\ made < MaxConnections
    /\ made' = made + 1
    /\ pool' = [pool EXCEPT ![slot[r]] = made + 1]
    /\ Move(r, "get")
    /\ UNCHANGED <<library, next, lock, connectionVars, slot, conn, attempt, streamVars,
                   historyVars>>

\* get_connection, and the first half of Connection::send, which puts the
\* request's sender into the map.  Its message goes into the write channel
\* afterwards; the other tasks run in between.
Register(r) ==
    /\ phase[r] = "get"
    /\ LET c == pool[slot[r]]
       IN  /\ conn' = [conn EXCEPT ![r] = c]
           /\ pending' = [pending EXCEPT ![c] = @ \cup {r}]
           /\ late' = [late EXCEPT ![r] = reader[c] # "running"]
    /\ items' = [items EXCEPT ![r] = <<>>]
    /\ Move(r, "write")
    /\ UNCHANGED <<library, poolVars, socket, wire, queue, reader, writer, serving, slot, attempt,
                   taken, sent, asked, drops>>

Enqueue(c, type, r) == queue' = [queue EXCEPT ![c] = Append(@, [type |-> type, id |-> r])]

Write(r) ==
    /\ phase[r] = "write"
    /\ writer[conn[r]] = "running"
    /\ Enqueue(conn[r], "request", r)
    /\ Move(r, "streaming")
    /\ UNCHANGED <<library, poolVars, socket, wire, reader, writer, pending, serving, slot, conn,
                   attempt, streamVars, historyVars>>

\* The write channel is closed: the request is tried once more on a new
\* connection, and fails if that one has been lost as well.
WriteRefused(r) ==
    /\ phase[r] = "write"
    /\ writer[conn[r]] = "finished"
    /\ pending' = [pending EXCEPT ![conn[r]] = @ \ {r}]
    /\ IF attempt[r] = 1
       THEN Move(r, "check") /\ attempt' = [attempt EXCEPT ![r] = 2]
       ELSE Move(r, "failed") /\ UNCHANGED attempt
    /\ UNCHANGED <<library, poolVars, socket, wire, queue, reader, writer, serving, slot, conn,
                   streamVars, historyVars>>

\* The caller's token is cancelled while send_request awaits.
CancelRequest(r) ==
    /\ library = "rust"
    /\ phase[r] \in {"check", "connect", "get"}
    /\ Move(r, "cancelled")
    /\ UNCHANGED <<library, poolVars, connectionVars, slot, conn, attempt, streamVars, historyVars>>

(***************************************************************************)
(* The Python pool: one event loop, and a lock around connecting.          *)
(***************************************************************************)
\* What send does once there is a connection; nothing is awaited before it.
SendOn(c, r) ==
    /\ pending' = [pending EXCEPT ![c] = @ \cup {r}]
    /\ Enqueue(c, "request", r)
    /\ conn' = [conn EXCEPT ![r] = c]

\* The pool's turn: a live connection is used at once, a dead one is closed
\* and replaced while the lock is kept.
LockPool(r) ==
    /\ library = "python"
    /\ phase[r] = "idle"
    /\ lock = None
    /\ slot' = [slot EXCEPT ![r] = next % PoolSize]
    /\ next' = next + 1
    /\ LET c == pool[next % PoolSize]
       IN  IF c # None /\ reader[c] = "running"
           THEN SendOn(c, r) /\ Move(r, "streaming") /\ UNCHANGED lock
           ELSE Move(r, "connect") /\ lock' = r /\ UNCHANGED <<pending, queue, conn>>
    /\ UNCHANGED <<library, pool, made, socket, wire, reader, writer, serving, attempt, streamVars,
                   historyVars>>

ConnectLocked(r) ==
    /\ library = "python"
    /\ phase[r] = "connect"
    /\ made < MaxConnections
    /\ made' = made + 1
    /\ pool' = [pool EXCEPT ![slot[r]] = made + 1]
    /\ lock' = None
    /\ SendOn(made + 1, r)
    /\ Move(r, "streaming")
    /\ UNCHANGED <<library, next, socket, wire, reader, writer, serving, slot, attempt, streamVars,
                   historyVars>>

\* The balancer cannot be reached, or the caller gives up while connecting.
ConnectFails(r) ==
    /\ phase[r] = "connect"
    /\ lock' = IF lock = r THEN None ELSE lock
    /\ Move(r, "failed")
    /\ UNCHANGED <<library, pool, next, made, connectionVars, slot, conn, attempt, streamVars,
                   historyVars>>

\* Closing the client closes its connections, which end what is pending.
ClosePool ==
    /\ library = "python"
    /\ \E i \in Slot : pool[i] # None
    /\ LET closed == {pool[i] : i \in Slot} \ {None}
       IN  /\ socket' = [c \in Connection |-> IF c \in closed THEN "closed" ELSE socket[c]]
           /\ reader' = [c \in Connection |-> IF c \in closed THEN "finished" ELSE reader[c]]
           /\ writer' = [c \in Connection |-> IF c \in closed THEN "finished" ELSE writer[c]]
           /\ serving' = [c \in Connection |-> IF c \in closed THEN {} ELSE serving[c]]
           /\ pending' = [c \in Connection |-> IF c \in closed THEN {} ELSE pending[c]]
           /\ items' = [r \in Request |->
                           IF \E c \in closed : r \in pending[c]
                           THEN Append(items[r], [to |-> r, kind |-> "dropped"])
                           ELSE items[r]]
    /\ pool' = [i \in Slot |-> None]
    /\ UNCHANGED <<library, next, lock, made, wire, queue, callerVars, taken, historyVars>>

(***************************************************************************)
(* The JavaScript client.                                                  *)
(***************************************************************************)
ContinueConversation(r) ==
    /\ library = "javascript"
    /\ phase[r] = "idle"
    /\ SendOn(1, r)
    /\ Move(r, "streaming")
    /\ UNCHANGED <<library, poolVars, socket, wire, reader, writer, serving, slot, attempt,
                   streamVars, historyVars>>

(***************************************************************************)
(* The streams the callers read.                                           *)
(***************************************************************************)
LastTaken(r) == items[r][taken[r]]

\* The stream yields its next item; a Python or JavaScript stream is over
\* when that is an error or a terminal message.
YieldItem(r) ==
    /\ phase[r] = "streaming"
    /\ taken[r] < Len(items[r])
    /\ taken' = [taken EXCEPT ![r] = @ + 1]
    /\ LET kind == items[r][taken[r] + 1].kind
       IN  IF library # "rust" /\ (IsTerminal(kind) \/ kind \in {"dropped", "unparsable"})
           THEN Move(r, "ended")
           ELSE UNCHANGED phase
    /\ UNCHANGED <<library, poolVars, connectionVars, slot, conn, attempt, items, historyVars>>

\* A Rust stream is over when its channel is empty and has no sender.
EndStream(r) ==
    /\ library = "rust"
    /\ phase[r] = "streaming"
    /\ taken[r] = Len(items[r])
    /\ r \notin pending[conn[r]]
    /\ Move(r, "ended")
    /\ UNCHANGED <<library, poolVars, connectionVars, slot, conn, attempt, streamVars, historyVars>>

\* The caller cancels or drops a stream.  The Rust client then asks the
\* balancer to stop; the Python client leaves the request pending, and the
\* JavaScript client no longer listens.
StopStream(r) ==
    /\ phase[r] = "streaming"
    /\ Move(r, "stopped")
    /\ pending' = IF library = "python"
                  THEN pending ELSE [pending EXCEPT ![conn[r]] = @ \ {r}]
    /\ IF library = "rust" /\ writer[conn[r]] = "running"
       THEN Enqueue(conn[r], "stop", r)
       ELSE UNCHANGED queue
    /\ UNCHANGED <<library, poolVars, socket, wire, reader, writer, serving, slot, conn, attempt,
                   streamVars, historyVars>>

SocketNext ==
    \/ \E c \in Connection :
          \/ ReadFrame(c) \/ ReadEnds(c) \/ ClearPending(c) \/ ReadLoopEnds(c)
          \/ WriteMessage(c) \/ WriteFails(c) \/ SocketDrops(c)
          \/ \E r \in Request, kind \in Kind : Answer(c, r, kind)
    \/ \E r \in Request :
          \/ SendRequest(r) \/ CheckConnection(r) \/ Connect(r) \/ Register(r)
          \/ Write(r) \/ WriteRefused(r) \/ CancelRequest(r)
          \/ LockPool(r) \/ ConnectLocked(r) \/ ConnectFails(r) \/ ContinueConversation(r)
          \/ YieldItem(r) \/ EndStream(r) \/ StopStream(r)
    \/ ClosePool

\* The tasks of a connection are scheduled, the balancer answers what it
\* serves, a connection attempt returns and the caller reads its stream.
SocketFairness ==
    /\ \A c \in Connection :
          /\ WF_<<wire, reader>>(ReadFrame(c) \/ ReadEnds(c) \/ ClearPending(c) \/ ReadLoopEnds(c))
          /\ WF_<<queue, writer>>(WriteMessage(c) \/ WriteFails(c))
          /\ WF_sent(\E r \in Request : Answer(c, r, "done"))
    /\ \A r \in Request :
          WF_<<taken, phase>>(\/ CheckConnection(r) \/ Connect(r) \/ Register(r)
                              \/ Write(r) \/ WriteRefused(r)
                              \/ ConnectLocked(r) \/ ConnectFails(r)
                              \/ YieldItem(r) \/ EndStream(r))

(***************************************************************************)
(* Properties.                                                             *)
(***************************************************************************)
\* The items of a request's channel are the frames the balancer sent it, in
\* order and without a gap, whatever sockets they came over and whatever else
\* those carried; at most one error follows them.
OwnFramesInOrder ==
    \A r \in Request : \A i \in 1 .. Len(items[r]) :
        \/ i <= Len(sent[r]) /\ items[r][i] = sent[r][i]
        \/ i = Len(items[r]) /\ items[r][i].kind \in {"dropped", "unparsable"}

\* A request reaches the balancer at most once, the retry after a dropped
\* connection included.
AskedOnce == \A r \in Request : asked[r] <= 1

\* A stream does not end in the middle of an answer: its last item is one the
\* library takes for the last, or an error.  Except, in Rust, for a request
\* that was registered after the reader had told the pending ones.
EndsWithReason ==
    \A r \in Request :
        phase[r] = "ended" /\ ~late[r] =>
            /\ taken[r] > 0
            /\ IsTerminal(LastTaken(r).kind) \/ LastTaken(r).kind \in {"dropped", "unparsable"}

\* The Rust client leaves no request behind that the balancer goes on
\* answering on a live socket: it is still read, or the balancer's order to
\* stop is on its way.
AbandonedIsStopped ==
    library = "rust" =>
        \A r \in Request, c \in Connection :
            /\ r \in serving[c]
            /\ socket[c] = "open"
            /\ Held(c)
            => \/ phase[r] = "streaming" /\ conn[r] = c
               \/ \E i \in DOMAIN queue[c] : queue[c][i] = [type |-> "stop", id |-> r]

\* Every request ends: its answer comes to an end, its connection's loss is
\* reported, or it was refused.  Except for a Rust request that was registered
\* after the reader had told the pending ones, whose sender nobody drops, and
\* for the JavaScript client, which does not look at its socket's close.
StreamEnds ==
    \A r \in Request :
        []<>(\/ phase[r] \in {"idle"} \cup Over
             \/ late[r]
             \/ library = "javascript" /\ socket[1] = "closed")

=============================================================================
