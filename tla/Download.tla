------------------------------ MODULE Download ------------------------------
(***************************************************************************)
(* How the agents of one host get a model from a URL into the cache        *)
(* directory they share.  An agent looks for the cached file, takes the    *)
(* download lock, measures the partial file, asks the server for the rest, *)
(* appends what it receives and renames the partial file when the stream   *)
(* ends.  A conversion that failed is retried by the reconciliation        *)
(* service.                                                                *)
(*                                                                         *)
(* Files are sequences of chunks.  The server's contents may change        *)
(* between two attempts: Length[v] chunks are served in version v, and     *)
(* chunk i of version v is [version |-> v, index |-> i].  The runtime      *)
(* writes behind: a chunk handed to the file is written while the next one *)
(* is awaited, and if the attempt ends without a flush the write goes on   *)
(* without it (leftover).                                                  *)
(***************************************************************************)
EXTENDS Naturals, Sequences, FiniteSets

CONSTANTS
    Agent,         \* agents that share a cache directory
    None,          \* no file, nobody, nothing
    Length,        \* per version the server publishes, its number of chunks
    MaxFaults      \* bound: failures of the network, the disk, the processes

ASSUME DownloadAssumption ==
    /\ None \notin Agent
    /\ None \notin [version : 1 .. Len(Length), index : Nat \ {0}]
    /\ None \notin Seq([version : 1 .. Len(Length), index : Nat \ {0}])
    /\ Length \in Seq(Nat \ {0})
    /\ Length # <<>>
    /\ MaxFaults \in Nat

VARIABLES
    version,       \* the version the server serves
    final,         \* the cached file
    partial,       \* the .partial file
    lock,          \* the agent that holds the download lock
    pc,            \* per agent, the place of its attempt
    offset,        \* per agent, the size it measured
    body,          \* per agent, the chunk its response stream delivers next
    writing,       \* per agent, the chunk its file handle is writing
    shown,         \* per agent, the download progress in its status
    leftover,      \* writes whose attempt has ended
    faults,        \* failures so far, for the bound
    overtaken      \* history: a leftover write landed after a later measurement

files == <<final, partial>>
vars == <<version, final, partial, lock, pc, offset, body, writing, shown, leftover,
          faults, overtaken>>

Version == 1 .. Len(Length)
Chunk == [version : Version, index : Nat \ {0}]
Places == {"idle", "checked", "locked", "requested", "streaming", "resolved", "cancelled"}

TypeOK ==
    /\ version \in Version
    /\ final \in Seq(Chunk) \cup {None}
    /\ partial \in Seq(Chunk) \cup {None}
    /\ lock \in Agent \cup {None}
    /\ pc \in [Agent -> Places]
    /\ offset \in [Agent -> Nat]
    /\ body \in [Agent -> Chunk \cup {None}]
    /\ writing \in [Agent -> Chunk \cup {None}]
    /\ shown \in [Agent -> Nat \cup {None}]
    /\ \A w \in leftover : w.chunk \in Chunk /\ w.file \in {"partial", "final"}
    /\ faults \in 0 .. MaxFaults
    /\ overtaken \in BOOLEAN

Init ==
    /\ version = 1
    /\ final = None
    /\ partial = None
    /\ lock = None
    /\ pc = [a \in Agent |-> "idle"]
    /\ offset = [a \in Agent |-> 0]
    /\ body = [a \in Agent |-> None]
    /\ writing = [a \in Agent |-> None]
    /\ shown = [a \in Agent |-> None]
    /\ leftover = {}
    /\ faults = 0
    /\ overtaken = FALSE

-----------------------------------------------------------------------------
(***************************************************************************)
(* The partial file.                                                       *)
(***************************************************************************)
Chunks(file) == IF file = None THEN <<>> ELSE file

\* A leftover write keeps its file: it follows a rename, and it is lost to the
\* cache when the file is unlinked or replaced.
Rename ==
    /\ final' = partial
    /\ partial' = None
    /\ leftover' = {[w EXCEPT !.file = "final"] : w \in {x \in leftover : x.file = "partial"}}

Remove ==
    /\ partial' = None
    /\ leftover' = {w \in leftover : w.file # "partial"}

\* The end of an attempt: the lock is released, the file handle dropped.
EndAttempt(a, place, progress) ==
    /\ lock' = IF lock = a THEN None ELSE lock
    /\ pc' = [pc EXCEPT ![a] = place]
    /\ offset' = [offset EXCEPT ![a] = 0]
    /\ body' = [body EXCEPT ![a] = None]
    /\ writing' = [writing EXCEPT ![a] = None]
    /\ shown' = [shown EXCEPT ![a] = progress]

Fault == faults < MaxFaults /\ faults' = faults + 1

-----------------------------------------------------------------------------
(***************************************************************************)
(* An attempt: resolve_url_into_cache and DownloadManager::download.       *)
(***************************************************************************)
IsCached(a) ==
    /\ pc[a] = "idle"
    /\ \/ /\ final # None
          /\ pc' = [pc EXCEPT ![a] = "resolved"]
          /\ shown' = [shown EXCEPT ![a] = None]
       \/ /\ final = None
          /\ pc' = [pc EXCEPT ![a] = "checked"]
          /\ UNCHANGED shown
    /\ UNCHANGED <<version, files, lock, offset, body, writing, leftover, faults, overtaken>>

\* try_lock does not wait: an agent that finds the lock taken fails its attempt.
TryAcquireDownloadLock(a) ==
    /\ pc[a] = "checked"
    /\ \/ /\ lock = None
          /\ lock' = a
          /\ pc' = [pc EXCEPT ![a] = "locked"]
          /\ UNCHANGED <<offset, body, writing, shown>>
       \/ /\ lock # None
          /\ EndAttempt(a, "idle", None)
    /\ UNCHANGED <<version, files, leftover, faults, overtaken>>

\* Faulty variant: the size of a file that does not exist is not taken to be zero.
CurrentSizeOfExisting(a) ==
    /\ pc[a] = "locked"
    /\ offset' = [offset EXCEPT ![a] = IF partial = None THEN None ELSE Len(partial)]
    /\ pc' = [pc EXCEPT ![a] = "requested"]
    /\ leftover' = {[w EXCEPT !.stale = TRUE] : w \in leftover}
    /\ UNCHANGED <<version, files, lock, body, writing, shown, faults, overtaken>>

CurrentSize(a) ==
    /\ pc[a] = "locked"
    /\ offset' = [offset EXCEPT ![a] = Len(Chunks(partial))]
    /\ pc' = [pc EXCEPT ![a] = "requested"]
    /\ leftover' = {[w EXCEPT !.stale = TRUE] : w \in leftover}
    /\ UNCHANGED <<version, files, lock, body, writing, shown, faults, overtaken>>

\* on_started and open_for_append: the stream starts at the agent's offset.
StartStream(a, from, file) ==
    /\ pc' = [pc EXCEPT ![a] = "streaming"]
    /\ offset' = [offset EXCEPT ![a] = from]
    /\ body' = [body EXCEPT ![a] = [version |-> version, index |-> from + 1]]
    /\ shown' = [shown EXCEPT ![a] = from]
    /\ partial' = file

\* 200, asked for the whole file, or 206 with the range that was asked for.
StreamFromOffset(a) ==
    /\ pc[a] = "requested"
    /\ offset[a] < Length[version]
    /\ StartStream(a, offset[a], Chunks(partial))
    /\ UNCHANGED <<version, final, lock, writing, leftover, faults, overtaken>>

\* 200 although a range was asked for: the server does not know ranges.
StreamFromStartIgnoringRange(a) ==
    /\ pc[a] = "requested"
    /\ offset[a] > 0
    /\ StartStream(a, 0, <<>>)
    /\ UNCHANGED <<version, final, lock, writing, leftover, faults, overtaken>>

\* Faulty variant: the stale file is reported and kept.
KeepStalePartial(a) ==
    /\ pc[a] = "requested"
    /\ offset[a] >= Length[version]
    /\ EndAttempt(a, "idle", None)
    /\ UNCHANGED <<version, files, leftover, faults, overtaken>>

\* 416: nothing of the file lies behind the offset.
PartialFileStale(a) ==
    /\ pc[a] = "requested"
    /\ offset[a] >= Length[version]
    /\ Remove
    /\ EndAttempt(a, "idle", None)
    /\ UNCHANGED <<version, final, faults, overtaken>>

\* 206 with another range than the one asked for, or with none.
MismatchedRange(a) ==
    /\ pc[a] = "requested"
    /\ Fault
    /\ Remove
    /\ EndAttempt(a, "idle", None)
    /\ UNCHANGED <<version, final, overtaken>>

\* The next chunk is handed to the file once the previous one is written, and
\* counted.
ReceiveChunk(a) ==
    /\ pc[a] = "streaming"
    /\ writing[a] = None
    /\ body[a].index <= Length[body[a].version]
    /\ writing' = [writing EXCEPT ![a] = body[a]]
    /\ body' = [body EXCEPT ![a].index = @ + 1]
    /\ shown' = [shown EXCEPT ![a] = @ + 1]
    /\ UNCHANGED <<version, files, lock, pc, offset, leftover, faults, overtaken>>

FinishWrite(a) ==
    /\ writing[a] # None
    /\ partial' = Append(Chunks(partial), writing[a])
    /\ writing' = [writing EXCEPT ![a] = None]
    /\ UNCHANGED <<version, final, lock, pc, offset, body, shown, leftover, faults, overtaken>>

\* The stream has ended and all is flushed: rename, on_finished.
Finalize(a) ==
    /\ pc[a] = "streaming"
    /\ body[a].index > Length[body[a].version]
    /\ writing[a] = None
    /\ Rename
    /\ EndAttempt(a, "resolved", None)
    /\ UNCHANGED <<version, faults, overtaken>>

\* The server cannot be reached, or answers with an error.
RequestFails(a) ==
    /\ pc[a] = "requested"
    /\ Fault
    /\ EndAttempt(a, "idle", None)
    /\ UNCHANGED <<version, files, leftover, overtaken>>

\* The cache directory, the lock file or the partial file cannot be accessed.
CacheFails(a) ==
    /\ pc[a] \in {"idle", "checked", "locked"}
    /\ Fault
    /\ EndAttempt(a, "idle", None)
    /\ UNCHANGED <<version, files, leftover, overtaken>>

\* A write fails, and with it the next call on the file.
WriteFails(a) ==
    /\ writing[a] # None
    /\ Fault
    /\ EndAttempt(a, "idle", None)
    /\ UNCHANGED <<version, files, leftover, overtaken>>

\* The stream breaks: the attempt returns without a flush.
Interrupted(a) ==
    /\ pc[a] = "streaming"
    /\ Fault
    /\ leftover' = leftover \cup
           {[chunk |-> c, by |-> a, id |-> faults, file |-> "partial", stale |-> FALSE] :
                c \in {writing[a]} \ {None}}
    /\ EndAttempt(a, "idle", None)
    /\ UNCHANGED <<version, files, overtaken>>

\* Faulty variant: a cancelled stream is taken for a finished one.
CancelFinalizing(a) ==
    /\ pc[a] = "streaming"
    /\ writing[a] = None
    /\ Rename
    /\ EndAttempt(a, "cancelled", shown[a])
    /\ UNCHANGED <<version, faults, overtaken>>

\* The shutdown cancels the request or the stream; what was received is flushed,
\* and the progress stays in the status.
Cancel(a) ==
    /\ pc[a] \notin {"resolved", "cancelled"}
    /\ writing[a] = None
    /\ EndAttempt(a, "cancelled", shown[a])
    /\ UNCHANGED <<version, files, leftover, faults, overtaken>>

-----------------------------------------------------------------------------
(***************************************************************************)
(* The surroundings: the runtime's writes, the processes, the server.      *)
(***************************************************************************)
FinishLeftover(w) ==
    /\ w \in leftover
    /\ leftover' = leftover \ {w}
    /\ overtaken' = (overtaken \/ w.stale)
    /\ \/ /\ w.file = "partial"
          /\ partial' = Append(Chunks(partial), w.chunk)
          /\ UNCHANGED final
       \/ /\ w.file = "final"
          /\ final' = Append(Chunks(final), w.chunk)
          /\ UNCHANGED partial
    /\ UNCHANGED <<version, lock, pc, offset, body, writing, shown, faults>>

\* An agent's process dies and is started again: its lock and its writes are gone.
Crash(a) ==
    /\ pc[a] # "cancelled"
    /\ Fault
    /\ leftover' = {w \in leftover : w.by # a}
    /\ EndAttempt(a, "idle", None)
    /\ UNCHANGED <<version, files, overtaken>>

Publish ==
    /\ version < Len(Length)
    /\ version' = version + 1
    /\ UNCHANGED <<files, lock, pc, offset, body, writing, shown, leftover, faults, overtaken>>

-----------------------------------------------------------------------------
AgentStep(a) ==
    \/ IsCached(a)
    \/ TryAcquireDownloadLock(a)
    \/ CurrentSize(a)
    \/ StreamFromOffset(a)
    \/ StreamFromStartIgnoringRange(a)
    \/ PartialFileStale(a)
    \/ ReceiveChunk(a)
    \/ FinishWrite(a)
    \/ Finalize(a)

Failure(a) ==
    \/ MismatchedRange(a)
    \/ RequestFails(a)
    \/ CacheFails(a)
    \/ WriteFails(a)
    \/ Interrupted(a)
    \/ Crash(a)

Next ==
    \/ \E a \in Agent : AgentStep(a) \/ Failure(a) \/ Cancel(a)
    \/ \E w \in leftover : FinishLeftover(w)
    \/ Publish

Spec == Init /\ [][Next]_vars
-----------------------------------------------------------------------------
(***************************************************************************)
(* Properties.                                                             *)
(***************************************************************************)
InPlace(file) == \A i \in 1 .. Len(file) : file[i].index = i

\* Whatever was resumed, restarted, interrupted, retried or raced, by whichever
\* agent, the cached file has every chunk once and in its place, up to the end of
\* the version that completed it (the lock, the range check, truncate, rename).
\* The exception is the code's: a write left behind by a broken stream that lands
\* after the next attempt has measured the file.
CachedModelIsWhole ==
    ~overtaken /\ final # None =>
        /\ InPlace(final)
        /\ Len(final) > 0
        /\ Len(final) = Length[final[Len(final)].version]

\* The progress an agent reports is what it has downloaded, over every resumption,
\* and it is reported only while a download runs or was cancelled (set_download_status,
\* increment_download_current, reset_download).
ProgressIsTrue ==
    \A a \in Agent :
        /\ shown[a] # None => pc[a] \in {"streaming", "cancelled"}
        /\ pc[a] = "streaming" /\ ~overtaken =>
               shown[a] = Len(Chunks(partial)) + Cardinality({writing[a]} \ {None})

\* No partial file, however it came about, keeps an agent from its model for good:
\* once the failures stop, every agent resolves it (the removal of a stale partial
\* file, the retry, the release of the lock).
EveryAgentResolves ==
    \A a \in Agent : <>(pc[a] \in {"resolved", "cancelled"})
=============================================================================
