----------------------------- MODULE ModelProofs ----------------------------
(***************************************************************************)
(* Proofs about the models of an agent: a cached model is whole, for any   *)
(* agents that share the cache, any versions, any lengths and any number   *)
(* of failures; and the status of an agent tells the truth about the model *)
(* it loads, for any desired states and any number of slots and failures.  *)
(***************************************************************************)
EXTENDS MCModels, FiniteSetTheorems, TLAPS

-----------------------------------------------------------------------------
(***************************************************************************)
(* That a cached model is whole, for any agents that share the cache, any  *)
(* versions the server publishes, whatever their lengths, and any number   *)
(* of failures.                                                            *)
(*                                                                         *)
(* The invariant follows the partial file through an attempt.  Only the    *)
(* holder of the lock measures, streams or renames (LockIsExclusive); the  *)
(* chunk it writes next is the one after the last of the partial file      *)
(* (StreamContinues); the one write that may still land behind an attempt  *)
(* that broke continues the file as well, until a later attempt measures   *)
(* it (LeftoverContinues), from when on its landing is what `overtaken`    *)
(* records.                                                                *)
(***************************************************************************)

Leftover == [chunk : Chunk, by : Agent, id : Nat, file : {"partial", "final"}, stale : BOOLEAN]

\* Attempts that hold the lock, and what they have besides.
LockIsExclusive ==
    /\ \A a \in Agent : pc[a] \in {"locked", "requested", "streaming"} => lock = a
    /\ \A a \in Agent : writing[a] # None => pc[a] = "streaming"
    /\ \A a \in Agent : pc[a] = "streaming" => body[a] \in Chunk /\ shown[a] \in Nat
    /\ \A a \in Agent : shown[a] # None => pc[a] \in {"streaming", "cancelled"}

\* The file an attempt has measured, and the chunk that it writes next.  A stream
\* whose chunks are all received has delivered at least one.
StreamContinues ==
    /\ InPlace(Chunks(partial))
    /\ \A a \in Agent : pc[a] = "requested" => offset[a] = Len(Chunks(partial))
    /\ \A a \in Agent : pc[a] = "streaming" =>
          /\ writing[a] = None => body[a].index = Len(Chunks(partial)) + 1
          /\ writing[a] # None => /\ writing[a].index = Len(Chunks(partial)) + 1
                                  /\ body[a].index = Len(Chunks(partial)) + 2
          /\ shown[a] = body[a].index - 1
          /\ body[a].index <= Length[body[a].version] + 1
          /\ body[a].index = Length[body[a].version] + 1 =>
                IF writing[a] # None THEN writing[a].version = body[a].version
                ELSE /\ Len(Chunks(partial)) > 0
                     /\ Chunks(partial)[Len(Chunks(partial))].version = body[a].version

\* A write that no measurement has missed is the only one, and nobody streams.
LeftoverIsAlone ==
    \A w \in leftover : ~w.stale =>
        /\ w.file = "partial"
        /\ \A a \in Agent : pc[a] \notin {"requested", "streaming"}
        /\ \A v \in leftover : ~v.stale => v = w

LeftoverContinues ==
    \A w \in leftover : ~w.stale => w.chunk.index = Len(Chunks(partial)) + 1

DownloadInv ==
    /\ TypeOK /\ leftover \subseteq Leftover
    /\ LockIsExclusive
    /\ LeftoverIsAlone
    /\ ~overtaken => StreamContinues /\ LeftoverContinues
    /\ CachedModelIsWhole
\* What the assumptions say of the absent file, the absent chunk and the lengths of
\* the versions.
LEMMA Constants ==
    /\ None \notin Agent /\ None \notin Chunk /\ None \notin Seq(Chunk)
    /\ Length \in [Version -> Nat \ {0}] /\ Len(Length) \in Nat /\ Len(Length) > 0
    /\ 1 \in Version /\ MaxFaults \in Nat
<1>1. Length \in Seq(Nat \ {0}) /\ Length # <<>>
  BY DownloadAssumption
<1>2. Len(Length) \in Nat /\ Len(Length) > 0 /\ Length \in [1 .. Len(Length) -> Nat \ {0}]
  BY <1>1
<1>3. QED
  BY <1>2, DownloadAssumption DEF Chunk, Version

\* The chunks of the partial file, present or not (Partial::current_size).
LEMMA PartialChunks ==
    ASSUME NEW file \in Seq(Chunk) \cup {None}
    PROVE  /\ Chunks(file) \in Seq(Chunk)
           /\ Len(Chunks(file)) \in Nat
           /\ file # None => Chunks(file) = file
BY DEF Chunks

\* The chunk after the last of a file that is in its place keeps it in its place.
LEMMA AppendInPlace ==
    ASSUME NEW file \in Seq(Chunk), NEW chunk \in Chunk,
           InPlace(file), chunk.index = Len(file) + 1
    PROVE  InPlace(Append(file, chunk))
BY DEF InPlace

\* A step keeps the types: what is written to a file is a chunk.
LEMMA TypeStep ==
      ASSUME TypeOK,
             leftover \subseteq Leftover,
             LockIsExclusive, [Next]_vars
      PROVE  TypeOK' /\ leftover' \subseteq Leftover
<1>1. ASSUME NEW a \in Agent, IsCached(a) PROVE TypeOK' /\ leftover' \subseteq Leftover
  <2>1. /\ version' \in Version /\ lock' \in Agent \cup {None}
        /\ pc' \in [Agent -> Places] /\ offset' \in [Agent -> Nat]
        /\ writing' \in [Agent -> Chunk \cup {None}] /\ faults' \in 0 .. MaxFaults
    BY <1>1, Constants, PartialChunks DEF TypeOK, LockIsExclusive, Places, Version,
       IsCached, files
  <2>2. /\ final' \in Seq(Chunk) \cup {None} /\ partial' \in Seq(Chunk) \cup {None}
    BY <1>1, PartialChunks DEF TypeOK, IsCached, files
  <2>3. /\ body' \in [Agent -> Chunk \cup {None}] /\ shown' \in [Agent -> Nat \cup {None}]
    BY <1>1, Constants DEF TypeOK, LockIsExclusive, Chunk, IsCached, files
  <2>4. leftover' \subseteq Leftover
    BY <1>1, Constants DEF TypeOK, Leftover, IsCached, files
  <2>5. overtaken' \in BOOLEAN
    BY <1>1, Zenon DEF TypeOK, Leftover, IsCached, files
  <2>6. QED
    BY <2>1, <2>2, <2>3, <2>4, <2>5 DEF TypeOK, Leftover
<1>2. ASSUME NEW a \in Agent, TryAcquireDownloadLock(a) PROVE TypeOK' /\ leftover' \subseteq Leftover
  <2>1. /\ version' \in Version /\ faults' \in 0 .. MaxFaults
        /\ offset' \in [Agent -> Nat] /\ writing' \in [Agent -> Chunk \cup {None}]
    <3>1. CASE UNCHANGED <<offset, body, writing, shown>>
      BY <1>2, <3>1 DEF TypeOK, TryAcquireDownloadLock
    <3>2. CASE EndAttempt(a, "idle", None)
      BY <1>2, <3>2 DEF TypeOK, TryAcquireDownloadLock, EndAttempt
    <3>3. QED
      BY <1>2, <3>1, <3>2 DEF TryAcquireDownloadLock
  <2>7. lock' \in Agent \cup {None} /\ pc' \in [Agent -> Places]
    BY <1>2 DEF TypeOK, Places, TryAcquireDownloadLock, EndAttempt, files
  <2>2. /\ final' \in Seq(Chunk) \cup {None} /\ partial' \in Seq(Chunk) \cup {None}
    BY <1>2, PartialChunks DEF TypeOK, TryAcquireDownloadLock, EndAttempt, files
  <2>3. /\ body' \in [Agent -> Chunk \cup {None}] /\ shown' \in [Agent -> Nat \cup {None}]
    BY <1>2, Constants DEF TypeOK, LockIsExclusive, Chunk, TryAcquireDownloadLock, EndAttempt, files
  <2>4. leftover' \subseteq Leftover
    BY <1>2, Constants DEF TypeOK, Leftover, TryAcquireDownloadLock, EndAttempt, files
  <2>5. overtaken' \in BOOLEAN
    BY <1>2, Zenon DEF TypeOK, Leftover, TryAcquireDownloadLock, EndAttempt, files
  <2>6. QED
    BY <2>1, <2>2, <2>3, <2>4, <2>5, <2>7 DEF TypeOK, Leftover
<1>3. ASSUME NEW a \in Agent, CurrentSize(a) PROVE TypeOK' /\ leftover' \subseteq Leftover
  <2>1. /\ version' \in Version /\ lock' \in Agent \cup {None}
        /\ pc' \in [Agent -> Places] /\ offset' \in [Agent -> Nat]
        /\ writing' \in [Agent -> Chunk \cup {None}] /\ faults' \in 0 .. MaxFaults
    BY <1>3, Constants, PartialChunks DEF TypeOK, LockIsExclusive, Places, Version,
       CurrentSize, files
  <2>2. /\ final' \in Seq(Chunk) \cup {None} /\ partial' \in Seq(Chunk) \cup {None}
    BY <1>3, PartialChunks DEF TypeOK, CurrentSize, files
  <2>3. /\ body' \in [Agent -> Chunk \cup {None}] /\ shown' \in [Agent -> Nat \cup {None}]
    BY <1>3, Constants DEF TypeOK, LockIsExclusive, Chunk, CurrentSize, files
  <2>4. leftover' \subseteq Leftover
    <3>1. SUFFICES ASSUME NEW v \in leftover' PROVE v \in Leftover
      OBVIOUS
    <3>2. PICK w \in leftover : v = [w EXCEPT !.stale = TRUE]
      BY <1>3 DEF CurrentSize
    <3>3. QED
      BY <3>2 DEF Leftover
  <2>5. overtaken' \in BOOLEAN
    BY <1>3, Zenon DEF TypeOK, Leftover, CurrentSize, files
  <2>6. QED
    BY <2>1, <2>2, <2>3, <2>4, <2>5 DEF TypeOK, Leftover
<1>4. ASSUME NEW a \in Agent, StreamFromOffset(a) PROVE TypeOK' /\ leftover' \subseteq Leftover
  <2>1. /\ version' \in Version /\ lock' \in Agent \cup {None}
        /\ pc' \in [Agent -> Places] /\ offset' \in [Agent -> Nat]
        /\ writing' \in [Agent -> Chunk \cup {None}] /\ faults' \in 0 .. MaxFaults
    BY <1>4, Constants, PartialChunks DEF TypeOK, LockIsExclusive, Places, Version,
       StreamFromOffset, StartStream
  <2>2. /\ final' \in Seq(Chunk) \cup {None} /\ partial' \in Seq(Chunk) \cup {None}
    BY <1>4, PartialChunks DEF TypeOK, StreamFromOffset, StartStream
  <2>3. /\ body' \in [Agent -> Chunk \cup {None}] /\ shown' \in [Agent -> Nat \cup {None}]
    BY <1>4, Constants DEF TypeOK, LockIsExclusive, Chunk, StreamFromOffset, StartStream
  <2>4. leftover' \subseteq Leftover
    BY <1>4, Constants DEF TypeOK, Leftover, StreamFromOffset, StartStream
  <2>5. overtaken' \in BOOLEAN
    BY <1>4, Zenon DEF TypeOK, Leftover, StreamFromOffset, StartStream
  <2>6. QED
    BY <2>1, <2>2, <2>3, <2>4, <2>5 DEF TypeOK, Leftover
<1>5. ASSUME NEW a \in Agent, StreamFromStartIgnoringRange(a) PROVE TypeOK' /\ leftover' \subseteq Leftover
  <2>1. /\ version' \in Version /\ lock' \in Agent \cup {None}
        /\ pc' \in [Agent -> Places] /\ offset' \in [Agent -> Nat]
        /\ writing' \in [Agent -> Chunk \cup {None}] /\ faults' \in 0 .. MaxFaults
    BY <1>5, Constants, PartialChunks DEF TypeOK, LockIsExclusive, Places, Version,
       StreamFromStartIgnoringRange, StartStream
  <2>2. /\ final' \in Seq(Chunk) \cup {None} /\ partial' \in Seq(Chunk) \cup {None}
    BY <1>5, PartialChunks DEF TypeOK, StreamFromStartIgnoringRange, StartStream
  <2>3. /\ body' \in [Agent -> Chunk \cup {None}] /\ shown' \in [Agent -> Nat \cup {None}]
    BY <1>5, Constants DEF TypeOK, LockIsExclusive, Chunk, StreamFromStartIgnoringRange, StartStream
  <2>4. leftover' \subseteq Leftover
    BY <1>5, Constants DEF TypeOK, Leftover, StreamFromStartIgnoringRange, StartStream
  <2>5. overtaken' \in BOOLEAN
    BY <1>5, Zenon DEF TypeOK, Leftover, StreamFromStartIgnoringRange, StartStream
  <2>6. QED
    BY <2>1, <2>2, <2>3, <2>4, <2>5 DEF TypeOK, Leftover
<1>6. ASSUME NEW a \in Agent, PartialFileStale(a) PROVE TypeOK' /\ leftover' \subseteq Leftover
  <2>1. /\ version' \in Version /\ lock' \in Agent \cup {None}
        /\ pc' \in [Agent -> Places] /\ offset' \in [Agent -> Nat]
        /\ writing' \in [Agent -> Chunk \cup {None}] /\ faults' \in 0 .. MaxFaults
    BY <1>6, Constants, PartialChunks DEF TypeOK, LockIsExclusive, Places, Version,
       PartialFileStale, Remove, EndAttempt
  <2>2. /\ final' \in Seq(Chunk) \cup {None} /\ partial' \in Seq(Chunk) \cup {None}
    BY <1>6, PartialChunks DEF TypeOK, PartialFileStale, Remove, EndAttempt
  <2>3. /\ body' \in [Agent -> Chunk \cup {None}] /\ shown' \in [Agent -> Nat \cup {None}]
    BY <1>6, Constants DEF TypeOK, LockIsExclusive, Chunk, PartialFileStale, Remove, EndAttempt
  <2>4. leftover' \subseteq Leftover
    BY <1>6, Constants DEF TypeOK, Leftover, PartialFileStale, Remove, EndAttempt
  <2>5. overtaken' \in BOOLEAN
    BY <1>6, Zenon DEF TypeOK, Leftover, PartialFileStale, Remove, EndAttempt
  <2>6. QED
    BY <2>1, <2>2, <2>3, <2>4, <2>5 DEF TypeOK, Leftover
<1>7. ASSUME NEW a \in Agent, ReceiveChunk(a) PROVE TypeOK' /\ leftover' \subseteq Leftover
  <2>1. /\ version' \in Version /\ lock' \in Agent \cup {None}
        /\ pc' \in [Agent -> Places] /\ offset' \in [Agent -> Nat]
        /\ writing' \in [Agent -> Chunk \cup {None}] /\ faults' \in 0 .. MaxFaults
    BY <1>7, Constants, PartialChunks DEF TypeOK, LockIsExclusive, Places, Version,
       ReceiveChunk, files
  <2>2. /\ final' \in Seq(Chunk) \cup {None} /\ partial' \in Seq(Chunk) \cup {None}
    BY <1>7, PartialChunks DEF TypeOK, ReceiveChunk, files
  <2>3. /\ body' \in [Agent -> Chunk \cup {None}] /\ shown' \in [Agent -> Nat \cup {None}]
    BY <1>7, Constants DEF TypeOK, LockIsExclusive, Chunk, ReceiveChunk, files
  <2>4. leftover' \subseteq Leftover
    BY <1>7, Constants DEF TypeOK, Leftover, ReceiveChunk, files
  <2>5. overtaken' \in BOOLEAN
    BY <1>7, Zenon DEF TypeOK, Leftover, ReceiveChunk, files
  <2>6. QED
    BY <2>1, <2>2, <2>3, <2>4, <2>5 DEF TypeOK, Leftover
<1>8. ASSUME NEW a \in Agent, FinishWrite(a) PROVE TypeOK' /\ leftover' \subseteq Leftover
  <2>1. /\ version' \in Version /\ lock' \in Agent \cup {None}
        /\ pc' \in [Agent -> Places] /\ offset' \in [Agent -> Nat]
        /\ writing' \in [Agent -> Chunk \cup {None}] /\ faults' \in 0 .. MaxFaults
    BY <1>8, Constants, PartialChunks DEF TypeOK, LockIsExclusive, Places, Version,
       FinishWrite
  <2>2. /\ final' \in Seq(Chunk) \cup {None} /\ partial' \in Seq(Chunk) \cup {None}
    BY <1>8, PartialChunks DEF TypeOK, FinishWrite
  <2>3. /\ body' \in [Agent -> Chunk \cup {None}] /\ shown' \in [Agent -> Nat \cup {None}]
    BY <1>8, Constants DEF TypeOK, LockIsExclusive, Chunk, FinishWrite
  <2>4. leftover' \subseteq Leftover
    BY <1>8, Constants DEF TypeOK, Leftover, FinishWrite
  <2>5. overtaken' \in BOOLEAN
    BY <1>8, Zenon DEF TypeOK, Leftover, FinishWrite
  <2>6. QED
    BY <2>1, <2>2, <2>3, <2>4, <2>5 DEF TypeOK, Leftover
<1>9. ASSUME NEW a \in Agent, Finalize(a) PROVE TypeOK' /\ leftover' \subseteq Leftover
  <2>1. /\ version' \in Version /\ lock' \in Agent \cup {None}
        /\ pc' \in [Agent -> Places] /\ offset' \in [Agent -> Nat]
        /\ writing' \in [Agent -> Chunk \cup {None}] /\ faults' \in 0 .. MaxFaults
    BY <1>9, Constants, PartialChunks DEF TypeOK, LockIsExclusive, Places, Version,
       Finalize, Rename, EndAttempt
  <2>2. /\ final' \in Seq(Chunk) \cup {None} /\ partial' \in Seq(Chunk) \cup {None}
    BY <1>9, PartialChunks DEF TypeOK, Finalize, Rename, EndAttempt
  <2>3. /\ body' \in [Agent -> Chunk \cup {None}] /\ shown' \in [Agent -> Nat \cup {None}]
    BY <1>9, Constants DEF TypeOK, LockIsExclusive, Chunk, Finalize, Rename, EndAttempt
  <2>4. leftover' \subseteq Leftover
    <3>1. SUFFICES ASSUME NEW v \in leftover' PROVE v \in Leftover
      OBVIOUS
    <3>2. PICK w \in leftover : v = [w EXCEPT !.file = "final"]
      BY <1>9 DEF Finalize, Rename
    <3>3. QED
      BY <3>2 DEF Leftover
  <2>5. overtaken' \in BOOLEAN
    BY <1>9, Zenon DEF TypeOK, Leftover, Finalize, Rename, EndAttempt
  <2>6. QED
    BY <2>1, <2>2, <2>3, <2>4, <2>5 DEF TypeOK, Leftover
<1>10. ASSUME NEW a \in Agent, MismatchedRange(a) PROVE TypeOK' /\ leftover' \subseteq Leftover
  <2>1. /\ version' \in Version /\ lock' \in Agent \cup {None}
        /\ pc' \in [Agent -> Places] /\ offset' \in [Agent -> Nat]
        /\ writing' \in [Agent -> Chunk \cup {None}] /\ faults' \in 0 .. MaxFaults
    BY <1>10, Constants, PartialChunks DEF TypeOK, LockIsExclusive, Places, Version,
       MismatchedRange, Fault, Remove, EndAttempt
  <2>2. /\ final' \in Seq(Chunk) \cup {None} /\ partial' \in Seq(Chunk) \cup {None}
    BY <1>10, PartialChunks DEF TypeOK, MismatchedRange, Fault, Remove, EndAttempt
  <2>3. /\ body' \in [Agent -> Chunk \cup {None}] /\ shown' \in [Agent -> Nat \cup {None}]
    BY <1>10, Constants DEF TypeOK, LockIsExclusive, Chunk, MismatchedRange, Fault, Remove, EndAttempt
  <2>4. leftover' \subseteq Leftover
    BY <1>10, Constants DEF TypeOK, Leftover, MismatchedRange, Fault, Remove, EndAttempt
  <2>5. overtaken' \in BOOLEAN
    BY <1>10, Zenon DEF TypeOK, Leftover, MismatchedRange, Fault, Remove, EndAttempt
  <2>6. QED
    BY <2>1, <2>2, <2>3, <2>4, <2>5 DEF TypeOK, Leftover
<1>11. ASSUME NEW a \in Agent, RequestFails(a) PROVE TypeOK' /\ leftover' \subseteq Leftover
  <2>1. /\ version' \in Version /\ lock' \in Agent \cup {None}
        /\ pc' \in [Agent -> Places] /\ offset' \in [Agent -> Nat]
        /\ writing' \in [Agent -> Chunk \cup {None}] /\ faults' \in 0 .. MaxFaults
    BY <1>11, Constants, PartialChunks DEF TypeOK, LockIsExclusive, Places, Version,
       RequestFails, Fault, EndAttempt, files
  <2>2. /\ final' \in Seq(Chunk) \cup {None} /\ partial' \in Seq(Chunk) \cup {None}
    BY <1>11, PartialChunks DEF TypeOK, RequestFails, Fault, EndAttempt, files
  <2>3. /\ body' \in [Agent -> Chunk \cup {None}] /\ shown' \in [Agent -> Nat \cup {None}]
    BY <1>11, Constants DEF TypeOK, LockIsExclusive, Chunk, RequestFails, Fault, EndAttempt, files
  <2>4. leftover' \subseteq Leftover
    BY <1>11, Constants DEF TypeOK, Leftover, RequestFails, Fault, EndAttempt, files
  <2>5. overtaken' \in BOOLEAN
    BY <1>11, Zenon DEF TypeOK, Leftover, RequestFails, Fault, EndAttempt, files
  <2>6. QED
    BY <2>1, <2>2, <2>3, <2>4, <2>5 DEF TypeOK, Leftover
<1>12. ASSUME NEW a \in Agent, CacheFails(a) PROVE TypeOK' /\ leftover' \subseteq Leftover
  <2>1. /\ version' \in Version /\ lock' \in Agent \cup {None}
        /\ pc' \in [Agent -> Places] /\ offset' \in [Agent -> Nat]
        /\ writing' \in [Agent -> Chunk \cup {None}] /\ faults' \in 0 .. MaxFaults
    BY <1>12, Constants, PartialChunks DEF TypeOK, LockIsExclusive, Places, Version,
       CacheFails, Fault, EndAttempt, files
  <2>2. /\ final' \in Seq(Chunk) \cup {None} /\ partial' \in Seq(Chunk) \cup {None}
    BY <1>12, PartialChunks DEF TypeOK, CacheFails, Fault, EndAttempt, files
  <2>3. /\ body' \in [Agent -> Chunk \cup {None}] /\ shown' \in [Agent -> Nat \cup {None}]
    BY <1>12, Constants DEF TypeOK, LockIsExclusive, Chunk, CacheFails, Fault, EndAttempt, files
  <2>4. leftover' \subseteq Leftover
    BY <1>12, Constants DEF TypeOK, Leftover, CacheFails, Fault, EndAttempt, files
  <2>5. overtaken' \in BOOLEAN
    BY <1>12, Zenon DEF TypeOK, Leftover, CacheFails, Fault, EndAttempt, files
  <2>6. QED
    BY <2>1, <2>2, <2>3, <2>4, <2>5 DEF TypeOK, Leftover
<1>13. ASSUME NEW a \in Agent, WriteFails(a) PROVE TypeOK' /\ leftover' \subseteq Leftover
  <2>1. /\ version' \in Version /\ lock' \in Agent \cup {None}
        /\ pc' \in [Agent -> Places] /\ offset' \in [Agent -> Nat]
        /\ writing' \in [Agent -> Chunk \cup {None}] /\ faults' \in 0 .. MaxFaults
    BY <1>13, Constants, PartialChunks DEF TypeOK, LockIsExclusive, Places, Version,
       WriteFails, Fault, EndAttempt, files
  <2>2. /\ final' \in Seq(Chunk) \cup {None} /\ partial' \in Seq(Chunk) \cup {None}
    BY <1>13, PartialChunks DEF TypeOK, WriteFails, Fault, EndAttempt, files
  <2>3. /\ body' \in [Agent -> Chunk \cup {None}] /\ shown' \in [Agent -> Nat \cup {None}]
    BY <1>13, Constants DEF TypeOK, LockIsExclusive, Chunk, WriteFails, Fault, EndAttempt, files
  <2>4. leftover' \subseteq Leftover
    BY <1>13, Constants DEF TypeOK, Leftover, WriteFails, Fault, EndAttempt, files
  <2>5. overtaken' \in BOOLEAN
    BY <1>13, Zenon DEF TypeOK, Leftover, WriteFails, Fault, EndAttempt, files
  <2>6. QED
    BY <2>1, <2>2, <2>3, <2>4, <2>5 DEF TypeOK, Leftover
<1>14. ASSUME NEW a \in Agent, Interrupted(a) PROVE TypeOK' /\ leftover' \subseteq Leftover
  <2>1. /\ version' \in Version /\ lock' \in Agent \cup {None}
        /\ pc' \in [Agent -> Places] /\ offset' \in [Agent -> Nat]
        /\ writing' \in [Agent -> Chunk \cup {None}] /\ faults' \in 0 .. MaxFaults
    BY <1>14, Constants, PartialChunks DEF TypeOK, LockIsExclusive, Places, Version,
       Interrupted, Fault, EndAttempt, files
  <2>2. /\ final' \in Seq(Chunk) \cup {None} /\ partial' \in Seq(Chunk) \cup {None}
    BY <1>14, PartialChunks DEF TypeOK, Interrupted, Fault, EndAttempt, files
  <2>3. /\ body' \in [Agent -> Chunk \cup {None}] /\ shown' \in [Agent -> Nat \cup {None}]
    BY <1>14, Constants DEF TypeOK, LockIsExclusive, Chunk, Interrupted, Fault, EndAttempt, files
  <2>4. leftover' \subseteq Leftover
    <3>1. SUFFICES ASSUME NEW v \in leftover', v \notin leftover PROVE v \in Leftover
      OBVIOUS
    <3>2. PICK c \in {writing[a]} \ {None} :
             v = [chunk |-> c, by |-> a, id |-> faults, file |-> "partial", stale |-> FALSE]
      BY <1>14, <3>1 DEF Interrupted
    <3>3. c \in Chunk /\ faults \in Nat
      BY <3>2, Constants DEF TypeOK
    <3>4. QED
      BY <3>2, <3>3 DEF Leftover
  <2>5. overtaken' \in BOOLEAN
    BY <1>14, Zenon DEF TypeOK, Leftover, Interrupted, Fault, EndAttempt, files
  <2>6. QED
    BY <2>1, <2>2, <2>3, <2>4, <2>5 DEF TypeOK, Leftover
<1>15. ASSUME NEW a \in Agent, Crash(a) PROVE TypeOK' /\ leftover' \subseteq Leftover
  <2>1. /\ version' \in Version /\ lock' \in Agent \cup {None}
        /\ pc' \in [Agent -> Places] /\ offset' \in [Agent -> Nat]
        /\ writing' \in [Agent -> Chunk \cup {None}] /\ faults' \in 0 .. MaxFaults
    BY <1>15, Constants, PartialChunks DEF TypeOK, LockIsExclusive, Places, Version,
       Crash, Fault, EndAttempt, files
  <2>2. /\ final' \in Seq(Chunk) \cup {None} /\ partial' \in Seq(Chunk) \cup {None}
    BY <1>15, PartialChunks DEF TypeOK, Crash, Fault, EndAttempt, files
  <2>3. /\ body' \in [Agent -> Chunk \cup {None}] /\ shown' \in [Agent -> Nat \cup {None}]
    BY <1>15, Constants DEF TypeOK, LockIsExclusive, Chunk, Crash, Fault, EndAttempt, files
  <2>4. leftover' \subseteq Leftover
    BY <1>15, Constants DEF TypeOK, Leftover, Crash, Fault, EndAttempt, files
  <2>5. overtaken' \in BOOLEAN
    BY <1>15, Zenon DEF TypeOK, Leftover, Crash, Fault, EndAttempt, files
  <2>6. QED
    BY <2>1, <2>2, <2>3, <2>4, <2>5 DEF TypeOK, Leftover
<1>16. ASSUME NEW a \in Agent, Cancel(a) PROVE TypeOK' /\ leftover' \subseteq Leftover
  <2>1. /\ version' \in Version /\ lock' \in Agent \cup {None}
        /\ pc' \in [Agent -> Places] /\ offset' \in [Agent -> Nat]
        /\ writing' \in [Agent -> Chunk \cup {None}] /\ faults' \in 0 .. MaxFaults
    BY <1>16, Constants, PartialChunks DEF TypeOK, LockIsExclusive, Places, Version,
       Cancel, EndAttempt, files
  <2>2. /\ final' \in Seq(Chunk) \cup {None} /\ partial' \in Seq(Chunk) \cup {None}
    BY <1>16, PartialChunks DEF TypeOK, Cancel, EndAttempt, files
  <2>3. /\ body' \in [Agent -> Chunk \cup {None}] /\ shown' \in [Agent -> Nat \cup {None}]
    BY <1>16, Constants DEF TypeOK, LockIsExclusive, Chunk, Cancel, EndAttempt, files
  <2>4. leftover' \subseteq Leftover
    BY <1>16, Constants DEF TypeOK, Leftover, Cancel, EndAttempt, files
  <2>5. overtaken' \in BOOLEAN
    BY <1>16, Zenon DEF TypeOK, Leftover, Cancel, EndAttempt, files
  <2>6. QED
    BY <2>1, <2>2, <2>3, <2>4, <2>5 DEF TypeOK, Leftover
<1>17. ASSUME NEW w \in leftover, FinishLeftover(w) PROVE TypeOK' /\ leftover' \subseteq Leftover
  <2>1. /\ version' \in Version /\ lock' \in Agent \cup {None}
        /\ pc' \in [Agent -> Places] /\ offset' \in [Agent -> Nat]
        /\ writing' \in [Agent -> Chunk \cup {None}] /\ faults' \in 0 .. MaxFaults
    BY <1>17, Constants, PartialChunks DEF TypeOK, LockIsExclusive, Places, Version,
       FinishLeftover
  <2>2. /\ final' \in Seq(Chunk) \cup {None} /\ partial' \in Seq(Chunk) \cup {None}
    <3>1. w.chunk \in Chunk
      BY <1>17 DEF Leftover
    <3>2. Chunks(partial) \in Seq(Chunk) /\ Chunks(final) \in Seq(Chunk)
      BY PartialChunks DEF TypeOK
    <3>3. CASE partial' = Append(Chunks(partial), w.chunk) /\ UNCHANGED final
      BY <3>1, <3>2, <3>3 DEF TypeOK
    <3>4. CASE final' = Append(Chunks(final), w.chunk) /\ UNCHANGED partial
      BY <3>1, <3>2, <3>4 DEF TypeOK
    <3>5. QED
      BY <1>17, <3>3, <3>4 DEF FinishLeftover
  <2>3. /\ body' \in [Agent -> Chunk \cup {None}] /\ shown' \in [Agent -> Nat \cup {None}]
    BY <1>17, Constants DEF TypeOK, LockIsExclusive, Chunk, FinishLeftover
  <2>4. leftover' \subseteq Leftover
    BY <1>17, Constants DEF TypeOK, Leftover, FinishLeftover
  <2>5. overtaken' \in BOOLEAN
    BY <1>17, Zenon DEF TypeOK, Leftover, FinishLeftover
  <2>6. QED
    BY <2>1, <2>2, <2>3, <2>4, <2>5 DEF TypeOK, Leftover
<1>18. CASE Publish
  <2>1. /\ version' \in Version /\ lock' \in Agent \cup {None}
        /\ pc' \in [Agent -> Places] /\ offset' \in [Agent -> Nat]
        /\ writing' \in [Agent -> Chunk \cup {None}] /\ faults' \in 0 .. MaxFaults
    BY <1>18, Constants, PartialChunks DEF TypeOK, LockIsExclusive, Places, Version,
       Publish, files
  <2>2. /\ final' \in Seq(Chunk) \cup {None} /\ partial' \in Seq(Chunk) \cup {None}
    BY <1>18, PartialChunks DEF TypeOK, Publish, files
  <2>3. /\ body' \in [Agent -> Chunk \cup {None}] /\ shown' \in [Agent -> Nat \cup {None}]
    BY <1>18, Constants DEF TypeOK, LockIsExclusive, Chunk, Publish, files
  <2>4. leftover' \subseteq Leftover
    BY <1>18, Constants DEF TypeOK, Leftover, Publish, files
  <2>5. overtaken' \in BOOLEAN
    BY <1>18, Zenon DEF TypeOK, Leftover, Publish, files
  <2>6. QED
    BY <2>1, <2>2, <2>3, <2>4, <2>5 DEF TypeOK, Leftover
<1>19. CASE UNCHANGED vars
  <2>1. /\ version' \in Version /\ lock' \in Agent \cup {None}
        /\ pc' \in [Agent -> Places] /\ offset' \in [Agent -> Nat]
        /\ writing' \in [Agent -> Chunk \cup {None}] /\ faults' \in 0 .. MaxFaults
    BY <1>19, Constants, PartialChunks DEF TypeOK, LockIsExclusive, Places, Version,
       vars, files
  <2>2. /\ final' \in Seq(Chunk) \cup {None} /\ partial' \in Seq(Chunk) \cup {None}
    BY <1>19, PartialChunks DEF TypeOK, vars, files
  <2>3. /\ body' \in [Agent -> Chunk \cup {None}] /\ shown' \in [Agent -> Nat \cup {None}]
    BY <1>19, Constants DEF TypeOK, LockIsExclusive, Chunk, vars, files
  <2>4. leftover' \subseteq Leftover
    BY <1>19, Constants DEF TypeOK, Leftover, vars, files
  <2>5. overtaken' \in BOOLEAN
    BY <1>19, Zenon DEF TypeOK, Leftover, vars, files
  <2>6. QED
    BY <2>1, <2>2, <2>3, <2>4, <2>5 DEF TypeOK, Leftover
<1>20. QED
  BY <1>1, <1>2, <1>3, <1>4, <1>5, <1>6, <1>7, <1>8, <1>9, <1>10, <1>11, <1>12, <1>13,
     <1>14, <1>15, <1>16, <1>17, <1>18, <1>19
  DEF Next, AgentStep, Failure

\* A step keeps the lock with the one attempt that works on the file (lock_or_fail).
LEMMA LockStep ==
      ASSUME TypeOK,
             LockIsExclusive,
             TypeOK', [Next]_vars
      PROVE  LockIsExclusive'
<1>1. ASSUME NEW a \in Agent, IsCached(a) PROVE LockIsExclusive'
  BY <1>1, Constants DEF TypeOK, LockIsExclusive, Places, IsCached, files
<1>2. ASSUME NEW a \in Agent, TryAcquireDownloadLock(a) PROVE LockIsExclusive'
  <2>1. CASE lock = None
    BY <1>2, <2>1, Constants DEF TypeOK, LockIsExclusive, TryAcquireDownloadLock, EndAttempt, files
  <2>2. CASE lock # None
    <3>1. EndAttempt(a, "idle", None)
      BY <1>2, <2>2 DEF TryAcquireDownloadLock
    <3>2. QED
      BY <3>1, Constants DEF TypeOK, LockIsExclusive, EndAttempt
  <2>3. QED
    BY <2>1, <2>2
<1>3. ASSUME NEW a \in Agent, CurrentSize(a) PROVE LockIsExclusive'
  BY <1>3, Constants DEF TypeOK, LockIsExclusive, Places, CurrentSize, files
<1>4. ASSUME NEW a \in Agent, StreamFromOffset(a) PROVE LockIsExclusive'
  <2>1. body'[a] \in Chunk /\ shown'[a] \in Nat
    BY <1>4, Constants DEF TypeOK, LockIsExclusive, Chunk, StreamFromOffset, StartStream
  <2>2. QED
    BY <1>4, <2>1, Constants DEF TypeOK, LockIsExclusive, StreamFromOffset, StartStream
<1>5. ASSUME NEW a \in Agent, StreamFromStartIgnoringRange(a) PROVE LockIsExclusive'
  <2>1. body'[a] \in Chunk /\ shown'[a] \in Nat
    BY <1>5, Constants DEF TypeOK, LockIsExclusive, Chunk, StreamFromStartIgnoringRange, StartStream
  <2>2. QED
    BY <1>5, <2>1, Constants DEF TypeOK, LockIsExclusive, StreamFromStartIgnoringRange, StartStream
<1>6. ASSUME NEW a \in Agent, PartialFileStale(a) PROVE LockIsExclusive'
  BY <1>6, Constants DEF TypeOK, LockIsExclusive, Places, PartialFileStale, Remove, EndAttempt
<1>7. ASSUME NEW a \in Agent, ReceiveChunk(a) PROVE LockIsExclusive'
  <2>1. body'[a] \in Chunk /\ shown'[a] \in Nat
    BY <1>7, Constants DEF TypeOK, LockIsExclusive, Chunk, ReceiveChunk, files
  <2>2. QED
    BY <1>7, <2>1, Constants DEF TypeOK, LockIsExclusive, ReceiveChunk, files
<1>8. ASSUME NEW a \in Agent, FinishWrite(a) PROVE LockIsExclusive'
  BY <1>8, Constants DEF TypeOK, LockIsExclusive, Places, FinishWrite
<1>9. ASSUME NEW a \in Agent, Finalize(a) PROVE LockIsExclusive'
  BY <1>9, Constants DEF TypeOK, LockIsExclusive, Places, Finalize, Rename, EndAttempt
<1>10. ASSUME NEW a \in Agent, MismatchedRange(a) PROVE LockIsExclusive'
  BY <1>10, Constants DEF TypeOK, LockIsExclusive, Places, MismatchedRange, Fault, Remove, EndAttempt
<1>11. ASSUME NEW a \in Agent, RequestFails(a) PROVE LockIsExclusive'
  BY <1>11, Constants DEF TypeOK, LockIsExclusive, Places, RequestFails, Fault, EndAttempt, files
<1>12. ASSUME NEW a \in Agent, CacheFails(a) PROVE LockIsExclusive'
  BY <1>12, Constants DEF TypeOK, LockIsExclusive, Places, CacheFails, Fault, EndAttempt, files
<1>13. ASSUME NEW a \in Agent, WriteFails(a) PROVE LockIsExclusive'
  BY <1>13, Constants DEF TypeOK, LockIsExclusive, Places, WriteFails, Fault, EndAttempt, files
<1>14. ASSUME NEW a \in Agent, Interrupted(a) PROVE LockIsExclusive'
  BY <1>14, Constants DEF TypeOK, LockIsExclusive, Places, Interrupted, Fault, EndAttempt, files
<1>15. ASSUME NEW a \in Agent, Crash(a) PROVE LockIsExclusive'
  BY <1>15, Constants DEF TypeOK, LockIsExclusive, Places, Crash, Fault, EndAttempt, files
<1>16. ASSUME NEW a \in Agent, Cancel(a) PROVE LockIsExclusive'
  BY <1>16, Constants DEF TypeOK, LockIsExclusive, Places, Cancel, EndAttempt, files
<1>17. ASSUME NEW w \in leftover, FinishLeftover(w) PROVE LockIsExclusive'
  BY <1>17, Constants DEF TypeOK, LockIsExclusive, Places, FinishLeftover
<1>18. CASE Publish
  BY <1>18, Constants DEF TypeOK, LockIsExclusive, Places, Publish, files
<1>19. CASE UNCHANGED vars
  BY <1>19, Constants DEF TypeOK, LockIsExclusive, Places, vars, files
<1>20. QED
  BY <1>1, <1>2, <1>3, <1>4, <1>5, <1>6, <1>7, <1>8, <1>9, <1>10, <1>11, <1>12, <1>13,
     <1>14, <1>15, <1>16, <1>17, <1>18, <1>19
  DEF Next, AgentStep, Failure

\* A step leaves at most one write that no measurement has missed.
LEMMA AloneStep ==
      ASSUME TypeOK,
             leftover \subseteq Leftover,
             LockIsExclusive,
             LeftoverIsAlone,
             TypeOK', [Next]_vars
      PROVE  LeftoverIsAlone'
<1>1. ASSUME NEW a \in Agent, IsCached(a) PROVE LeftoverIsAlone'
  BY <1>1, Constants DEF TypeOK, Leftover, LockIsExclusive, LeftoverIsAlone, IsCached, files
<1>2. ASSUME NEW a \in Agent, TryAcquireDownloadLock(a) PROVE LeftoverIsAlone'
  BY <1>2, Constants DEF TypeOK, Leftover, LockIsExclusive, LeftoverIsAlone, TryAcquireDownloadLock, EndAttempt, files
<1>3. ASSUME NEW a \in Agent, CurrentSize(a) PROVE LeftoverIsAlone'
  <2>1. SUFFICES ASSUME NEW v \in leftover', ~v.stale PROVE FALSE
    BY DEF LeftoverIsAlone
  <2>2. PICK w \in leftover : v = [w EXCEPT !.stale = TRUE]
    BY <1>3, <2>1 DEF CurrentSize
  <2>3. QED
    BY <2>1, <2>2 DEF Leftover
<1>4. ASSUME NEW a \in Agent, StreamFromOffset(a) PROVE LeftoverIsAlone'
  BY <1>4, Constants DEF TypeOK, Leftover, LockIsExclusive, LeftoverIsAlone, StreamFromOffset, StartStream
<1>5. ASSUME NEW a \in Agent, StreamFromStartIgnoringRange(a) PROVE LeftoverIsAlone'
  BY <1>5, Constants DEF TypeOK, Leftover, LockIsExclusive, LeftoverIsAlone, StreamFromStartIgnoringRange, StartStream
<1>6. ASSUME NEW a \in Agent, PartialFileStale(a) PROVE LeftoverIsAlone'
  BY <1>6, Constants DEF TypeOK, Leftover, LockIsExclusive, LeftoverIsAlone, PartialFileStale, Remove, EndAttempt
<1>7. ASSUME NEW a \in Agent, ReceiveChunk(a) PROVE LeftoverIsAlone'
  BY <1>7, Constants DEF TypeOK, Leftover, LockIsExclusive, LeftoverIsAlone, ReceiveChunk, files
<1>8. ASSUME NEW a \in Agent, FinishWrite(a) PROVE LeftoverIsAlone'
  BY <1>8, Constants DEF TypeOK, Leftover, LockIsExclusive, LeftoverIsAlone, FinishWrite
<1>9. ASSUME NEW a \in Agent, Finalize(a) PROVE LeftoverIsAlone'
  <2>1. SUFFICES ASSUME NEW v \in leftover', ~v.stale PROVE FALSE
    BY DEF LeftoverIsAlone
  <2>2. PICK w \in leftover : v = [w EXCEPT !.file = "final"]
    BY <1>9, <2>1 DEF Finalize, Rename
  <2>3. ~w.stale
    BY <2>1, <2>2 DEF Leftover
  <2>4. QED
    BY <1>9, <2>3 DEF LeftoverIsAlone, Finalize
<1>10. ASSUME NEW a \in Agent, MismatchedRange(a) PROVE LeftoverIsAlone'
  BY <1>10, Constants DEF TypeOK, Leftover, LockIsExclusive, LeftoverIsAlone, MismatchedRange, Fault, Remove, EndAttempt
<1>11. ASSUME NEW a \in Agent, RequestFails(a) PROVE LeftoverIsAlone'
  BY <1>11, Constants DEF TypeOK, Leftover, LockIsExclusive, LeftoverIsAlone, RequestFails, Fault, EndAttempt, files
<1>12. ASSUME NEW a \in Agent, CacheFails(a) PROVE LeftoverIsAlone'
  BY <1>12, Constants DEF TypeOK, Leftover, LockIsExclusive, LeftoverIsAlone, CacheFails, Fault, EndAttempt, files
<1>13. ASSUME NEW a \in Agent, WriteFails(a) PROVE LeftoverIsAlone'
  BY <1>13, Constants DEF TypeOK, Leftover, LockIsExclusive, LeftoverIsAlone, WriteFails, Fault, EndAttempt, files
<1>14. ASSUME NEW a \in Agent, Interrupted(a) PROVE LeftoverIsAlone'
  <2>1. \A w \in leftover : w.stale
    BY <1>14 DEF LeftoverIsAlone, Interrupted
  <2>2. \A b \in Agent : pc'[b] \notin {"requested", "streaming"}
    BY <1>14 DEF TypeOK, LockIsExclusive, Interrupted, EndAttempt
  <2>3. \A v \in leftover' : ~v.stale =>
           v = [chunk |-> writing[a], by |-> a, id |-> faults, file |-> "partial", stale |-> FALSE]
    <3>1. SUFFICES ASSUME NEW v \in leftover', v \notin leftover
                   PROVE  v = [chunk |-> writing[a], by |-> a, id |-> faults,
                               file |-> "partial", stale |-> FALSE]
      BY <2>1
    <3>2. PICK c \in {writing[a]} \ {None} :
             v = [chunk |-> c, by |-> a, id |-> faults, file |-> "partial", stale |-> FALSE]
      BY <1>14, <3>1 DEF Interrupted
    <3>3. QED
      BY <3>2
  <2>4. \A v \in leftover' : ~v.stale => v.file = "partial"
    BY <2>3
  <2>5. \A v, w \in leftover' : ~v.stale /\ ~w.stale => v = w
    BY <2>3
  <2>6. QED
    BY <2>2, <2>4, <2>5 DEF LeftoverIsAlone
<1>15. ASSUME NEW a \in Agent, Crash(a) PROVE LeftoverIsAlone'
  BY <1>15, Constants DEF TypeOK, Leftover, LockIsExclusive, LeftoverIsAlone, Crash, Fault, EndAttempt, files
<1>16. ASSUME NEW a \in Agent, Cancel(a) PROVE LeftoverIsAlone'
  BY <1>16, Constants DEF TypeOK, Leftover, LockIsExclusive, LeftoverIsAlone, Cancel, EndAttempt, files
<1>17. ASSUME NEW w \in leftover, FinishLeftover(w) PROVE LeftoverIsAlone'
  BY <1>17, Constants DEF TypeOK, Leftover, LockIsExclusive, LeftoverIsAlone, FinishLeftover
<1>18. CASE Publish
  BY <1>18, Constants DEF TypeOK, Leftover, LockIsExclusive, LeftoverIsAlone, Publish, files
<1>19. CASE UNCHANGED vars
  BY <1>19, Constants DEF TypeOK, Leftover, LockIsExclusive, LeftoverIsAlone, vars, files
<1>20. QED
  BY <1>1, <1>2, <1>3, <1>4, <1>5, <1>6, <1>7, <1>8, <1>9, <1>10, <1>11, <1>12, <1>13,
     <1>14, <1>15, <1>16, <1>17, <1>18, <1>19
  DEF Next, AgentStep, Failure

\* A step continues the file where it ends: the holder of the lock writes the next
\* chunk and no other, and a write that lands late is that chunk as well.
LEMMA StreamStep ==
      ASSUME TypeOK,
             leftover \subseteq Leftover,
             LockIsExclusive,
             LeftoverIsAlone,
             StreamContinues,
             LeftoverContinues,
             ~overtaken', [Next]_vars
      PROVE  StreamContinues'
<1>1. ASSUME NEW a \in Agent, IsCached(a) PROVE StreamContinues'
  BY <1>1, Constants, PartialChunks DEF TypeOK, LockIsExclusive, StreamContinues, IsCached, files
<1>2. ASSUME NEW a \in Agent, TryAcquireDownloadLock(a) PROVE StreamContinues'
  <2>1. CASE lock = None
    BY <1>2, <2>1, Constants DEF TypeOK, LockIsExclusive, StreamContinues, TryAcquireDownloadLock, EndAttempt, files
  <2>2. CASE lock # None
    <3>1. EndAttempt(a, "idle", None) /\ partial' = partial
      BY <1>2, <2>2 DEF TryAcquireDownloadLock, files
    <3>2. QED
      BY <3>1 DEF TypeOK, StreamContinues, EndAttempt
  <2>3. QED
    BY <2>1, <2>2
<1>3. ASSUME NEW a \in Agent, CurrentSize(a) PROVE StreamContinues'
  BY <1>3, Constants, PartialChunks DEF TypeOK, LockIsExclusive, StreamContinues, CurrentSize, files
<1>4. ASSUME NEW a \in Agent, StreamFromOffset(a) PROVE StreamContinues'
  <2>1. Chunks(partial') = Chunks(partial)
    BY <1>4, Constants, PartialChunks DEF Chunks, TypeOK, StreamFromOffset, StartStream
  <2>2. Len(Chunks(partial')) = offset[a] /\ InPlace(Chunks(partial'))
    BY <1>4, <2>1, PartialChunks DEF TypeOK, InPlace, StreamContinues, StreamFromOffset
  <2>3. /\ pc'[a] = "streaming" /\ writing'[a] = None /\ shown'[a] = offset[a]
        /\ body'[a].index = offset[a] + 1 /\ body'[a].version = version
    BY <1>4 DEF TypeOK, LockIsExclusive, StreamFromOffset, StartStream
  <2>4. Length[version] \in Nat \ {0} /\ offset[a] \in Nat /\ offset[a] < Length[version]
    BY <1>4, Constants DEF TypeOK, StreamFromOffset
  <2>5. \A b \in Agent : b # a => pc'[b] \notin {"requested", "streaming"}
    BY <1>4 DEF TypeOK, LockIsExclusive, StreamFromOffset, StartStream
  <2>6. QED
    BY <2>2, <2>3, <2>4, <2>5 DEF StreamContinues
<1>5. ASSUME NEW a \in Agent, StreamFromStartIgnoringRange(a) PROVE StreamContinues'
  <2>1. Chunks(partial') = <<>>
    BY <1>5, Constants, PartialChunks DEF Chunks, TypeOK, StreamFromStartIgnoringRange, StartStream
  <2>2. Len(Chunks(partial')) = 0 /\ InPlace(Chunks(partial'))
    BY <1>5, <2>1, PartialChunks DEF TypeOK, InPlace, StreamContinues, StreamFromStartIgnoringRange
  <2>3. /\ pc'[a] = "streaming" /\ writing'[a] = None /\ shown'[a] = 0
        /\ body'[a].index = 0 + 1 /\ body'[a].version = version
    BY <1>5 DEF TypeOK, LockIsExclusive, StreamFromStartIgnoringRange, StartStream
  <2>4. Length[version] \in Nat \ {0} /\ 0 \in Nat /\ 0 < Length[version]
    BY <1>5, Constants DEF TypeOK, StreamFromStartIgnoringRange
  <2>5. \A b \in Agent : b # a => pc'[b] \notin {"requested", "streaming"}
    BY <1>5 DEF TypeOK, LockIsExclusive, StreamFromStartIgnoringRange, StartStream
  <2>6. QED
    BY <2>2, <2>3, <2>4, <2>5 DEF StreamContinues
<1>6. ASSUME NEW a \in Agent, PartialFileStale(a) PROVE StreamContinues'
  <2>1. Chunks(partial') = <<>>
    BY <1>6 DEF Chunks, PartialFileStale, Remove, EndAttempt
  <2>2. Len(Chunks(partial')) = 0 /\ InPlace(Chunks(partial'))
    BY <2>1 DEF InPlace
  <2>3. \A b \in Agent : pc'[b] \notin {"requested", "streaming"}
    BY <1>6 DEF TypeOK, LockIsExclusive, PartialFileStale, Remove, EndAttempt
  <2>4. QED
    BY <2>2, <2>3 DEF StreamContinues
<1>7. ASSUME NEW a \in Agent, ReceiveChunk(a) PROVE StreamContinues'
  <2>1. /\ body[a] \in Chunk /\ body[a].version \in Version /\ body[a].index \in Nat
        /\ shown[a] \in Nat /\ Length[body[a].version] \in Nat
        /\ body[a].index <= Length[body[a].version] /\ writing[a] = None
    BY <1>7, Constants DEF LockIsExclusive, Chunk, ReceiveChunk
  <2>2. /\ body[a].index = Len(Chunks(partial)) + 1 /\ shown[a] = body[a].index - 1
        /\ Len(Chunks(partial)) \in Nat
    BY <1>7, <2>1, PartialChunks DEF TypeOK, StreamContinues, ReceiveChunk
  <2>3. /\ writing'[a] = body[a] /\ writing'[a] # None /\ body'[a].version = body[a].version
        /\ body'[a].index = body[a].index + 1 /\ shown'[a] = shown[a] + 1
    BY <1>7, <2>1, Constants DEF TypeOK, Chunk, ReceiveChunk
  <2>4. \A b \in Agent : b # a => pc'[b] \notin {"requested", "streaming"}
    BY <1>7 DEF TypeOK, LockIsExclusive, ReceiveChunk
  <2>5. InPlace(Chunks(partial')) /\ partial' = partial /\ pc'[a] = "streaming"
    BY <1>7 DEF StreamContinues, ReceiveChunk, files
  <2>6. QED
    BY <2>1, <2>2, <2>3, <2>4, <2>5 DEF StreamContinues
<1>8. ASSUME NEW a \in Agent, FinishWrite(a) PROVE StreamContinues'
  <2>1. /\ writing[a] \in Chunk /\ pc[a] = "streaming"
        /\ Chunks(partial) \in Seq(Chunk) /\ Len(Chunks(partial)) \in Nat
    BY <1>8, PartialChunks DEF TypeOK, LockIsExclusive, FinishWrite
  <2>2. /\ writing[a].index = Len(Chunks(partial)) + 1
        /\ body[a].index = Len(Chunks(partial)) + 2
        /\ InPlace(Chunks(partial))
    BY <1>8, <2>1 DEF StreamContinues, FinishWrite
  <2>3. Chunks(partial') = Append(Chunks(partial), writing[a])
    <3>1. partial' = Append(Chunks(partial), writing[a]) /\ partial' \in Seq(Chunk)
      BY <1>8, <2>1 DEF FinishWrite
    <3>2. QED
      BY <3>1, Constants DEF Chunks
  <2>4. InPlace(Chunks(partial'))
    BY <2>1, <2>2, <2>3, AppendInPlace
  <2>5. /\ Len(Chunks(partial')) = Len(Chunks(partial)) + 1
        /\ Chunks(partial')[Len(Chunks(partial'))] = writing[a]
    BY <2>1, <2>3
  <2>6. \A b \in Agent : b # a => pc'[b] \notin {"requested", "streaming"}
    BY <1>8, <2>1 DEF LockIsExclusive, FinishWrite
  <2>7. writing'[a] = None /\ body' = body /\ shown' = shown /\ pc'[a] = "streaming"
    BY <1>8, <2>1 DEF TypeOK, FinishWrite
  <2>8. QED
    BY <1>8, <2>1, <2>2, <2>4, <2>5, <2>6, <2>7 DEF StreamContinues, FinishWrite
<1>9. ASSUME NEW a \in Agent, Finalize(a) PROVE StreamContinues'
  <2>1. Chunks(partial') = <<>>
    BY <1>9 DEF Chunks, Finalize, Rename, EndAttempt
  <2>2. Len(Chunks(partial')) = 0 /\ InPlace(Chunks(partial'))
    BY <2>1 DEF InPlace
  <2>3. \A b \in Agent : pc'[b] \notin {"requested", "streaming"}
    BY <1>9 DEF TypeOK, LockIsExclusive, Finalize, Rename, EndAttempt
  <2>4. QED
    BY <2>2, <2>3 DEF StreamContinues
<1>10. ASSUME NEW a \in Agent, MismatchedRange(a) PROVE StreamContinues'
  <2>1. Chunks(partial') = <<>>
    BY <1>10 DEF Chunks, MismatchedRange, Fault, Remove, EndAttempt
  <2>2. Len(Chunks(partial')) = 0 /\ InPlace(Chunks(partial'))
    BY <2>1 DEF InPlace
  <2>3. \A b \in Agent : pc'[b] \notin {"requested", "streaming"}
    BY <1>10 DEF TypeOK, LockIsExclusive, MismatchedRange, Fault, Remove, EndAttempt
  <2>4. QED
    BY <2>2, <2>3 DEF StreamContinues
<1>11. ASSUME NEW a \in Agent, RequestFails(a) PROVE StreamContinues'
  BY <1>11, Constants, PartialChunks DEF TypeOK, LockIsExclusive, StreamContinues, RequestFails, Fault, EndAttempt, files
<1>12. ASSUME NEW a \in Agent, CacheFails(a) PROVE StreamContinues'
  BY <1>12, Constants, PartialChunks DEF TypeOK, LockIsExclusive, StreamContinues, CacheFails, Fault, EndAttempt, files
<1>13. ASSUME NEW a \in Agent, WriteFails(a) PROVE StreamContinues'
  BY <1>13, Constants, PartialChunks DEF TypeOK, LockIsExclusive, StreamContinues, WriteFails, Fault, EndAttempt, files
<1>14. ASSUME NEW a \in Agent, Interrupted(a) PROVE StreamContinues'
  BY <1>14, Constants, PartialChunks DEF TypeOK, LockIsExclusive, StreamContinues, Interrupted, Fault, EndAttempt, files
<1>15. ASSUME NEW a \in Agent, Crash(a) PROVE StreamContinues'
  BY <1>15, Constants, PartialChunks DEF TypeOK, LockIsExclusive, StreamContinues, Crash, Fault, EndAttempt, files
<1>16. ASSUME NEW a \in Agent, Cancel(a) PROVE StreamContinues'
  BY <1>16, Constants, PartialChunks DEF TypeOK, LockIsExclusive, StreamContinues, Cancel, EndAttempt, files
<1>17. ASSUME NEW w \in leftover, FinishLeftover(w) PROVE StreamContinues'
  <2>1. /\ ~w.stale /\ w.file = "partial" /\ w.chunk \in Chunk
        /\ \A b \in Agent : pc'[b] \notin {"requested", "streaming"}
    BY <1>17 DEF LeftoverIsAlone, Leftover, FinishLeftover
  <2>2. Chunks(partial) \in Seq(Chunk) /\ InPlace(Chunks(partial))
    BY PartialChunks DEF TypeOK, StreamContinues
  <2>3. Chunks(partial') = Append(Chunks(partial), w.chunk)
    BY <1>17, <2>1, <2>2, Constants DEF Chunks, FinishLeftover
  <2>4. InPlace(Chunks(partial'))
    BY <2>1, <2>2, <2>3, AppendInPlace DEF LeftoverContinues
  <2>5. QED
    BY <2>1, <2>4 DEF StreamContinues
<1>18. CASE Publish
  BY <1>18, Constants, PartialChunks DEF TypeOK, LockIsExclusive, StreamContinues, Publish, files
<1>19. CASE UNCHANGED vars
  BY <1>19, Constants, PartialChunks DEF TypeOK, LockIsExclusive, StreamContinues, vars, files
<1>20. QED
  BY <1>1, <1>2, <1>3, <1>4, <1>5, <1>6, <1>7, <1>8, <1>9, <1>10, <1>11, <1>12, <1>13,
     <1>14, <1>15, <1>16, <1>17, <1>18, <1>19
  DEF Next, AgentStep, Failure

\* A step keeps the write that may land late next in the file's order.
LEMMA LeftoverStep ==
      ASSUME TypeOK,
             leftover \subseteq Leftover,
             LockIsExclusive,
             LeftoverIsAlone,
             StreamContinues,
             LeftoverContinues,
             ~overtaken', [Next]_vars
      PROVE  LeftoverContinues'
<1>1. ASSUME NEW a \in Agent, IsCached(a) PROVE LeftoverContinues'
  BY <1>1 DEF LeftoverContinues, IsCached, files
<1>2. ASSUME NEW a \in Agent, TryAcquireDownloadLock(a) PROVE LeftoverContinues'
  BY <1>2 DEF LeftoverContinues, TryAcquireDownloadLock, EndAttempt, files
<1>3. ASSUME NEW a \in Agent, CurrentSize(a) PROVE LeftoverContinues'
  <2>1. SUFFICES ASSUME NEW v \in leftover', ~v.stale PROVE FALSE
    BY DEF LeftoverContinues
  <2>2. PICK w \in leftover : v = [w EXCEPT !.stale = TRUE]
    BY <1>3, <2>1 DEF CurrentSize
  <2>3. QED
    BY <2>1, <2>2 DEF Leftover
<1>4. ASSUME NEW a \in Agent, StreamFromOffset(a) PROVE LeftoverContinues'
  <2>1. \A v \in leftover' : v \in leftover /\ v.stale
    BY <1>4 DEF LeftoverIsAlone, LockIsExclusive, StreamFromOffset, StartStream
  <2>2. QED
    BY <2>1 DEF LeftoverContinues
<1>5. ASSUME NEW a \in Agent, StreamFromStartIgnoringRange(a) PROVE LeftoverContinues'
  <2>1. \A v \in leftover' : v \in leftover /\ v.stale
    BY <1>5 DEF LeftoverIsAlone, LockIsExclusive, StreamFromStartIgnoringRange, StartStream
  <2>2. QED
    BY <2>1 DEF LeftoverContinues
<1>6. ASSUME NEW a \in Agent, PartialFileStale(a) PROVE LeftoverContinues'
  <2>1. \A v \in leftover' : v \in leftover /\ v.stale
    BY <1>6 DEF LeftoverIsAlone, LockIsExclusive, PartialFileStale, Remove, EndAttempt
  <2>2. QED
    BY <2>1 DEF LeftoverContinues
<1>7. ASSUME NEW a \in Agent, ReceiveChunk(a) PROVE LeftoverContinues'
  BY <1>7 DEF LeftoverContinues, ReceiveChunk, files
<1>8. ASSUME NEW a \in Agent, FinishWrite(a) PROVE LeftoverContinues'
  <2>1. \A v \in leftover' : v \in leftover /\ v.stale
    BY <1>8 DEF LeftoverIsAlone, LockIsExclusive, FinishWrite
  <2>2. QED
    BY <2>1 DEF LeftoverContinues
<1>9. ASSUME NEW a \in Agent, Finalize(a) PROVE LeftoverContinues'
  <2>1. SUFFICES ASSUME NEW v \in leftover', ~v.stale PROVE FALSE
    BY DEF LeftoverContinues
  <2>2. PICK w \in leftover : v = [w EXCEPT !.file = "final"]
    BY <1>9, <2>1 DEF Finalize, Rename
  <2>3. ~w.stale
    BY <2>1, <2>2 DEF Leftover
  <2>4. QED
    BY <1>9, <2>3 DEF LeftoverIsAlone, Finalize
<1>10. ASSUME NEW a \in Agent, MismatchedRange(a) PROVE LeftoverContinues'
  <2>1. \A v \in leftover' : v \in leftover /\ v.stale
    BY <1>10 DEF LeftoverIsAlone, LockIsExclusive, MismatchedRange, Fault, Remove, EndAttempt
  <2>2. QED
    BY <2>1 DEF LeftoverContinues
<1>11. ASSUME NEW a \in Agent, RequestFails(a) PROVE LeftoverContinues'
  BY <1>11 DEF LeftoverContinues, RequestFails, Fault, EndAttempt, files
<1>12. ASSUME NEW a \in Agent, CacheFails(a) PROVE LeftoverContinues'
  BY <1>12 DEF LeftoverContinues, CacheFails, Fault, EndAttempt, files
<1>13. ASSUME NEW a \in Agent, WriteFails(a) PROVE LeftoverContinues'
  BY <1>13 DEF LeftoverContinues, WriteFails, Fault, EndAttempt, files
<1>14. ASSUME NEW a \in Agent, Interrupted(a) PROVE LeftoverContinues'
  <2>1. SUFFICES ASSUME NEW v \in leftover', ~v.stale
                 PROVE  v.chunk.index = Len(Chunks(partial)) + 1
    BY <1>14 DEF LeftoverContinues, Interrupted, files
  <2>2. v \notin leftover
    BY <1>14, <2>1 DEF LeftoverIsAlone, Interrupted
  <2>3. PICK c \in {writing[a]} \ {None} :
           v = [chunk |-> c, by |-> a, id |-> faults, file |-> "partial", stale |-> FALSE]
    BY <1>14, <2>2 DEF Interrupted
  <2>4. QED
    BY <1>14, <2>3 DEF StreamContinues, Interrupted
<1>15. ASSUME NEW a \in Agent, Crash(a) PROVE LeftoverContinues'
  BY <1>15 DEF LeftoverContinues, Crash, Fault, EndAttempt, files
<1>16. ASSUME NEW a \in Agent, Cancel(a) PROVE LeftoverContinues'
  BY <1>16 DEF LeftoverContinues, Cancel, EndAttempt, files
<1>17. ASSUME NEW w \in leftover, FinishLeftover(w) PROVE LeftoverContinues'
  <2>1. ~w.stale
    BY <1>17 DEF Leftover, FinishLeftover
  <2>2. \A v \in leftover' : v.stale
    BY <1>17, <2>1 DEF LeftoverIsAlone, FinishLeftover
  <2>3. QED
    BY <2>2 DEF LeftoverContinues
<1>18. CASE Publish
  BY <1>18 DEF LeftoverContinues, Publish, files
<1>19. CASE UNCHANGED vars
  BY <1>19 DEF LeftoverContinues, vars, files
<1>20. QED
  BY <1>1, <1>2, <1>3, <1>4, <1>5, <1>6, <1>7, <1>8, <1>9, <1>10, <1>11, <1>12, <1>13,
     <1>14, <1>15, <1>16, <1>17, <1>18, <1>19
  DEF Next, AgentStep, Failure

\* A step keeps the cached model whole: only a stream that has delivered every chunk
\* is renamed.
LEMMA WholeStep ==
      ASSUME TypeOK,
             leftover \subseteq Leftover,
             LockIsExclusive,
             LeftoverIsAlone,
             ~overtaken => StreamContinues,
             CachedModelIsWhole, [Next]_vars
      PROVE  CachedModelIsWhole'
<1>1. ASSUME NEW a \in Agent, IsCached(a) PROVE CachedModelIsWhole'
  BY <1>1 DEF CachedModelIsWhole, IsCached, files
<1>2. ASSUME NEW a \in Agent, TryAcquireDownloadLock(a) PROVE CachedModelIsWhole'
  BY <1>2 DEF CachedModelIsWhole, TryAcquireDownloadLock, EndAttempt, files
<1>3. ASSUME NEW a \in Agent, CurrentSize(a) PROVE CachedModelIsWhole'
  BY <1>3 DEF CachedModelIsWhole, CurrentSize, files
<1>4. ASSUME NEW a \in Agent, StreamFromOffset(a) PROVE CachedModelIsWhole'
  BY <1>4 DEF CachedModelIsWhole, StreamFromOffset, StartStream
<1>5. ASSUME NEW a \in Agent, StreamFromStartIgnoringRange(a) PROVE CachedModelIsWhole'
  BY <1>5 DEF CachedModelIsWhole, StreamFromStartIgnoringRange, StartStream
<1>6. ASSUME NEW a \in Agent, PartialFileStale(a) PROVE CachedModelIsWhole'
  BY <1>6 DEF CachedModelIsWhole, PartialFileStale, Remove, EndAttempt
<1>7. ASSUME NEW a \in Agent, ReceiveChunk(a) PROVE CachedModelIsWhole'
  BY <1>7 DEF CachedModelIsWhole, ReceiveChunk, files
<1>8. ASSUME NEW a \in Agent, FinishWrite(a) PROVE CachedModelIsWhole'
  BY <1>8 DEF CachedModelIsWhole, FinishWrite
<1>9. ASSUME NEW a \in Agent, Finalize(a) PROVE CachedModelIsWhole'
  <2>1. SUFFICES ASSUME ~overtaken', partial # None
                 PROVE  /\ InPlace(partial) /\ Len(partial) > 0
                        /\ Len(partial) = Length[partial[Len(partial)].version]
    BY <1>9 DEF CachedModelIsWhole, Finalize, Rename
  <2>2. Chunks(partial) = partial /\ StreamContinues
    BY <1>9, <2>1 DEF Chunks, Finalize
  <2>3. /\ body[a].index \in Nat /\ Length[body[a].version] \in Nat
        /\ body[a].index > Length[body[a].version] /\ writing[a] = None
    BY <1>9, Constants DEF LockIsExclusive, Chunk, Finalize
  <2>4. body[a].index <= Length[body[a].version] + 1 /\ body[a].index = Len(partial) + 1
    BY <1>9, <2>2, <2>3 DEF StreamContinues, Finalize
  <2>5. body[a].index = Length[body[a].version] + 1
    BY <2>3, <2>4
  <2>6. Len(partial) > 0 /\ partial[Len(partial)].version = body[a].version
    BY <1>9, <2>2, <2>3, <2>5 DEF StreamContinues, Finalize
  <2>7. Len(partial) \in Nat
    BY <2>1 DEF TypeOK
  <2>8. QED
    BY <2>2, <2>3, <2>4, <2>5, <2>6, <2>7 DEF StreamContinues
<1>10. ASSUME NEW a \in Agent, MismatchedRange(a) PROVE CachedModelIsWhole'
  BY <1>10 DEF CachedModelIsWhole, MismatchedRange, Fault, Remove, EndAttempt
<1>11. ASSUME NEW a \in Agent, RequestFails(a) PROVE CachedModelIsWhole'
  BY <1>11 DEF CachedModelIsWhole, RequestFails, Fault, EndAttempt, files
<1>12. ASSUME NEW a \in Agent, CacheFails(a) PROVE CachedModelIsWhole'
  BY <1>12 DEF CachedModelIsWhole, CacheFails, Fault, EndAttempt, files
<1>13. ASSUME NEW a \in Agent, WriteFails(a) PROVE CachedModelIsWhole'
  BY <1>13 DEF CachedModelIsWhole, WriteFails, Fault, EndAttempt, files
<1>14. ASSUME NEW a \in Agent, Interrupted(a) PROVE CachedModelIsWhole'
  BY <1>14 DEF CachedModelIsWhole, Interrupted, Fault, EndAttempt, files
<1>15. ASSUME NEW a \in Agent, Crash(a) PROVE CachedModelIsWhole'
  BY <1>15 DEF CachedModelIsWhole, Crash, Fault, EndAttempt, files
<1>16. ASSUME NEW a \in Agent, Cancel(a) PROVE CachedModelIsWhole'
  BY <1>16 DEF CachedModelIsWhole, Cancel, EndAttempt, files
<1>17. ASSUME NEW w \in leftover, FinishLeftover(w) PROVE CachedModelIsWhole'
  <2>1. CASE w.stale
    <3>1. overtaken'
      BY <1>17, <2>1 DEF FinishLeftover
    <3>2. QED
      BY <3>1 DEF CachedModelIsWhole
  <2>2. CASE ~w.stale
    <3>1. final' = final /\ (~overtaken' => ~overtaken)
      BY <1>17, <2>2 DEF LeftoverIsAlone, FinishLeftover
    <3>2. QED
      BY <3>1 DEF CachedModelIsWhole
  <2>3. QED
    BY <2>1, <2>2
<1>18. CASE Publish
  BY <1>18 DEF CachedModelIsWhole, Publish, files
<1>19. CASE UNCHANGED vars
  BY <1>19 DEF CachedModelIsWhole, vars, files
<1>20. QED
  BY <1>1, <1>2, <1>3, <1>4, <1>5, <1>6, <1>7, <1>8, <1>9, <1>10, <1>11, <1>12, <1>13,
     <1>14, <1>15, <1>16, <1>17, <1>18, <1>19
  DEF Next, AgentStep, Failure

\* What a late write has done to the file is never forgotten.
LEMMA OvertakenStays ==
    ASSUME [Next]_vars, overtaken PROVE overtaken'
<1>1. ASSUME NEW a \in Agent, IsCached(a) PROVE overtaken'
  BY <1>1 DEF IsCached, files
<1>2. ASSUME NEW a \in Agent, TryAcquireDownloadLock(a) PROVE overtaken'
  BY <1>2 DEF TryAcquireDownloadLock, EndAttempt, files
<1>3. ASSUME NEW a \in Agent, CurrentSize(a) PROVE overtaken'
  BY <1>3 DEF CurrentSize, files
<1>4. ASSUME NEW a \in Agent, StreamFromOffset(a) PROVE overtaken'
  BY <1>4 DEF StreamFromOffset, StartStream
<1>5. ASSUME NEW a \in Agent, StreamFromStartIgnoringRange(a) PROVE overtaken'
  BY <1>5 DEF StreamFromStartIgnoringRange, StartStream
<1>6. ASSUME NEW a \in Agent, PartialFileStale(a) PROVE overtaken'
  BY <1>6 DEF PartialFileStale, Remove, EndAttempt
<1>7. ASSUME NEW a \in Agent, ReceiveChunk(a) PROVE overtaken'
  BY <1>7 DEF ReceiveChunk, files
<1>8. ASSUME NEW a \in Agent, FinishWrite(a) PROVE overtaken'
  BY <1>8 DEF FinishWrite
<1>9. ASSUME NEW a \in Agent, Finalize(a) PROVE overtaken'
  BY <1>9 DEF Finalize, Rename, EndAttempt
<1>10. ASSUME NEW a \in Agent, MismatchedRange(a) PROVE overtaken'
  BY <1>10 DEF MismatchedRange, Fault, Remove, EndAttempt
<1>11. ASSUME NEW a \in Agent, RequestFails(a) PROVE overtaken'
  BY <1>11 DEF RequestFails, Fault, EndAttempt, files
<1>12. ASSUME NEW a \in Agent, CacheFails(a) PROVE overtaken'
  BY <1>12 DEF CacheFails, Fault, EndAttempt, files
<1>13. ASSUME NEW a \in Agent, WriteFails(a) PROVE overtaken'
  BY <1>13 DEF WriteFails, Fault, EndAttempt, files
<1>14. ASSUME NEW a \in Agent, Interrupted(a) PROVE overtaken'
  BY <1>14 DEF Interrupted, Fault, EndAttempt, files
<1>15. ASSUME NEW a \in Agent, Crash(a) PROVE overtaken'
  BY <1>15 DEF Crash, Fault, EndAttempt, files
<1>16. ASSUME NEW a \in Agent, Cancel(a) PROVE overtaken'
  BY <1>16 DEF Cancel, EndAttempt, files
<1>17. ASSUME NEW w \in leftover, FinishLeftover(w) PROVE overtaken'
  BY <1>17 DEF FinishLeftover
<1>18. CASE Publish
  BY <1>18 DEF Publish, files
<1>19. CASE UNCHANGED vars
  BY <1>19 DEF vars, files
<1>20. QED
  BY <1>1, <1>2, <1>3, <1>4, <1>5, <1>6, <1>7, <1>8, <1>9, <1>10, <1>11, <1>12, <1>13,
     <1>14, <1>15, <1>16, <1>17, <1>18, <1>19
  DEF Next, AgentStep, Failure

\* The first attempt finds an empty cache.
LEMMA DownloadInit == Init => DownloadInv
<1>1. SUFFICES ASSUME Init PROVE DownloadInv
  OBVIOUS
<1>2. /\ version \in Version /\ lock \in Agent \cup {None}
      /\ final \in Seq(Chunk) \cup {None} /\ partial \in Seq(Chunk) \cup {None}
      /\ faults \in 0 .. MaxFaults
  BY <1>1, Constants DEF Init
<1>3. /\ pc \in [Agent -> Places] /\ offset \in [Agent -> Nat]
      /\ body \in [Agent -> Chunk \cup {None}] /\ writing \in [Agent -> Chunk \cup {None}]
      /\ shown \in [Agent -> Nat \cup {None}]
  BY <1>1 DEF Init, Places
<1>4. overtaken \in BOOLEAN
  BY <1>1, Zenon DEF Init
<1>5. leftover = {}
  BY <1>1 DEF Init
<1>6. TypeOK
  BY <1>2, <1>3, <1>4, <1>5 DEF TypeOK
<1>7. LockIsExclusive /\ LeftoverIsAlone /\ LeftoverContinues
  BY <1>1, <1>5, Constants DEF Init, LockIsExclusive, LeftoverIsAlone, LeftoverContinues
<1>8. StreamContinues
  <2>1. Chunks(partial) = <<>> /\ \A a \in Agent : pc[a] = "idle"
    BY <1>1 DEF Init, Chunks
  <2>2. QED
    BY <2>1 DEF StreamContinues, InPlace
<1>9. CachedModelIsWhole
  BY <1>1 DEF Init, CachedModelIsWhole
<1>10. QED
  BY <1>5, <1>6, <1>7, <1>8, <1>9 DEF DownloadInv

\* Every step of an agent, of the runtime and of the server keeps the invariant.
LEMMA DownloadStep == DownloadInv /\ [Next]_vars => DownloadInv'
<1>1. SUFFICES ASSUME DownloadInv, [Next]_vars PROVE DownloadInv'
  OBVIOUS
<1>2. /\ TypeOK /\ leftover \subseteq Leftover /\ LockIsExclusive /\ LeftoverIsAlone
      /\ CachedModelIsWhole /\ (~overtaken => StreamContinues /\ LeftoverContinues)
  BY <1>1 DEF DownloadInv
<1>3. TypeOK' /\ leftover' \subseteq Leftover
  BY <1>1, <1>2, TypeStep
<1>4. LockIsExclusive'
  BY <1>1, <1>2, <1>3, LockStep
<1>5. LeftoverIsAlone'
  BY <1>1, <1>2, <1>3, AloneStep
<1>6. ~overtaken' => StreamContinues' /\ LeftoverContinues'
  <2>1. SUFFICES ASSUME ~overtaken' PROVE StreamContinues' /\ LeftoverContinues'
    OBVIOUS
  <2>2. ~overtaken
    BY <1>1, <2>1, OvertakenStays
  <2>3. QED
    BY <1>1, <1>2, <2>1, <2>2, StreamStep, LeftoverStep
<1>7. CachedModelIsWhole'
  BY <1>1, <1>2, WholeStep
<1>8. QED
  BY <1>3, <1>4, <1>5, <1>6, <1>7 DEF DownloadInv

\* In every behaviour of the agents that share a cache directory, the holder of the
\* lock continues the partial file where it ends (DownloadManager::download).
THEOREM DownloadIsSound == Spec => []DownloadInv
BY DownloadInit, DownloadStep, PTL DEF Spec

\* Whatever was resumed, restarted, interrupted, retried or raced, the file that
\* DownloadManager::download renames into the cache has every chunk once and in its
\* place, unless a write left behind by a broken stream overtook a later measurement.
THEOREM CachedModelsAreWhole == Spec => []CachedModelIsWhole
<1>1. DownloadInv => CachedModelIsWhole
  BY DEF DownloadInv
<1>2. QED
  BY <1>1, DownloadIsSound, PTL

\* The progress follows from the invariant: a stream continues the partial file.
LEMMA ProgressFollows == DownloadInv => ProgressIsTrue
<1>1. SUFFICES ASSUME DownloadInv PROVE ProgressIsTrue
  OBVIOUS
<1>2. TypeOK /\ LockIsExclusive /\ (~overtaken => StreamContinues)
  BY <1>1 DEF DownloadInv
<1>3. SUFFICES ASSUME NEW a \in Agent, pc[a] = "streaming", ~overtaken
               PROVE  shown[a] = Len(Chunks(partial)) + Cardinality({writing[a]} \ {None})
  BY <1>2 DEF ProgressIsTrue, LockIsExclusive
<1>4. Len(Chunks(partial)) \in Nat /\ body[a].index \in Nat /\ shown[a] = body[a].index - 1
  BY <1>2, <1>3, PartialChunks DEF TypeOK, LockIsExclusive, StreamContinues, Chunk
<1>5. CASE writing[a] = None
  <2>1. Cardinality({writing[a]} \ {None}) = 0
    BY <1>5, FS_EmptySet
  <2>2. QED
    BY <1>2, <1>3, <1>4, <1>5, <2>1 DEF StreamContinues
<1>6. CASE writing[a] # None
  <2>1. {writing[a]} \ {None} = {writing[a]}
    BY <1>6
  <2>2. Cardinality({writing[a]} \ {None}) = 1
    BY <2>1, FS_Singleton
  <2>3. QED
    BY <1>2, <1>3, <1>4, <1>6, <2>2 DEF StreamContinues
<1>7. QED
  BY <1>5, <1>6

\* The progress an agent reports is the size of the partial file and of the chunk that
\* is being written, over every resumption (increment_download_current).
THEOREM ProgressIsReported == Spec => []ProgressIsTrue
BY ProgressFollows, DownloadIsSound, PTL

-----------------------------------------------------------------------------
(***************************************************************************)
(* That the status of an agent tells the truth about the model it loads,   *)
(* for any desired states and any number of slots and failures.            *)
(*                                                                         *)
(* Three tasks write the status.  The argument separates what each of them *)
(* can write: the reconciliation adds and clears the issues of its search  *)
(* alone, until it publishes a state, which may clear an issue of a load   *)
(* but makes the arbiter apply anew (SearchStep, PublishStep); the signals *)
(* of the scheduler's thread say how far it has come (ThreadShape), and so *)
(* the arbiter knows from a dropped one why the load ended (LoadShape).    *)
(***************************************************************************)

\* The kinds of issues that the search for files clears, and that it registers.
SearchOnly == UrlIssues \cup HubIssues \cup {"HuggingFaceCannotAcquireLock"}
SearchKinds ==
    SearchOnly \cup {"ModelFileDoesNotExist", "MultimodalProjectionCannotBeLoaded"}

\* The kinds of issues that only a load registers.
LoadKinds == {"ModelCannotBeLoaded", "UnableToFindChatTemplate", "ChatTemplateDoesNotCompile",
              "SlotCannotStart"}

Loading == awaiting \in {"model", "template", "warm"}

\* Files are searched for what is wanted, as long as it is not converted.
ResolutionShape ==
    /\ resolving # <<"idle", "idle">> => ~is_converted
    /\ Role \in {"model", "projection"} => wanted # NotConfigured
    /\ resolving = <<"done", "done">> => wanted = NotConfigured
    /\ Role = "projection" /\ model_file = NotConfigured /\ ~halted =>
          wanted.model = NotConfigured

\* What has been wanted, published or applied stays so.
NothingYet ==
    /\ wanted = NotConfigured => issues = {} /\ applicable_rx = NotConfigured
    /\ is_converted /\ applicable_rx = NotConfigured => wanted = NotConfigured
    /\ applicable_rx = NotConfigured => applicable = NotConfigured
    /\ applicable = NotConfigured =>
          thread = "none" /\ signals = {} /\ cause = "none" /\ model_path = NotConfigured

\* Only a shutdown makes a state without the model it wants.
OnlyCancelled ==
    /\ ~halted /\ applicable_rx # NotConfigured /\ applicable_rx.model = NotConfigured =>
          applicable_rx.state.model = NotConfigured
    /\ CancelledIsNotApplied

Templated == {{"model", "template"}, {"model", "skipped"}}

\* The signals say how far the thread has come, and why it ended.
ThreadShape ==
    /\ thread # "ended" => cause = "none"
    /\ thread \in {"none", "load"} => signals = {}
    /\ thread \in {"metadata", "template"} => signals = {"model"}
    /\ thread = "compile" => signals = {"model", "template"}
    /\ thread \in {"path", "projection", "tokens", "context"} => signals \in Templated
    /\ thread = "running" => "warm" \in signals
    /\ thread = "ended" /\ Loading =>
          \/ cause = "model" /\ signals = {}
          \/ cause = "template" /\ signals = {"model"}
          \/ cause = "compile" /\ signals = {"model", "template"}
          \/ cause \in {"projection", "tokens", "context"} /\ signals \in Templated

\* The arbiter waits for a thread, and a thread that runs has been reported.
LoadShape ==
    /\ Loading => thread # "none"
    /\ awaiting = "template" => thread # "load"
    /\ awaiting = "warm" => thread \notin {"load", "metadata", "template"}
    /\ awaiting \in {"idle", "apply"} => thread \in {"none", "running", "ended"}
    /\ Loading \/ awaiting = "apply" => application # "Applied"
    /\ awaiting \in {"cancelled", "stopped"} => halted
    /\ thread \in {"projection", "tokens", "context", "running"} /\ awaiting # "apply" =>
          model_path = applicable.model
    /\ awaiting = "idle" /\ thread = "running" => slots = SlotsWanted /\ application = "Applied"
    /\ awaiting = "idle" /\ application = "Applied" /\ ~halted =>
          thread \in {"none", "running"} /\ (thread = "none" => model_path = NotConfigured)

\* The issues of a load are its explanation.
IssuesExplain ==
    /\ awaiting # "apply" \/ applicable = NotConfigured => LoadIssues \subseteq Explanation(cause)
    /\ is_converted /\ ~is_changed /\ (awaiting # "apply" \/ applicable = NotConfigured) =>
          issues \subseteq Explanation(cause)
    /\ cause = "model" /\ awaiting \in {"template", "warm"} =>
          Issue("ModelCannotBeLoaded", applicable.model) \in issues
    /\ ~is_changed /\ (Loading \/ (awaiting = "idle" /\ application # "Applied")) =>
          /\ cause \in {"compile", "projection", "context"} => Explanation(cause) \subseteq issues
          /\ cause = "template" /\ awaiting \in {"warm", "idle"} => Explanation(cause) \subseteq issues
          /\ cause = "model" /\ awaiting = "idle" => Explanation(cause) \subseteq issues

\* What waits to be received has been sent.
Queued == Len(wanted_rx) <= sends

ModelLoadingInv ==
    /\ ModelLoadingTypeOK
    /\ Queued
    /\ ResolutionShape
    /\ NothingYet
    /\ OnlyCancelled
    /\ ThreadShape
    /\ LoadShape
    /\ IssuesExplain

\* The types of what the reconciliation writes besides the issues.
ResolutionTypes ==
    /\ wanted_rx \in Seq(Wanted)
    /\ Len(wanted_rx) <= MaxWanted
    /\ wanted \in Wanted \cup {NotConfigured}
    /\ is_converted \in BOOLEAN
    /\ resolving \in ({"model", "projection"} \X ResolutionSteps)
                     \cup {<<"idle", "idle">>, <<"done", "done">>}
    /\ model_file \in Files \cup {NotConfigured}
    /\ in_cache \subseteq References
    /\ applicable_rx \in Applicables
    /\ is_changed \in BOOLEAN
    /\ download \in References \cup {NotConfigured}
    /\ failures \in 0 .. MaxFailures

\* An issue is about a reference of its kind of source.
IssuesTyped ==
    \A i \in issues :
        /\ i.issue \in UrlIssues => i.of.source = "Url"
        /\ i.issue \in HubIssues => i.of.source = "HuggingFace"

\* The types of what the arbiter and its thread write besides the issues.
LoadTypes ==
    /\ applicable \in Applicables
    /\ awaiting \in {"idle", "apply", "model", "template", "warm", "cancelled", "stopped"}
    /\ thread \in ThreadSteps
    /\ signals \subseteq {"model", "template", "skipped", "warm"}
    /\ model_path \in Files \cup {NotConfigured}
    /\ slots \in {0, SlotsWanted}
    /\ application \in {"Applied", "AttemptedAndRetrying", "Fresh", "Stuck"}
    /\ halted \in BOOLEAN

\* A step of the search for files writes nothing that the arbiter reads or writes,
\* but for the issues of the search.
SearchStep ==
    /\ UNCHANGED <<loadVars, model_path, slots, application, halted, applicable_rx, is_changed>>
    /\ ~is_converted'
    /\ wanted' = NotConfigured => wanted = NotConfigured /\ issues' = issues
    /\ \A i \in issues : i.issue \notin SearchOnly => i \in issues'
    /\ \A i \in issues' : i \notin issues => i.issue \in SearchKinds

\* A step that publishes a state clears issues, and makes the arbiter apply anew.
PublishStep ==
    /\ UNCHANGED <<loadVars, model_path, slots, application, halted, wanted>>
    /\ is_converted' /\ is_changed'
    /\ issues' \subseteq issues
    /\ \A i \in issues : i.issue = "ModelCannotBeLoaded" => i \in issues'
    /\ applicable_rx' = NotConfigured <=> wanted = NotConfigured
    /\ ~halted /\ applicable_rx' # NotConfigured /\ applicable_rx'.model = NotConfigured =>
          applicable_rx'.state.model = NotConfigured

\* What every step of the reconciliation does.
Searched ==
    /\ ResolutionTypes' /\ IssuesTyped' /\ ResolutionShape'
    /\ Len(wanted_rx') <= Len(wanted_rx)
    /\ SearchStep \/ PublishStep

\* What the assumptions say of the bounds and of what is not configured.
LEMMA LoadingConstants ==
    /\ MaxWanted \in Nat /\ MaxFailures \in Nat /\ SlotsWanted \in Nat \ {0}
    /\ NotConfigured \notin Wanted /\ NotConfigured \notin Files
    /\ \A w \in Wanted : {w.chat_template_override, w.enable_embeddings} \subseteq BOOLEAN
BY ModelLoadingAssumption, NotConfiguredAssumption

\* The types are those of the three parts.
LEMMA TypesAreParts ==
    /\ ModelLoadingTypeOK => ResolutionTypes /\ IssuesTyped /\ LoadTypes
    /\ ResolutionTypes /\ IssuesTyped /\ LoadTypes /\ sends \in 0 .. MaxWanted
          => ModelLoadingTypeOK
BY DEF ModelLoadingTypeOK, ResolutionTypes, IssuesTyped, LoadTypes

\* What waits is no more than it was.
LEMMA QueueKept ==
    ASSUME ResolutionTypes, wanted_rx' = wanted_rx
    PROVE  Len(wanted_rx') <= Len(wanted_rx)
BY DEF ResolutionTypes

\* What is resolved is a reference of the state that is wanted.
LEMMA ReferenceIsWanted ==
    ASSUME ResolutionTypes, ResolutionShape, Role \in {"model", "projection"}
    PROVE  /\ wanted \in Wanted /\ wanted # NotConfigured /\ ~is_converted
           /\ Reference # NotConfigured => Reference \in References
           /\ resolving[2] \in ResolutionSteps
           /\ resolving = <<Role, resolving[2]>>
<1>1. wanted # NotConfigured
  BY DEF ResolutionShape
<1>2. wanted \in Wanted
  BY <1>1 DEF ResolutionTypes
<1>3. resolving # <<"idle", "idle">> /\ resolving # <<"done", "done">>
  BY DEF Role
<1>4. resolving \in {"model", "projection"} \X ResolutionSteps
  BY <1>3 DEF ResolutionTypes
<1>5. ~is_converted
  BY <1>3 DEF ResolutionShape
<1>6. Reference # NotConfigured => Reference \in References
  BY <1>2 DEF Reference, References
<1>7. QED
  BY <1>1, <1>2, <1>4, <1>5, <1>6 DEF Role

\* The files that a reference resolves to.
LEMMA FilesOfReference ==
    ASSUME NEW ref \in References
    PROVE  File(ref) \in Files /\ File(Default(ref)) \in Files
BY DEF Files

\* The fix of a published state clears issues of the search and of the template.
LEMMA PublishedIssues ==
    ASSUME RegisterFix(Fix("ModelStateIsReconciled", NotConfigured))
    PROVE  /\ issues' \subseteq issues
           /\ \A i \in issues : i.issue = "ModelCannotBeLoaded" => i \in issues'
BY DEF RegisterFix, Fix, CanFix, UrlIssues, HubIssues

\* Publishing what is wanted, when the projection has been resolved.
LEMMA Publishing ==
    ASSUME ResolutionTypes, IssuesTyped, ResolutionShape, Role = "projection",
           NEW file \in Files \cup {NotConfigured}, SetAgentApplicableState(file),
           UNCHANGED <<wanted_rx, wanted, model_path, slots, application, loadVars, halted>>,
           download' \in References \cup {NotConfigured}, in_cache' \subseteq References,
           failures' \in 0 .. MaxFailures
    PROVE  Searched
<1>1. wanted \in Wanted /\ wanted # NotConfigured
  BY ReferenceIsWanted
<1>2. /\ issues' \subseteq issues
      /\ \A i \in issues : i.issue = "ModelCannotBeLoaded" => i \in issues'
  BY PublishedIssues DEF SetAgentApplicableState
<1>3. /\ applicable_rx' = [state |-> wanted, model |-> model_file, projection |-> file]
      /\ is_changed' = TRUE /\ is_converted' = TRUE /\ model_file' = NotConfigured
      /\ resolving' = <<"idle", "idle">>
  BY <1>1 DEF SetAgentApplicableState
<1>4. applicable_rx' \in Applicables /\ applicable_rx' # NotConfigured
  <2>1. model_file \in Files \cup {NotConfigured}
    BY DEF ResolutionTypes
  <2>2. applicable_rx' \in [state : Wanted, model : Files \cup {NotConfigured},
                            projection : Files \cup {NotConfigured}]
    BY <1>1, <1>3, <2>1
  <2>3. QED
    BY <2>2, NotConfiguredAssumption DEF Applicables
<1>5. is_changed' \in BOOLEAN /\ is_converted' \in BOOLEAN
  BY <1>3
<1>6. ResolutionTypes'
  <2>1. wanted_rx' \in Seq(Wanted) /\ Len(wanted_rx') <= MaxWanted
        /\ wanted' \in Wanted \cup {NotConfigured}
    BY DEF ResolutionTypes
  <2>2. resolving' \in ({"model", "projection"} \X ResolutionSteps)
                     \cup {<<"idle", "idle">>, <<"done", "done">>}
    BY <1>3
  <2>3. model_file' \in Files \cup {NotConfigured}
    BY <1>3
  <2>4. QED
    BY <1>4, <1>5, <2>1, <2>2, <2>3 DEF ResolutionTypes
<1>7. IssuesTyped'
  BY <1>2 DEF IssuesTyped
<1>8. ResolutionShape'
  <2>1. Role' = "idle" /\ resolving' = <<"idle", "idle">> /\ resolving' # <<"done", "done">>
    BY <1>3 DEF Role
  <2>2. QED
    BY <2>1 DEF ResolutionShape
<1>9. PublishStep
  <2>1. /\ applicable_rx'.model = model_file
        /\ applicable_rx'.state = wanted
    BY <1>3
  <2>2. ~halted /\ model_file = NotConfigured => wanted.model = NotConfigured
    BY DEF ResolutionShape
  <2>3. is_converted' /\ is_changed'
    BY <1>3
  <2>4. QED
    BY <1>1, <1>2, <1>4, <2>1, <2>2, <2>3 DEF PublishStep
<1>10. QED
  BY <1>6, <1>7, <1>8, <1>9, QueueKept DEF Searched

\* A fix that clears only issues of the search.
SearchFixes == {"none", "HuggingFaceDownloadedModel", "HuggingFaceStartedDownloading",
                "ModelDownloadStarted", "ModelDownloadCompleted"}

\* Such a fix clears nothing else.
LEMMA SearchedIssues ==
    ASSUME NEW name \in SearchFixes, NEW about, RegisterFix(Fix(name, about))
    PROVE  /\ issues' \subseteq issues
           /\ \A i \in issues : i.issue \notin SearchOnly => i \in issues'
BY DEF RegisterFix, Fix, CanFix, SearchOnly, SearchFixes

\* The search goes on, at another step of the same role or of the projection.
LEMMA Searching ==
    ASSUME ResolutionTypes, IssuesTyped, ResolutionShape, Role \in {"model", "projection"},
           NEW role \in {"model", "projection"}, NEW step \in ResolutionSteps,
           resolving' = <<role, step>>, model_file' \in Files \cup {NotConfigured},
           role = "projection" /\ model_file' = NotConfigured /\ ~halted =>
              wanted.model = NotConfigured,
           UNCHANGED <<wanted_rx, wanted, is_converted, model_path, slots, application, loadVars,
                       halted, applicable_rx, is_changed>>,
           \A i \in issues : i.issue \notin SearchOnly => i \in issues',
           \A i \in issues' : i \notin issues => i.issue \in SearchKinds,
           IssuesTyped',
           download' \in References \cup {NotConfigured}, in_cache' \subseteq References,
           failures' \in 0 .. MaxFailures
    PROVE  Searched
<1>1. wanted \in Wanted /\ wanted # NotConfigured /\ ~is_converted
  BY ReferenceIsWanted
<1>2. ResolutionTypes'
  <2>1. /\ wanted_rx' \in Seq(Wanted) /\ Len(wanted_rx') <= MaxWanted
        /\ wanted' \in Wanted \cup {NotConfigured} /\ applicable_rx' \in Applicables
    BY DEF ResolutionTypes
  <2>2. is_converted' \in BOOLEAN /\ is_changed' \in BOOLEAN
    BY Zenon DEF ResolutionTypes
  <2>3. resolving' \in {"model", "projection"} \X ResolutionSteps
    OBVIOUS
  <2>4. QED
    BY <2>1, <2>2, <2>3 DEF ResolutionTypes
<1>3. ResolutionShape'
  <2>1. Role' = role /\ resolving' # <<"done", "done">>
    BY DEF Role
  <2>2. ~is_converted'
    BY <1>1, Zenon
  <2>3. QED
    BY <1>1, <2>1, <2>2 DEF ResolutionShape
<1>4. SearchStep
  <2>1. ~is_converted'
    BY <1>1, Zenon
  <2>2. QED
    BY <1>1, <2>1 DEF SearchStep
<1>5. QED
  BY <1>2, <1>3, <1>4, QueueKept DEF Searched

\* The search ends without a file.
LEMMA SearchEnds ==
    ASSUME ResolutionTypes, IssuesTyped, ResolutionShape, Role \in {"model", "projection"},
           NEW registered, NEW shows \in References \cup {NotConfigured},
           Unresolved(registered, shows), failures' \in 0 .. MaxFailures,
           \A i \in registered :
              /\ i.issue \in SearchKinds
              /\ i.issue \in UrlIssues => i.of.source = "Url"
              /\ i.issue \in HubIssues => i.of.source = "HuggingFace"
    PROVE  Searched
<1>1. wanted \in Wanted /\ wanted # NotConfigured /\ ~is_converted
  BY ReferenceIsWanted
<1>2. ResolutionTypes'
  <2>1. /\ wanted_rx' \in Seq(Wanted) /\ Len(wanted_rx') <= MaxWanted
        /\ wanted' \in Wanted \cup {NotConfigured} /\ applicable_rx' \in Applicables
        /\ in_cache' \subseteq References
        /\ download' \in References \cup {NotConfigured}
        /\ model_file' \in Files \cup {NotConfigured}
    BY DEF ResolutionTypes, Unresolved
  <2>2. is_converted' \in BOOLEAN /\ is_changed' \in BOOLEAN
    BY Zenon DEF ResolutionTypes, Unresolved
  <2>3. resolving' = <<"idle", "idle">>
    BY DEF Unresolved
  <2>4. QED
    BY <2>1, <2>2, <2>3 DEF ResolutionTypes
<1>3. IssuesTyped'
  BY DEF IssuesTyped, Unresolved
<1>4. ResolutionShape'
  <2>1. Role' = "idle" /\ resolving' # <<"done", "done">> /\ resolving' = <<"idle", "idle">>
    BY DEF Role, Unresolved
  <2>2. QED
    BY <2>1 DEF ResolutionShape
<1>5. SearchStep
  <2>1. ~is_converted'
    BY <1>1, Zenon DEF Unresolved
  <2>2. wanted' # NotConfigured
    BY <1>1 DEF Unresolved
  <2>3. QED
    BY <2>1, <2>2 DEF SearchStep, Unresolved
<1>6. QED
  BY <1>2, <1>3, <1>4, <1>5, QueueKept DEF Searched, Unresolved

\* A file was found, or none is to be searched for.
LEMMA SearchFinds ==
    ASSUME ResolutionTypes, IssuesTyped, ResolutionShape, Role \in {"model", "projection"},
           NEW file \in Files \cup {NotConfigured},
           NEW name \in SearchFixes, NEW about,
           NEW shows \in References \cup {NotConfigured},
           Resolved(file, Fix(name, about), shows),
           file = NotConfigured /\ Role = "model" /\ ~halted => wanted.model = NotConfigured,
           in_cache' \subseteq References, failures' \in 0 .. MaxFailures
    PROVE  Searched
<1>1. CASE Role = "model"
  <2>1. /\ RegisterFix(Fix(name, about))
        /\ resolving' = <<"projection", "look">> /\ model_file' = file
        /\ download' = shows
        /\ UNCHANGED <<wanted_rx, wanted, is_converted, model_path, slots, application,
                       loadVars, halted, applicable_rx, is_changed>>
    BY <1>1 DEF Resolved
  <2>2. /\ issues' \subseteq issues
        /\ \A i \in issues : i.issue \notin SearchOnly => i \in issues'
    BY <2>1, SearchedIssues
  <2>3. IssuesTyped'
    BY <2>2 DEF IssuesTyped
  <2>4. "look" \in ResolutionSteps
    BY DEF ResolutionSteps
  <2>5. QED
    BY <1>1, <2>1, <2>2, <2>3, <2>4, Searching
<1>2. CASE Role = "projection"
  <2>1. /\ SetAgentApplicableState(file) /\ download' = shows
        /\ UNCHANGED <<wanted_rx, wanted, model_path, slots, application, loadVars, halted>>
    BY <1>2 DEF Resolved
  <2>2. QED
    BY <1>2, <2>1, Publishing
<1>3. QED
  BY <1>1, <1>2

\* Receiving a state, the ticker, and publishing that nothing is wanted.
LEMMA SearchStarts ==
    ASSUME ResolutionTypes, IssuesTyped, ResolutionShape,
           ReceiveWanted \/ RetryConversionTick \/ NothingWanted
    PROVE  Searched
<1>1. CASE ReceiveWanted
  <2>1. wanted_rx \in Seq(Wanted) /\ wanted_rx # <<>> /\ Len(wanted_rx) <= MaxWanted
    BY <1>1 DEF ReceiveWanted, ResolutionTypes
  <2>2. /\ wanted' \in Wanted /\ wanted' # NotConfigured /\ wanted_rx' \in Seq(Wanted)
        /\ Len(wanted_rx') <= MaxWanted /\ Len(wanted_rx') <= Len(wanted_rx)
    BY <1>1, <2>1, LoadingConstants DEF ReceiveWanted
  <2>3. is_converted' = FALSE /\ resolving' = <<"model", "look">> /\ Role' = "model"
    BY <1>1 DEF ReceiveWanted, Role
  <2>4. is_converted' \in BOOLEAN /\ is_changed' \in BOOLEAN /\ ~is_converted'
    BY <1>1, <2>3, Zenon DEF ReceiveWanted, ResolutionTypes
  <2>5. resolving' \in {"model", "projection"} \X ResolutionSteps
    BY <2>3 DEF ResolutionSteps
  <2>6. ResolutionTypes'
    BY <1>1, <2>2, <2>4, <2>5 DEF ResolutionTypes, ReceiveWanted, statusVars
  <2>7. IssuesTyped' /\ issues' = issues
    BY <1>1 DEF IssuesTyped, ReceiveWanted, statusVars
  <2>8. ResolutionShape'
    BY <2>2, <2>3, <2>4 DEF ResolutionShape
  <2>9. SearchStep
    BY <1>1, <2>2, <2>4, <2>7 DEF SearchStep, ReceiveWanted, statusVars
  <2>10. QED
    BY <2>2, <2>6, <2>7, <2>8, <2>9 DEF Searched
<1>2. CASE RetryConversionTick
  <2>1. is_converted' \in BOOLEAN /\ is_changed' \in BOOLEAN /\ ~is_converted'
    BY <1>2, Zenon DEF RetryConversionTick, ResolutionTypes
  <2>2. \/ wanted = NotConfigured /\ resolving' = <<"done", "done">>
        \/ wanted # NotConfigured /\ resolving' = <<"model", "look">>
    BY <1>2 DEF RetryConversionTick
  <2>3. resolving' \in ({"model", "projection"} \X ResolutionSteps)
                     \cup {<<"idle", "idle">>, <<"done", "done">>}
    BY <2>2 DEF ResolutionSteps
  <2>4. ResolutionTypes'
    BY <1>2, <2>1, <2>3 DEF ResolutionTypes, RetryConversionTick, statusVars
  <2>5. IssuesTyped' /\ issues' = issues
    BY <1>2 DEF IssuesTyped, RetryConversionTick, statusVars
  <2>6. wanted' = wanted
    BY <1>2 DEF RetryConversionTick
  <2>7. ResolutionShape'
    BY <2>1, <2>2, <2>6 DEF ResolutionShape, Role
  <2>8. SearchStep
    BY <1>2, <2>1, <2>5, <2>6 DEF SearchStep, RetryConversionTick, statusVars
  <2>9. QED
    BY <1>2, <2>4, <2>5, <2>7, <2>8, QueueKept DEF Searched, RetryConversionTick
<1>3. CASE NothingWanted
  <2>1. wanted = NotConfigured
    BY <1>3 DEF NothingWanted, ResolutionShape
  <2>2. /\ issues' \subseteq issues
        /\ \A i \in issues : i.issue = "ModelCannotBeLoaded" => i \in issues'
    BY <1>3, PublishedIssues DEF NothingWanted, SetAgentApplicableState
  <2>3. /\ applicable_rx' = NotConfigured
        /\ is_changed' = TRUE /\ is_converted' = TRUE /\ model_file' = NotConfigured
        /\ resolving' = <<"idle", "idle">>
    BY <1>3, <2>1 DEF NothingWanted, SetAgentApplicableState
  <2>4. is_changed' \in BOOLEAN /\ is_converted' \in BOOLEAN
    BY <2>3
  <2>5. applicable_rx' \in Applicables
    BY <2>3 DEF Applicables
  <2>6. ResolutionTypes'
    BY <1>3, <2>3, <2>4, <2>5 DEF ResolutionTypes, NothingWanted
  <2>7. IssuesTyped'
    BY <2>2 DEF IssuesTyped
  <2>8. ResolutionShape'
    <3>1. Role' = "idle" /\ resolving' # <<"done", "done">>
      BY <2>3 DEF Role
    <3>2. QED
      BY <2>3, <3>1 DEF ResolutionShape
  <2>9. PublishStep
    BY <1>3, <2>1, <2>2, <2>3 DEF PublishStep, NothingWanted
  <2>10. QED
    BY <1>3, <2>6, <2>7, <2>8, <2>9, QueueKept DEF Searched, NothingWanted
<1>4. QED
  BY <1>1, <1>2, <1>3

\* The count of failures stays within its bound.
LEMMA FailureBound ==
    ASSUME failures \in 0 .. MaxFailures, CanFail \/ UNCHANGED failures
    PROVE  failures' \in 0 .. MaxFailures
BY LoadingConstants DEF CanFail

\* A local file is there or is missing.
LEMMA LocalSearch ==
    ASSUME ResolutionTypes, IssuesTyped, ResolutionShape,
           ResolveNotConfigured \/ LocalFileExists \/ LocalFileMissing \/ ResolutionCancelled
    PROVE  Searched
<1>1. download \in References \cup {NotConfigured} /\ in_cache \subseteq References
      /\ failures \in 0 .. MaxFailures
  BY DEF ResolutionTypes
<1>2. "none" \in SearchFixes
  BY DEF SearchFixes
<1>3. CASE ResolveNotConfigured
  <2>1. /\ Role \in {"model", "projection"} /\ Reference = NotConfigured
        /\ Resolved(NotConfigured, Fix("none", NotConfigured), download)
        /\ in_cache' \subseteq References /\ failures' \in 0 .. MaxFailures
    BY <1>1, <1>3 DEF ResolveNotConfigured, NoFix
  <2>2. Role = "model" => wanted.model = NotConfigured
    BY <2>1 DEF Reference
  <2>3. QED
    BY <1>1, <1>2, <2>1, <2>2, SearchFinds
<1>4. CASE ResolutionCancelled
  <2>1. /\ Role \in {"model", "projection"} /\ halted
        /\ Resolved(NotConfigured, Fix("none", NotConfigured), download)
        /\ in_cache' \subseteq References /\ failures' \in 0 .. MaxFailures
    BY <1>1, <1>4 DEF ResolutionCancelled, NoFix
  <2>2. QED
    BY <1>1, <1>2, <2>1, SearchFinds
<1>5. CASE LocalFileExists
  <2>1. /\ Role \in {"model", "projection"} /\ Reference # NotConfigured
        /\ Resolved(File(Reference), Fix("none", NotConfigured), download)
        /\ in_cache' \subseteq References /\ failures' \in 0 .. MaxFailures
    BY <1>1, <1>5 DEF LocalFileExists, NoFix, Resolving
  <2>2. Reference \in References
    BY <2>1, ReferenceIsWanted
  <2>3. File(Reference) \in Files /\ File(Reference) # NotConfigured
    BY <2>2, FilesOfReference, LoadingConstants
  <2>4. QED
    BY <1>1, <1>2, <2>1, <2>3, SearchFinds
<1>6. CASE LocalFileMissing
  <2>1. Role \in {"model", "projection"} /\ CanFail
    BY <1>6 DEF LocalFileMissing, Resolving
  <2>2. failures' \in 0 .. MaxFailures
    BY <1>1, <2>1, FailureBound
  <2>3. PICK registered \in
          {{}, {Issue(IF Role = "model" THEN "ModelFileDoesNotExist"
                      ELSE "MultimodalProjectionCannotBeLoaded", File(Reference))}} :
          Unresolved(registered, download)
    BY <1>6 DEF LocalFileMissing
  <2>4. \A i \in registered :
           i.issue \in {"ModelFileDoesNotExist", "MultimodalProjectionCannotBeLoaded"}
    BY <2>3 DEF Issue
  <2>5. \A i \in registered :
              /\ i.issue \in SearchKinds
              /\ i.issue \in UrlIssues => i.of.source = "Url"
              /\ i.issue \in HubIssues => i.of.source = "HuggingFace"
    BY <2>4 DEF SearchKinds, UrlIssues, HubIssues
  <2>6. QED
    BY <1>1, <2>1, <2>2, <2>3, <2>5, SearchEnds
<1>7. QED
  BY <1>3, <1>4, <1>5, <1>6

\* An issue about the reference that is searched for.
LEMMA OwnIssue ==
    ASSUME NEW source, NEW step, Resolving(source, step), NEW name,
           \/ source = "Url" /\ name \in UrlIssues
           \/ source = "HuggingFace" /\ name \in HubIssues \cup {"HuggingFaceCannotAcquireLock"}
    PROVE  LET i == Issue(name, Reference)
           IN  /\ i.issue = name /\ i.issue \in SearchKinds
               /\ i.issue \in UrlIssues => i.of.source = "Url"
               /\ i.issue \in HubIssues => i.of.source = "HuggingFace"
BY DEF Resolving, Issue, SearchKinds, SearchOnly, UrlIssues, HubIssues

\* What every search of a source knows of its reference.
LEMMA SourceSearch ==
    ASSUME ResolutionTypes, ResolutionShape, NEW source, NEW step, Resolving(source, step)
    PROVE  /\ Role \in {"model", "projection"}
           /\ Reference \in References
           /\ File(Reference) \in Files /\ File(Reference) # NotConfigured
           /\ File(Default(Reference)) \in Files /\ File(Default(Reference)) # NotConfigured
           /\ in_cache \subseteq References /\ in_cache \cup {Reference} \subseteq References
           /\ download \in References \cup {NotConfigured}
           /\ failures \in 0 .. MaxFailures
           /\ {"ask", "download", "lock"} \subseteq ResolutionSteps
           /\ model_file \in Files \cup {NotConfigured}
           /\ Role = "projection" /\ model_file = NotConfigured /\ ~halted =>
                wanted.model = NotConfigured
<1>1. Role \in {"model", "projection"} /\ Reference # NotConfigured
  BY DEF Resolving
<1>2. Reference \in References
  BY <1>1, ReferenceIsWanted
<1>3. /\ File(Reference) \in Files /\ File(Reference) # NotConfigured
      /\ File(Default(Reference)) \in Files /\ File(Default(Reference)) # NotConfigured
  BY <1>2, FilesOfReference, LoadingConstants
<1>4. QED
  BY <1>1, <1>2, <1>3 DEF ResolutionTypes, ResolutionShape, ResolutionSteps

\* A model of the Hub.
LEMMA HubSearch ==
    ASSUME ResolutionTypes, IssuesTyped, ResolutionShape, HubStep
    PROVE  Searched
<1>1. {"none", "HuggingFaceDownloadedModel", "HuggingFaceStartedDownloading"} \subseteq SearchFixes
  BY DEF SearchFixes
<1>2. CASE HubRefused \/ WaitForDownloadLockRetry
  <2>1. PICK step : Resolving("HuggingFace", step)
    BY <1>2 DEF HubRefused, WaitForDownloadLockRetry
  <2>2. Unresolved({}, download) /\ UNCHANGED failures
    BY <1>2 DEF HubRefused, WaitForDownloadLockRetry
  <2>3. QED
    BY <2>1, <2>2, SourceSearch, SearchEnds
<1>3. CASE HubCached
  <2>1. /\ Resolving("HuggingFace", "look")
        /\ Resolved(File(Default(Reference)), Fix("none", NotConfigured), NotConfigured)
        /\ UNCHANGED <<in_cache, failures>>
    BY <1>3 DEF HubCached, NoFix
  <2>2. QED
    BY <1>1, <2>1, SourceSearch, SearchFinds
<1>4. CASE HubAsked
  <2>1. Resolving("HuggingFace", "look") /\ resolving' = <<Role, "ask">>
    BY <1>4 DEF HubAsked
  <2>2. IssuesTyped' /\ issues' = issues
    BY <1>4 DEF HubAsked, statusVars, IssuesTyped
  <2>3. UNCHANGED <<wanted_rx, wanted, is_converted, model_path, slots, application, loadVars,
                    halted, applicable_rx, is_changed, model_file, in_cache, failures, download>>
    BY <1>4 DEF HubAsked, statusVars
  <2>4. QED
    BY <2>1, <2>2, <2>3, SourceSearch, Searching
<1>5. CASE HubDownloadStarts
  <2>1. /\ Resolving("HuggingFace", "ask") /\ resolving' = <<Role, "download">>
        /\ download' = Reference
    BY <1>5 DEF HubDownloadStarts
  <2>2. /\ issues' \subseteq issues
        /\ \A i \in issues : i.issue \notin SearchOnly => i \in issues'
    BY <1>1, <1>5, SearchedIssues DEF HubDownloadStarts
  <2>3. IssuesTyped'
    BY <2>2 DEF IssuesTyped
  <2>4. UNCHANGED <<wanted_rx, wanted, is_converted, model_path, slots, application, loadVars,
                    halted, applicable_rx, is_changed, model_file, in_cache, failures>>
    BY <1>5 DEF HubDownloadStarts
  <2>5. QED
    BY <2>1, <2>2, <2>3, <2>4, SourceSearch, Searching
<1>6. CASE HubDownloaded
  <2>1. /\ Resolving("HuggingFace", "download")
        /\ Resolved(File(Reference), Fix("HuggingFaceDownloadedModel", Reference), NotConfigured)
        /\ in_cache' = in_cache \cup {Reference} /\ UNCHANGED failures
    BY <1>6 DEF HubDownloaded
  <2>2. QED
    BY <1>1, <2>1, SourceSearch, SearchFinds
<1>7. CASE HubFails
  <2>1. CASE Resolving("HuggingFace", "download") /\ Unresolved({}, download)
    <3>1. failures' \in 0 .. MaxFailures
      BY <1>7, <2>1, SourceSearch, FailureBound DEF HubFails
    <3>2. QED
      BY <2>1, <3>1, SourceSearch, SearchEnds
  <2>2. CASE /\ Resolving("HuggingFace", "ask")
             /\ \E registered \in {{}} \cup {{Issue(name, Reference)} : name \in HubIssues} :
                   Unresolved(registered, download)
    <3>1. failures' \in 0 .. MaxFailures
      BY <1>7, <2>2, SourceSearch, FailureBound DEF HubFails
    <3>2. PICK registered \in {{}} \cup {{Issue(name, Reference)} : name \in HubIssues} :
                   Unresolved(registered, download)
      BY <2>2
    <3>3. \A i \in registered : \E name \in HubIssues : i = Issue(name, Reference)
      BY <3>2
    <3>4. \A i \in registered :
              /\ i.issue \in SearchKinds
              /\ i.issue \in UrlIssues => i.of.source = "Url"
              /\ i.issue \in HubIssues => i.of.source = "HuggingFace"
      BY <2>2, <3>3, OwnIssue
    <3>5. QED
      BY <2>2, <3>1, <3>2, <3>4, SourceSearch, SearchEnds
  <2>3. QED
    BY <1>7, <2>1, <2>2 DEF HubFails
<1>8. CASE HubLocked
  <2>1. Resolving("HuggingFace", "ask") /\ resolving' = <<Role, "lock">>
    BY <1>8 DEF HubLocked
  <2>2. failures' \in 0 .. MaxFailures
    BY <1>8, <2>1, SourceSearch, FailureBound DEF HubLocked
  <2>3. issues' = issues \cup {Issue("HuggingFaceCannotAcquireLock", Reference)}
    BY <1>8 DEF HubLocked, RegisterIssue
  <2>4. /\ \A i \in issues' : i \notin issues => i.issue \in SearchKinds
        /\ IssuesTyped'
    BY <2>1, <2>3, OwnIssue DEF IssuesTyped
  <2>5. UNCHANGED <<wanted_rx, wanted, is_converted, model_path, slots, application, loadVars,
                    halted, applicable_rx, is_changed, model_file, in_cache, download>>
    BY <1>8 DEF HubLocked
  <2>6. QED
    BY <2>1, <2>2, <2>3, <2>4, <2>5, SourceSearch, Searching
<1>9. QED
  BY <1>2, <1>3, <1>4, <1>5, <1>6, <1>7, <1>8 DEF HubStep

\* A model behind a URL.
LEMMA UrlSearch ==
    ASSUME ResolutionTypes, IssuesTyped, ResolutionShape, UrlStep
    PROVE  Searched
<1>1. {"ModelDownloadStarted", "ModelDownloadCompleted"} \subseteq SearchFixes
  BY DEF SearchFixes
<1>2. CASE UrlMalformed
  <2>1. /\ Resolving("Url", "look")
        /\ Unresolved({Issue("DownloadUrlIsMalformed", Reference)}, NotConfigured)
        /\ UNCHANGED failures
    BY <1>2 DEF UrlMalformed
  <2>2. "DownloadUrlIsMalformed" \in UrlIssues
    BY DEF UrlIssues
  <2>3. \A i \in {Issue("DownloadUrlIsMalformed", Reference)} :
              /\ i.issue \in SearchKinds
              /\ i.issue \in UrlIssues => i.of.source = "Url"
              /\ i.issue \in HubIssues => i.of.source = "HuggingFace"
    BY <2>1, <2>2, OwnIssue
  <2>4. QED
    BY <2>1, <2>3, SourceSearch, SearchEnds
<1>3. CASE UrlCached
  <2>1. /\ Resolving("Url", "look")
        /\ Resolved(File(Reference), Fix("ModelDownloadCompleted", Reference), NotConfigured)
        /\ UNCHANGED <<in_cache, failures>>
    BY <1>3 DEF UrlCached
  <2>2. QED
    BY <1>1, <2>1, SourceSearch, SearchFinds
<1>4. CASE UrlUnavailable \/ UrlFails
  <2>1. PICK step : Resolving("Url", step)
    BY <1>4 DEF UrlUnavailable, UrlFails
  <2>2. failures' \in 0 .. MaxFailures
    BY <1>4, <2>1, SourceSearch, FailureBound DEF UrlUnavailable, UrlFails
  <2>3. PICK name \in UrlIssues : Unresolved({Issue(name, Reference)}, NotConfigured)
    BY <1>4 DEF UrlUnavailable, UrlFails, CacheFailure, AgentIssueFor, UrlIssues
  <2>4. \A i \in {Issue(name, Reference)} :
              /\ i.issue \in SearchKinds
              /\ i.issue \in UrlIssues => i.of.source = "Url"
              /\ i.issue \in HubIssues => i.of.source = "HuggingFace"
    BY <2>1, <2>3, OwnIssue
  <2>5. QED
    BY <2>1, <2>2, <2>3, <2>4, SourceSearch, SearchEnds
<1>5. CASE UrlStarted
  <2>1. /\ Resolving("Url", "look") /\ resolving' = <<Role, "download">>
        /\ download' = Reference
    BY <1>5 DEF UrlStarted
  <2>2. /\ issues' \subseteq issues
        /\ \A i \in issues : i.issue \notin SearchOnly => i \in issues'
    BY <1>1, <1>5, SearchedIssues DEF UrlStarted
  <2>3. IssuesTyped'
    BY <2>2 DEF IssuesTyped
  <2>4. UNCHANGED <<wanted_rx, wanted, is_converted, model_path, slots, application, loadVars,
                    halted, applicable_rx, is_changed, model_file, in_cache, failures>>
    BY <1>5 DEF UrlStarted
  <2>5. QED
    BY <2>1, <2>2, <2>3, <2>4, SourceSearch, Searching
<1>6. CASE UrlFinished
  <2>1. /\ Resolving("Url", "download")
        /\ Resolved(File(Reference), Fix("ModelDownloadCompleted", Reference), NotConfigured)
        /\ in_cache' = in_cache \cup {Reference} /\ UNCHANGED failures
    BY <1>6 DEF UrlFinished
  <2>2. QED
    BY <1>1, <2>1, SourceSearch, SearchFinds
<1>7. QED
  BY <1>2, <1>3, <1>4, <1>5, <1>6 DEF UrlStep

\* Every step of the reconciliation searches or publishes.
LEMMA ReconciliationSearches ==
    ASSUME ResolutionTypes, IssuesTyped, ResolutionShape, ResolutionStep
    PROVE  Searched
BY SearchStarts, LocalSearch, HubSearch, UrlSearch DEF ResolutionStep

\* What the arbiter and its thread write has its type.
LEMMA LoadTypeStep ==
    ASSUME LoadTypes, NothingYet, applicable_rx \in Applicables,
           ApplyingStep \/ ThreadStep
    PROVE  LoadTypes'
<1>0. /\ SlotsWanted \in Nat
      /\ applicable # NotConfigured => applicable.model \in Files \cup {NotConfigured}
  BY LoadingConstants DEF LoadTypes, Applicables
<1>1. CASE TakeApplicableState
  BY <1>1, <1>0 DEF TakeApplicableState, BeginApplying, LoadTypes, NothingYet,
     ThreadSteps
<1>2. CASE RetryApplyingTick
  BY <1>2, <1>0 DEF RetryApplyingTick, BeginApplying, LoadTypes, NothingYet,
     ThreadSteps
<1>3. CASE ApplyState
  BY <1>3, <1>0 DEF ApplyState, LoadTypes, NothingYet, ThreadSteps
<1>4. CASE ModelLoadedSignal
  BY <1>4, <1>0 DEF ModelLoadedSignal, loopVars, LoadTypes, NothingYet, ThreadSteps
<1>5. CASE ChatTemplateLoadedSignal
  BY <1>5, <1>0 DEF ChatTemplateLoadedSignal, loopVars, LoadTypes, NothingYet,
     ThreadSteps
<1>6. CASE AgentWarmSignal
  BY <1>6, <1>0 DEF AgentWarmSignal, loopVars, LoadTypes, NothingYet, ThreadSteps
<1>7. CASE SpawnError
  BY <1>7, <1>0 DEF SpawnError, loopVars, statusVars, LoadTypes, NothingYet,
     ThreadSteps
<1>8. CASE SpawnIsCancelled
  BY <1>8, <1>0 DEF SpawnIsCancelled, loopVars, statusVars, LoadTypes, NothingYet,
     ThreadSteps
<1>9. CASE SchedulerJoined
  BY <1>9, <1>0 DEF SchedulerJoined, loopVars, LoadTypes, NothingYet, ThreadSteps
<1>10. CASE ArbiterEnds
  BY <1>10, <1>0 DEF ArbiterEnds, statusVars, LoadTypes, NothingYet, ThreadSteps
<1>11. CASE LoadModel
  BY <1>11, <1>0 DEF LoadModel, ThreadEnds, SendStartupSignal, threadVars, LoadTypes,
     NothingYet, ThreadSteps
<1>12. CASE LoadMetadata
  BY <1>12, <1>0 DEF LoadMetadata, ThreadEnds, threadVars, LoadTypes, NothingYet,
     ThreadSteps
<1>13. CASE LoadChatTemplate
  BY <1>13, <1>0 DEF LoadChatTemplate, ThreadEnds, SendStartupSignal, threadVars,
     LoadTypes, NothingYet, ThreadSteps
<1>14. CASE CompileChatTemplate
  BY <1>14, <1>0 DEF CompileChatTemplate, ThreadEnds, threadVars, LoadTypes,
     NothingYet, ThreadSteps
<1>15. CASE SetModelPath
  BY <1>15, <1>0 DEF SetModelPath, threadVars, LoadTypes, NothingYet, ThreadSteps
<1>16. CASE LoadProjection
  BY <1>16, <1>0 DEF LoadProjection, ThreadEnds, threadVars, LoadTypes, NothingYet,
     ThreadSteps
<1>17. CASE DecodeSpecialTokens
  BY <1>17, <1>0 DEF DecodeSpecialTokens, ThreadEnds, threadVars, LoadTypes,
     NothingYet, ThreadSteps
<1>18. CASE CreateContext
  BY <1>18, <1>0 DEF CreateContext, ThreadEnds, SendStartupSignal, threadVars,
     LoadTypes, NothingYet, ThreadSteps
<1>19. CASE TakeShutdownCommand
  BY <1>19, <1>0 DEF TakeShutdownCommand, threadVars, LoadTypes, NothingYet,
     ThreadSteps
<1>20. QED
  BY <1>1, <1>2, <1>3, <1>4, <1>5, <1>6, <1>7, <1>8, <1>9, <1>10, <1>11, <1>12, <1>13,
     <1>14, <1>15, <1>16, <1>17, <1>18, <1>19 DEF ApplyingStep, ThreadStep

\* The signals still say how far the thread has come.
LEMMA ThreadStepShape ==
    ASSUME LoadTypes, ThreadShape, LoadShape,
           ApplyingStep \/ ThreadStep
    PROVE  ThreadShape'
<1>1. CASE TakeApplicableState
  BY <1>1 DEF TakeApplicableState, BeginApplying, LoadTypes, ThreadShape, LoadShape,
     Loading, Templated
<1>2. CASE RetryApplyingTick
  BY <1>2 DEF RetryApplyingTick, BeginApplying, LoadTypes, ThreadShape, LoadShape,
     Loading, Templated
<1>3. CASE ApplyState
  BY <1>3 DEF ApplyState, LoadTypes, ThreadShape, LoadShape, Loading, Templated
<1>4. CASE ModelLoadedSignal
  BY <1>4 DEF ModelLoadedSignal, loopVars, LoadTypes, ThreadShape, LoadShape, Loading,
     Templated
<1>5. CASE ChatTemplateLoadedSignal
  BY <1>5 DEF ChatTemplateLoadedSignal, loopVars, LoadTypes, ThreadShape, LoadShape,
     Loading, Templated
<1>6. CASE AgentWarmSignal
  BY <1>6 DEF AgentWarmSignal, loopVars, LoadTypes, ThreadShape, LoadShape, Loading,
     Templated
<1>7. CASE SpawnError
  BY <1>7 DEF SpawnError, loopVars, statusVars, LoadTypes, ThreadShape, LoadShape,
     Loading, Templated
<1>8. CASE SpawnIsCancelled
  BY <1>8 DEF SpawnIsCancelled, loopVars, statusVars, LoadTypes, ThreadShape,
     LoadShape, Loading, Templated
<1>9. CASE SchedulerJoined
  BY <1>9 DEF SchedulerJoined, loopVars, LoadTypes, ThreadShape, LoadShape, Loading,
     Templated
<1>10. CASE ArbiterEnds
  BY <1>10 DEF ArbiterEnds, statusVars, LoadTypes, ThreadShape, LoadShape, Loading,
     Templated
<1>11. CASE LoadModel
  BY <1>11 DEF LoadModel, ThreadEnds, SendStartupSignal, threadVars, LoadTypes,
     ThreadShape, LoadShape, Loading, Templated
<1>12. CASE LoadMetadata
  BY <1>12 DEF LoadMetadata, ThreadEnds, threadVars, LoadTypes, ThreadShape,
     LoadShape, Loading, Templated
<1>13. CASE LoadChatTemplate
  BY <1>13 DEF LoadChatTemplate, ThreadEnds, SendStartupSignal, threadVars, LoadTypes,
     ThreadShape, LoadShape, Loading, Templated
<1>14. CASE CompileChatTemplate
  BY <1>14 DEF CompileChatTemplate, ThreadEnds, threadVars, LoadTypes, ThreadShape,
     LoadShape, Loading, Templated
<1>15. CASE SetModelPath
  BY <1>15 DEF SetModelPath, threadVars, LoadTypes, ThreadShape, LoadShape, Loading,
     Templated
<1>16. CASE LoadProjection
  BY <1>16 DEF LoadProjection, ThreadEnds, threadVars, LoadTypes, ThreadShape,
     LoadShape, Loading, Templated
<1>17. CASE DecodeSpecialTokens
  BY <1>17 DEF DecodeSpecialTokens, ThreadEnds, threadVars, LoadTypes, ThreadShape,
     LoadShape, Loading, Templated
<1>18. CASE CreateContext
  BY <1>18 DEF CreateContext, ThreadEnds, SendStartupSignal, threadVars, LoadTypes,
     ThreadShape, LoadShape, Loading, Templated
<1>19. CASE TakeShutdownCommand
  BY <1>19 DEF TakeShutdownCommand, threadVars, LoadTypes, ThreadShape, LoadShape,
     Loading, Templated
<1>20. QED
  BY <1>1, <1>2, <1>3, <1>4, <1>5, <1>6, <1>7, <1>8, <1>9, <1>10, <1>11, <1>12, <1>13,
     <1>14, <1>15, <1>16, <1>17, <1>18, <1>19 DEF ApplyingStep, ThreadStep

\* The arbiter still waits for a thread, and what runs is reported.
LEMMA LoadStepShape ==
    ASSUME LoadTypes, NothingYet, OnlyCancelled, ThreadShape, LoadShape,
           ApplyingStep \/ ThreadStep
    PROVE  LoadShape'
<1>1. CASE TakeApplicableState
  BY <1>1 DEF TakeApplicableState, BeginApplying, LoadTypes, NothingYet, ThreadShape,
     LoadShape, Loading, Templated
<1>2. CASE RetryApplyingTick
  BY <1>2 DEF RetryApplyingTick, BeginApplying, LoadTypes, NothingYet, ThreadShape,
     LoadShape, Loading, Templated
<1>3. CASE ApplyState
  BY <1>3 DEF ApplyState, LoadTypes, NothingYet, ThreadShape, LoadShape, Loading,
     Templated
<1>4. CASE ModelLoadedSignal
  BY <1>4 DEF ModelLoadedSignal, loopVars, LoadTypes, NothingYet, ThreadShape,
     LoadShape, Loading, Templated
<1>5. CASE ChatTemplateLoadedSignal
  BY <1>5 DEF ChatTemplateLoadedSignal, loopVars, LoadTypes, NothingYet, ThreadShape,
     LoadShape, Loading, Templated
<1>6. CASE AgentWarmSignal
  <2>1. thread = "running"
    <3>1. awaiting = "warm" /\ Loading /\ "warm" \in signals
      BY <1>6 DEF AgentWarmSignal, Loading
    <3>2. signals \notin Templated /\ signals # {} /\ signals # {"model"}
          /\ signals # {"model", "template"}
      BY <3>1 DEF Templated
    <3>3. QED
      BY <3>1, <3>2 DEF ThreadShape, LoadShape, LoadTypes, ThreadSteps
  <2>2. model_path = applicable.model
    BY <1>6, <2>1 DEF AgentWarmSignal, LoadShape
  <2>3. QED
    BY <1>6, <2>1, <2>2 DEF AgentWarmSignal, loopVars, LoadShape, Loading
<1>7. CASE SpawnError
  BY <1>7 DEF SpawnError, loopVars, statusVars, LoadTypes, NothingYet, ThreadShape,
     LoadShape, Loading, Templated
<1>8. CASE SpawnIsCancelled
  BY <1>8 DEF SpawnIsCancelled, loopVars, statusVars, LoadTypes, NothingYet,
     ThreadShape, LoadShape, Loading, Templated
<1>9. CASE SchedulerJoined
  BY <1>9 DEF SchedulerJoined, loopVars, LoadTypes, NothingYet, ThreadShape,
     LoadShape, Loading, Templated
<1>10. CASE ArbiterEnds
  BY <1>10 DEF ArbiterEnds, statusVars, LoadTypes, NothingYet, ThreadShape, LoadShape,
     Loading, Templated
<1>11. CASE LoadModel
  BY <1>11 DEF LoadModel, ThreadEnds, SendStartupSignal, threadVars, LoadTypes,
     NothingYet, ThreadShape, LoadShape, Loading, Templated
<1>12. CASE LoadMetadata
  BY <1>12 DEF LoadMetadata, ThreadEnds, threadVars, LoadTypes, NothingYet,
     ThreadShape, LoadShape, Loading, Templated
<1>13. CASE LoadChatTemplate
  BY <1>13 DEF LoadChatTemplate, ThreadEnds, SendStartupSignal, threadVars, LoadTypes,
     NothingYet, ThreadShape, LoadShape, Loading, Templated
<1>14. CASE CompileChatTemplate
  BY <1>14 DEF CompileChatTemplate, ThreadEnds, threadVars, LoadTypes, NothingYet,
     ThreadShape, LoadShape, Loading, Templated
<1>15. CASE SetModelPath
  BY <1>15 DEF SetModelPath, threadVars, LoadTypes, NothingYet, ThreadShape,
     LoadShape, Loading, Templated
<1>16. CASE LoadProjection
  BY <1>16 DEF LoadProjection, ThreadEnds, threadVars, LoadTypes, NothingYet,
     ThreadShape, LoadShape, Loading, Templated
<1>17. CASE DecodeSpecialTokens
  BY <1>17 DEF DecodeSpecialTokens, ThreadEnds, threadVars, LoadTypes, NothingYet,
     ThreadShape, LoadShape, Loading, Templated
<1>18. CASE CreateContext
  BY <1>18 DEF CreateContext, ThreadEnds, SendStartupSignal, threadVars, LoadTypes,
     NothingYet, ThreadShape, LoadShape, Loading, Templated
<1>19. CASE TakeShutdownCommand
  BY <1>19 DEF TakeShutdownCommand, threadVars, LoadTypes, NothingYet, ThreadShape,
     LoadShape, Loading, Templated
<1>20. QED
  BY <1>1, <1>2, <1>3, <1>4, <1>5, <1>6, <1>7, <1>8, <1>9, <1>10, <1>11, <1>12, <1>13,
     <1>14, <1>15, <1>16, <1>17, <1>18, <1>19 DEF ApplyingStep, ThreadStep

\* Nothing is applied before it is published.
LEMMA NothingStep ==
    ASSUME NothingYet,
           ApplyingStep \/ ThreadStep
    PROVE  NothingYet'
<1>1. CASE TakeApplicableState
  BY <1>1 DEF TakeApplicableState, BeginApplying, NothingYet, reconciliationVars
<1>2. CASE RetryApplyingTick
  BY <1>2 DEF RetryApplyingTick, BeginApplying, NothingYet, reconciliationVars
<1>3. CASE ApplyState
  BY <1>3 DEF ApplyState, NothingYet, reconciliationVars
<1>4. CASE ModelLoadedSignal
  BY <1>4 DEF ModelLoadedSignal, loopVars, NothingYet, reconciliationVars
<1>5. CASE ChatTemplateLoadedSignal
  BY <1>5 DEF ChatTemplateLoadedSignal, loopVars, NothingYet, reconciliationVars
<1>6. CASE AgentWarmSignal
  BY <1>6 DEF AgentWarmSignal, loopVars, NothingYet, reconciliationVars
<1>7. CASE SpawnError
  BY <1>7 DEF SpawnError, loopVars, statusVars, NothingYet, reconciliationVars
<1>8. CASE SpawnIsCancelled
  BY <1>8 DEF SpawnIsCancelled, loopVars, statusVars, NothingYet, reconciliationVars
<1>9. CASE SchedulerJoined
  BY <1>9 DEF SchedulerJoined, loopVars, NothingYet, reconciliationVars
<1>10. CASE ArbiterEnds
  BY <1>10 DEF ArbiterEnds, statusVars, NothingYet, reconciliationVars
<1>11. CASE LoadModel
  BY <1>11 DEF LoadModel, ThreadEnds, SendStartupSignal, threadVars, NothingYet,
     reconciliationVars
<1>12. CASE LoadMetadata
  BY <1>12 DEF LoadMetadata, ThreadEnds, threadVars, NothingYet, reconciliationVars
<1>13. CASE LoadChatTemplate
  BY <1>13 DEF LoadChatTemplate, ThreadEnds, SendStartupSignal, threadVars,
     NothingYet, reconciliationVars
<1>14. CASE CompileChatTemplate
  BY <1>14 DEF CompileChatTemplate, ThreadEnds, threadVars, NothingYet,
     reconciliationVars
<1>15. CASE SetModelPath
  BY <1>15 DEF SetModelPath, threadVars, NothingYet, reconciliationVars
<1>16. CASE LoadProjection
  BY <1>16 DEF LoadProjection, ThreadEnds, threadVars, NothingYet, reconciliationVars
<1>17. CASE DecodeSpecialTokens
  BY <1>17 DEF DecodeSpecialTokens, ThreadEnds, threadVars, NothingYet,
     reconciliationVars
<1>18. CASE CreateContext
  BY <1>18 DEF CreateContext, ThreadEnds, SendStartupSignal, threadVars, NothingYet,
     reconciliationVars
<1>19. CASE TakeShutdownCommand
  BY <1>19 DEF TakeShutdownCommand, threadVars, NothingYet, reconciliationVars
<1>20. QED
  BY <1>1, <1>2, <1>3, <1>4, <1>5, <1>6, <1>7, <1>8, <1>9, <1>10, <1>11, <1>12, <1>13,
     <1>14, <1>15, <1>16, <1>17, <1>18, <1>19 DEF ApplyingStep, ThreadStep

\* What is taken is what was published.
LEMMA CancelledStep ==
    ASSUME OnlyCancelled,
           ApplyingStep \/ ThreadStep
    PROVE  OnlyCancelled'
<1>1. CASE TakeApplicableState
  BY <1>1 DEF TakeApplicableState, BeginApplying, OnlyCancelled, CancelledIsNotApplied
<1>2. CASE RetryApplyingTick
  BY <1>2 DEF RetryApplyingTick, BeginApplying, OnlyCancelled, CancelledIsNotApplied
<1>3. CASE ApplyState
  BY <1>3 DEF ApplyState, OnlyCancelled, CancelledIsNotApplied
<1>4. CASE ModelLoadedSignal
  BY <1>4 DEF ModelLoadedSignal, loopVars, OnlyCancelled, CancelledIsNotApplied
<1>5. CASE ChatTemplateLoadedSignal
  BY <1>5 DEF ChatTemplateLoadedSignal, loopVars, OnlyCancelled, CancelledIsNotApplied
<1>6. CASE AgentWarmSignal
  BY <1>6 DEF AgentWarmSignal, loopVars, OnlyCancelled, CancelledIsNotApplied
<1>7. CASE SpawnError
  BY <1>7 DEF SpawnError, loopVars, statusVars, OnlyCancelled, CancelledIsNotApplied
<1>8. CASE SpawnIsCancelled
  BY <1>8 DEF SpawnIsCancelled, loopVars, statusVars, OnlyCancelled,
     CancelledIsNotApplied
<1>9. CASE SchedulerJoined
  BY <1>9 DEF SchedulerJoined, loopVars, OnlyCancelled, CancelledIsNotApplied
<1>10. CASE ArbiterEnds
  BY <1>10 DEF ArbiterEnds, statusVars, OnlyCancelled, CancelledIsNotApplied
<1>11. CASE LoadModel
  BY <1>11 DEF LoadModel, ThreadEnds, SendStartupSignal, threadVars, OnlyCancelled,
     CancelledIsNotApplied
<1>12. CASE LoadMetadata
  BY <1>12 DEF LoadMetadata, ThreadEnds, threadVars, OnlyCancelled,
     CancelledIsNotApplied
<1>13. CASE LoadChatTemplate
  BY <1>13 DEF LoadChatTemplate, ThreadEnds, SendStartupSignal, threadVars,
     OnlyCancelled, CancelledIsNotApplied
<1>14. CASE CompileChatTemplate
  BY <1>14 DEF CompileChatTemplate, ThreadEnds, threadVars, OnlyCancelled,
     CancelledIsNotApplied
<1>15. CASE SetModelPath
  BY <1>15 DEF SetModelPath, threadVars, OnlyCancelled, CancelledIsNotApplied
<1>16. CASE LoadProjection
  BY <1>16 DEF LoadProjection, ThreadEnds, threadVars, OnlyCancelled,
     CancelledIsNotApplied
<1>17. CASE DecodeSpecialTokens
  BY <1>17 DEF DecodeSpecialTokens, ThreadEnds, threadVars, OnlyCancelled,
     CancelledIsNotApplied
<1>18. CASE CreateContext
  BY <1>18 DEF CreateContext, ThreadEnds, SendStartupSignal, threadVars,
     OnlyCancelled, CancelledIsNotApplied
<1>19. CASE TakeShutdownCommand
  BY <1>19 DEF TakeShutdownCommand, threadVars, OnlyCancelled, CancelledIsNotApplied
<1>20. QED
  BY <1>1, <1>2, <1>3, <1>4, <1>5, <1>6, <1>7, <1>8, <1>9, <1>10, <1>11, <1>12, <1>13,
     <1>14, <1>15, <1>16, <1>17, <1>18, <1>19 DEF ApplyingStep, ThreadStep

\* The arbiter and its thread leave the search as it is.
LEMMA LoadLeavesSearch ==
    ASSUME ApplyingStep \/ ThreadStep
    PROVE  /\ UNCHANGED <<wanted_rx, wanted, is_converted, resolving, model_file, in_cache, download,
                          applicable_rx, halted>>
           /\ is_changed' = is_changed \/ is_changed' = FALSE
           /\ CanFail \/ UNCHANGED failures
<1>1. CASE TakeApplicableState
  BY <1>1 DEF TakeApplicableState, BeginApplying, statusVars, reconciliationVars
<1>2. CASE RetryApplyingTick
  BY <1>2 DEF RetryApplyingTick, BeginApplying, statusVars, reconciliationVars
<1>3. CASE ApplyState
  BY <1>3 DEF ApplyState, statusVars, reconciliationVars
<1>4. CASE ModelLoadedSignal
  BY <1>4 DEF ModelLoadedSignal, loopVars, statusVars, reconciliationVars
<1>5. CASE ChatTemplateLoadedSignal
  BY <1>5 DEF ChatTemplateLoadedSignal, loopVars, statusVars, reconciliationVars
<1>6. CASE AgentWarmSignal
  BY <1>6 DEF AgentWarmSignal, loopVars, statusVars, reconciliationVars
<1>7. CASE SpawnError
  BY <1>7 DEF SpawnError, loopVars, statusVars, statusVars, reconciliationVars
<1>8. CASE SpawnIsCancelled
  BY <1>8 DEF SpawnIsCancelled, loopVars, statusVars, statusVars, reconciliationVars
<1>9. CASE SchedulerJoined
  BY <1>9 DEF SchedulerJoined, loopVars, statusVars, reconciliationVars
<1>10. CASE ArbiterEnds
  BY <1>10 DEF ArbiterEnds, statusVars, statusVars, reconciliationVars
<1>11. CASE LoadModel
  BY <1>11 DEF LoadModel, ThreadEnds, SendStartupSignal, threadVars, statusVars,
     reconciliationVars
<1>12. CASE LoadMetadata
  BY <1>12 DEF LoadMetadata, ThreadEnds, threadVars, statusVars, reconciliationVars
<1>13. CASE LoadChatTemplate
  BY <1>13 DEF LoadChatTemplate, ThreadEnds, SendStartupSignal, threadVars,
     statusVars, reconciliationVars
<1>14. CASE CompileChatTemplate
  BY <1>14 DEF CompileChatTemplate, ThreadEnds, threadVars, statusVars,
     reconciliationVars
<1>15. CASE SetModelPath
  BY <1>15 DEF SetModelPath, threadVars, statusVars, reconciliationVars
<1>16. CASE LoadProjection
  BY <1>16 DEF LoadProjection, ThreadEnds, threadVars, statusVars, reconciliationVars
<1>17. CASE DecodeSpecialTokens
  BY <1>17 DEF DecodeSpecialTokens, ThreadEnds, threadVars, statusVars,
     reconciliationVars
<1>18. CASE CreateContext
  BY <1>18 DEF CreateContext, ThreadEnds, SendStartupSignal, threadVars, statusVars,
     reconciliationVars
<1>19. CASE TakeShutdownCommand
  BY <1>19 DEF TakeShutdownCommand, threadVars, statusVars, reconciliationVars
<1>20. QED
  BY <1>1, <1>2, <1>3, <1>4, <1>5, <1>6, <1>7, <1>8, <1>9, <1>10, <1>11, <1>12, <1>13,
     <1>14, <1>15, <1>16, <1>17, <1>18, <1>19 DEF ApplyingStep, ThreadStep

\* The issues that they register are those of a load.
LEMMA LoadRegisters ==
    ASSUME ApplyingStep \/ ThreadStep
    PROVE  \A i \in issues' : i \notin issues =>
              i.issue \in LoadKinds \cup {"MultimodalProjectionCannotBeLoaded"}
<1>1. CASE TakeApplicableState
  BY <1>1 DEF TakeApplicableState, BeginApplying, RegisterFix, RegisterIssue, Issue,
     SlotIssues, LoadKinds
<1>2. CASE RetryApplyingTick
  BY <1>2 DEF RetryApplyingTick, BeginApplying, RegisterFix, RegisterIssue, Issue,
     SlotIssues, LoadKinds
<1>3. CASE ApplyState
  BY <1>3 DEF ApplyState, RegisterFix, RegisterIssue, Issue, SlotIssues, LoadKinds
<1>4. CASE ModelLoadedSignal
  BY <1>4 DEF ModelLoadedSignal, loopVars, RegisterFix, RegisterIssue, Issue,
     SlotIssues, LoadKinds
<1>5. CASE ChatTemplateLoadedSignal
  BY <1>5 DEF ChatTemplateLoadedSignal, loopVars, RegisterFix, RegisterIssue, Issue,
     SlotIssues, LoadKinds
<1>6. CASE AgentWarmSignal
  BY <1>6 DEF AgentWarmSignal, loopVars, RegisterFix, RegisterIssue, Issue,
     SlotIssues, LoadKinds
<1>7. CASE SpawnError
  BY <1>7 DEF SpawnError, loopVars, statusVars, RegisterFix, RegisterIssue, Issue,
     SlotIssues, LoadKinds
<1>8. CASE SpawnIsCancelled
  BY <1>8 DEF SpawnIsCancelled, loopVars, statusVars, RegisterFix, RegisterIssue,
     Issue, SlotIssues, LoadKinds
<1>9. CASE SchedulerJoined
  BY <1>9 DEF SchedulerJoined, loopVars, RegisterFix, RegisterIssue, Issue,
     SlotIssues, LoadKinds
<1>10. CASE ArbiterEnds
  BY <1>10 DEF ArbiterEnds, statusVars, RegisterFix, RegisterIssue, Issue, SlotIssues,
     LoadKinds
<1>11. CASE LoadModel
  BY <1>11 DEF LoadModel, ThreadEnds, SendStartupSignal, threadVars, RegisterFix,
     RegisterIssue, Issue, SlotIssues, LoadKinds
<1>12. CASE LoadMetadata
  BY <1>12 DEF LoadMetadata, ThreadEnds, threadVars, RegisterFix, RegisterIssue,
     Issue, SlotIssues, LoadKinds
<1>13. CASE LoadChatTemplate
  BY <1>13 DEF LoadChatTemplate, ThreadEnds, SendStartupSignal, threadVars,
     RegisterFix, RegisterIssue, Issue, SlotIssues, LoadKinds
<1>14. CASE CompileChatTemplate
  BY <1>14 DEF CompileChatTemplate, ThreadEnds, threadVars, RegisterFix,
     RegisterIssue, Issue, SlotIssues, LoadKinds
<1>15. CASE SetModelPath
  BY <1>15 DEF SetModelPath, threadVars, RegisterFix, RegisterIssue, Issue,
     SlotIssues, LoadKinds
<1>16. CASE LoadProjection
  BY <1>16 DEF LoadProjection, ThreadEnds, threadVars, RegisterFix, RegisterIssue,
     Issue, SlotIssues, LoadKinds
<1>17. CASE DecodeSpecialTokens
  BY <1>17 DEF DecodeSpecialTokens, ThreadEnds, threadVars, RegisterFix,
     RegisterIssue, Issue, SlotIssues, LoadKinds
<1>18. CASE CreateContext
  BY <1>18 DEF CreateContext, ThreadEnds, SendStartupSignal, threadVars, RegisterFix,
     RegisterIssue, Issue, SlotIssues, LoadKinds
<1>19. CASE TakeShutdownCommand
  BY <1>19 DEF TakeShutdownCommand, threadVars, RegisterFix, RegisterIssue, Issue,
     SlotIssues, LoadKinds
<1>20. QED
  BY <1>1, <1>2, <1>3, <1>4, <1>5, <1>6, <1>7, <1>8, <1>9, <1>10, <1>11, <1>12, <1>13,
     <1>14, <1>15, <1>16, <1>17, <1>18, <1>19 DEF ApplyingStep, ThreadStep

\* Such an issue is about no source, and the failures stay within their bound.
LEMMA LoadIssuesTyped ==
    ASSUME ResolutionTypes, IssuesTyped, ApplyingStep \/ ThreadStep
    PROVE  /\ IssuesTyped'
           /\ is_changed' \in BOOLEAN /\ failures' \in 0 .. MaxFailures
<1>1. IssuesTyped'
  BY LoadRegisters DEF IssuesTyped, LoadKinds, UrlIssues, HubIssues
<1>2. failures' \in 0 .. MaxFailures
  BY LoadLeavesSearch, FailureBound DEF ResolutionTypes
<1>3. is_changed' = is_changed \/ is_changed' = FALSE
  BY LoadLeavesSearch
<1>4. is_changed' \in BOOLEAN
  BY <1>3, Zenon DEF ResolutionTypes
<1>5. QED
  BY <1>1, <1>2, <1>4

\* Each cause of a failed load has its issues, which no search registers but for
\* that of the projection.
LEMMA Explanations ==
    /\ Explanation("model") = {Issue("ModelCannotBeLoaded", applicable.model)}
    /\ Explanation("template") = {Issue("UnableToFindChatTemplate", applicable.model)}
    /\ Explanation("compile") = {Issue("ChatTemplateDoesNotCompile", applicable.model)}
    /\ Explanation("projection") =
          {Issue("MultimodalProjectionCannotBeLoaded", applicable.projection)}
    /\ Explanation("context") = SlotIssues
    /\ Explanation("none") = {} /\ Explanation("tokens") = {} /\ Explanation("cancelled") = {}
BY DEF Explanation

\* The same of the next state.
LEMMA ExplanationsKept ==
    ASSUME applicable' = applicable
    PROVE  \A why : Explanation(why)' = Explanation(why)
BY DEF Explanation

\* The kind of an issue is the one it is named with.
LEMMA IssueKind ==
    ASSUME NEW name, NEW about
    PROVE  Issue(name, about).issue = name /\ Issue(name, about).of = about
BY DEF Issue

\* The issues of the slots are about them.
LEMMA SlotKind == \A i \in SlotIssues : i.issue = "SlotCannotStart"
BY DEF SlotIssues, Issue

\* An explanation has none of the kinds that only a search registers.
LEMMA ExplanationKinds ==
    ASSUME NEW why, NEW i \in Explanation(why)
    PROVE  i.issue \in LoadKinds \cup {"MultimodalProjectionCannotBeLoaded"}
<1>1. CASE why \in {"model", "template", "compile", "projection"}
  BY <1>1, Explanations, IssueKind DEF LoadKinds
<1>2. CASE why = "context"
  BY <1>2, Explanations, SlotKind DEF LoadKinds
<1>3. CASE why \notin {"model", "template", "compile", "projection", "context"}
  BY <1>3 DEF Explanation
<1>4. QED
  BY <1>1, <1>2, <1>3

\* Before a load has failed, clearing issues leaves nothing to explain.
LEMMA NothingToExplain ==
    ASSUME IssuesExplain, cause = "none", cause' \in {"none", "cancelled"},
           awaiting # "apply" \/ applicable = NotConfigured,
           UNCHANGED <<applicable, is_converted, is_changed>>, issues' \subseteq issues
    PROVE  IssuesExplain'
<1>1. Explanation(cause) = {}
  BY Explanations
<1>2. Explanation(cause)' = {}
  BY DEF Explanation
<1>3. LoadIssues' \subseteq LoadIssues
  BY DEF LoadIssues
<1>4. LoadIssues' = {}
  BY <1>1, <1>3 DEF IssuesExplain
<1>5. is_converted' /\ ~is_changed' => issues' = {}
  BY <1>1, SMT DEF IssuesExplain
<1>6. QED
  BY <1>2, <1>4, <1>5 DEF IssuesExplain

\* A thread that ends has registered its explanation, or leaves it to the arbiter,
\* whose signal is then dropped.
LEMMA EndIsExplained ==
    ASSUME LoadTypes, ThreadShape, LoadShape, IssuesExplain,
           thread \notin {"none", "running", "ended"},
           NEW why, NEW registered, ThreadEnds(why, registered),
           registered \subseteq Explanation(why),
           why \in {"compile", "projection", "context"} => registered = Explanation(why),
           why = "model" => thread = "load",
           why = "template" => thread \in {"metadata", "template"}
    PROVE  IssuesExplain'
<1>1. /\ cause = "none" /\ cause' = why /\ issues' = issues \cup registered
      /\ UNCHANGED <<applicable, awaiting, is_converted, is_changed>>
  BY DEF ThreadEnds, ThreadShape, threadVars, reconciliationVars
<1>2. awaiting # "apply" /\ awaiting # "idle"
  BY DEF LoadShape, LoadTypes, ThreadSteps
<1>3. Explanation(cause) = {} /\ Explanation(cause)' = Explanation(why)
  BY <1>1, Explanations DEF Explanation
<1>4. LoadIssues = {} /\ LoadIssues' \subseteq LoadIssues \cup registered
  BY <1>1, <1>2, <1>3 DEF IssuesExplain, LoadIssues
<1>5. is_converted /\ ~is_changed => issues = {}
  BY <1>2, <1>3 DEF IssuesExplain
<1>6. is_converted' /\ ~is_changed' => issues' \subseteq Explanation(why)
  BY <1>1, <1>5
<1>7. why = "model" => awaiting' \notin {"template", "warm"}
  BY <1>1 DEF LoadShape
<1>8. why = "template" => awaiting' # "warm"
  BY <1>1 DEF LoadShape
<1>9. why \in {"compile", "projection", "context"} => Explanation(cause)' \subseteq issues'
  BY <1>1, <1>3
<1>10. QED
  BY <1>1, <1>2, <1>3, <1>4, <1>6, <1>7, <1>8, <1>9 DEF IssuesExplain

\* The issues of a load are still its explanation when its thread has gone on.
LEMMA ThreadExplains ==
    ASSUME LoadTypes, NothingYet, ThreadShape, LoadShape, IssuesExplain, ThreadStep
    PROVE  IssuesExplain'
<1>1. ASSUME thread \notin {"none", "ended"}, cause' \in {"none", "cancelled"},
             UNCHANGED <<threadVars, issues>>
      PROVE  IssuesExplain'
  <2>1. cause = "none" /\ (awaiting # "apply" \/ thread = "running")
    BY <1>1 DEF ThreadShape, LoadShape, LoadTypes, ThreadSteps
  <2>2. UNCHANGED <<applicable, is_converted, is_changed, issues, awaiting>>
    BY <1>1 DEF threadVars, reconciliationVars
  <2>3. CASE awaiting # "apply"
    BY <1>1, <2>1, <2>2, <2>3, NothingToExplain
  <2>4. CASE awaiting = "apply"
    BY <1>1, <2>1, <2>2, <2>4, NothingToExplain DEF IssuesExplain, NothingYet, Loading
  <2>5. QED
    BY <2>3, <2>4
<1>2. ASSUME thread \notin {"none", "ended", "running"}, cause' = cause,
             UNCHANGED threadVars, issues' \subseteq issues
      PROVE  IssuesExplain'
  <2>1. cause = "none" /\ awaiting # "apply"
    BY <1>2 DEF ThreadShape, LoadShape, LoadTypes, ThreadSteps
  <2>2. UNCHANGED <<applicable, is_converted, is_changed>>
    BY <1>2 DEF threadVars, reconciliationVars
  <2>3. QED
    BY <1>2, <2>1, <2>2, NothingToExplain
<1>3. ASSUME NEW signal, NEW next, SendStartupSignal(signal, next), thread # "ended"
      PROVE  cause' \in {"none", "cancelled"}
  BY <1>3 DEF SendStartupSignal, ThreadShape
<1>4. ASSUME NEW fix, RegisterFix(fix) PROVE issues' \subseteq issues
  BY <1>4 DEF RegisterFix
<1>5. CASE LoadModel
  <2>1. thread = "load"
    BY <1>5 DEF LoadModel
  <2>2. CASE ThreadEnds("model", {})
    BY <2>1, <2>2, EndIsExplained
  <2>3. CASE SendStartupSignal("model", "metadata") /\ UNCHANGED <<threadVars, issues>>
    BY <1>1, <1>3, <2>1, <2>3
  <2>4. QED
    BY <1>5, <2>2, <2>3 DEF LoadModel
<1>6. CASE LoadMetadata
  <2>1. thread = "metadata"
    BY <1>6 DEF LoadMetadata
  <2>2. CASE ThreadEnds("template", {})
    BY <2>1, <2>2, EndIsExplained
  <2>3. CASE UNCHANGED <<threadVars, issues, cause>>
    BY <1>2, <2>1, <2>3
  <2>4. QED
    BY <1>6, <2>2, <2>3 DEF LoadMetadata
<1>7. CASE LoadChatTemplate
  <2>1. thread = "template"
    BY <1>7 DEF LoadChatTemplate
  <2>2. CASE ThreadEnds("template", {})
    BY <2>1, <2>2, EndIsExplained
  <2>3. CASE /\ SendStartupSignal("skipped", "path") \/ SendStartupSignal("template", "compile")
             /\ UNCHANGED <<threadVars, issues>>
    BY <1>1, <1>3, <2>1, <2>3
  <2>4. QED
    BY <1>7, <2>2, <2>3 DEF LoadChatTemplate
<1>8. CASE CompileChatTemplate
  <2>1. thread = "compile"
    BY <1>8 DEF CompileChatTemplate
  <2>2. CASE ThreadEnds("compile", {Issue("ChatTemplateDoesNotCompile", applicable.model)})
    BY <2>1, <2>2, EndIsExplained, Explanations
  <2>3. CASE /\ RegisterFix(Fix("ChatTemplateIsCompiled", applicable.model))
             /\ UNCHANGED <<threadVars, cause>>
    BY <1>2, <1>4, <2>1, <2>3
  <2>4. QED
    BY <1>8, <2>2, <2>3 DEF CompileChatTemplate
<1>9. CASE SetModelPath
  BY <1>2, <1>9 DEF SetModelPath
<1>10. CASE LoadProjection
  <2>1. thread = "projection"
    BY <1>10 DEF LoadProjection
  <2>2. CASE ThreadEnds("projection",
                {Issue("MultimodalProjectionCannotBeLoaded", applicable.projection)})
    BY <2>1, <2>2, EndIsExplained, Explanations
  <2>3. CASE /\ \/ UNCHANGED issues
                \/ RegisterFix(Fix("MultimodalProjectionIsLoaded", applicable.projection))
             /\ UNCHANGED <<threadVars, cause>>
    BY <1>2, <1>4, <2>1, <2>3
  <2>4. QED
    BY <1>10, <2>2, <2>3 DEF LoadProjection
<1>11. CASE DecodeSpecialTokens
  <2>1. thread = "tokens"
    BY <1>11 DEF DecodeSpecialTokens
  <2>2. CASE ThreadEnds("tokens", {})
    BY <2>1, <2>2, EndIsExplained
  <2>3. CASE UNCHANGED <<threadVars, issues, cause>>
    BY <1>2, <2>1, <2>3
  <2>4. QED
    BY <1>11, <2>2, <2>3 DEF DecodeSpecialTokens
<1>12. CASE CreateContext
  <2>1. thread = "context"
    BY <1>12 DEF CreateContext
  <2>2. CASE ThreadEnds("context", SlotIssues)
    BY <2>1, <2>2, EndIsExplained, Explanations
  <2>3. CASE SendStartupSignal("warm", "running") /\ UNCHANGED <<threadVars, issues>>
    BY <1>1, <1>3, <2>1, <2>3
  <2>4. QED
    BY <1>12, <2>2, <2>3 DEF CreateContext
<1>13. CASE TakeShutdownCommand
  <2>1. thread = "running" /\ cause' = "none" /\ UNCHANGED <<threadVars, issues>>
    BY <1>13 DEF TakeShutdownCommand, ThreadShape
  <2>2. QED
    BY <1>1, <2>1
<1>14. QED
  BY <1>5, <1>6, <1>7, <1>8, <1>9, <1>10, <1>11, <1>12, <1>13 DEF ThreadStep

\* The issues of a load are still its explanation when the arbiter has read a signal,
\* or applies a state anew.
LEMMA ApplyingExplains ==
    ASSUME LoadTypes, NothingYet, ThreadShape, LoadShape, IssuesExplain, ApplyingStep
    PROVE  IssuesExplain'
<1>1. ASSUME UNCHANGED <<applicable, issues, cause>>
      PROVE  Explanation(cause)' = Explanation(cause) /\ LoadIssues' = LoadIssues
  BY <1>1 DEF Explanation, LoadIssues
<1>2. CASE TakeApplicableState
  <2>1. /\ awaiting = "idle" /\ awaiting' = "apply" /\ applicable' = applicable_rx
        /\ UNCHANGED <<issues, cause, is_converted, wanted>>
    BY <1>2 DEF TakeApplicableState, BeginApplying, reconciliationVars
  <2>2. CASE applicable' = NotConfigured
    <3>1. applicable = NotConfigured /\ cause = "none"
      BY <2>1, <2>2 DEF NothingYet
    <3>2. is_converted => issues = {}
      BY <2>1, <2>2 DEF NothingYet
    <3>3. Explanation(cause)' = Explanation(cause) /\ LoadIssues' = LoadIssues
          /\ Explanation(cause) = {}
      BY <1>1, <2>1, <2>2, <3>1, Explanations
    <3>4. LoadIssues = {}
      BY <3>1, <3>3 DEF IssuesExplain
    <3>5. QED
      BY <2>1, <3>1, <3>2, <3>3, <3>4 DEF IssuesExplain, Loading
  <2>3. CASE applicable' # NotConfigured
    BY <2>1, <2>3 DEF IssuesExplain, Loading
  <2>4. QED
    BY <2>2, <2>3
<1>3. CASE RetryApplyingTick
  <2>1. /\ awaiting = "idle" /\ awaiting' = "apply" /\ applicable' = applicable
        /\ UNCHANGED <<issues, cause, is_converted, is_changed>>
    BY <1>3 DEF RetryApplyingTick, BeginApplying, reconciliationVars
  <2>2. Explanation(cause)' = Explanation(cause) /\ LoadIssues' = LoadIssues
    BY <1>1, <2>1
  <2>3. LoadIssues \subseteq Explanation(cause)
        /\ (is_converted /\ ~is_changed => issues \subseteq Explanation(cause))
    BY <2>1 DEF IssuesExplain
  <2>4. is_converted' /\ ~is_changed' => issues' \subseteq Explanation(cause)'
    BY <2>1, <2>2, <2>3
  <2>5. QED
    BY <2>1, <2>2, <2>3, <2>4 DEF IssuesExplain, Loading
<1>4. CASE ApplyState
  <2>1. /\ awaiting = "apply" /\ cause' = "none" /\ UNCHANGED <<applicable, is_converted, is_changed>>
        /\ applicable # NotConfigured => issues' = {}
        /\ applicable = NotConfigured => issues' = issues
    BY <1>4 DEF ApplyState, reconciliationVars
  <2>2. CASE applicable = NotConfigured
    BY <2>1, <2>2, NothingToExplain DEF NothingYet
  <2>3. CASE applicable # NotConfigured
    <3>1. Explanation(cause)' = {} /\ LoadIssues' = {} /\ issues' = {}
      BY <2>1, <2>3 DEF Explanation, LoadIssues
    <3>2. QED
      BY <2>1, <3>1 DEF IssuesExplain
  <2>4. QED
    BY <2>2, <2>3
<1>5. CASE ModelLoadedSignal
  <2>1. /\ awaiting = "model" /\ awaiting' = "template"
        /\ UNCHANGED <<applicable, is_converted, is_changed, cause, thread, signals>>
    BY <1>5 DEF ModelLoadedSignal, loopVars, reconciliationVars
  <2>2. Explanation(cause)' = Explanation(cause)
    BY <2>1 DEF Explanation
  <2>3. /\ LoadIssues \subseteq Explanation(cause)
        /\ is_converted /\ ~is_changed => issues \subseteq Explanation(cause)
        /\ ~is_changed /\ cause \in {"compile", "projection", "context"} =>
              Explanation(cause) \subseteq issues
    BY <2>1 DEF IssuesExplain, Loading
  <2>4. CASE "model" \in signals /\ RegisterFix(Fix("ModelIsLoaded", applicable.model))
    <3>1. cause # "model"
      BY <2>1, <2>4 DEF ThreadShape, Loading
    <3>2. /\ issues' \subseteq issues
          /\ \A i \in issues : i.issue # "ModelCannotBeLoaded" => i \in issues'
      BY <2>4 DEF RegisterFix, Fix, CanFix
    <3>3. LoadIssues' \subseteq LoadIssues
      BY <3>2 DEF LoadIssues
    <3>4. cause \in {"compile", "projection", "context"} =>
             \A i \in Explanation(cause) : i.issue # "ModelCannotBeLoaded"
      BY Explanations, IssueKind, SlotKind
    <3>5. ~is_changed /\ cause \in {"compile", "projection", "context"} =>
             Explanation(cause) \subseteq issues'
      BY <2>3, <3>2, <3>4
    <3>6. QED
      BY <2>1, <2>2, <2>3, <3>1, <3>2, <3>3, <3>5 DEF IssuesExplain
  <2>5. CASE /\ thread = "ended" /\ "model" \notin signals
             /\ RegisterIssue(Issue("ModelCannotBeLoaded", applicable.model))
    <3>1. cause = "model"
      BY <2>1, <2>5 DEF ThreadShape, Loading, Templated
    <3>2. /\ Explanation(cause) = {Issue("ModelCannotBeLoaded", applicable.model)}
          /\ issues' = issues \cup Explanation(cause)
      BY <2>5, <3>1, Explanations DEF RegisterIssue
    <3>3. LoadIssues' \subseteq LoadIssues \cup Explanation(cause)
      BY <3>2 DEF LoadIssues
    <3>4. Issue("ModelCannotBeLoaded", applicable.model) \in issues'
      BY <3>2
    <3>5. QED
      BY <2>1, <2>2, <2>3, <3>1, <3>2, <3>3, <3>4 DEF IssuesExplain
  <2>6. QED
    BY <1>5, <2>4, <2>5 DEF ModelLoadedSignal
<1>6. CASE ChatTemplateLoadedSignal
  <2>1. /\ awaiting = "template" /\ awaiting' = "warm"
        /\ UNCHANGED <<applicable, is_converted, is_changed, cause, thread, signals>>
    BY <1>6 DEF ChatTemplateLoadedSignal, loopVars, reconciliationVars
  <2>2. Explanation(cause)' = Explanation(cause)
    BY <2>1 DEF Explanation
  <2>3. /\ LoadIssues \subseteq Explanation(cause)
        /\ is_converted /\ ~is_changed => issues \subseteq Explanation(cause)
        /\ ~is_changed /\ cause \in {"compile", "projection", "context"} =>
              Explanation(cause) \subseteq issues
        /\ cause = "model" => Issue("ModelCannotBeLoaded", applicable.model) \in issues
    BY <2>1 DEF IssuesExplain, Loading
  <2>4. CASE /\ "template" \in signals \/ "skipped" \in signals
             /\ \/ RegisterFix(Fix("ModelChatTemplateIsLoaded", applicable.model))
                \/ UNCHANGED issues
    <3>1. cause # "template" /\ cause # "model"
      BY <2>1, <2>4 DEF ThreadShape, Loading, Templated
    <3>2. /\ issues' \subseteq issues
          /\ \A i \in issues : i.issue # "UnableToFindChatTemplate" => i \in issues'
      BY <2>4 DEF RegisterFix, Fix, CanFix
    <3>3. LoadIssues' \subseteq LoadIssues
      BY <3>2 DEF LoadIssues
    <3>4. cause \in {"compile", "projection", "context"} =>
             \A i \in Explanation(cause) : i.issue # "UnableToFindChatTemplate"
      BY Explanations, IssueKind, SlotKind
    <3>5. ~is_changed /\ cause \in {"compile", "projection", "context"} =>
             Explanation(cause) \subseteq issues'
      BY <2>3, <3>2, <3>4
    <3>6. QED
      BY <2>1, <2>2, <2>3, <3>1, <3>2, <3>3, <3>5 DEF IssuesExplain
  <2>5. CASE /\ thread = "ended" /\ signals \cap {"template", "skipped"} = {}
             /\ IF Issue("ModelCannotBeLoaded", applicable.model) \in issues
                THEN UNCHANGED issues
                ELSE RegisterIssue(Issue("UnableToFindChatTemplate", applicable.model))
    <3>1. cause \in {"model", "template"}
      BY <2>1, <2>5 DEF ThreadShape, Loading, Templated
    <3>2. CASE cause = "model"
      <4>1. issues' = issues /\ LoadIssues' = LoadIssues
        BY <2>3, <2>5, <3>2 DEF LoadIssues
      <4>2. QED
        BY <2>1, <2>2, <2>3, <3>2, <4>1 DEF IssuesExplain
    <3>3. CASE cause = "template"
      <4>1. Explanation(cause) = {Issue("UnableToFindChatTemplate", applicable.model)}
        BY <3>3, Explanations
      <4>2. Issue("ModelCannotBeLoaded", applicable.model) \notin issues
        <5>1. Issue("ModelCannotBeLoaded", applicable.model) \notin Explanation(cause)
          BY <4>1, IssueKind
        <5>2. Issue("ModelCannotBeLoaded", applicable.model) \in issues =>
                 Issue("ModelCannotBeLoaded", applicable.model) \in LoadIssues
          BY IssueKind DEF LoadIssues
        <5>3. QED
          BY <2>3, <5>1, <5>2
      <4>3. issues' = issues \cup Explanation(cause)
        BY <2>5, <4>1, <4>2 DEF RegisterIssue
      <4>4. LoadIssues' \subseteq LoadIssues \cup Explanation(cause)
        BY <4>3 DEF LoadIssues
      <4>5. QED
        BY <2>1, <2>2, <2>3, <3>3, <4>3, <4>4 DEF IssuesExplain
    <3>4. QED
      BY <3>1, <3>2, <3>3
  <2>6. QED
    BY <1>6, <2>4, <2>5 DEF ChatTemplateLoadedSignal
<1>7. CASE AgentWarmSignal
  <2>1. /\ awaiting = "warm" /\ awaiting' = "idle" /\ application' = "Applied"
        /\ UNCHANGED <<applicable, is_converted, is_changed, cause>> /\ issues' \subseteq issues
    BY <1>7 DEF AgentWarmSignal, loopVars, reconciliationVars
  <2>2. cause = "none"
    <3>1. Loading /\ "warm" \in signals
      BY <1>7 DEF AgentWarmSignal, Loading
    <3>2. signals \notin Templated /\ signals # {} /\ signals # {"model"}
          /\ signals # {"model", "template"}
      BY <3>1 DEF Templated
    <3>3. QED
      BY <3>1, <3>2 DEF ThreadShape
  <2>3. QED
    BY <2>1, <2>2, NothingToExplain
<1>8. CASE SpawnError \/ SpawnIsCancelled \/ SchedulerJoined \/ ArbiterEnds
  <2>1. /\ awaiting # "apply" /\ awaiting' # "apply"
        /\ UNCHANGED <<applicable, is_converted, is_changed, cause, issues>>
    BY <1>8 DEF SpawnError, SpawnIsCancelled, SchedulerJoined, ArbiterEnds, loopVars,
       statusVars, reconciliationVars
  <2>2. Explanation(cause)' = Explanation(cause) /\ LoadIssues' = LoadIssues
    BY <1>1, <2>1
  <2>3. /\ LoadIssues \subseteq Explanation(cause)
        /\ is_converted /\ ~is_changed => issues \subseteq Explanation(cause)
    BY <2>1 DEF IssuesExplain
  <2>4. is_converted' /\ ~is_changed' => issues' \subseteq Explanation(cause)'
    BY <2>1, <2>2, <2>3
  <2>5. CASE SpawnError
    <3>1. awaiting = "warm" /\ awaiting' = "idle" /\ Loading
      BY <2>5 DEF SpawnError, Loading
    <3>2. ~is_changed /\ cause \in {"model", "template", "compile", "projection", "context"} =>
             Explanation(cause) \subseteq issues
      BY <3>1, Explanations DEF IssuesExplain
    <3>3. ~is_changed' /\ cause' \in {"model", "template", "compile", "projection", "context"} =>
             Explanation(cause)' \subseteq issues'
      BY <2>1, <2>2, <3>2
    <3>4. QED
      BY <2>1, <2>2, <2>3, <2>4, <3>1, <3>3 DEF IssuesExplain
  <2>6. CASE SpawnIsCancelled \/ SchedulerJoined \/ ArbiterEnds
    <3>1. awaiting' \in {"cancelled", "stopped"} \/ (awaiting' = "idle" /\ application' = "Applied")
      BY <2>6 DEF SpawnIsCancelled, SchedulerJoined, ArbiterEnds
    <3>2. QED
      BY <2>1, <2>2, <2>3, <2>4, <3>1 DEF IssuesExplain, Loading
  <2>7. QED
    BY <1>8, <2>5, <2>6
<1>9. QED
  BY <1>2, <1>3, <1>4, <1>5, <1>6, <1>7, <1>8 DEF ApplyingStep

\* A search neither clears the explanation of a load nor adds to it.
LEMMA SearchExplains ==
    ASSUME IssuesExplain, SearchStep
    PROVE  IssuesExplain'
<1>1. UNCHANGED <<applicable, awaiting, thread, signals, cause, application, is_changed>>
      /\ ~is_converted'
  BY DEF SearchStep, loadVars
<1>2. \A why : Explanation(why)' = Explanation(why)
  BY <1>1, ExplanationsKept
<1>3. Explanation(cause)' = Explanation(cause)
  BY <1>1 DEF Explanation
<1>4. LoadIssues' \subseteq LoadIssues
  BY DEF LoadIssues, SearchStep, SearchKinds, SearchOnly, UrlIssues, HubIssues
<1>5. \A i \in issues : i.issue \in LoadKinds \cup {"MultimodalProjectionCannotBeLoaded"} =>
         i \in issues'
  BY DEF LoadKinds, SearchStep, SearchKinds, SearchOnly, UrlIssues, HubIssues
<1>6. Explanation(cause) \subseteq issues => Explanation(cause) \subseteq issues'
  BY <1>5, ExplanationKinds
<1>7. Issue("ModelCannotBeLoaded", applicable.model) \in issues =>
         Issue("ModelCannotBeLoaded", applicable.model) \in issues'
  BY <1>5, IssueKind DEF LoadKinds
<1>8. QED
  BY <1>1, <1>3, <1>4, <1>6, <1>7 DEF IssuesExplain, Loading

\* What a published state clears is explained anew when it is applied.
LEMMA PublishExplains ==
    ASSUME IssuesExplain, PublishStep
    PROVE  IssuesExplain'
<1>1. UNCHANGED <<applicable, awaiting, thread, signals, cause, application>> /\ is_changed'
      /\ issues' \subseteq issues
  BY DEF PublishStep, loadVars
<1>2. Explanation(cause)' = Explanation(cause)
  BY <1>1 DEF Explanation
<1>3. LoadIssues' \subseteq LoadIssues
  BY <1>1 DEF LoadIssues
<1>4. Issue("ModelCannotBeLoaded", applicable.model) \in issues =>
         Issue("ModelCannotBeLoaded", applicable.model) \in issues'
  BY IssueKind DEF PublishStep
<1>5. QED
  BY <1>1, <1>2, <1>3, <1>4 DEF IssuesExplain, Loading

\* A step of the reconciliation leaves the load as it is.
LEMMA ReconciliationKeeps ==
    ASSUME LoadTypes, NothingYet, OnlyCancelled, ThreadShape, LoadShape,
           SearchStep \/ PublishStep
    PROVE  LoadTypes' /\ NothingYet' /\ OnlyCancelled' /\ ThreadShape' /\ LoadShape'
<1>1. UNCHANGED <<applicable, awaiting, thread, signals, cause, model_path, slots, application,
                  halted>>
  BY DEF SearchStep, PublishStep, loadVars
<1>2. LoadTypes' /\ ThreadShape' /\ LoadShape'
  BY <1>1 DEF LoadTypes, ThreadShape, LoadShape, Loading
<1>3. CASE SearchStep
  BY <1>1, <1>2, <1>3 DEF SearchStep, NothingYet, OnlyCancelled, CancelledIsNotApplied
<1>4. CASE PublishStep
  <2>1. OnlyCancelled'
    BY <1>1, <1>4 DEF PublishStep, OnlyCancelled, CancelledIsNotApplied
  <2>2. NothingYet'
    BY <1>1, <1>4 DEF PublishStep, NothingYet
  <2>3. QED
    BY <1>2, <2>1, <2>2
<1>5. QED
  BY <1>3, <1>4

\* The balancer and the shutdown write what they alone write.
LEMMA OutsideKeeps ==
    ASSUME ModelLoadingInv, (\E w \in Wanted : SendWanted(w)) \/ (Halt /\ UNCHANGED sends)
    PROVE  ModelLoadingInv'
<1>1. /\ ModelLoadingTypeOK /\ Queued /\ ResolutionShape /\ NothingYet /\ OnlyCancelled /\ ThreadShape
      /\ LoadShape /\ IssuesExplain
  BY DEF ModelLoadingInv
<1>2. UNCHANGED <<wanted, is_converted, resolving, model_file, in_cache, issues, model_path, slots,
                  application, download, applicable, awaiting, thread, signals, cause,
                  applicable_rx, is_changed, failures>>
  BY DEF SendWanted, Halt, statusVars, loadVars, reconciliationVars
<1>3. halted' \in BOOLEAN /\ (halted => halted')
  BY <1>1, Zenon DEF SendWanted, Halt, ModelLoadingTypeOK
<1>4. wanted_rx' \in Seq(Wanted) /\ Len(wanted_rx') <= MaxWanted /\ sends' \in 0 .. MaxWanted
      /\ Len(wanted_rx') <= sends'
  <2>1. CASE Halt /\ UNCHANGED sends
    BY <1>1, <2>1 DEF Halt, reconciliationVars, ModelLoadingTypeOK, Queued
  <2>2. CASE \E w \in Wanted : SendWanted(w)
    BY <1>1, <2>2, LoadingConstants DEF SendWanted, ModelLoadingTypeOK, Queued
  <2>3. QED
    BY <2>1, <2>2
<1>5. is_converted' \in BOOLEAN /\ is_changed' \in BOOLEAN
  BY <1>1, <1>2, Zenon DEF ModelLoadingTypeOK
<1>6. ModelLoadingTypeOK'
  BY <1>1, <1>2, <1>3, <1>4, <1>5 DEF ModelLoadingTypeOK
<1>7. ResolutionShape' /\ NothingYet' /\ OnlyCancelled'
  BY <1>1, <1>2, <1>3 DEF ResolutionShape, NothingYet, OnlyCancelled, CancelledIsNotApplied, Role
<1>8. ThreadShape' /\ LoadShape'
  BY <1>1, <1>2, <1>3 DEF ThreadShape, LoadShape, Loading
<1>9. IssuesExplain'
  <2>1. Explanation(cause)' = Explanation(cause) /\ LoadIssues' = LoadIssues
    BY <1>2 DEF Explanation, LoadIssues
  <2>2. QED
    BY <1>1, <1>2, <2>1 DEF IssuesExplain, Loading
<1>10. QED
  BY <1>4, <1>6, <1>7, <1>8, <1>9 DEF ModelLoadingInv, Queued

\* The invariant holds at the start.
LEMMA ModelLoadingStart == ModelLoadingInit => ModelLoadingInv
<1>1. SUFFICES ASSUME ModelLoadingInit PROVE ModelLoadingInv
  OBVIOUS
<1>2. wanted_rx \in Seq(Wanted) /\ Len(wanted_rx) = 0
  <2>1. <<>> \in Seq(Wanted) /\ Len(<<>>) = 0
    OBVIOUS
  <2>2. QED
    BY <1>1, <2>1 DEF ModelLoadingInit
<1>3. is_converted \in BOOLEAN /\ is_changed \in BOOLEAN /\ halted \in BOOLEAN
  BY <1>1 DEF ModelLoadingInit
<1>4. /\ 0 <= MaxWanted /\ sends \in 0 .. MaxWanted /\ failures \in 0 .. MaxFailures
      /\ slots \in {0, SlotsWanted}
  BY <1>1, LoadingConstants DEF ModelLoadingInit
<1>5. ModelLoadingTypeOK
  BY <1>1, <1>2, <1>3, <1>4
     DEF ModelLoadingInit, ModelLoadingTypeOK, Applicables, ThreadSteps
<1>6. ResolutionShape /\ NothingYet /\ Queued
  BY <1>1, <1>2 DEF ModelLoadingInit, ResolutionShape, NothingYet, Role, Queued
<1>7. OnlyCancelled /\ ThreadShape /\ LoadShape
  BY <1>1 DEF ModelLoadingInit, OnlyCancelled, CancelledIsNotApplied, ThreadShape, LoadShape,
     Loading
<1>8. IssuesExplain
  <2>1. LoadIssues = {} /\ issues = {}
    BY <1>1 DEF ModelLoadingInit, LoadIssues
  <2>2. cause = "none"
    BY <1>1 DEF ModelLoadingInit
  <2>3. QED
    BY <2>1, <2>2 DEF IssuesExplain
<1>9. QED
  BY <1>5, <1>6, <1>7, <1>8 DEF ModelLoadingInv

\* Every step keeps the invariant.
LEMMA ModelLoadingStep ==
    ModelLoadingInv /\ [ModelLoadingNext]_modelLoadingVars => ModelLoadingInv'
<1>1. SUFFICES ASSUME ModelLoadingInv, [ModelLoadingNext]_modelLoadingVars
               PROVE  ModelLoadingInv'
  OBVIOUS
<1>2. /\ ModelLoadingTypeOK /\ Queued /\ ResolutionShape /\ NothingYet /\ OnlyCancelled
      /\ ThreadShape /\ LoadShape /\ IssuesExplain
  BY <1>1 DEF ModelLoadingInv
<1>3. ResolutionTypes /\ IssuesTyped /\ LoadTypes /\ sends \in 0 .. MaxWanted
  BY <1>2, TypesAreParts DEF ModelLoadingTypeOK
<1>4. ASSUME ResolutionTypes', IssuesTyped', LoadTypes', sends' \in 0 .. MaxWanted
      PROVE  ModelLoadingTypeOK'
  BY <1>4 DEF ModelLoadingTypeOK, ResolutionTypes, IssuesTyped, LoadTypes
<1>5. CASE (\E w \in Wanted : SendWanted(w)) \/ (Halt /\ UNCHANGED sends)
  BY <1>1, <1>5, OutsideKeeps
<1>6. CASE ResolutionStep /\ UNCHANGED sends
  <2>1. Searched
    BY <1>2, <1>3, <1>6, ReconciliationSearches
  <2>2. LoadTypes' /\ NothingYet' /\ OnlyCancelled' /\ ThreadShape' /\ LoadShape'
    BY <1>2, <1>3, <2>1, ReconciliationKeeps DEF Searched
  <2>3. IssuesExplain'
    BY <1>2, <2>1, SearchExplains, PublishExplains DEF Searched
  <2>4. sends' \in 0 .. MaxWanted /\ Queued'
    <3>1. Len(wanted_rx) \in Nat /\ Len(wanted_rx') \in Nat
      BY <1>3, <2>1 DEF ResolutionTypes, Searched
    <3>2. QED
      BY <1>2, <1>3, <1>6, <2>1, <3>1 DEF Searched, Queued
  <2>5. ModelLoadingTypeOK' /\ ResolutionShape'
    BY <1>4, <2>1, <2>2, <2>4 DEF Searched
  <2>6. QED
    BY <2>2, <2>3, <2>4, <2>5 DEF ModelLoadingInv
<1>7. CASE (ApplyingStep \/ ThreadStep) /\ UNCHANGED sends
  <2>1. applicable_rx \in Applicables
    BY <1>3 DEF ResolutionTypes
  <2>2. LoadTypes' /\ NothingYet' /\ OnlyCancelled' /\ ThreadShape' /\ LoadShape'
    BY <1>2, <1>3, <1>7, <2>1, LoadTypeStep, NothingStep, CancelledStep, ThreadStepShape,
       LoadStepShape
  <2>3. IssuesExplain'
    BY <1>2, <1>3, <1>7, ApplyingExplains, ThreadExplains
  <2>4. UNCHANGED <<wanted_rx, wanted, is_converted, resolving, model_file, in_cache, download,
                    applicable_rx, halted, sends>>
    BY <1>7, LoadLeavesSearch
  <2>5. IssuesTyped' /\ is_changed' \in BOOLEAN /\ failures' \in 0 .. MaxFailures
    BY <1>3, <1>7, LoadIssuesTyped
  <2>6. is_converted' \in BOOLEAN
    BY <1>3, <2>4, Zenon DEF ResolutionTypes
  <2>7. ResolutionTypes' /\ sends' \in 0 .. MaxWanted
    BY <1>3, <2>4, <2>5, <2>6 DEF ResolutionTypes
  <2>8. ResolutionShape' /\ Queued'
    BY <1>2, <2>4 DEF ResolutionShape, Queued, Role
  <2>9. QED
    BY <1>4, <2>2, <2>3, <2>5, <2>7, <2>8 DEF ModelLoadingInv
<1>8. CASE UNCHANGED modelLoadingVars
  <2>1. UNCHANGED <<wanted_rx, wanted, is_converted, resolving, model_file, in_cache, issues,
                    model_path, slots, application, download, applicable, awaiting, thread,
                    signals, cause, applicable_rx, is_changed, halted, sends, failures>>
    BY <1>8 DEF modelLoadingVars, reconciliationVars, statusVars, loadVars
  <2>2. ModelLoadingTypeOK'
    BY <1>2, <2>1 DEF ModelLoadingTypeOK
  <2>3. ResolutionShape' /\ NothingYet' /\ OnlyCancelled' /\ Queued'
    BY <1>2, <2>1 DEF ResolutionShape, NothingYet, OnlyCancelled, CancelledIsNotApplied, Role,
       Queued
  <2>4. ThreadShape' /\ LoadShape'
    BY <1>2, <2>1 DEF ThreadShape, LoadShape, Loading
  <2>5. Explanation(cause)' = Explanation(cause) /\ LoadIssues' = LoadIssues
    BY <2>1 DEF Explanation, LoadIssues
  <2>6. IssuesExplain'
    BY <1>2, <2>1, <2>5 DEF IssuesExplain, Loading
  <2>7. QED
    BY <2>2, <2>3, <2>4, <2>6 DEF ModelLoadingInv
<1>9. QED
  BY <1>1, <1>5, <1>6, <1>7, <1>8 DEF ModelLoadingNext

\* The invariant says why a load has failed, and that nothing is left of the others.
LEMMA StatusFollows == ModelLoadingInv => StatusIsExplained
<1>1. SUFFICES ASSUME ModelLoadingInv PROVE StatusIsExplained
  OBVIOUS
<1>2. /\ LoadTypes /\ NothingYet /\ OnlyCancelled /\ ThreadShape /\ LoadShape /\ IssuesExplain
  BY <1>1, TypesAreParts DEF ModelLoadingInv
<1>3. FailureIsExplained
  <2>1. SUFFICES ASSUME awaiting = "idle", ~is_changed, application # "Applied", thread = "ended"
                 PROVE  Explanation(cause) \subseteq issues /\ LoadIssues \subseteq Explanation(cause)
    BY DEF FailureIsExplained
  <2>2. LoadIssues \subseteq Explanation(cause)
    BY <1>2, <2>1 DEF IssuesExplain
  <2>3. CASE cause \in {"model", "template", "compile", "projection", "context"}
    BY <1>2, <2>1, <2>2, <2>3 DEF IssuesExplain
  <2>4. CASE cause \notin {"model", "template", "compile", "projection", "context"}
    BY <2>2, <2>4 DEF Explanation
  <2>5. QED
    BY <2>3, <2>4
<1>4. ASSUME awaiting = "idle", application = "Applied", ~halted
      PROVE  /\ thread \in {"none", "running"} /\ Explanation(cause) = {}
             /\ thread = "none" => model_path = NotConfigured
  <2>1. /\ thread \in {"none", "running"}
        /\ thread = "none" => model_path = NotConfigured
    BY <1>2, <1>4 DEF LoadShape
  <2>2. cause = "none"
    BY <1>2, <2>1 DEF ThreadShape
  <2>3. QED
    BY <2>1, <2>2, Explanations
<1>5. AppliedHasNoIssue
  BY <1>2, <1>4 DEF AppliedHasNoIssue, Settled, IssuesExplain
<1>6. RunningIsReported /\ CancelledIsNotApplied
  BY <1>2 DEF RunningIsReported, LoadShape, OnlyCancelled
<1>7. CardIsTrue
  <2>1. SUFFICES ASSUME ViewAgentCard = "Applied", ~halted
                 PROVE  /\ thread = "running" /\ slots = SlotsWanted
                        /\ model_path = applicable.model /\ LoadIssues = {}
    BY DEF CardIsTrue
  <2>2. application = "Applied" /\ model_path # NotConfigured
    BY <2>1 DEF ViewAgentCard
  <2>3. awaiting = "idle"
    BY <1>2, <2>1, <2>2 DEF LoadShape, Loading, LoadTypes
  <2>4. thread = "running" /\ Explanation(cause) = {}
    BY <1>4, <2>1, <2>2, <2>3
  <2>5. slots = SlotsWanted /\ model_path = applicable.model
    BY <1>2, <2>3, <2>4 DEF LoadShape
  <2>6. LoadIssues = {}
    BY <1>2, <2>3, <2>4 DEF IssuesExplain
  <2>7. QED
    BY <2>4, <2>5, <2>6
<1>8. QED
  BY <1>3, <1>5, <1>6, <1>7 DEF StatusIsExplained
-----------------------------------------------------------------------------
\* The two parts keep their invariants: a load those of its issues and signals
\* (reconciliation_service.rs, llamacpp_arbiter_service.rs, the scheduler's thread), a
\* download those of its lock and its chunks.
THEOREM ModelsAreSound == ModelsSpec => [](DownloadInv /\ ModelLoadingInv)
<1>1. ModelsInit => DownloadInv /\ ModelLoadingInv
  BY DownloadInit, ModelLoadingStart DEF ModelsInit
<1>2. DownloadInv /\ ModelLoadingInv /\ [ModelsNext]_<<part, vars, modelLoadingVars>> =>
         DownloadInv' /\ ModelLoadingInv'
  <2>1. [ModelsNext]_<<part, vars, modelLoadingVars>> =>
           [Next]_vars /\ [ModelLoadingNext]_modelLoadingVars
    BY DEF ModelsNext
  <2>2. QED
    BY <2>1, DownloadStep, ModelLoadingStep
<1>3. QED
  BY <1>1, <1>2, PTL DEF ModelsSpec

\* What an agent's status says is so for any desired states, slots and failures: the
\* progress of a download (increment_download_current), the reason a load failed, the
\* model that runs (await_startup_signals, register_fix, reset).
THEOREM StatusIsAlwaysTrue == ModelsSpec => []StatusIsTrue
<1>1. DownloadInv /\ ModelLoadingInv => StatusIsTrue
  BY ProgressFollows, StatusFollows DEF StatusIsTrue
<1>2. QED
  BY <1>1, ModelsAreSound, PTL

\* The status, the files and the signals of an agent have their types: a reference is
\* resolved to a file of its source, and a count stays within its bound.
THEOREM ModelsAreTyped == ModelsSpec => []ModelsTypeOK
<1>1. DownloadInv /\ ModelLoadingInv => ModelsTypeOK
  BY DEF DownloadInv, ModelLoadingInv, ModelsTypeOK
<1>2. QED
  BY <1>1, ModelsAreSound, PTL
=============================================================================
