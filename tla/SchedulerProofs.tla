--------------------------- MODULE SchedulerProofs --------------------------
(***************************************************************************)
(* That the scheduler of an agent knows what llama.cpp's context holds,    *)
(* and that its answers are whole, for any requests, any number of         *)
(* sequences and any sizes of batches, prompts and answers.                *)
(*                                                                         *)
(* The invariant is about where a request is.  It is in one queue at most, *)
(* and in the phase that goes with it (QueuesAreDisjoint); its sequence id *)
(* is its own (PoolIsExact), so that what one request writes to the cache  *)
(* is not another's (CacheFollows); when a batch is assembled nothing is   *)
(* left to sample, so that a decode leaves logits for all that is          *)
(* (NothingIsOverwritten); and what a request has to show is sent, and     *)
(* counted against its limit, before it goes on (TokensAreCounted,         *)
(* EndIsAnnounced).                                                        *)
(*                                                                         *)
(* A batch is filled by recursion on the active requests.  That the        *)
(* recursion defines a function, and that it keeps to the batch's limit,   *)
(* is shown by the least index at which it would not (LeastNatural).       *)
(***************************************************************************)
EXTENDS MCScheduler, FiniteSetTheorems, WellFoundedInduction, TLAPS

Busy == {"ingesting", "generating", "completed"}

Distinct(s) == \A i, j \in 1 .. Len(s) : s[i] = s[j] => i = j

QueuesAreDisjoint ==
    /\ \A i, j \in 1 .. Len(commands) :
          commands[i] = commands[j] /\ commands[i] # Shutdown => i = j
    /\ Distinct(embeddings)
    /\ Distinct(active)
    /\ \A r \in Elements(commands) \ {Shutdown} :
          phase[r] = "queued" /\ r \notin Elements(embeddings)
    /\ \A r \in Elements(embeddings) : phase[r] = "queued"
    /\ \A r \in Elements(active) : phase[r] \in Busy

PoolIsExact ==
    /\ Distinct(available_ids)
    /\ \A r \in Elements(active) : id[r] \in SequenceIds \ Elements(available_ids)
    /\ \A r, q \in Elements(active) : id[r] = id[q] => r = q
    /\ \A s \in SequenceIds \ Elements(available_ids) : \E r \in Elements(active) : id[r] = s

CacheFollows ==
    /\ PositionIsCacheLength
    /\ \A r \in Request : phase[r] \in {"new", "queued"} => position[r] = 0

NothingIsOverwritten ==
    /\ LogitsAreFresh
    /\ place = "decode" => Sampleable = {}

\* What a request has counted and failed to send is nothing before it generates.  Unless
\* the harvest sampled one of its tokens, it is under its limit while it goes on, and
\* only a client that has left misses a piece.
TokensAreCounted ==
    \A r \in Request :
        /\ phase[r] \notin {"generating", "completed"} => usage[r] = 0 /\ r \notin unsent
        /\ phase[r] = "generating" /\ r \notin harvested => usage[r] = 0 \/ usage[r] < MaxTokens
        /\ r \notin harvested /\ (phase[r] # "completed" \/ outcome[r] = "Done") =>
              r \notin unsent

\* A request completes with a message, or its client has left.
EndIsAnnounced ==
    /\ \A r \in Request :
          /\ phase[r] # "over" => terminals[r] = 0
          /\ phase[r] = "completed" /\ r \in listening => outcome[r] # "EmitNothing"
          /\ phase[r] # "completed" => outcome[r] = "EmitNothing"
    /\ place \in {"cleanup", "ended"} => ~running

SchedulerInv ==
    /\ SchedulerTypeOK
    /\ QueuesAreDisjoint
    /\ PoolIsExact
    /\ CacheFollows
    /\ NothingIsOverwritten
    /\ TokensAreCounted
    /\ EndIsAnnounced
    /\ AnsweredOnce
-----------------------------------------------------------------------------
(***************************************************************************)
(* Least and largest elements, in place of an induction.                   *)
(***************************************************************************)
\* A set of natural numbers has a least element.
LEMMA LeastNatural ==
    ASSUME NEW T, T \subseteq Nat, T # {}
    PROVE  \E n \in T : \A m \in T : n <= m
<1>1. PICK n \in T : \A m \in T : ~(<<m, n>> \in OpToRel(<, Nat))
  BY NatLessThanWellFounded, WFMin
<1>2. \A m \in T : ~(m < n)
  BY <1>1 DEF OpToRel
<1>3. QED
  BY <1>2

\* A set of indices has a largest element.
LEMMA LargestIndex ==
    ASSUME NEW n \in Nat, NEW T, T \subseteq 1 .. n, T # {}
    PROVE  \E m \in T : \A k \in T : k <= m
<1> DEFINE U == {n - k : k \in T}
<1>1. U \subseteq Nat /\ U # {}
  <2>1. ASSUME NEW u \in U PROVE u \in Nat
    <3>1. PICK k \in T : u = n - k
      BY <2>1
    <3>2. QED
      BY <3>1
  <2>2. PICK k \in T : TRUE
    OBVIOUS
  <2>3. n - k \in U
    BY <2>2
  <2>4. QED
    BY <2>1, <2>3
<1> HIDE DEF U
<1>2. PICK u \in U : \A v \in U : u <= v
  BY <1>1, LeastNatural
<1>3. PICK m \in T : u = n - m
  BY <1>2 DEF U
<1>4. \A k \in T : n - k \in U
  BY DEF U
<1>5. \A k \in T : n - m <= n - k
  BY <1>2, <1>3, <1>4
<1>6. QED
  BY <1>5
-----------------------------------------------------------------------------
(***************************************************************************)
(* The batch.                                                              *)
(***************************************************************************)
\* The active requests are counted by their indices.
LEMMA IndicesAreFinite ==
    ASSUME SchedulerTypeOK
    PROVE  /\ Len(active) \in Nat
           /\ \A T : T \subseteq 1 .. Len(active) => IsFiniteSet(T) /\ Cardinality(T) \in Nat
<1>1. Len(active) \in Nat
  BY DEF SchedulerTypeOK
<1>2. IsFiniteSet(1 .. Len(active))
  BY <1>1, FS_Interval
<1>3. QED
  BY <1>1, <1>2, FS_Subset, FS_CardinalityType

\* No more requests put a pending token into the batch than it has room for
\* (fill_generating).
LEMMA GeneratingFits ==
    ASSUME SchedulerTypeOK
    PROVE  Cardinality(FillGenerating) \in 0 .. NBatch
<1> DEFINE Before(j) == {k \in Waiting : k < j}
           P == {j \in Waiting : Cardinality(Before(j)) < NBatch}
<1>1. P \subseteq 1 .. Len(active) /\ \A j : Before(j) \subseteq 1 .. Len(active)
  BY DEF Waiting
<1>8. /\ \A j \in P : Cardinality(Before(j)) < NBatch
      /\ \A j, k \in P : k < j => k \in Before(j)
  OBVIOUS
<1>9. FillGenerating = {active[i] : i \in P}
  BY DEF FillGenerating
<1> HIDE DEF P, Before
<1>2. NBatch \in Nat
  BY SchedulerAssumption
<1>3. IsFiniteSet(P) /\ Cardinality(P) \in Nat
  BY <1>1, IndicesAreFinite
<1>4. Cardinality(P) <= NBatch
  <2>1. CASE P = {}
    BY <1>2, <2>1, FS_EmptySet
  <2>2. CASE P # {}
    <3>1. PICK m \in P : \A k \in P : k <= m
      BY <1>1, <2>2, IndicesAreFinite, LargestIndex
    <3>2. P \ {m} \subseteq Before(m)
      <4>1. \A k \in P : k # m => k < m
        BY <1>1, <3>1, IndicesAreFinite
      <4>2. QED
        BY <1>8, <3>1, <4>1
    <3>3. IsFiniteSet(Before(m)) /\ Cardinality(Before(m)) \in Nat
      BY <1>1, IndicesAreFinite
    <3>4. Cardinality(P \ {m}) <= Cardinality(Before(m))
      BY <3>2, <3>3, FS_Subset
    <3>5. Cardinality(P \ {m}) = Cardinality(P) - 1
      BY <1>3, <3>1, FS_RemoveElement
    <3>6. Cardinality(Before(m)) < NBatch
      BY <1>8, <3>1
    <3>7. QED
      BY <1>2, <1>3, <3>3, <3>4, <3>5, <3>6
  <2>3. QED
    BY <2>1, <2>2
<1>5. /\ IsFiniteSet(FillGenerating)
      /\ Cardinality(FillGenerating) <= Cardinality(P)
  <2> DEFINE f == [i \in P |-> active[i]]
  <2>1. f \in Surjection(P, FillGenerating)
    BY <1>9 DEF Surjection
  <2>2. QED
    BY <1>3, <2>1, FS_Surjection
<1>6. Cardinality(FillGenerating) \in Nat
  BY <1>5, FS_CardinalityType
<1>7. QED
  BY <1>2, <1>3, <1>4, <1>5, <1>6

\* What a request may ingest is no more than its prompt and the space that is left
\* (compute_ingesting_chunk_size).
LEMMA ChunkFits ==
    ASSUME NEW left \in Nat, NEW used \in 0 .. NBatch
    PROVE  /\ ChunkSize(left, used) \in 0 .. left
           /\ used + ChunkSize(left, used) \in 0 .. NBatch
BY SchedulerAssumption DEF ChunkSize

\* The tokens that the i-th active request adds to a batch that has some.
Added(i, used) ==
    IF phase[active[i]] = "ingesting" THEN ChunkSize(remaining[active[i]], used) ELSE 0

\* Every active request adds what fits.
LEMMA AddedFits ==
    ASSUME SchedulerTypeOK, NEW i \in 1 .. Len(active), NEW used \in 0 .. NBatch
    PROVE  /\ active[i] \in Request
           /\ remaining[active[i]] \in Nat
           /\ Added(i, used) \in 0 .. remaining[active[i]]
           /\ used + Added(i, used) \in 0 .. NBatch
<1>1. active[i] \in Request
  BY DEF SchedulerTypeOK
<1>2. remaining[active[i]] \in Nat
  BY <1>1, SchedulerAssumption DEF SchedulerTypeOK
<1>3. NBatch \in Nat /\ used \in Nat
  BY SchedulerAssumption
<1>4. CASE phase[active[i]] = "ingesting"
  BY <1>1, <1>2, <1>4, ChunkFits DEF Added
<1>5. CASE phase[active[i]] # "ingesting"
  <2>1. Added(i, used) = 0
    BY <1>5 DEF Added
  <2>2. QED
    BY <1>1, <1>2, <1>3, <2>1
<1>6. QED
  BY <1>4, <1>5

\* The batch after any number of the active requests: the recursion of fill_ingesting
\* has a solution.
LEMMA BatchCanBeFilled ==
    ASSUME SchedulerTypeOK
    PROVE  \E f \in [0 .. Len(active) -> 0 .. NBatch] :
              /\ f[0] = Cardinality(FillGenerating)
              /\ \A i \in 1 .. Len(active) : f[i] = f[i - 1] + Added(i, f[i - 1])
<1> DEFINE Fills(f, k) == /\ f \in [0 .. k -> 0 .. NBatch]
                          /\ f[0] = Cardinality(FillGenerating)
                          /\ \A i \in 1 .. k : f[i] = f[i - 1] + Added(i, f[i - 1])
           Bad == {k \in 0 .. Len(active) : \A f : ~Fills(f, k)}
<1>1. Len(active) \in Nat
  BY IndicesAreFinite
<1>2. ASSUME Bad # {} PROVE FALSE
  <2>1. PICK k \in Bad : \A m \in Bad : k <= m
    <3>1. Bad \subseteq Nat
      OBVIOUS
    <3> HIDE DEF Bad
    <3>2. QED
      BY <1>2, <3>1, LeastNatural
  <2>2. k \in 0 .. Len(active) /\ \A f : ~Fills(f, k)
    BY <2>1
  <2>3. CASE k = 0
    <3> DEFINE f == [i \in 0 .. 0 |-> Cardinality(FillGenerating)]
    <3>1. Fills(f, 0)
      BY GeneratingFits
    <3> HIDE DEF f, Fills
    <3>2. QED
      BY <2>2, <2>3, <3>1
  <2>4. CASE k # 0
    <3>1. k - 1 \in 0 .. Len(active) /\ k - 1 \notin Bad /\ k \in 1 .. Len(active)
      <4> HIDE DEF Fills
      <4>1. k \in Nat /\ k - 1 \in 0 .. Len(active) /\ k \in 1 .. Len(active)
        BY <1>1, <2>2, <2>4
      <4> HIDE DEF Bad
      <4>2. QED
        BY <2>1, <4>1
    <3>2. PICK g : Fills(g, k - 1)
      BY <3>1
    <3> DEFINE f == [i \in 0 .. k |-> IF i = k THEN g[k - 1] + Added(k, g[k - 1]) ELSE g[i]]
    <3>3. g[k - 1] \in 0 .. NBatch
      BY <1>1, <3>1, <3>2
    <3>4. g[k - 1] + Added(k, g[k - 1]) \in 0 .. NBatch
      BY <3>1, <3>3, AddedFits
    <3>5. f \in [0 .. k -> 0 .. NBatch]
      BY <1>1, <3>1, <3>2, <3>4
    <3>6. f[0] = Cardinality(FillGenerating)
      BY <1>1, <3>1, <3>2
    <3>7. ASSUME NEW i \in 1 .. k PROVE f[i] = f[i - 1] + Added(i, f[i - 1])
      <4>1. f[i - 1] = g[i - 1]
        BY <1>1, <3>1
      <4>2. CASE i = k
        BY <4>1, <4>2, <3>1
      <4>3. CASE i # k
        <5>1. i \in 1 .. k - 1 /\ f[i] = g[i]
          BY <1>1, <3>1, <4>3
        <5>2. g[i] = g[i - 1] + Added(i, g[i - 1])
          BY <3>2, <5>1
        <5>3. QED
          BY <4>1, <5>1, <5>2
      <4>4. QED
        BY <4>2, <4>3
    <3>8. Fills(f, k)
      BY <3>5, <3>6, <3>7
    <3> HIDE DEF f, Fills
    <3>9. QED
      BY <2>2, <3>8
  <2>5. QED
    BY <2>3, <2>4
<1>3. Len(active) \notin Bad
  BY <1>2
<1>4. PICK f : Fills(f, Len(active))
  BY <1>1, <1>3
<1>5. QED
  BY <1>4

\* A batch is filled request by request and never beyond its limit (fill_ingesting).
LEMMA BatchIsFilled ==
    ASSUME SchedulerTypeOK
    PROVE  /\ FillIngesting \in [0 .. Len(active) -> 0 .. NBatch]
           /\ \A i \in 1 .. Len(active) :
                 FillIngesting[i] = FillIngesting[i - 1] + Added(i, FillIngesting[i - 1])
<1> DEFINE Eq(f) == f = [i \in 0 .. Len(active) |->
                            IF i = 0 THEN Cardinality(FillGenerating)
                            ELSE f[i - 1] + IF phase[active[i]] = "ingesting"
                                            THEN ChunkSize(remaining[active[i]], f[i - 1])
                                            ELSE 0]
<1>1. Len(active) \in Nat
  BY IndicesAreFinite
<1>2. PICK f \in [0 .. Len(active) -> 0 .. NBatch] :
              /\ f[0] = Cardinality(FillGenerating)
              /\ \A i \in 1 .. Len(active) : f[i] = f[i - 1] + Added(i, f[i - 1])
  BY BatchCanBeFilled
<1>3. Eq(f)
  BY <1>1, <1>2 DEF Added
<1>4. Eq(FillIngesting)
  BY <1>3, Zenon DEF FillIngesting
<1> DEFINE g == FillIngesting
<1>5. Eq(g)
  BY <1>4
<1> HIDE DEF g
<1>6. g[0] = Cardinality(FillGenerating)
  BY <1>1, <1>5
<1>7. \A i \in 1 .. Len(active) : g[i] = g[i - 1] + Added(i, g[i - 1])
  <2>1. SUFFICES ASSUME NEW i \in 1 .. Len(active)
                 PROVE  g[i] = g[i - 1] + Added(i, g[i - 1])
    OBVIOUS
  <2>2. i \in 0 .. Len(active) /\ i # 0
    BY <1>1, <2>1
  <2>3. QED
    BY <1>5, <2>2 DEF Added
<1>8. DOMAIN g = 0 .. Len(active) /\ g = [i \in 0 .. Len(active) |-> g[i]]
  BY <1>5
<1> HIDE DEF Eq
<1> DEFINE Bad == {i \in 0 .. Len(active) : g[i] \notin 0 .. NBatch}
<1>9. ASSUME Bad # {} PROVE FALSE
  <2>1. PICK i \in Bad : \A m \in Bad : i <= m
    <3>1. Bad \subseteq Nat
      OBVIOUS
    <3> HIDE DEF Bad
    <3>2. QED
      BY <1>9, <3>1, LeastNatural
  <2>2. i # 0
    BY <1>6, <2>1, GeneratingFits
  <2>3. i - 1 \in 0 .. Len(active) /\ i - 1 \notin Bad /\ i \in 1 .. Len(active)
    BY <1>1, <2>1, <2>2
  <2>4. g[i - 1] \in 0 .. NBatch
    BY <2>3
  <2>5. g[i - 1] + Added(i, g[i - 1]) \in 0 .. NBatch
    BY <2>3, <2>4, AddedFits
  <2>6. g[i] \in 0 .. NBatch
    BY <1>7, <2>3, <2>5
  <2>7. QED
    BY <2>1, <2>6
<1>10. \A i \in 0 .. Len(active) : g[i] \in 0 .. NBatch
  BY <1>9
<1>11. g \in [0 .. Len(active) -> 0 .. NBatch]
  BY <1>8, <1>10
<1>12. QED
  BY <1>7, <1>11 DEF g

-----------------------------------------------------------------------------
(***************************************************************************)
(* The elements of the queues.                                             *)
(***************************************************************************)
\* An element of a sequence is one of its set.
LEMMA ElementsType ==
    ASSUME NEW S, NEW s \in Seq(S)
    PROVE  Elements(s) \subseteq S /\ Len(s) \in Nat /\ \A i \in 1 .. Len(s) : s[i] \in S
BY DEF Elements

\* An element is appended (Vec::push, VecDeque::push_back, the sender of a channel).
LEMMA AppendElements ==
    ASSUME NEW S, NEW s \in Seq(S), NEW x \in S
    PROVE  /\ Append(s, x) \in Seq(S)
           /\ Elements(Append(s, x)) = Elements(s) \cup {x}
           /\ Distinct(s) /\ x \notin Elements(s) => Distinct(Append(s, x))
<1> DEFINE t == Append(s, x)
<1>1. t \in Seq(S) /\ Len(t) = Len(s) + 1 /\ Len(s) \in Nat
  OBVIOUS
<1>2. t[Len(s) + 1] = x /\ \A i \in 1 .. Len(s) : t[i] = s[i]
  OBVIOUS
<1> HIDE DEF t
<1>3. Elements(t) = Elements(s) \cup {x}
  BY <1>1, <1>2 DEF Elements
<1>4. Distinct(s) /\ x \notin Elements(s) => Distinct(t)
  BY <1>1, <1>2 DEF Elements, Distinct
<1>5. QED
  BY <1>1, <1>3, <1>4 DEF t

\* The first element is taken (VecDeque::pop_front).
LEMMA TailElements ==
    ASSUME NEW S, NEW s \in Seq(S), s # <<>>
    PROVE  /\ Tail(s) \in Seq(S) /\ Head(s) \in S
           /\ Elements(s) = Elements(Tail(s)) \cup {Head(s)}
           /\ Distinct(s) => Distinct(Tail(s)) /\ Head(s) \notin Elements(Tail(s))
<1> DEFINE t == Tail(s)
<1>1. t \in Seq(S) /\ Len(t) = Len(s) - 1 /\ Len(s) \in Nat \ {0}
  OBVIOUS
<1>2. Head(s) = s[1] /\ \A i \in 1 .. Len(s) - 1 : t[i] = s[i + 1]
  OBVIOUS
<1> HIDE DEF t
<1>3. Elements(t) \subseteq Elements(s) /\ s[1] \in Elements(s) /\ s[1] \in S
  BY <1>1, <1>2 DEF Elements
<1>4. ASSUME NEW e \in Elements(s), e # s[1] PROVE e \in Elements(t)
  <2>1. PICK i \in 1 .. Len(s) : e = s[i]
    BY <1>4 DEF Elements
  <2>2. i - 1 \in 1 .. Len(t) /\ t[i - 1] = s[i]
    BY <1>1, <1>2, <1>4, <2>1
  <2>3. QED
    BY <2>1, <2>2 DEF Elements
<1>5. ASSUME Distinct(s) PROVE Distinct(t) /\ s[1] \notin Elements(t)
  <2>1. Distinct(t)
    BY <1>1, <1>2, <1>5 DEF Distinct
  <2>2. \A i \in 1 .. Len(t) : t[i] # s[1]
    BY <1>1, <1>2, <1>5 DEF Distinct
  <2>3. QED
    BY <2>1, <2>2 DEF Elements
<1>6. QED
  BY <1>1, <1>2, <1>3, <1>4, <1>5 DEF t

\* The last element is taken (Vec::pop).
LEMMA FrontElements ==
    ASSUME NEW S, NEW s \in Seq(S), s # <<>>, Distinct(s)
    PROVE  /\ SubSeq(s, 1, Len(s) - 1) \in Seq(S)
           /\ s[Len(s)] \in Elements(s)
           /\ Elements(SubSeq(s, 1, Len(s) - 1)) = Elements(s) \ {s[Len(s)]}
           /\ Distinct(SubSeq(s, 1, Len(s) - 1))
<1> DEFINE t == SubSeq(s, 1, Len(s) - 1)
<1>1. t \in Seq(S) /\ Len(t) = Len(s) - 1 /\ Len(s) \in Nat \ {0}
  <2>1. Len(s) \in Nat \ {0}
    OBVIOUS
  <2>2. \A i \in 1 .. Len(s) - 1 : s[i] \in S
    BY <2>1
  <2>3. t = [i \in 1 .. Len(s) - 1 |-> s[i]]
    BY <2>1
  <2> HIDE DEF t
  <2>4. Len(s) - 1 \in Nat /\ t \in [1 .. Len(s) - 1 -> S]
    BY <2>1, <2>2, <2>3
  <2>5. QED
    BY <2>1, <2>4
<1>2. \A i \in 1 .. Len(s) - 1 : t[i] = s[i]
  OBVIOUS
<1> HIDE DEF t
<1>3. s[Len(s)] \in Elements(s)
  BY <1>1 DEF Elements
<1>4. \A i \in 1 .. Len(t) : t[i] \in Elements(s) /\ t[i] # s[Len(s)]
  BY <1>1, <1>2 DEF Elements, Distinct
<1>5. ASSUME NEW e \in Elements(s), e # s[Len(s)] PROVE e \in Elements(t)
  <2>1. PICK i \in 1 .. Len(s) : e = s[i]
    BY <1>5 DEF Elements
  <2>2. i \in 1 .. Len(t) /\ t[i] = s[i]
    BY <1>1, <1>2, <1>5, <2>1
  <2>3. QED
    BY <2>1, <2>2 DEF Elements
<1>6. Elements(t) = Elements(s) \ {s[Len(s)]}
  BY <1>4, <1>5 DEF Elements
<1>7. Distinct(t)
  BY <1>1, <1>2 DEF Distinct
<1>8. QED
  BY <1>1, <1>3, <1>6, <1>7 DEF t

\* Any element is taken and the last moves to its place (Vec::swap_remove).
LEMMA SwapElements ==
    ASSUME NEW S, NEW s \in Seq(S), NEW k \in 1 .. Len(s), Distinct(s)
    PROVE  /\ SwapRemove(s, k) \in Seq(S)
           /\ s[k] \in Elements(s)
           /\ Elements(SwapRemove(s, k)) = Elements(s) \ {s[k]}
           /\ Distinct(SwapRemove(s, k))
<1> DEFINE t == SwapRemove(s, k)
<1>1. t \in Seq(S) /\ Len(t) = Len(s) - 1 /\ Len(s) \in Nat \ {0}
  BY DEF SwapRemove
<1>2. \A i \in 1 .. Len(s) - 1 : t[i] = IF i = k THEN s[Len(s)] ELSE s[i]
  BY DEF SwapRemove
<1> HIDE DEF t
<1>3. s[k] \in Elements(s)
  BY DEF Elements
<1>4. \A i \in 1 .. Len(t) : t[i] \in Elements(s) /\ t[i] # s[k]
  BY <1>1, <1>2 DEF Elements, Distinct
<1>5. ASSUME NEW e \in Elements(s), e # s[k] PROVE e \in Elements(t)
  <2>1. PICK i \in 1 .. Len(s) : e = s[i]
    BY <1>5 DEF Elements
  <2>2. CASE i = Len(s)
    <3>1. k \in 1 .. Len(t) /\ t[k] = s[i]
      BY <1>1, <1>2, <1>5, <2>1, <2>2
    <3>2. QED
      BY <2>1, <3>1 DEF Elements
  <2>3. CASE i # Len(s)
    <3>1. i \in 1 .. Len(t) /\ t[i] = s[i]
      BY <1>1, <1>2, <1>5, <2>1, <2>3
    <3>2. QED
      BY <2>1, <3>1 DEF Elements
  <2>4. QED
    BY <2>2, <2>3
<1>6. Elements(t) = Elements(s) \ {s[k]}
  BY <1>4, <1>5 DEF Elements
<1>7. Distinct(t)
  BY <1>1, <1>2 DEF Distinct
<1>8. QED
  BY <1>1, <1>3, <1>6, <1>7 DEF t

\* What an active request contributes to a batch is a pending token, or what fits of
\* its prompt (Contributions).
LEMMA ContributionFits ==
    ASSUME SchedulerTypeOK
    PROVE  /\ FillGenerating \subseteq ActiveIn("generating") \cap pending
           /\ \A r \in Request : Contribution(r) \in Nat
           /\ \A r \in FillGenerating : Contribution(r) = 1
           /\ \A r \in ActiveIn("ingesting") : Contribution(r) <= remaining[r]
           /\ \A r : r \notin FillGenerating \cup ActiveIn("ingesting") => Contribution(r) = 0
<1>1. FillGenerating \subseteq ActiveIn("generating") \cap pending
  BY DEF FillGenerating, Waiting, ActiveIn, Elements
<1>2. \A r \in FillGenerating : Contribution(r) = 1
  BY DEF Contribution
<1>3. \A r : r \notin FillGenerating \cup ActiveIn("ingesting") => Contribution(r) = 0
  BY DEF Contribution
<1>4. ASSUME NEW r \in ActiveIn("ingesting")
      PROVE  Contribution(r) \in Nat /\ Contribution(r) <= remaining[r]
  <2> DEFINE c == CHOOSE i \in 1 .. Len(active) : active[i] = r
  <2>1. r \notin FillGenerating
    BY <1>1, <1>4 DEF ActiveIn
  <2>2. Contribution(r) = FillIngesting[c] - FillIngesting[c - 1]
    BY <1>4, <2>1 DEF Contribution
  <2>3. c \in 1 .. Len(active) /\ active[c] = r
    BY <1>4 DEF ActiveIn, Elements
  <2> HIDE DEF c
  <2>4. Len(active) \in Nat /\ c - 1 \in 0 .. Len(active)
    BY <2>3, IndicesAreFinite
  <2> DEFINE used == FillIngesting[c - 1]
  <2>5. used \in 0 .. NBatch /\ FillIngesting[c] = used + Added(c, used)
    BY <2>3, <2>4, BatchIsFilled
  <2> HIDE DEF used
  <2>6. Added(c, used) \in 0 .. remaining[r] /\ remaining[r] \in Nat
    BY <2>3, <2>5, AddedFits
  <2>7. FillIngesting[c] - used = Added(c, used)
    BY <2>5, <2>6, SchedulerAssumption
  <2>8. QED
    BY <2>2, <2>6, <2>7 DEF used
<1>5. \A r \in Request : Contribution(r) \in Nat
  BY <1>2, <1>3, <1>4
<1>6. QED
  BY <1>1, <1>2, <1>3, <1>4, <1>5

-----------------------------------------------------------------------------
(***************************************************************************)
(* The steps.                                                              *)
(***************************************************************************)
Outcome == {"EmitNothing", "Done", "Error"}

\* What the three steps that end an active request have in common: one that is
\* completed, the one that is evicted, and any at the end of the scheduler.
Cleanup(i, result) ==
    /\ CleanupCompletedRequest(i, result)
    /\ \/ phase[active[i]] = "completed" /\ result = outcome[active[i]]
       \/ result = "Error"
       \/ place = "cleanup"
    /\ place' = place \/ place' = IF running THEN "stop" ELSE "cleanup"
    /\ UNCHANGED <<queueVars, logits, clientVars, failed>>

\* A step is one of these.
LEMMA CasesOfNext ==
    ASSUME SchedulerTypeOK, [SchedulerNext]_schedulerVars
    PROVE  \/ \E r \in Request, k \in {"text", "image", "embedding"} : Send(r, k)
           \/ SendShutdown
           \/ \E r \in Request, leaves \in BOOLEAN : Stop(r, leaves)
           \/ CheckStopSignals
           \/ NoneCompleted
           \/ NoCommand
           \/ AcceptShutdown
           \/ \E r \in Request : AcceptEmbedding(r)
           \/ \E r \in Request, p \in 1 .. MaxPrompt : AcceptTextPrompt(r, p)
           \/ \E r \in Request, silent \in BOOLEAN : Refuse(r, silent)
           \/ \E r \in Request, broken \in SUBSET Sampleable :
              \E gain \in Gains(Sampleable \ broken), shown \in SUBSET (Sampleable \ broken),
                 p \in 1 .. MaxPrompt : AcceptImage(r, p, broken, gain, shown)
           \/ \E r \in Request, broken \in SUBSET Sampleable :
              \E gain \in Gains(Sampleable \ broken), shown \in SUBSET (Sampleable \ broken),
                 cells \in 0 .. MaxPrompt, silent \in BOOLEAN :
                 ImageFails(r, broken, gain, shown, cells, silent)
           \/ NoEmbedding
           \/ WaitTimeout
           \/ \E cells \in 0 .. MaxPrompt, silent \in BOOLEAN : ProcessEmbedding(cells, silent)
           \/ \E broken \in SUBSET Sampleable :
              \E ends \in SUBSET (Sampleable \ broken), gain \in Gains(Sampleable \ broken),
                 shown \in SUBSET (Sampleable \ broken) : Advance(ends, broken, gain, shown)
           \/ DecodeBatch
           \/ DecodeNothing
           \/ \E i \in 1 .. Len(active), result \in Outcome : Cleanup(i, result)
           \/ EndScheduler
           \/ UNCHANGED schedulerVars
<1>1. ASSUME NEW i \in 1 .. Len(active) PROVE outcome[active[i]] \in Outcome
  BY ElementsType DEF SchedulerTypeOK, Outcome
<1>2. RemoveCompletedRequest => \E i \in 1 .. Len(active), result \in Outcome : Cleanup(i, result)
  BY <1>1 DEF RemoveCompletedRequest, Completed, Cleanup, queueVars
<1>3. EvictLargestSequence => \E i \in 1 .. Len(active), result \in Outcome : Cleanup(i, result)
  BY DEF EvictLargestSequence, Cleanup, AfterIteration, Outcome
<1>4. CleanupOnShutdown => \E i \in 1 .. Len(active), result \in Outcome : Cleanup(i, result)
  <2>1. active # <<>> => 1 \in 1 .. Len(active)
    BY DEF SchedulerTypeOK
  <2>2. QED
    BY <1>1, <2>1 DEF CleanupOnShutdown, Cleanup, queueVars
<1>5. \A r \in Request : RefuseGrammar(r) \/ RefuseBusy(r) =>
         \E silent \in BOOLEAN : Refuse(r, silent)
  BY DEF RefuseGrammar, RefuseBusy
<1>6. \A r \in Request, silent \in BOOLEAN :
         RefuseConversation(r, silent) \/ RefuseTools(r, silent) \/ RefusePrompt(r, silent) =>
            Refuse(r, silent)
  BY DEF RefuseConversation, RefuseTools, RefusePrompt
<1>7. CASE SchedulerNext
  BY <1>2, <1>3, <1>4, <1>5, <1>6, <1>7
  DEF SchedulerNext, SchedulerStep, AcceptCommand, ExecuteOneIteration
<1>8. QED
  BY <1>7

\* The sequences of the context.
LEMMA CacheShape ==
    ASSUME SchedulerTypeOK
    PROVE  kv \in [SequenceIds -> Nat] /\ SequenceIds \subseteq Nat
BY DEF SchedulerTypeOK, SequenceIds

\* Their number does not change.
LEMMA CacheKeepsShape ==
    ASSUME SchedulerTypeOK, kv' \in [SequenceIds -> Nat]
    PROVE  /\ SequenceIds' = SequenceIds
           /\ \E n \in 1 .. MaxSequences : kv' \in [0 .. n - 1 -> Nat]
BY DEF SchedulerTypeOK, SequenceIds

\* The command that is accepted leaves its channel.
LEMMA AcceptedCommand ==
    ASSUME SchedulerTypeOK, QueuesAreDisjoint, NEW r \in Request \cup {Shutdown}, Accepting(r)
    PROVE  /\ commands' \in Seq(Request \cup {Shutdown})
           /\ r \in Elements(commands)
           /\ Elements(commands') \subseteq Elements(commands)
           /\ r # Shutdown => r \notin Elements(commands')
           /\ \A i, j \in 1 .. Len(commands') :
                 commands'[i] = commands'[j] /\ commands'[i] # Shutdown => i = j
           /\ place' \in {"accept", "stop", "cleanup"}
           /\ place' = "cleanup" => ~running \/ r = Shutdown
<1>1. commands \in Seq(Request \cup {Shutdown}) /\ commands # <<>> /\ commands' = Tail(commands)
  BY DEF SchedulerTypeOK, Accepting
<1>2. /\ commands' \in Seq(Request \cup {Shutdown})
      /\ Elements(commands) = Elements(commands') \cup {r}
  BY <1>1, TailElements DEF Accepting
<1>3. /\ r = commands[1] /\ Len(commands) \in Nat \ {0} /\ Len(commands') = Len(commands) - 1
      /\ \A i \in 1 .. Len(commands') : commands'[i] = commands[i + 1]
  BY <1>1 DEF Accepting
<1>4. r # Shutdown => r \notin Elements(commands')
  <2>1. r # Shutdown => \A i \in 1 .. Len(commands') : commands'[i] # r
    BY <1>3 DEF QueuesAreDisjoint
  <2>2. QED
    BY <2>1 DEF Elements
<1>5. \A i, j \in 1 .. Len(commands') :
         commands'[i] = commands'[j] /\ commands'[i] # Shutdown => i = j
  BY <1>3 DEF QueuesAreDisjoint
<1>6. QED
  BY <1>2, <1>4, <1>5 DEF Accepting

\* The sequence that is taken is a free one, and becomes the request's.
LEMMA TakenSequence ==
    ASSUME SchedulerTypeOK, QueuesAreDisjoint, PoolIsExact,
           NEW r \in Request, phase[r] = "queued", TakeSequence(r)
    PROVE  /\ active' \in Seq(Request) /\ Distinct(active')
           /\ Elements(active') = Elements(active) \cup {r} /\ r \notin Elements(active)
           /\ id'[r] \in Elements(available_ids) /\ id'[r] \in SequenceIds
           /\ id' \in [Request -> SequenceIds \cup {-1}]
           /\ \A q \in Request : q # r => id'[q] = id[q]
           /\ available_ids' \in Seq(SequenceIds) /\ Distinct(available_ids')
           /\ Elements(available_ids') = Elements(available_ids) \ {id'[r]}
<1>1. active \in Seq(Request) /\ Distinct(active) /\ r \notin Elements(active)
  BY DEF SchedulerTypeOK, QueuesAreDisjoint, Busy
<1>2. available_ids \in Seq(SequenceIds) /\ Distinct(available_ids) /\ available_ids # <<>>
  BY DEF SchedulerTypeOK, PoolIsExact, TakeSequence
<1>3. /\ active' \in Seq(Request) /\ Distinct(active')
      /\ Elements(active') = Elements(active) \cup {r}
  BY <1>1, AppendElements DEF TakeSequence
<1> DEFINE last == available_ids[Len(available_ids)]
<1>4. /\ last \in Elements(available_ids) /\ available_ids' \in Seq(SequenceIds)
      /\ Distinct(available_ids')
      /\ Elements(available_ids') = Elements(available_ids) \ {last}
  BY <1>2, FrontElements DEF TakeSequence
<1>5. last \in SequenceIds
  BY <1>2, <1>4, ElementsType
<1>6. id \in [Request -> SequenceIds \cup {-1}] /\ id' = [id EXCEPT ![r] = last]
  BY DEF SchedulerTypeOK, TakeSequence
<1> HIDE DEF last
<1>7. /\ id'[r] = last /\ id' \in [Request -> SequenceIds \cup {-1}]
      /\ \A q \in Request : q # r => id'[q] = id[q]
  BY <1>5, <1>6
<1>8. QED
  BY <1>1, <1>3, <1>4, <1>5, <1>7

\* What the end of an active request does to the queue and the pool.
LEMMA CleanedUp ==
    ASSUME SchedulerTypeOK, QueuesAreDisjoint, PoolIsExact,
           NEW i \in 1 .. Len(active), NEW result, CleanupCompletedRequest(i, result)
    PROVE  /\ active[i] \in Elements(active) /\ active[i] \in Request
           /\ id[active[i]] \in SequenceIds \ Elements(available_ids)
           /\ active' \in Seq(Request) /\ Distinct(active')
           /\ Elements(active') = Elements(active) \ {active[i]}
           /\ available_ids' \in Seq(SequenceIds) /\ Distinct(available_ids')
           /\ Elements(available_ids') = Elements(available_ids) \cup {id[active[i]]}
           /\ kv' \in [SequenceIds -> Nat]
<1>1. active \in Seq(Request) /\ Distinct(active) /\ active' = SwapRemove(active, i)
  BY DEF SchedulerTypeOK, QueuesAreDisjoint, CleanupCompletedRequest
<1>2. /\ active[i] \in Elements(active) /\ active' \in Seq(Request) /\ Distinct(active')
      /\ Elements(active') = Elements(active) \ {active[i]}
  BY <1>1, SwapElements
<1>3. active[i] \in Request
  BY <1>1, ElementsType
<1>4. id[active[i]] \in SequenceIds \ Elements(available_ids)
  BY <1>2 DEF PoolIsExact
<1>5. /\ available_ids \in Seq(SequenceIds) /\ Distinct(available_ids)
      /\ available_ids' = Append(available_ids, id[active[i]])
  BY DEF SchedulerTypeOK, PoolIsExact, CleanupCompletedRequest
<1>6. /\ available_ids' \in Seq(SequenceIds) /\ Distinct(available_ids')
      /\ Elements(available_ids') = Elements(available_ids) \cup {id[active[i]]}
  BY <1>4, <1>5, AppendElements
<1>7. kv' \in [SequenceIds -> Nat]
  BY <1>4, CacheShape DEF CleanupCompletedRequest
<1>8. QED
  BY <1>2, <1>3, <1>4, <1>6, <1>7

\* The elements of the queues are requests.
LEMMA Members ==
    ASSUME SchedulerTypeOK
    PROVE  /\ Elements(commands) \ {Shutdown} \subseteq Request
           /\ Elements(embeddings) \subseteq Request
           /\ Elements(active) \subseteq Request
<1>1. Elements(commands) \subseteq Request \cup {Shutdown}
  BY ElementsType DEF SchedulerTypeOK
<1>2. QED
  BY <1>1, ElementsType DEF SchedulerTypeOK

\* A request stays in one queue at most, and in the phase that goes with it.
LEMMA QueuesStep ==
    ASSUME SchedulerTypeOK, QueuesAreDisjoint, PoolIsExact,
           [SchedulerNext]_schedulerVars
    PROVE  QueuesAreDisjoint'
<1>1. ASSUME NEW r \in Request, NEW k \in {"text", "image", "embedding"}, Send(r, k)
      PROVE  QueuesAreDisjoint'
  <2>1. commands \in Seq(Request \cup {Shutdown}) /\ commands' = Append(commands, r)
    BY <1>1 DEF SchedulerTypeOK, Send
  <2>2. phase[r] = "new" /\ \A q \in Request : phase'[q] = IF q = r THEN "queued" ELSE phase[q]
    BY <1>1 DEF SchedulerTypeOK, Send
  <2>3. /\ r \notin Elements(commands) /\ r \notin Elements(embeddings)
        /\ r \notin Elements(active) /\ r # Shutdown
    BY <2>2, SchedulerAssumption DEF QueuesAreDisjoint, Busy
  <2>4. Elements(commands') = Elements(commands) \cup {r}
    BY <2>1, AppendElements
  <2>5. \A i, j \in 1 .. Len(commands') :
           commands'[i] = commands'[j] /\ commands'[i] # Shutdown => i = j
    BY <2>1, <2>3 DEF QueuesAreDisjoint, Elements
  <2>6. Elements(active) \subseteq Request /\ Elements(embeddings) \subseteq Request
        /\ Elements(commands) \ {Shutdown} \subseteq Request
    BY <2>1, ElementsType DEF SchedulerTypeOK
  <2>7. active' = active /\ embeddings' = embeddings
    BY <1>1 DEF Send
  <2>8. QED
    BY <2>2, <2>3, <2>4, <2>5, <2>6, <2>7 DEF QueuesAreDisjoint
<1>2. CASE SendShutdown
  <2>1. commands \in Seq(Request \cup {Shutdown}) /\ commands' = Append(commands, Shutdown)
    BY <1>2 DEF SchedulerTypeOK, SendShutdown
  <2>2. Elements(commands') = Elements(commands) \cup {Shutdown}
    BY <2>1, AppendElements
  <2>3. \A i, j \in 1 .. Len(commands') :
           commands'[i] = commands'[j] /\ commands'[i] # Shutdown => i = j
    BY <2>1 DEF QueuesAreDisjoint
  <2>4. QED
    BY <1>2, <2>2, <2>3 DEF QueuesAreDisjoint, SendShutdown
<1>3. ASSUME NEW r \in Request, NEW leaves \in BOOLEAN, Stop(r, leaves)
      PROVE  QueuesAreDisjoint'
  BY <1>3 DEF QueuesAreDisjoint, Distinct, Stop, queueVars, llamaVars, tokenVars
<1>4. CASE CheckStopSignals
  <2>1. \A r \in Request : \/ phase'[r] = phase[r]
                           \/ r \in Unfinished /\ phase'[r] = "completed"
    BY <1>4 DEF CheckStopSignals, MarkCompleted
  <2>2. QED
    BY <1>4, <2>1, Members DEF QueuesAreDisjoint, Busy, CheckStopSignals, queueVars, Unfinished, ActiveIn
<1>5. CASE NoneCompleted
  BY <1>5 DEF QueuesAreDisjoint, Distinct, NoneCompleted, queueVars, tokenVars,
     llamaVars, clientVars
<1>6. CASE NoCommand
  BY <1>6 DEF QueuesAreDisjoint, Distinct, NoCommand, queueVars, tokenVars, llamaVars,
     clientVars
<1>7. CASE AcceptShutdown
  <2>1. Accepting(Shutdown)
    BY <1>7 DEF AcceptShutdown
  <2>2. QED
    BY <1>7, <2>1, AcceptedCommand DEF QueuesAreDisjoint, AcceptShutdown
<1>8. ASSUME NEW r \in Request, AcceptEmbedding(r)
      PROVE  QueuesAreDisjoint'
  <2>1. Accepting(r)
    BY <1>8 DEF AcceptEmbedding
  <2>2. r # Shutdown /\ embeddings \in Seq(Request) /\ embeddings' = Append(embeddings, r)
    BY <1>8, SchedulerAssumption DEF AcceptEmbedding, SchedulerTypeOK
  <2>3. /\ r \in Elements(commands) /\ r \notin Elements(commands')
        /\ Elements(commands') \subseteq Elements(commands)
    BY <2>1, <2>2, AcceptedCommand
  <2>4. r \notin Elements(embeddings) /\ phase[r] = "queued" /\ Distinct(embeddings)
    BY <2>2, <2>3 DEF QueuesAreDisjoint
  <2>5. Elements(embeddings') = Elements(embeddings) \cup {r} /\ Distinct(embeddings')
    BY <2>2, <2>4, AppendElements
  <2>6. \A i, j \in 1 .. Len(commands') :
           commands'[i] = commands'[j] /\ commands'[i] # Shutdown => i = j
    BY <2>1, AcceptedCommand
  <2>7. QED
    BY <1>8, <2>3, <2>4, <2>5, <2>6 DEF QueuesAreDisjoint, AcceptEmbedding
<1>9. ASSUME NEW r \in Request, NEW p \in 1 .. MaxPrompt, AcceptTextPrompt(r, p)
      PROVE  QueuesAreDisjoint'
  <2>1. Accepting(r) /\ r # Shutdown
    BY <1>9, SchedulerAssumption DEF AcceptTextPrompt
  <2>2. /\ r \in Elements(commands) /\ r \notin Elements(commands')
        /\ Elements(commands') \subseteq Elements(commands)
        /\ \A i, j \in 1 .. Len(commands') :
              commands'[i] = commands'[j] /\ commands'[i] # Shutdown => i = j
    BY <2>1, AcceptedCommand
  <2>3. phase[r] = "queued" /\ r \notin Elements(embeddings) /\ r \notin Elements(active)
    BY <2>1, <2>2 DEF QueuesAreDisjoint, Busy
  <2>4. /\ phase'[r] = "ingesting"
        /\ \A q \in Request : q = r \/ phase'[q] = phase[q]
    BY <1>9 DEF SchedulerTypeOK, AcceptTextPrompt, Accepting, tokenVars, clientVars
  <2>5. embeddings' = embeddings
    BY <1>9 DEF AcceptTextPrompt
  <2>6. Elements(active') = Elements(active) \cup {r} /\ Distinct(active')
    BY <1>9, <2>3, TakenSequence DEF AcceptTextPrompt
  <2>7. QED
    BY <2>1, <2>2, <2>3, <2>4, <2>5, <2>6, Members DEF QueuesAreDisjoint, Busy
<1>10. ASSUME NEW r \in Request, NEW silent \in BOOLEAN, Refuse(r, silent)
      PROVE  QueuesAreDisjoint'
  <2>1. Accepting(r) /\ r # Shutdown
    BY <1>10, SchedulerAssumption DEF Refuse
  <2>2. /\ r \in Elements(commands) /\ r \notin Elements(commands')
        /\ Elements(commands') \subseteq Elements(commands)
        /\ \A i, j \in 1 .. Len(commands') :
              commands'[i] = commands'[j] /\ commands'[i] # Shutdown => i = j
    BY <2>1, AcceptedCommand
  <2>3. phase[r] = "queued" /\ r \notin Elements(embeddings) /\ r \notin Elements(active)
    BY <2>1, <2>2 DEF QueuesAreDisjoint, Busy
  <2>4. /\ phase'[r] = "over"
        /\ \A q \in Request : q = r \/ phase'[q] = phase[q]
    BY <1>10 DEF SchedulerTypeOK, Refuse, Accepting, EndUnaccepted, llamaVars,
       tokenVars, clientVars
  <2>5. embeddings' = embeddings
    BY <1>10 DEF Refuse
  <2>6. Elements(active') = Elements(active) /\ Distinct(active')
    BY <1>10 DEF Refuse, QueuesAreDisjoint
  <2>7. QED
    BY <2>1, <2>2, <2>3, <2>4, <2>5, <2>6, Members DEF QueuesAreDisjoint, Busy
<1>11. ASSUME NEW r \in Request, NEW broken \in SUBSET Sampleable,
             NEW gain \in Gains(Sampleable \ broken), NEW shown \in SUBSET (Sampleable \ broken),
             NEW p \in 1 .. MaxPrompt, AcceptImage(r, p, broken, gain, shown)
      PROVE  QueuesAreDisjoint'
  <2>1. Accepting(r) /\ r # Shutdown
    BY <1>11, SchedulerAssumption DEF AcceptImage
  <2>2. /\ r \in Elements(commands) /\ r \notin Elements(commands')
        /\ Elements(commands') \subseteq Elements(commands)
        /\ \A i, j \in 1 .. Len(commands') :
              commands'[i] = commands'[j] /\ commands'[i] # Shutdown => i = j
    BY <2>1, AcceptedCommand
  <2>3. phase[r] = "queued" /\ r \notin Elements(embeddings) /\ r \notin Elements(active)
    BY <2>1, <2>2 DEF QueuesAreDisjoint, Busy
  <2>4. /\ phase'[r] = "generating"
        /\ \A q \in Request : \/ q = r \/ phase'[q] = phase[q]
                              \/ phase[q] = "generating" /\ phase'[q] = "completed"
    BY <1>11 DEF SchedulerTypeOK, AcceptImage, Accepting, Harvest, ClassifyTokens,
       clientVars, Sampleable, ActiveIn
  <2>5. embeddings' = embeddings
    BY <1>11 DEF AcceptImage
  <2>6. Elements(active') = Elements(active) \cup {r} /\ Distinct(active')
    BY <1>11, <2>3, TakenSequence DEF AcceptImage
  <2>7. QED
    BY <2>1, <2>2, <2>3, <2>4, <2>5, <2>6, Members DEF QueuesAreDisjoint, Busy
<1>12. ASSUME NEW r \in Request, NEW broken \in SUBSET Sampleable,
             NEW gain \in Gains(Sampleable \ broken), NEW shown \in SUBSET (Sampleable \ broken),
             NEW cells \in 0 .. MaxPrompt, NEW silent \in BOOLEAN,
             ImageFails(r, broken, gain, shown, cells, silent)
      PROVE  QueuesAreDisjoint'
  <2>1. Accepting(r) /\ r # Shutdown
    BY <1>12, SchedulerAssumption DEF ImageFails
  <2>2. /\ r \in Elements(commands) /\ r \notin Elements(commands')
        /\ Elements(commands') \subseteq Elements(commands)
        /\ \A i, j \in 1 .. Len(commands') :
              commands'[i] = commands'[j] /\ commands'[i] # Shutdown => i = j
    BY <2>1, AcceptedCommand
  <2>3. phase[r] = "queued" /\ r \notin Elements(embeddings) /\ r \notin Elements(active)
    BY <2>1, <2>2 DEF QueuesAreDisjoint, Busy
  <2>4. /\ phase'[r] = "over"
        /\ \A q \in Request : \/ q = r \/ phase'[q] = phase[q]
                              \/ phase[q] = "generating" /\ phase'[q] = "completed"
    BY <1>12 DEF SchedulerTypeOK, ImageFails, Accepting, Harvest, ClassifyTokens,
       clientVars, Sampleable, ActiveIn
  <2>5. embeddings' = embeddings
    BY <1>12 DEF ImageFails
  <2>6. Elements(active') = Elements(active) /\ Distinct(active')
    BY <1>12 DEF ImageFails, QueuesAreDisjoint
  <2>7. QED
    BY <2>1, <2>2, <2>3, <2>4, <2>5, <2>6, Members DEF QueuesAreDisjoint, Busy
<1>13. CASE NoEmbedding
  BY <1>13 DEF QueuesAreDisjoint, Distinct, NoEmbedding, AfterEmbedding, queueVars,
     tokenVars, llamaVars, clientVars
<1>14. CASE WaitTimeout
  BY <1>14 DEF QueuesAreDisjoint, Distinct, WaitTimeout, queueVars, tokenVars,
     llamaVars, clientVars
<1>15. ASSUME NEW cells \in 0 .. MaxPrompt, NEW silent \in BOOLEAN,
             ProcessEmbedding(cells, silent)
      PROVE  QueuesAreDisjoint'
  <2>1. embeddings \in Seq(Request) /\ embeddings # <<>> /\ embeddings' = Tail(embeddings)
        /\ Distinct(embeddings)
    BY <1>15 DEF ProcessEmbedding, SchedulerTypeOK, QueuesAreDisjoint
  <2> DEFINE r == Head(embeddings)
  <2>2. /\ r \in Elements(embeddings) /\ r \notin Elements(embeddings') /\ Distinct(embeddings')
        /\ Elements(embeddings') \subseteq Elements(embeddings)
    BY <2>1, TailElements
  <2>3. phase' = [phase EXCEPT ![r] = "over"]
    BY <1>15 DEF ProcessEmbedding, EndUnaccepted, ProcessEmbeddingBatch
  <2> HIDE DEF r
  <2>4. \A q \in Request : q = r \/ phase'[q] = phase[q]
    BY <2>3 DEF SchedulerTypeOK
  <2>5. r \notin Elements(commands) \ {Shutdown} /\ r \notin Elements(active)
    BY <2>2 DEF QueuesAreDisjoint, Busy
  <2>6. commands' = commands /\ active' = active
    BY <1>15 DEF ProcessEmbedding
  <2>7. QED
    BY <2>2, <2>4, <2>5, <2>6, Members DEF QueuesAreDisjoint, Busy
<1>16. ASSUME NEW broken \in SUBSET Sampleable, NEW ends \in SUBSET (Sampleable \ broken),
             NEW gain \in Gains(Sampleable \ broken), NEW shown \in SUBSET (Sampleable \ broken),
             Advance(ends, broken, gain, shown)
      PROVE  QueuesAreDisjoint'
  <2>1. \A r \in Request : \/ phase'[r] = phase[r]
                           \/ phase[r] = "generating" /\ phase'[r] = "completed"
    BY <1>16 DEF Advance, Sampleable, ActiveIn
  <2>2. QED
    BY <1>16, <2>1, Members DEF QueuesAreDisjoint, Busy, Advance, queueVars
<1>17. CASE DecodeBatch
  <2>1. \A r \in Request : \/ phase'[r] = phase[r]
                           \/ phase[r] = "ingesting" /\ phase'[r] = "generating"
    BY <1>17 DEF DecodeBatch, ApplyContributions, ActiveIn
  <2>2. QED
    BY <1>17, <2>1, Members DEF QueuesAreDisjoint, Busy, DecodeBatch, queueVars
<1>18. CASE DecodeNothing
  BY <1>18 DEF QueuesAreDisjoint, Distinct, DecodeNothing, AfterIteration, queueVars,
     tokenVars, llamaVars, clientVars
<1>19. ASSUME NEW i \in 1 .. Len(active), NEW result \in Outcome, Cleanup(i, result)
      PROVE  QueuesAreDisjoint'
  <2>1. CleanupCompletedRequest(i, result) /\ UNCHANGED <<commands, embeddings>>
    BY <1>19 DEF Cleanup, queueVars
  <2>2. /\ active[i] \in Elements(active) /\ active[i] \in Request
        /\ Elements(active') = Elements(active) \ {active[i]} /\ Distinct(active')
    BY <2>1, CleanedUp
  <2> DEFINE r == active[i]
  <2>3. phase' = [phase EXCEPT ![r] = "over"]
    BY <2>1 DEF CleanupCompletedRequest
  <2> HIDE DEF r
  <2>4. \A q \in Request : q = r \/ phase'[q] = phase[q]
    BY <2>3 DEF SchedulerTypeOK
  <2>5. /\ r \notin Elements(commands) \ {Shutdown} /\ r \notin Elements(embeddings)
        /\ r \notin Elements(active')
    BY <2>2 DEF QueuesAreDisjoint, Busy, r
  <2>6. Elements(active') \subseteq Elements(active)
    BY <2>2
  <2>7. QED
    BY <2>1, <2>2, <2>4, <2>5, <2>6, Members DEF QueuesAreDisjoint
<1>20. CASE EndScheduler
  <2>1. commands' = <<>> /\ embeddings' = <<>> /\ active' = active /\ active = <<>>
    BY <1>20 DEF EndScheduler
  <2>2. Elements(<<>>) = {} /\ Len(<<>>) = 0
    BY DEF Elements
  <2>3. QED
    BY <2>1, <2>2 DEF QueuesAreDisjoint, Distinct
<1>21. CASE UNCHANGED schedulerVars
  BY <1>21 DEF QueuesAreDisjoint, Distinct, schedulerVars
<1>22. QED
  BY <1>1, <1>2, <1>3, <1>4, <1>5, <1>6, <1>7, <1>8, <1>9, <1>10, <1>11, <1>12, <1>13,
     <1>14, <1>15, <1>16, <1>17, <1>18, <1>19, <1>20, <1>21, CasesOfNext

\* The context keeps its sequences.
LEMMA SequencesStay ==
    ASSUME SchedulerTypeOK, QueuesAreDisjoint, PoolIsExact,
           [SchedulerNext]_schedulerVars
    PROVE  kv' \in [SequenceIds -> Nat]
<1>1. ASSUME NEW r \in Request, NEW k \in {"text", "image", "embedding"}, Send(r, k)
      PROVE  kv' \in [SequenceIds -> Nat]
  BY <1>1, CacheShape DEF Send, llamaVars, tokenVars, clientVars
<1>2. CASE SendShutdown
  BY <1>2, CacheShape DEF SendShutdown, llamaVars, tokenVars, clientVars
<1>3. ASSUME NEW r \in Request, NEW leaves \in BOOLEAN, Stop(r, leaves)
      PROVE  kv' \in [SequenceIds -> Nat]
  BY <1>3, CacheShape DEF Stop, queueVars, llamaVars, tokenVars
<1>4. CASE CheckStopSignals
  BY <1>4, CacheShape DEF CheckStopSignals, MarkCompleted, queueVars, tokenVars,
     llamaVars, clientVars
<1>5. CASE NoneCompleted
  BY <1>5, CacheShape DEF NoneCompleted, queueVars, tokenVars, llamaVars, clientVars
<1>6. CASE NoCommand
  BY <1>6, CacheShape DEF NoCommand, queueVars, tokenVars, llamaVars, clientVars
<1>7. CASE AcceptShutdown
  BY <1>7, CacheShape DEF AcceptShutdown, Accepting, llamaVars, tokenVars, clientVars
<1>8. ASSUME NEW r \in Request, AcceptEmbedding(r)
      PROVE  kv' \in [SequenceIds -> Nat]
  BY <1>8, CacheShape DEF AcceptEmbedding, Accepting, llamaVars, tokenVars, clientVars
<1>9. ASSUME NEW r \in Request, NEW p \in 1 .. MaxPrompt, AcceptTextPrompt(r, p)
      PROVE  kv' \in [SequenceIds -> Nat]
  BY <1>9, CacheShape, SchedulerAssumption DEF AcceptTextPrompt
<1>10. ASSUME NEW r \in Request, NEW silent \in BOOLEAN, Refuse(r, silent)
      PROVE  kv' \in [SequenceIds -> Nat]
  BY <1>10, CacheShape DEF Refuse, Accepting, EndUnaccepted, llamaVars, tokenVars,
     clientVars
<1>11. ASSUME NEW r \in Request, NEW broken \in SUBSET Sampleable,
             NEW gain \in Gains(Sampleable \ broken), NEW shown \in SUBSET (Sampleable \ broken),
             NEW p \in 1 .. MaxPrompt, AcceptImage(r, p, broken, gain, shown)
      PROVE  kv' \in [SequenceIds -> Nat]
  <2>1. p \in Nat
    BY SchedulerAssumption
  <2>2. kv' = [kv EXCEPT ![id'[r]] = p]
    BY <1>11 DEF AcceptImage
  <2>3. QED
    BY <2>1, <2>2, CacheShape
<1>12. ASSUME NEW r \in Request, NEW broken \in SUBSET Sampleable,
             NEW gain \in Gains(Sampleable \ broken), NEW shown \in SUBSET (Sampleable \ broken),
             NEW cells \in 0 .. MaxPrompt, NEW silent \in BOOLEAN,
             ImageFails(r, broken, gain, shown, cells, silent)
      PROVE  kv' \in [SequenceIds -> Nat]
  <2>1. cells \in Nat
    BY SchedulerAssumption
  <2>2. kv' = [kv EXCEPT ![available_ids[Len(available_ids)]] = cells]
    BY <1>12 DEF ImageFails
  <2>3. QED
    BY <2>1, <2>2, CacheShape
<1>13. CASE NoEmbedding
  BY <1>13, CacheShape DEF NoEmbedding, AfterEmbedding, queueVars, tokenVars, llamaVars,
     clientVars
<1>14. CASE WaitTimeout
  BY <1>14, CacheShape DEF WaitTimeout, queueVars, tokenVars, llamaVars, clientVars
<1>15. ASSUME NEW cells \in 0 .. MaxPrompt, NEW silent \in BOOLEAN,
             ProcessEmbedding(cells, silent)
      PROVE  kv' \in [SequenceIds -> Nat]
  <2>1. cells \in Nat
    BY SchedulerAssumption
  <2>2. kv' = kv \/ kv' = [s \in SequenceIds |-> cells]
    BY <1>15 DEF ProcessEmbedding, ProcessEmbeddingBatch, llamaVars
  <2>3. QED
    BY <2>1, <2>2, CacheShape
<1>16. ASSUME NEW broken \in SUBSET Sampleable, NEW ends \in SUBSET (Sampleable \ broken),
             NEW gain \in Gains(Sampleable \ broken), NEW shown \in SUBSET (Sampleable \ broken),
             Advance(ends, broken, gain, shown)
      PROVE  kv' \in [SequenceIds -> Nat]
  BY <1>16, CacheShape DEF Advance, ClassifyTokens, EmitTokens, queueVars, llamaVars,
     clientVars
<1>17. CASE DecodeBatch
  <2> DEFINE chunk == [r \in Request |-> Contribution(r)]
             ingested == {r \in ActiveIn("ingesting") : chunk[r] > 0}
             owners(s) == {r \in FillGenerating \cup ingested : id[r] = s}
  <2>1. kv' = [s \in SequenceIds |->
                  IF owners(s) = {} THEN kv[s]
                  ELSE position[CHOOSE r \in owners(s) : TRUE] + chunk[CHOOSE r \in owners(s) : TRUE]]
    BY <1>17 DEF DecodeBatch
  <2>2. \A r \in Request : position[r] + chunk[r] \in Nat
    <3>1. \A r \in Request : chunk[r] \in Nat
      BY ContributionFits
    <3>2. \A r \in Request : position[r] \in Nat
      BY DEF SchedulerTypeOK
    <3> HIDE DEF chunk
    <3>3. QED
      BY <3>1, <3>2
  <2>3. \A s \in SequenceIds : owners(s) \subseteq Request
    BY ContributionFits, Members DEF ActiveIn
  <2> HIDE DEF chunk, owners
  <2>4. QED
    BY <2>1, <2>2, <2>3, CacheShape
<1>18. CASE DecodeNothing
  BY <1>18, CacheShape DEF DecodeNothing, AfterIteration, queueVars, tokenVars,
     llamaVars, clientVars
<1>19. ASSUME NEW i \in 1 .. Len(active), NEW result \in Outcome, Cleanup(i, result)
      PROVE  kv' \in [SequenceIds -> Nat]
  BY <1>19, CleanedUp DEF Cleanup
<1>20. CASE EndScheduler
  BY <1>20, CacheShape DEF EndScheduler, llamaVars, tokenVars, clientVars
<1>21. CASE UNCHANGED schedulerVars
  BY <1>21, CacheShape DEF schedulerVars
<1>22. QED
  BY <1>1, <1>2, <1>3, <1>4, <1>5, <1>6, <1>7, <1>8, <1>9, <1>10, <1>11, <1>12, <1>13,
     <1>14, <1>15, <1>16, <1>17, <1>18, <1>19, <1>20, <1>21, CasesOfNext

\* A sequence id is free, or one request's.
LEMMA PoolStep ==
    ASSUME SchedulerTypeOK, QueuesAreDisjoint, PoolIsExact,
           [SchedulerNext]_schedulerVars
    PROVE  PoolIsExact'
<1>0. SequenceIds' = SequenceIds
  BY SequencesStay, CacheKeepsShape
<1>1. ASSUME NEW r \in Request, NEW k \in {"text", "image", "embedding"}, Send(r, k)
      PROVE  PoolIsExact'
  BY <1>0, <1>1 DEF PoolIsExact, Send, llamaVars, tokenVars, clientVars
<1>2. CASE SendShutdown
  BY <1>0, <1>2 DEF PoolIsExact, SendShutdown, llamaVars, tokenVars, clientVars
<1>3. ASSUME NEW r \in Request, NEW leaves \in BOOLEAN, Stop(r, leaves)
      PROVE  PoolIsExact'
  BY <1>0, <1>3 DEF PoolIsExact, Stop, queueVars, llamaVars, tokenVars
<1>4. CASE CheckStopSignals
  BY <1>0, <1>4 DEF PoolIsExact, CheckStopSignals, MarkCompleted, queueVars, tokenVars,
     llamaVars, clientVars
<1>5. CASE NoneCompleted
  BY <1>0, <1>5 DEF PoolIsExact, NoneCompleted, queueVars, tokenVars, llamaVars,
     clientVars
<1>6. CASE NoCommand
  BY <1>0, <1>6 DEF PoolIsExact, NoCommand, queueVars, tokenVars, llamaVars, clientVars
<1>7. CASE AcceptShutdown
  BY <1>0, <1>7 DEF PoolIsExact, AcceptShutdown, Accepting, llamaVars, tokenVars,
     clientVars
<1>8. ASSUME NEW r \in Request, AcceptEmbedding(r)
      PROVE  PoolIsExact'
  BY <1>0, <1>8 DEF PoolIsExact, AcceptEmbedding, Accepting, llamaVars, tokenVars,
     clientVars
<1>9. ASSUME NEW r \in Request, NEW p \in 1 .. MaxPrompt, AcceptTextPrompt(r, p)
      PROVE  PoolIsExact'
  <2>1. Accepting(r) /\ r # Shutdown /\ TakeSequence(r)
    BY <1>9, SchedulerAssumption DEF AcceptTextPrompt
  <2>2. phase[r] = "queued"
    BY <2>1, AcceptedCommand DEF QueuesAreDisjoint
  <2>3. /\ Elements(active') = Elements(active) \cup {r} /\ r \notin Elements(active)
        /\ id'[r] \in Elements(available_ids) /\ id'[r] \in SequenceIds
        /\ \A q \in Request : q # r => id'[q] = id[q]
        /\ Distinct(available_ids')
        /\ Elements(available_ids') = Elements(available_ids) \ {id'[r]}
    BY <2>1, <2>2, TakenSequence
  <2>4. QED
    BY <1>0, <2>3, Members DEF PoolIsExact
<1>10. ASSUME NEW r \in Request, NEW silent \in BOOLEAN, Refuse(r, silent)
      PROVE  PoolIsExact'
  BY <1>0, <1>10 DEF PoolIsExact, Refuse, Accepting, EndUnaccepted, llamaVars,
     tokenVars, clientVars
<1>11. ASSUME NEW r \in Request, NEW broken \in SUBSET Sampleable,
             NEW gain \in Gains(Sampleable \ broken), NEW shown \in SUBSET (Sampleable \ broken),
             NEW p \in 1 .. MaxPrompt, AcceptImage(r, p, broken, gain, shown)
      PROVE  PoolIsExact'
  <2>1. Accepting(r) /\ r # Shutdown /\ TakeSequence(r)
    BY <1>11, SchedulerAssumption DEF AcceptImage
  <2>2. phase[r] = "queued"
    BY <2>1, AcceptedCommand DEF QueuesAreDisjoint
  <2>3. /\ Elements(active') = Elements(active) \cup {r} /\ r \notin Elements(active)
        /\ id'[r] \in Elements(available_ids) /\ id'[r] \in SequenceIds
        /\ \A q \in Request : q # r => id'[q] = id[q]
        /\ Distinct(available_ids')
        /\ Elements(available_ids') = Elements(available_ids) \ {id'[r]}
    BY <2>1, <2>2, TakenSequence
  <2>4. QED
    BY <1>0, <2>3, Members DEF PoolIsExact
<1>12. ASSUME NEW r \in Request, NEW broken \in SUBSET Sampleable,
             NEW gain \in Gains(Sampleable \ broken), NEW shown \in SUBSET (Sampleable \ broken),
             NEW cells \in 0 .. MaxPrompt, NEW silent \in BOOLEAN,
             ImageFails(r, broken, gain, shown, cells, silent)
      PROVE  PoolIsExact'
  BY <1>0, <1>12 DEF PoolIsExact, ImageFails, Accepting, Harvest, ClassifyTokens,
     clientVars
<1>13. CASE NoEmbedding
  BY <1>0, <1>13 DEF PoolIsExact, NoEmbedding, AfterEmbedding, queueVars, tokenVars,
     llamaVars, clientVars
<1>14. CASE WaitTimeout
  BY <1>0, <1>14 DEF PoolIsExact, WaitTimeout, queueVars, tokenVars, llamaVars,
     clientVars
<1>15. ASSUME NEW cells \in 0 .. MaxPrompt, NEW silent \in BOOLEAN,
             ProcessEmbedding(cells, silent)
      PROVE  PoolIsExact'
  BY <1>0, <1>15 DEF PoolIsExact, ProcessEmbedding, AfterEmbedding, EndUnaccepted,
     ProcessEmbeddingBatch, llamaVars, tokenVars, clientVars
<1>16. ASSUME NEW broken \in SUBSET Sampleable, NEW ends \in SUBSET (Sampleable \ broken),
             NEW gain \in Gains(Sampleable \ broken), NEW shown \in SUBSET (Sampleable \ broken),
             Advance(ends, broken, gain, shown)
      PROVE  PoolIsExact'
  BY <1>0, <1>16 DEF PoolIsExact, Advance, ClassifyTokens, EmitTokens, queueVars,
     llamaVars, clientVars
<1>17. CASE DecodeBatch
  BY <1>0, <1>17 DEF PoolIsExact, DecodeBatch, ApplyContributions, AfterIteration,
     queueVars, tokenVars, clientVars
<1>18. CASE DecodeNothing
  BY <1>0, <1>18 DEF PoolIsExact, DecodeNothing, AfterIteration, queueVars, tokenVars,
     llamaVars, clientVars
<1>19. ASSUME NEW i \in 1 .. Len(active), NEW result \in Outcome, Cleanup(i, result)
      PROVE  PoolIsExact'
  <2>1. CleanupCompletedRequest(i, result)
    BY <1>19 DEF Cleanup
  <2>2. /\ active[i] \in Elements(active) /\ active[i] \in Request
        /\ id[active[i]] \in SequenceIds \ Elements(available_ids)
        /\ Elements(active') = Elements(active) \ {active[i]}
        /\ Distinct(available_ids')
        /\ Elements(available_ids') = Elements(available_ids) \cup {id[active[i]]}
    BY <2>1, CleanedUp
  <2> DEFINE r == active[i]
  <2>3. id' = [id EXCEPT ![r] = -1]
    BY <2>1 DEF CleanupCompletedRequest
  <2> HIDE DEF r
  <2>4. \A q \in Request : q # r => id'[q] = id[q]
    BY <2>3 DEF SchedulerTypeOK
  <2>5. QED
    BY <1>0, <2>2, <2>4, Members DEF PoolIsExact, r
<1>20. CASE EndScheduler
  BY <1>0, <1>20 DEF PoolIsExact, EndScheduler, llamaVars, tokenVars, clientVars
<1>21. CASE UNCHANGED schedulerVars
  BY <1>0, <1>21 DEF PoolIsExact, schedulerVars
<1>22. QED
  BY <1>1, <1>2, <1>3, <1>4, <1>5, <1>6, <1>7, <1>8, <1>9, <1>10, <1>11, <1>12, <1>13,
     <1>14, <1>15, <1>16, <1>17, <1>18, <1>19, <1>20, <1>21, CasesOfNext

\* What a request is about to write goes behind what its sequence has.
LEMMA CacheStep ==
    ASSUME SchedulerTypeOK, QueuesAreDisjoint, PoolIsExact, CacheFollows,
           [SchedulerNext]_schedulerVars
    PROVE  CacheFollows'
<1>1. ASSUME NEW r \in Request, NEW k \in {"text", "image", "embedding"}, Send(r, k)
      PROVE  CacheFollows'
  <2>1. /\ UNCHANGED <<active, id, position, kv>>
        /\ phase[r] = "new" /\ \A q \in Request : phase'[q] = IF q = r THEN "queued" ELSE phase[q]
    BY <1>1 DEF Send, llamaVars, SchedulerTypeOK
  <2>2. QED
    BY <2>1, Members DEF CacheFollows, PositionIsCacheLength, Unfinished, ActiveIn
<1>2. CASE SendShutdown
  BY <1>2 DEF CacheFollows, PositionIsCacheLength, Unfinished, ActiveIn, SendShutdown,
     llamaVars, tokenVars, clientVars
<1>3. ASSUME NEW r \in Request, NEW leaves \in BOOLEAN, Stop(r, leaves)
      PROVE  CacheFollows'
  BY <1>3 DEF CacheFollows, PositionIsCacheLength, Unfinished, ActiveIn, Stop,
     queueVars, llamaVars, tokenVars
<1>4. CASE CheckStopSignals
  <2>1. /\ UNCHANGED <<active, id, position, kv>>
        /\ \A r \in Request : phase'[r] = phase[r] \/ phase'[r] = "completed"
    BY <1>4 DEF CheckStopSignals, MarkCompleted, llamaVars
  <2>2. QED
    BY <2>1, Members DEF CacheFollows, PositionIsCacheLength, Unfinished, ActiveIn
<1>5. CASE NoneCompleted
  BY <1>5 DEF CacheFollows, PositionIsCacheLength, Unfinished, ActiveIn, NoneCompleted,
     queueVars, tokenVars, llamaVars, clientVars
<1>6. CASE NoCommand
  BY <1>6 DEF CacheFollows, PositionIsCacheLength, Unfinished, ActiveIn, NoCommand,
     queueVars, tokenVars, llamaVars, clientVars
<1>7. CASE AcceptShutdown
  BY <1>7 DEF CacheFollows, PositionIsCacheLength, Unfinished, ActiveIn, AcceptShutdown,
     Accepting, llamaVars, tokenVars, clientVars
<1>8. ASSUME NEW r \in Request, AcceptEmbedding(r)
      PROVE  CacheFollows'
  BY <1>8 DEF CacheFollows, PositionIsCacheLength, Unfinished, ActiveIn,
     AcceptEmbedding, Accepting, llamaVars, tokenVars, clientVars
<1>9. ASSUME NEW r \in Request, NEW p \in 1 .. MaxPrompt, AcceptTextPrompt(r, p)
      PROVE  CacheFollows'
  <2>1. Accepting(r) /\ r # Shutdown /\ TakeSequence(r)
    BY <1>9, SchedulerAssumption DEF AcceptTextPrompt
  <2>2. phase[r] = "queued" /\ position[r] = 0
    BY <2>1, AcceptedCommand DEF QueuesAreDisjoint, CacheFollows
  <2>3. /\ Elements(active') = Elements(active) \cup {r} /\ r \notin Elements(active)
        /\ id'[r] \in Elements(available_ids) /\ id'[r] \in SequenceIds
        /\ \A q \in Request : q # r => id'[q] = id[q]
    BY <2>1, <2>2, TakenSequence
  <2>4. \A q \in Elements(active) : q \in Request /\ id[q] \in SequenceIds /\ id[q] # id'[r]
    BY <2>3, Members DEF PoolIsExact
  <2>5. kv' = [kv EXCEPT ![id'[r]] = 0]
    BY <1>9 DEF AcceptTextPrompt
  <2>6. kv'[id'[r]] = 0 /\ \A q \in Elements(active) : kv'[id'[q]] = kv[id[q]]
    BY <2>3, <2>4, <2>5, CacheShape
  <2>7. position'[r] = 0 /\ \A q \in Request : q # r => position'[q] = position[q]
    BY <1>9, <2>2 DEF AcceptTextPrompt, SchedulerTypeOK
  <2>8. /\ phase'[r] \notin {"new", "queued"}
        /\ \A q \in Request : q # r => phase'[q] = phase[q] \/ phase'[q] = "completed"
    BY <1>9 DEF AcceptTextPrompt, SchedulerTypeOK
  <2>9. QED
    BY <2>3, <2>4, <2>6, <2>7, <2>8 DEF CacheFollows, PositionIsCacheLength, Unfinished, ActiveIn
<1>10. ASSUME NEW r \in Request, NEW silent \in BOOLEAN, Refuse(r, silent)
      PROVE  CacheFollows'
  <2>1. /\ UNCHANGED <<active, id, position, kv>>
        /\ \A q \in Request : phase'[q] = phase[q] \/ phase'[q] = "over"
    BY <1>10 DEF Refuse, EndUnaccepted, llamaVars, SchedulerTypeOK
  <2>2. QED
    BY <2>1, Members DEF CacheFollows, PositionIsCacheLength, Unfinished, ActiveIn
<1>11. ASSUME NEW r \in Request, NEW broken \in SUBSET Sampleable,
             NEW gain \in Gains(Sampleable \ broken), NEW shown \in SUBSET (Sampleable \ broken),
             NEW p \in 1 .. MaxPrompt, AcceptImage(r, p, broken, gain, shown)
      PROVE  CacheFollows'
  <2>1. Accepting(r) /\ r # Shutdown /\ TakeSequence(r)
    BY <1>11, SchedulerAssumption DEF AcceptImage
  <2>2. phase[r] = "queued" /\ position[r] = 0
    BY <2>1, AcceptedCommand DEF QueuesAreDisjoint, CacheFollows
  <2>3. /\ Elements(active') = Elements(active) \cup {r} /\ r \notin Elements(active)
        /\ id'[r] \in Elements(available_ids) /\ id'[r] \in SequenceIds
        /\ \A q \in Request : q # r => id'[q] = id[q]
    BY <2>1, <2>2, TakenSequence
  <2>4. \A q \in Elements(active) : q \in Request /\ id[q] \in SequenceIds /\ id[q] # id'[r]
    BY <2>3, Members DEF PoolIsExact
  <2>5. kv' = [kv EXCEPT ![id'[r]] = p]
    BY <1>11 DEF AcceptImage
  <2>6. kv'[id'[r]] = p /\ \A q \in Elements(active) : kv'[id'[q]] = kv[id[q]]
    BY <2>3, <2>4, <2>5, CacheShape
  <2>7. position'[r] = p /\ \A q \in Request : q # r => position'[q] = position[q]
    BY <1>11, <2>2 DEF AcceptImage, SchedulerTypeOK
  <2>8. /\ phase'[r] \notin {"new", "queued"}
        /\ \A q \in Request : q # r => phase'[q] = phase[q] \/ phase'[q] = "completed"
    BY <1>11 DEF AcceptImage, SchedulerTypeOK
  <2>9. QED
    BY <2>3, <2>4, <2>6, <2>7, <2>8 DEF CacheFollows, PositionIsCacheLength, Unfinished, ActiveIn
<1>12. ASSUME NEW r \in Request, NEW broken \in SUBSET Sampleable,
             NEW gain \in Gains(Sampleable \ broken), NEW shown \in SUBSET (Sampleable \ broken),
             NEW cells \in 0 .. MaxPrompt, NEW silent \in BOOLEAN,
             ImageFails(r, broken, gain, shown, cells, silent)
      PROVE  CacheFollows'
  <2> DEFINE free == available_ids[Len(available_ids)]
  <2>1. available_ids \in Seq(SequenceIds) /\ available_ids # <<>>
    BY <1>12 DEF ImageFails, SchedulerTypeOK
  <2>2. free \in Elements(available_ids)
    BY <2>1 DEF Elements
  <2>3. UNCHANGED <<active, id, position>> /\ kv' = [kv EXCEPT ![free] = cells]
    BY <1>12 DEF ImageFails
  <2> HIDE DEF free
  <2>4. \A q \in Elements(active) : id[q] \in SequenceIds /\ id[q] # free
    BY <2>2 DEF PoolIsExact
  <2>5. \A q \in Elements(active) : kv'[id[q]] = kv[id[q]]
    BY <2>3, <2>4, CacheShape
  <2>6. \A q \in Request : phase'[q] = phase[q] \/ phase'[q] \in {"over", "completed"}
    BY <1>12 DEF ImageFails
  <2>7. QED
    BY <2>3, <2>5, <2>6, Members DEF CacheFollows, PositionIsCacheLength, Unfinished, ActiveIn
<1>13. CASE NoEmbedding
  BY <1>13 DEF CacheFollows, PositionIsCacheLength, Unfinished, ActiveIn, NoEmbedding,
     AfterEmbedding, queueVars, tokenVars, llamaVars, clientVars
<1>14. CASE WaitTimeout
  BY <1>14 DEF CacheFollows, PositionIsCacheLength, Unfinished, ActiveIn, WaitTimeout,
     queueVars, tokenVars, llamaVars, clientVars
<1>15. ASSUME NEW cells \in 0 .. MaxPrompt, NEW silent \in BOOLEAN,
             ProcessEmbedding(cells, silent)
      PROVE  CacheFollows'
  <2>1. /\ UNCHANGED <<active, id, position>>
        /\ \A q \in Request : phase'[q] = phase[q] \/ phase'[q] = "over"
        /\ Unfinished = {} \/ kv' = kv
    BY <1>15 DEF ProcessEmbedding, EndUnaccepted, ProcessEmbeddingBatch, llamaVars, SchedulerTypeOK
  <2>2. QED
    BY <2>1, Members DEF CacheFollows, PositionIsCacheLength, Unfinished, ActiveIn
<1>16. ASSUME NEW broken \in SUBSET Sampleable, NEW ends \in SUBSET (Sampleable \ broken),
             NEW gain \in Gains(Sampleable \ broken), NEW shown \in SUBSET (Sampleable \ broken),
             Advance(ends, broken, gain, shown)
      PROVE  CacheFollows'
  <2>1. /\ UNCHANGED <<active, id, position, kv>>
        /\ \A r \in Request : phase'[r] = phase[r] \/ phase'[r] = "completed"
    BY <1>16 DEF Advance, llamaVars
  <2>2. QED
    BY <2>1, Members DEF CacheFollows, PositionIsCacheLength, Unfinished, ActiveIn
<1>17. CASE DecodeBatch
  <2> DEFINE chunk == [r \in Request |-> Contribution(r)]
             ingested == {r \in ActiveIn("ingesting") : chunk[r] > 0}
             writers == FillGenerating \cup ingested
             owners(s) == {r \in writers : id[r] = s}
  <2>1. /\ kv' = [s \in SequenceIds |->
                     IF owners(s) = {} THEN kv[s]
                     ELSE position[CHOOSE r \in owners(s) : TRUE]
                             + chunk[CHOOSE r \in owners(s) : TRUE]]
        /\ position' = [r \in Request |-> position[r] + Contribution(r)]
        /\ UNCHANGED <<active, id>>
    BY <1>17 DEF DecodeBatch, ApplyContributions
  <2>2. \A r \in Request : \/ phase'[r] = phase[r]
                           \/ phase[r] = "ingesting" /\ phase'[r] = "generating"
    BY <1>17 DEF DecodeBatch, ApplyContributions, ActiveIn
  <2>3. writers \subseteq Elements(active)
    BY ContributionFits DEF ActiveIn
  <2>4. \A r \in Request : chunk[r] = Contribution(r) /\ chunk[r] \in Nat /\ position[r] \in Nat
    BY ContributionFits DEF SchedulerTypeOK
  <2>5. \A r \in Request \ writers : chunk[r] = 0
    BY <2>4, ContributionFits
  <2>6. \A r \in writers : phase[r] \in {"ingesting", "generating"}
    BY ContributionFits DEF ActiveIn
  <2>7. /\ \A s : \A r \in writers : id[r] = s => r \in owners(s)
        /\ \A s : \A r \in owners(s) : r \in writers /\ id[r] = s
    OBVIOUS
  <2> HIDE DEF chunk, writers, owners
  <2>8. ASSUME NEW r \in Elements(active), phase[r] \in {"ingesting", "generating"}
        PROVE  kv'[id[r]] = position'[r]
    <3>1. r \in Request /\ id[r] \in SequenceIds /\ kv[id[r]] = position[r]
      BY <2>8, Members DEF PoolIsExact, CacheFollows, PositionIsCacheLength, Unfinished, ActiveIn
    <3>2. \A q \in owners(id[r]) : q = r
      BY <2>3, <2>7 DEF PoolIsExact
    <3>3. CASE r \in writers
      <4>1. owners(id[r]) # {} /\ (CHOOSE q \in owners(id[r]) : TRUE) = r
        BY <2>7, <3>2, <3>3
      <4>2. kv'[id[r]] = position[r] + chunk[r]
        BY <2>1, <3>1, <4>1
      <4>3. QED
        BY <2>1, <2>4, <3>1, <4>2
    <3>4. CASE r \notin writers
      <4>1. owners(id[r]) = {}
        BY <2>7, <3>2, <3>4
      <4>2. kv'[id[r]] = kv[id[r]]
        BY <2>1, <3>1, <4>1
      <4>3. position'[r] = position[r]
        BY <2>1, <2>4, <2>5, <3>1, <3>4
      <4>4. QED
        BY <3>1, <4>2, <4>3
    <3>5. QED
      BY <3>3, <3>4
  <2>9. \A r \in Request : phase'[r] \in {"new", "queued"} => position'[r] = 0
    <3>1. SUFFICES ASSUME NEW r \in Request, phase'[r] \in {"new", "queued"}
                   PROVE  position'[r] = 0
      OBVIOUS
    <3>2. phase[r] \in {"new", "queued"} /\ position[r] = 0
      BY <2>2, <3>1 DEF CacheFollows
    <3>3. chunk[r] = 0
      BY <2>5, <2>6, <3>2
    <3>4. QED
      BY <2>1, <2>4, <3>2, <3>3
  <2>10. QED
    BY <2>1, <2>2, <2>8, <2>9, Members DEF CacheFollows, PositionIsCacheLength, Unfinished, ActiveIn
<1>18. CASE DecodeNothing
  BY <1>18 DEF CacheFollows, PositionIsCacheLength, Unfinished, ActiveIn, DecodeNothing,
     AfterIteration, queueVars, tokenVars, llamaVars, clientVars
<1>19. ASSUME NEW i \in 1 .. Len(active), NEW result \in Outcome, Cleanup(i, result)
      PROVE  CacheFollows'
  <2>1. CleanupCompletedRequest(i, result)
    BY <1>19 DEF Cleanup
  <2>2. /\ active[i] \in Elements(active) /\ active[i] \in Request
        /\ id[active[i]] \in SequenceIds \ Elements(available_ids)
        /\ Elements(active') = Elements(active) \ {active[i]}
    BY <2>1, CleanedUp
  <2> DEFINE r == active[i]
  <2>3. /\ id' = [id EXCEPT ![r] = -1] /\ phase' = [phase EXCEPT ![r] = "over"]
        /\ position' = [position EXCEPT ![r] = 0] /\ kv' = [kv EXCEPT ![id[r]] = 0]
    BY <2>1 DEF CleanupCompletedRequest
  <2>4. /\ r \in Elements(active) /\ r \in Request /\ id[r] \in SequenceIds
        /\ Elements(active') = Elements(active) \ {r}
    BY <2>2
  <2> HIDE DEF r
  <2>5. /\ phase'[r] = "over"
        /\ \A q \in Request : q # r => /\ id'[q] = id[q] /\ phase'[q] = phase[q]
                                       /\ position'[q] = position[q]
    BY <2>3, <2>4 DEF SchedulerTypeOK
  <2>6. \A q \in Elements(active') : kv'[id[q]] = kv[id[q]]
    BY <2>3, <2>4, CacheShape DEF PoolIsExact
  <2>7. QED
    BY <2>4, <2>5, <2>6, Members DEF CacheFollows, PositionIsCacheLength, Unfinished, ActiveIn
<1>20. CASE EndScheduler
  <2>1. /\ UNCHANGED <<active, id, position, kv>>
        /\ \A q \in Request : phase'[q] = phase[q] \/ phase'[q] = "over"
    BY <1>20 DEF EndScheduler, llamaVars
  <2>2. QED
    BY <2>1, Members DEF CacheFollows, PositionIsCacheLength, Unfinished, ActiveIn
<1>21. CASE UNCHANGED schedulerVars
  BY <1>21 DEF CacheFollows, PositionIsCacheLength, Unfinished, ActiveIn, schedulerVars
<1>22. QED
  BY <1>1, <1>2, <1>3, <1>4, <1>5, <1>6, <1>7, <1>8, <1>9, <1>10, <1>11, <1>12, <1>13,
     <1>14, <1>15, <1>16, <1>17, <1>18, <1>19, <1>20, <1>21, CasesOfNext

\* What can be sampled has logits, and nothing can when a batch is assembled.
LEMMA LogitsStep ==
    ASSUME SchedulerTypeOK, QueuesAreDisjoint, PoolIsExact, NothingIsOverwritten,
           [SchedulerNext]_schedulerVars
    PROVE  NothingIsOverwritten'
<1>1. ASSUME NEW r \in Request, NEW k \in {"text", "image", "embedding"}, Send(r, k)
      PROVE  NothingIsOverwritten'
  <2>1. /\ UNCHANGED <<active, pending, logits>> /\ i_batch' \subseteq i_batch /\ place' = place
        /\ \A q \in Request : phase'[q] = phase[q] \/ phase'[q] = "queued"
    BY <1>1 DEF Send, llamaVars, SchedulerTypeOK
  <2>2. QED
    BY <2>1, Members DEF NothingIsOverwritten, LogitsAreFresh, Sampleable, ActiveIn
<1>2. CASE SendShutdown
  BY <1>2 DEF NothingIsOverwritten, LogitsAreFresh, Sampleable, ActiveIn, SendShutdown,
     llamaVars, tokenVars, clientVars
<1>3. ASSUME NEW r \in Request, NEW leaves \in BOOLEAN, Stop(r, leaves)
      PROVE  NothingIsOverwritten'
  BY <1>3 DEF NothingIsOverwritten, LogitsAreFresh, Sampleable, ActiveIn, Stop,
     queueVars, llamaVars, tokenVars
<1>4. CASE CheckStopSignals
  <2>1. /\ UNCHANGED <<active, pending, logits>> /\ i_batch' \subseteq i_batch /\ place' = "remove"
        /\ \A q \in Request : phase'[q] = phase[q] \/ phase'[q] = "completed"
    BY <1>4 DEF CheckStopSignals, MarkCompleted, llamaVars
  <2>2. QED
    BY <2>1, Members DEF NothingIsOverwritten, LogitsAreFresh, Sampleable, ActiveIn
<1>5. CASE NoneCompleted
  BY <1>5 DEF NothingIsOverwritten, LogitsAreFresh, Sampleable, ActiveIn, NoneCompleted,
     queueVars, tokenVars, llamaVars, clientVars
<1>6. CASE NoCommand
  BY <1>6 DEF NothingIsOverwritten, LogitsAreFresh, Sampleable, ActiveIn, NoCommand,
     queueVars, tokenVars, llamaVars, clientVars
<1>7. CASE AcceptShutdown
  BY <1>7 DEF NothingIsOverwritten, LogitsAreFresh, Sampleable, ActiveIn,
     AcceptShutdown, Accepting, llamaVars, tokenVars, clientVars
<1>8. ASSUME NEW r \in Request, AcceptEmbedding(r)
      PROVE  NothingIsOverwritten'
  BY <1>8 DEF NothingIsOverwritten, LogitsAreFresh, Sampleable, ActiveIn,
     AcceptEmbedding, Accepting, llamaVars, tokenVars, clientVars
<1>9. ASSUME NEW r \in Request, NEW p \in 1 .. MaxPrompt, AcceptTextPrompt(r, p)
      PROVE  NothingIsOverwritten'
  <2>1. Accepting(r) /\ r # Shutdown /\ TakeSequence(r)
    BY <1>9, SchedulerAssumption DEF AcceptTextPrompt
  <2>2. phase[r] = "queued" /\ place' # "decode"
    BY <2>1, AcceptedCommand DEF QueuesAreDisjoint
  <2>3. Elements(active') = Elements(active) \cup {r}
    BY <2>1, <2>2, TakenSequence
  <2>4. /\ UNCHANGED <<pending, i_batch, logits>> /\ phase'[r] = "ingesting"
        /\ \A q \in Request : q # r => phase'[q] = phase[q]
    BY <1>9 DEF AcceptTextPrompt, SchedulerTypeOK
  <2>5. QED
    BY <2>2, <2>3, <2>4, Members DEF NothingIsOverwritten, LogitsAreFresh, Sampleable, ActiveIn
<1>10. ASSUME NEW r \in Request, NEW silent \in BOOLEAN, Refuse(r, silent)
      PROVE  NothingIsOverwritten'
  <2>1. /\ UNCHANGED <<active, pending, logits>> /\ i_batch' \subseteq i_batch /\ place' # "decode"
        /\ \A q \in Request : phase'[q] = phase[q] \/ phase'[q] = "over"
    BY <1>10 DEF Refuse, Accepting, EndUnaccepted, llamaVars, SchedulerTypeOK
  <2>2. QED
    BY <2>1, Members DEF NothingIsOverwritten, LogitsAreFresh, Sampleable, ActiveIn
<1>11. ASSUME NEW r \in Request, NEW broken \in SUBSET Sampleable,
             NEW gain \in Gains(Sampleable \ broken), NEW shown \in SUBSET (Sampleable \ broken),
             NEW p \in 1 .. MaxPrompt, AcceptImage(r, p, broken, gain, shown)
      PROVE  NothingIsOverwritten'
  <2>1. Accepting(r) /\ r # Shutdown /\ TakeSequence(r)
    BY <1>11, SchedulerAssumption DEF AcceptImage
  <2>2. phase[r] = "queued" /\ place' # "decode"
    BY <2>1, AcceptedCommand DEF QueuesAreDisjoint
  <2>3. Elements(active') = Elements(active) \cup {r}
    BY <2>1, <2>2, TakenSequence
  <2>4. /\ pending' = pending \cup (Sampleable \ broken) /\ i_batch' = (i_batch \ Sampleable) \cup {r}
        /\ logits' = {r}
        /\ \A q \in Request : q # r => phase'[q] = phase[q] \/ phase'[q] = "completed"
    BY <1>11 DEF AcceptImage, Harvest
  <2>5. QED
    BY <2>2, <2>3, <2>4, Members DEF NothingIsOverwritten, LogitsAreFresh, Sampleable, ActiveIn
<1>12. ASSUME NEW r \in Request, NEW broken \in SUBSET Sampleable,
             NEW gain \in Gains(Sampleable \ broken), NEW shown \in SUBSET (Sampleable \ broken),
             NEW cells \in 0 .. MaxPrompt, NEW silent \in BOOLEAN,
             ImageFails(r, broken, gain, shown, cells, silent)
      PROVE  NothingIsOverwritten'
  <2>1. /\ active' = active /\ place' # "decode" /\ i_batch' = i_batch \ Sampleable
        /\ pending' = pending \cup (Sampleable \ broken)
        /\ \A q \in Request : phase'[q] = phase[q] \/ phase'[q] \in {"over", "completed"}
    BY <1>12 DEF ImageFails, Accepting, Harvest
  <2>2. QED
    BY <2>1, Members DEF NothingIsOverwritten, LogitsAreFresh, Sampleable, ActiveIn
<1>13. CASE NoEmbedding
  BY <1>13 DEF NothingIsOverwritten, LogitsAreFresh, Sampleable, ActiveIn, NoEmbedding,
     AfterEmbedding, queueVars, tokenVars, llamaVars, clientVars
<1>14. CASE WaitTimeout
  BY <1>14 DEF NothingIsOverwritten, LogitsAreFresh, Sampleable, ActiveIn, WaitTimeout,
     queueVars, tokenVars, llamaVars, clientVars
<1>15. ASSUME NEW cells \in 0 .. MaxPrompt, NEW silent \in BOOLEAN,
             ProcessEmbedding(cells, silent)
      PROVE  NothingIsOverwritten'
  <2>1. /\ UNCHANGED <<active, pending, i_batch>> /\ place' # "decode"
        /\ \A q \in Request : phase'[q] = phase[q] \/ phase'[q] = "over"
        /\ Unfinished = {} \/ logits' = logits
    BY <1>15 DEF ProcessEmbedding, EndUnaccepted, ProcessEmbeddingBatch, llamaVars, SchedulerTypeOK, AfterEmbedding
  <2>2. QED
    BY <2>1, Members DEF Unfinished, NothingIsOverwritten, LogitsAreFresh, Sampleable, ActiveIn
<1>16. ASSUME NEW broken \in SUBSET Sampleable, NEW ends \in SUBSET (Sampleable \ broken),
             NEW gain \in Gains(Sampleable \ broken), NEW shown \in SUBSET (Sampleable \ broken),
             Advance(ends, broken, gain, shown)
      PROVE  NothingIsOverwritten'
  <2> DEFINE classified == Sampleable \ broken
             dropped == shown \ listening
             full == {r \in classified \ (ends \cup dropped) : ReachesMaxTokens(r, gain)}
             goOn == classified \ (ends \cup dropped \cup full)
  <2>1. /\ active' = active /\ pending' = pending \cup goOn
        /\ i_batch' = i_batch \ (Sampleable \ goOn)
        /\ phase' = [r \in Request |-> IF r \in Sampleable \ goOn THEN "completed" ELSE phase[r]]
    BY <1>16 DEF Advance
  <2> HIDE DEF classified, dropped, full, goOn
  <2>2. Sampleable' = {}
    BY <2>1, Members DEF Sampleable, ActiveIn
  <2>3. QED
    BY <2>2 DEF NothingIsOverwritten, LogitsAreFresh
<1>17. CASE DecodeBatch
  <2> DEFINE chunk == [r \in Request |-> Contribution(r)]
             ingested == {r \in ActiveIn("ingesting") : chunk[r] > 0}
             last == {r \in ingested : chunk[r] = remaining[r]}
  <2>1. /\ active' = active /\ place = "decode" /\ place' # "decode"
        /\ logits' = FillGenerating \cup last
        /\ pending' = pending \ FillGenerating
        /\ i_batch' = i_batch \cup FillGenerating \cup last
        /\ phase' = [r \in Request |-> IF r \in last THEN "generating" ELSE phase[r]]
    BY <1>17 DEF DecodeBatch, ApplyContributions, AfterIteration
  <2> HIDE DEF last
  <2>2. Sampleable = {}
    BY <2>1 DEF NothingIsOverwritten
  <2>3. Sampleable' \subseteq logits'
    BY <2>1, <2>2, Members DEF Sampleable, ActiveIn
  <2>4. QED
    BY <2>1, <2>3 DEF NothingIsOverwritten, LogitsAreFresh
<1>18. CASE DecodeNothing
  BY <1>18 DEF NothingIsOverwritten, LogitsAreFresh, Sampleable, ActiveIn,
     DecodeNothing, AfterIteration, queueVars, tokenVars, llamaVars, clientVars
<1>19. ASSUME NEW i \in 1 .. Len(active), NEW result \in Outcome, Cleanup(i, result)
      PROVE  NothingIsOverwritten'
  <2>1. CleanupCompletedRequest(i, result) /\ logits' = logits
    BY <1>19 DEF Cleanup
  <2>2. /\ active[i] \in Elements(active) /\ active[i] \in Request
        /\ Elements(active') = Elements(active) \ {active[i]}
    BY <2>1, CleanedUp
  <2> DEFINE r == active[i]
  <2>3. /\ phase' = [phase EXCEPT ![r] = "over"] /\ i_batch' = i_batch \ {r}
        /\ pending' = pending \ {r}
    BY <2>1 DEF CleanupCompletedRequest
  <2>4. Elements(active') = Elements(active) \ {r}
    BY <2>2
  <2> HIDE DEF r
  <2>5. \A q \in Request : q # r => phase'[q] = phase[q]
    BY <2>3 DEF SchedulerTypeOK
  <2>6. Sampleable' \subseteq Sampleable
    BY <2>3, <2>4, <2>5, Members DEF Sampleable, ActiveIn
  <2>7. place' = "decode" => place = "decode"
    BY <1>19 DEF Cleanup
  <2>8. QED
    BY <2>1, <2>6, <2>7 DEF NothingIsOverwritten, LogitsAreFresh
<1>20. CASE EndScheduler
  <2>1. /\ UNCHANGED <<active, pending, logits>> /\ i_batch' \subseteq i_batch /\ place' = "ended"
        /\ \A q \in Request : phase'[q] = phase[q] \/ phase'[q] = "over"
    BY <1>20 DEF EndScheduler, llamaVars
  <2>2. QED
    BY <2>1, Members DEF NothingIsOverwritten, LogitsAreFresh, Sampleable, ActiveIn
<1>21. CASE UNCHANGED schedulerVars
  BY <1>21 DEF NothingIsOverwritten, LogitsAreFresh, Sampleable, ActiveIn, schedulerVars
<1>22. QED
  BY <1>1, <1>2, <1>3, <1>4, <1>5, <1>6, <1>7, <1>8, <1>9, <1>10, <1>11, <1>12, <1>13,
     <1>14, <1>15, <1>16, <1>17, <1>18, <1>19, <1>20, <1>21, CasesOfNext

\* The counters of a request.
LEMMA Counters ==
    ASSUME SchedulerTypeOK
    PROVE  \A r \in Request : usage[r] \in Nat /\ terminals[r] \in Nat
BY SchedulerAssumption DEF SchedulerTypeOK

\* What is counted for a token is a number, and nothing where there is no token.
LEMMA GainIsNatural ==
    ASSUME NEW set, NEW gain \in Gains(set)
    PROVE  \A r \in Request : gain[r] \in Nat /\ (r \notin set => gain[r] = 0)
BY SchedulerAssumption DEF Gains

\* The embedding batch that is processed next is a queued request.
LEMMA EmbeddingIsQueued ==
    ASSUME SchedulerTypeOK, QueuesAreDisjoint, embeddings # <<>>
    PROVE  Head(embeddings) \in Request /\ phase[Head(embeddings)] = "queued"
<1>1. embeddings \in Seq(Request)
  BY DEF SchedulerTypeOK
<1>2. Head(embeddings) \in Elements(embeddings) /\ Head(embeddings) \in Request
  BY <1>1, TailElements
<1>3. QED
  BY <1>2 DEF QueuesAreDisjoint

\* What is sent was counted, and what is counted is sent, or was harvested.
LEMMA TokensStep ==
    ASSUME SchedulerTypeOK, QueuesAreDisjoint, PoolIsExact, TokensAreCounted, EndIsAnnounced,
           [SchedulerNext]_schedulerVars
    PROVE  TokensAreCounted'
<1>1. ASSUME NEW r \in Request, NEW k \in {"text", "image", "embedding"}, Send(r, k)
      PROVE  TokensAreCounted'
  <2>1. UNCHANGED <<usage, unsent, harvested>> /\ phase[r] = "new" /\ outcome' = outcome
        /\ \A q \in Request : phase'[q] = IF q = r THEN "queued" ELSE phase[q]
    BY <1>1 DEF Send, tokenVars, SchedulerTypeOK
  <2>2. QED
    BY <2>1, Counters, SchedulerAssumption DEF TokensAreCounted
<1>2. CASE SendShutdown
  BY <1>2 DEF TokensAreCounted, SendShutdown, llamaVars, tokenVars, clientVars
<1>3. ASSUME NEW r \in Request, NEW leaves \in BOOLEAN, Stop(r, leaves)
      PROVE  TokensAreCounted'
  BY <1>3 DEF TokensAreCounted, Stop, queueVars, llamaVars, tokenVars
<1>4. CASE CheckStopSignals
  <2>1. UNCHANGED <<usage, unsent, harvested>>
        /\ \A r \in Request : \/ phase'[r] = phase[r] /\ outcome'[r] = outcome[r]
                              \/ /\ phase[r] \in {"ingesting", "generating"}
                                 /\ phase'[r] = "completed" /\ outcome'[r] = "Done"
    BY <1>4 DEF CheckStopSignals, MarkCompleted, tokenVars, Unfinished, ActiveIn
  <2>2. QED
    BY <2>1, Counters, SchedulerAssumption DEF TokensAreCounted
<1>5. CASE NoneCompleted
  BY <1>5 DEF TokensAreCounted, NoneCompleted, queueVars, tokenVars, llamaVars,
     clientVars
<1>6. CASE NoCommand
  BY <1>6 DEF TokensAreCounted, NoCommand, queueVars, tokenVars, llamaVars, clientVars
<1>7. CASE AcceptShutdown
  BY <1>7 DEF TokensAreCounted, AcceptShutdown, Accepting, llamaVars, tokenVars,
     clientVars
<1>8. ASSUME NEW r \in Request, AcceptEmbedding(r)
      PROVE  TokensAreCounted'
  BY <1>8 DEF TokensAreCounted, AcceptEmbedding, Accepting, llamaVars, tokenVars,
     clientVars
<1>9. ASSUME NEW r \in Request, NEW p \in 1 .. MaxPrompt, AcceptTextPrompt(r, p)
      PROVE  TokensAreCounted'
  <2>0. phase[r] = "queued"
    BY <1>9, AcceptedCommand, SchedulerAssumption DEF QueuesAreDisjoint, AcceptTextPrompt
  <2>1. UNCHANGED <<usage, unsent, harvested>> /\ outcome' = outcome
        /\ \A q \in Request : phase'[q] = IF q = r THEN "ingesting" ELSE phase[q]
    BY <1>9 DEF AcceptTextPrompt, tokenVars, SchedulerTypeOK
  <2>2. QED
    BY <2>1, <2>0, Counters, SchedulerAssumption DEF TokensAreCounted
<1>10. ASSUME NEW r \in Request, NEW silent \in BOOLEAN, Refuse(r, silent)
      PROVE  TokensAreCounted'
  <2>0. phase[r] = "queued"
    BY <1>10, AcceptedCommand, SchedulerAssumption DEF QueuesAreDisjoint, Refuse
  <2>1. UNCHANGED <<usage, unsent, harvested>> /\ outcome' = outcome
        /\ \A q \in Request : phase'[q] = IF q = r THEN "over" ELSE phase[q]
    BY <1>10 DEF Refuse, EndUnaccepted, tokenVars, SchedulerTypeOK
  <2>2. QED
    BY <2>1, <2>0, Counters, SchedulerAssumption DEF TokensAreCounted
<1>11. ASSUME NEW r \in Request, NEW broken \in SUBSET Sampleable,
             NEW gain \in Gains(Sampleable \ broken), NEW shown \in SUBSET (Sampleable \ broken),
             NEW p \in 1 .. MaxPrompt, AcceptImage(r, p, broken, gain, shown)
      PROVE  TokensAreCounted'
  <2>0. phase[r] = "queued"
    BY <1>11, AcceptedCommand, SchedulerAssumption DEF QueuesAreDisjoint, AcceptImage
  <2>1. /\ usage' = [q \in Request |-> usage[q] + gain[q]]
        /\ harvested' = harvested \cup (Sampleable \ broken) /\ unsent' = unsent \cup shown
        /\ phase' = [q \in Request |-> IF q = r THEN "generating"
                                       ELSE IF q \in broken THEN "completed" ELSE phase[q]]
        /\ outcome' = [q \in Request |-> IF q \in broken THEN "Error" ELSE outcome[q]]
    BY <1>11 DEF AcceptImage, Harvest, ClassifyTokens
  <2>2. \A q \in Sampleable : phase[q] = "generating"
    BY DEF Sampleable, ActiveIn
  <2>3. ASSUME NEW q \in Request PROVE TokensAreCounted!(q)'
    BY <2>0, <2>1, <2>2, Counters, GainIsNatural, SchedulerAssumption DEF TokensAreCounted
  <2>4. QED
    BY <2>3 DEF TokensAreCounted
<1>12. ASSUME NEW r \in Request, NEW broken \in SUBSET Sampleable,
             NEW gain \in Gains(Sampleable \ broken), NEW shown \in SUBSET (Sampleable \ broken),
             NEW cells \in 0 .. MaxPrompt, NEW silent \in BOOLEAN,
             ImageFails(r, broken, gain, shown, cells, silent)
      PROVE  TokensAreCounted'
  <2>0. phase[r] = "queued"
    BY <1>12, AcceptedCommand, SchedulerAssumption DEF QueuesAreDisjoint, ImageFails
  <2>1. /\ usage' = [q \in Request |-> usage[q] + gain[q]]
        /\ harvested' = harvested \cup (Sampleable \ broken) /\ unsent' = unsent \cup shown
        /\ phase' = [q \in Request |-> IF q = r THEN "over"
                                       ELSE IF q \in broken THEN "completed" ELSE phase[q]]
        /\ outcome' = [q \in Request |-> IF q \in broken THEN "Error" ELSE outcome[q]]
    BY <1>12 DEF ImageFails, Harvest, ClassifyTokens
  <2>2. \A q \in Sampleable : phase[q] = "generating"
    BY DEF Sampleable, ActiveIn
  <2>3. ASSUME NEW q \in Request PROVE TokensAreCounted!(q)'
    BY <2>0, <2>1, <2>2, Counters, GainIsNatural, SchedulerAssumption DEF TokensAreCounted
  <2>4. QED
    BY <2>3 DEF TokensAreCounted
<1>13. CASE NoEmbedding
  BY <1>13 DEF TokensAreCounted, NoEmbedding, AfterEmbedding, queueVars, tokenVars,
     llamaVars, clientVars
<1>14. CASE WaitTimeout
  BY <1>14 DEF TokensAreCounted, WaitTimeout, queueVars, tokenVars, llamaVars,
     clientVars
<1>15. ASSUME NEW cells \in 0 .. MaxPrompt, NEW silent \in BOOLEAN,
             ProcessEmbedding(cells, silent)
      PROVE  TokensAreCounted'
  <2>0. Head(embeddings) \in Request /\ phase[Head(embeddings)] = "queued"
    BY <1>15, EmbeddingIsQueued DEF ProcessEmbedding
  <2>1. UNCHANGED <<usage, unsent, harvested>> /\ outcome' = outcome
        /\ \A q \in Request : phase'[q] = IF q = Head(embeddings) THEN "over" ELSE phase[q]
    BY <1>15 DEF ProcessEmbedding, EndUnaccepted, ProcessEmbeddingBatch, tokenVars,
       SchedulerTypeOK
  <2>2. QED
    BY <2>1, <2>0, Counters, SchedulerAssumption DEF TokensAreCounted
<1>16. ASSUME NEW broken \in SUBSET Sampleable, NEW ends \in SUBSET (Sampleable \ broken),
             NEW gain \in Gains(Sampleable \ broken), NEW shown \in SUBSET (Sampleable \ broken),
             Advance(ends, broken, gain, shown)
      PROVE  TokensAreCounted'
  <2> DEFINE classified == Sampleable \ broken
             dropped == shown \ listening
             full == {r \in classified \ (ends \cup dropped) : ReachesMaxTokens(r, gain)}
             goOn == classified \ (ends \cup dropped \cup full)
  <2>1. /\ usage' = [r \in Request |-> usage[r] + gain[r]]
        /\ unsent' = unsent \cup dropped
        /\ harvested' = harvested
        /\ phase' = [r \in Request |-> IF r \in Sampleable \ goOn THEN "completed" ELSE phase[r]]
        /\ outcome' = [r \in Request |->
               IF r \in broken THEN "Error"
               ELSE IF r \in (ends \cup full) \ dropped THEN "Done" ELSE outcome[r]]
    BY <1>16 DEF Advance, ClassifyTokens, EmitTokens
  <2>2. \A q \in Sampleable : phase[q] = "generating" /\ q \in Request
    BY Members DEF Sampleable, ActiveIn
  <2>3. \A q \in goOn : usage[q] + gain[q] < MaxTokens
    BY <2>2, Counters, GainIsNatural, SchedulerAssumption DEF ReachesMaxTokens
  <2>4. /\ goOn \subseteq Sampleable \ (ends \cup broken \cup dropped \cup full)
        /\ Sampleable \subseteq goOn \cup ends \cup broken \cup dropped \cup full
        /\ ends \cup broken \cup dropped \cup full \subseteq Sampleable
        /\ broken \cap dropped = {}
    OBVIOUS
  <2>5. ASSUME NEW q \in Request PROVE TokensAreCounted!(q)'
    <3> HIDE DEF classified, dropped, full, goOn
    <3>1. CASE q \in goOn
      BY <2>1, <2>2, <2>3, <2>4, <3>1, Counters, GainIsNatural, SchedulerAssumption
      DEF TokensAreCounted
    <3>2. CASE q \in Sampleable \ goOn
      BY <2>1, <2>2, <2>4, <3>2 DEF TokensAreCounted, EndIsAnnounced
    <3>3. CASE q \notin Sampleable
      <4>1. gain[q] = 0
        BY <3>3, GainIsNatural
      <4>2. QED
        BY <2>1, <2>4, <3>3, <4>1, Counters DEF TokensAreCounted
    <3>4. QED
      BY <2>4, <3>1, <3>2, <3>3
  <2>6. QED
    BY <2>5 DEF TokensAreCounted
<1>17. CASE DecodeBatch
  <2>1. UNCHANGED <<usage, unsent, harvested>> /\ outcome' = outcome
        /\ \A r \in Request : \/ phase'[r] = phase[r]
                              \/ phase[r] = "ingesting" /\ phase'[r] = "generating"
    BY <1>17 DEF DecodeBatch, ApplyContributions, ActiveIn, tokenVars
  <2>2. QED
    BY <2>1, Counters, SchedulerAssumption DEF TokensAreCounted
<1>18. CASE DecodeNothing
  BY <1>18 DEF TokensAreCounted, DecodeNothing, AfterIteration, queueVars, tokenVars,
     llamaVars, clientVars
<1>19. ASSUME NEW i \in 1 .. Len(active), NEW result \in Outcome, Cleanup(i, result)
      PROVE  TokensAreCounted'
  <2>1. CleanupCompletedRequest(i, result)
    BY <1>19 DEF Cleanup
  <2>2. active[i] \in Request
    BY <2>1, CleanedUp
  <2> DEFINE r == active[i]
  <2>3. /\ phase' = [phase EXCEPT ![r] = "over"] /\ outcome' = [outcome EXCEPT ![r] = "EmitNothing"]
        /\ usage' = [usage EXCEPT ![r] = 0] /\ unsent' = unsent \ {r}
        /\ harvested' = harvested \ {r}
    BY <2>1 DEF CleanupCompletedRequest
  <2>4. r \in Request
    BY <2>2
  <2> HIDE DEF r
  <2>5. QED
    BY <2>3, <2>4 DEF TokensAreCounted, SchedulerTypeOK
<1>20. CASE EndScheduler
  <2>1. UNCHANGED <<usage, unsent, harvested>> /\ outcome' = outcome
        /\ \A r \in Request : \/ phase'[r] = phase[r]
                              \/ phase[r] = "queued" /\ phase'[r] = "over"
    BY <1>20 DEF EndScheduler, tokenVars
  <2>2. QED
    BY <2>1, Counters, SchedulerAssumption DEF TokensAreCounted
<1>21. CASE UNCHANGED schedulerVars
  BY <1>21 DEF TokensAreCounted, schedulerVars
<1>22. QED
  BY <1>1, <1>2, <1>3, <1>4, <1>5, <1>6, <1>7, <1>8, <1>9, <1>10, <1>11, <1>12, <1>13,
     <1>14, <1>15, <1>16, <1>17, <1>18, <1>19, <1>20, <1>21, CasesOfNext

\* A request that is over had its terminal message, if it could have one.
LEMMA AnswersStep ==
    ASSUME SchedulerTypeOK, QueuesAreDisjoint, PoolIsExact, EndIsAnnounced, AnsweredOnce,
           [SchedulerNext]_schedulerVars
    PROVE  EndIsAnnounced' /\ AnsweredOnce'
<1>1. ASSUME NEW r \in Request, NEW k \in {"text", "image", "embedding"}, Send(r, k)
      PROVE  EndIsAnnounced' /\ AnsweredOnce'
  <2>1. UNCHANGED <<outcome, terminals, failed, listening>> /\ UNCHANGED <<place, running>> /\ phase[r] = "new"
        /\ \A q \in Request : phase'[q] = IF q = r THEN "queued" ELSE phase[q]
    BY <1>1 DEF Send, clientVars, SchedulerTypeOK
  <2>2. QED
    BY <2>1, Counters DEF EndIsAnnounced, AnsweredOnce
<1>2. CASE SendShutdown
  BY <1>2 DEF EndIsAnnounced, AnsweredOnce, SendShutdown, llamaVars, tokenVars,
     clientVars
<1>3. ASSUME NEW r \in Request, NEW leaves \in BOOLEAN, Stop(r, leaves)
      PROVE  EndIsAnnounced' /\ AnsweredOnce'
  BY <1>3 DEF EndIsAnnounced, AnsweredOnce, Stop, queueVars, llamaVars, tokenVars
<1>4. CASE CheckStopSignals
  <2>1. UNCHANGED <<terminals, failed, listening, running>> /\ place' = "remove" /\ place = "stop"
        /\ \A r \in Request : \/ phase'[r] = phase[r] /\ outcome'[r] = outcome[r]
                              \/ /\ phase[r] \in {"ingesting", "generating"}
                                 /\ phase'[r] = "completed" /\ outcome'[r] = "Done"
    BY <1>4 DEF CheckStopSignals, MarkCompleted, queueVars, clientVars, Unfinished,
       ActiveIn
  <2>2. QED
    BY <2>1, Counters DEF EndIsAnnounced, AnsweredOnce
<1>5. CASE NoneCompleted
  BY <1>5 DEF EndIsAnnounced, AnsweredOnce, NoneCompleted, queueVars, tokenVars,
     llamaVars, clientVars
<1>6. CASE NoCommand
  BY <1>6 DEF EndIsAnnounced, AnsweredOnce, NoCommand, queueVars, tokenVars, llamaVars,
     clientVars
<1>7. CASE AcceptShutdown
  <2>1. ~running' /\ UNCHANGED <<phase, outcome, terminals, failed, listening>>
    BY <1>7 DEF AcceptShutdown, clientVars
  <2>2. QED
    BY <2>1 DEF EndIsAnnounced, AnsweredOnce
<1>8. ASSUME NEW r \in Request, AcceptEmbedding(r)
      PROVE  EndIsAnnounced' /\ AnsweredOnce'
  <2>0. phase[r] = "queued" /\ (place' = "cleanup" => ~running) /\ place' # "ended"
    BY <1>8, AcceptedCommand, SchedulerAssumption DEF QueuesAreDisjoint, AcceptEmbedding
  <2>1. /\ UNCHANGED <<outcome, terminals, failed, listening>> /\ UNCHANGED <<phase, running>>
        /\ place \in {"accept", "wait"}
    BY <1>8 DEF AcceptEmbedding, Accepting, clientVars
  <2>2. QED
    BY <2>1, <2>0, Counters DEF EndIsAnnounced, AnsweredOnce
<1>9. ASSUME NEW r \in Request, NEW p \in 1 .. MaxPrompt, AcceptTextPrompt(r, p)
      PROVE  EndIsAnnounced' /\ AnsweredOnce'
  <2>0. phase[r] = "queued" /\ (place' = "cleanup" => ~running) /\ place' # "ended"
    BY <1>9, AcceptedCommand, SchedulerAssumption DEF QueuesAreDisjoint, AcceptTextPrompt
  <2>1. UNCHANGED <<outcome, terminals, failed, listening>> /\ running' = running
        /\ place \in {"accept", "wait"}
        /\ \A q \in Request : phase'[q] = IF q = r THEN "ingesting" ELSE phase[q]
    BY <1>9 DEF AcceptTextPrompt, Accepting, clientVars, SchedulerTypeOK
  <2>2. QED
    BY <2>1, <2>0, Counters DEF EndIsAnnounced, AnsweredOnce
<1>10. ASSUME NEW r \in Request, NEW silent \in BOOLEAN, Refuse(r, silent)
      PROVE  EndIsAnnounced' /\ AnsweredOnce'
  <2>0. phase[r] = "queued" /\ (place' = "cleanup" => ~running) /\ place' # "ended"
    BY <1>10, AcceptedCommand, SchedulerAssumption DEF QueuesAreDisjoint, Refuse
  <2>1. /\ UNCHANGED <<outcome, listening, running>> /\ place \in {"accept", "wait"}
        /\ \A q \in Request : phase'[q] = IF q = r THEN "over" ELSE phase[q]
        /\ \A q \in Request : q # r => terminals'[q] = terminals[q] /\ (q \in failed' <=> q \in failed)
        /\ terminals'[r] = terminals[r] + 1 \/ terminals'[r] = terminals[r]
        /\ r \in listening /\ r \notin failed' => terminals'[r] = terminals[r] + 1
    BY <1>10 DEF Refuse, Accepting, EndUnaccepted, clientVars, SchedulerTypeOK
  <2>2. QED
    BY <2>1, <2>0, Counters DEF EndIsAnnounced, AnsweredOnce
<1>11. ASSUME NEW r \in Request, NEW broken \in SUBSET Sampleable,
             NEW gain \in Gains(Sampleable \ broken), NEW shown \in SUBSET (Sampleable \ broken),
             NEW p \in 1 .. MaxPrompt, AcceptImage(r, p, broken, gain, shown)
      PROVE  EndIsAnnounced' /\ AnsweredOnce'
  <2>0. phase[r] = "queued" /\ (place' = "cleanup" => ~running) /\ place' # "ended"
    BY <1>11, AcceptedCommand, SchedulerAssumption DEF QueuesAreDisjoint, AcceptImage
  <2>1. /\ UNCHANGED <<listening, running>> /\ place \in {"accept", "wait"}
        /\ UNCHANGED <<terminals, failed>>
        /\ phase' = [q \in Request |-> IF q = r THEN "generating"
                                       ELSE IF q \in broken THEN "completed" ELSE phase[q]]
        /\ outcome' = [q \in Request |-> IF q \in broken THEN "Error" ELSE outcome[q]]
    BY <1>11 DEF AcceptImage, Accepting, clientVars, SchedulerTypeOK
  <2>2. \A q \in broken : phase[q] = "generating"
    BY DEF Sampleable, ActiveIn
  <2>3. QED
    BY <2>0, <2>1, <2>2, Counters DEF EndIsAnnounced, AnsweredOnce
<1>12. ASSUME NEW r \in Request, NEW broken \in SUBSET Sampleable,
             NEW gain \in Gains(Sampleable \ broken), NEW shown \in SUBSET (Sampleable \ broken),
             NEW cells \in 0 .. MaxPrompt, NEW silent \in BOOLEAN,
             ImageFails(r, broken, gain, shown, cells, silent)
      PROVE  EndIsAnnounced' /\ AnsweredOnce'
  <2>0. phase[r] = "queued" /\ (place' = "cleanup" => ~running) /\ place' # "ended"
    BY <1>12, AcceptedCommand, SchedulerAssumption DEF QueuesAreDisjoint, ImageFails
  <2>1. /\ UNCHANGED <<listening, running>> /\ place \in {"accept", "wait"}
        /\ \A q \in Request : q # r => terminals'[q] = terminals[q] /\ (q \in failed' <=> q \in failed)
        /\ terminals'[r] = terminals[r] + 1 \/ terminals'[r] = terminals[r]
        /\ r \in listening /\ r \notin failed' => terminals'[r] = terminals[r] + 1
        /\ phase' = [q \in Request |-> IF q = r THEN "over"
                                       ELSE IF q \in broken THEN "completed" ELSE phase[q]]
        /\ outcome' = [q \in Request |-> IF q \in broken THEN "Error" ELSE outcome[q]]
    BY <1>12 DEF ImageFails, Accepting, clientVars, SchedulerTypeOK
  <2>2. \A q \in broken : phase[q] = "generating"
    BY DEF Sampleable, ActiveIn
  <2>3. QED
    BY <2>0, <2>1, <2>2, Counters DEF EndIsAnnounced, AnsweredOnce
<1>13. CASE NoEmbedding
  BY <1>13 DEF EndIsAnnounced, AnsweredOnce, NoEmbedding, AfterEmbedding, queueVars,
     tokenVars, llamaVars, clientVars
<1>14. CASE WaitTimeout
  BY <1>14 DEF EndIsAnnounced, AnsweredOnce, WaitTimeout, queueVars, tokenVars,
     llamaVars, clientVars
<1>15. ASSUME NEW cells \in 0 .. MaxPrompt, NEW silent \in BOOLEAN,
             ProcessEmbedding(cells, silent)
      PROVE  EndIsAnnounced' /\ AnsweredOnce'
  <2> DEFINE r == Head(embeddings)
  <2>0. r \in Request /\ phase[r] = "queued"
    BY <1>15, EmbeddingIsQueued DEF ProcessEmbedding
  <2>3. \E quiet \in BOOLEAN : EndUnaccepted(r, quiet)
    BY <1>15 DEF ProcessEmbedding, ProcessEmbeddingBatch
  <2>4. UNCHANGED <<outcome, listening, running>> /\ place = "embed" /\ place' \in {"advance", "wait"}
    BY <1>15 DEF ProcessEmbedding, AfterEmbedding, clientVars
  <2> HIDE DEF r
  <2>1. /\ \A q \in Request : phase'[q] = IF q = r THEN "over" ELSE phase[q]
        /\ \A q \in Request : q # r => terminals'[q] = terminals[q] /\ (q \in failed' <=> q \in failed)
        /\ terminals'[r] = terminals[r] + 1 \/ terminals'[r] = terminals[r]
        /\ r \in listening /\ r \notin failed' => terminals'[r] = terminals[r] + 1
    BY <2>0, <2>3 DEF EndUnaccepted, SchedulerTypeOK
  <2>2. QED
    BY <2>0, <2>1, <2>4, Counters DEF EndIsAnnounced, AnsweredOnce
<1>16. ASSUME NEW broken \in SUBSET Sampleable, NEW ends \in SUBSET (Sampleable \ broken),
             NEW gain \in Gains(Sampleable \ broken), NEW shown \in SUBSET (Sampleable \ broken),
             Advance(ends, broken, gain, shown)
      PROVE  EndIsAnnounced' /\ AnsweredOnce'
  <2> DEFINE classified == Sampleable \ broken
             dropped == shown \ listening
             full == {r \in classified \ (ends \cup dropped) : ReachesMaxTokens(r, gain)}
             goOn == classified \ (ends \cup dropped \cup full)
  <2>1. /\ UNCHANGED <<terminals, failed, listening, running>> /\ place = "advance"
        /\ place' = "decode"
        /\ phase' = [r \in Request |-> IF r \in Sampleable \ goOn THEN "completed" ELSE phase[r]]
        /\ outcome' = [r \in Request |->
               IF r \in broken THEN "Error"
               ELSE IF r \in (ends \cup full) \ dropped THEN "Done" ELSE outcome[r]]
    BY <1>16 DEF Advance, queueVars, clientVars
  <2>2. \A q \in Sampleable : phase[q] = "generating" /\ q \in Request
    BY Members DEF Sampleable, ActiveIn
  <2>3. /\ goOn \subseteq Sampleable \ (ends \cup broken \cup dropped \cup full)
        /\ Sampleable \subseteq goOn \cup ends \cup broken \cup dropped \cup full
        /\ ends \cup broken \cup dropped \cup full \subseteq Sampleable
        /\ dropped \cap listening = {}
    OBVIOUS
  <2> HIDE DEF classified, dropped, full, goOn
  <2>4. QED
    BY <2>1, <2>2, <2>3, Counters DEF EndIsAnnounced, AnsweredOnce
<1>17. CASE DecodeBatch
  <2>1. UNCHANGED <<outcome, terminals, failed, listening>> /\ running' = running /\ place = "decode"
        /\ place' = (IF running THEN "stop" ELSE "cleanup")
        /\ \A r \in Request : \/ phase'[r] = phase[r]
                              \/ phase[r] = "ingesting" /\ phase'[r] = "generating"
    BY <1>17 DEF DecodeBatch, ApplyContributions, AfterIteration, ActiveIn, queueVars,
       clientVars
  <2>2. QED
    BY <2>1, Counters DEF EndIsAnnounced, AnsweredOnce
<1>18. CASE DecodeNothing
  BY <1>18 DEF EndIsAnnounced, AnsweredOnce, DecodeNothing, AfterIteration, queueVars,
     tokenVars, llamaVars, clientVars
<1>19. ASSUME NEW i \in 1 .. Len(active), NEW result \in Outcome, Cleanup(i, result)
      PROVE  EndIsAnnounced' /\ AnsweredOnce'
  <2>1. CleanupCompletedRequest(i, result)
    BY <1>19 DEF Cleanup
  <2>2. active[i] \in Request
    BY <2>1, CleanedUp
  <2>3. active[i] \in Elements(active)
    BY <2>1, CleanedUp
  <2> DEFINE r == active[i]
  <2>4. /\ phase' = [phase EXCEPT ![r] = "over"] /\ outcome' = [outcome EXCEPT ![r] = "EmitNothing"]
        /\ terminals' = [terminals EXCEPT ![r] =
               IF result # "EmitNothing" /\ r \in listening THEN @ + 1 ELSE @]
    BY <2>1 DEF CleanupCompletedRequest
  <2>5. /\ UNCHANGED <<listening, running, failed>>
        /\ place' = place \/ place' = (IF running THEN "stop" ELSE "cleanup")
        /\ \/ phase[r] = "completed" /\ result = outcome[r]
           \/ result = "Error"
           \/ place = "cleanup"
    BY <1>19 DEF Cleanup, queueVars, clientVars
  <2>6. r \in Request /\ phase[r] \in Busy
    BY <2>2, <2>3 DEF QueuesAreDisjoint
  <2> HIDE DEF r
  <2>7. /\ phase'[r] = "over" /\ outcome'[r] = "EmitNothing" /\ terminals[r] = 0
        /\ terminals'[r] = IF result # "EmitNothing" /\ r \in listening THEN 1 ELSE 0
        /\ \A q \in Request : q # r => /\ phase'[q] = phase[q] /\ outcome'[q] = outcome[q]
                                       /\ terminals'[q] = terminals[q]
    <3>1. terminals[r] = 0
      BY <2>6 DEF EndIsAnnounced, Busy
    <3>2. terminals'[r] = IF result # "EmitNothing" /\ r \in listening THEN 1 ELSE 0
      BY <2>4, <2>6, <3>1 DEF SchedulerTypeOK
    <3>3. QED
      BY <2>4, <2>6, <3>1, <3>2 DEF SchedulerTypeOK
  <2>8. QED
    BY <2>5, <2>6, <2>7, Counters DEF EndIsAnnounced, AnsweredOnce
<1>20. CASE EndScheduler
  <2>1. UNCHANGED <<outcome, terminals, failed, listening>> /\ running' = running /\ place = "cleanup" /\ place' = "ended"
        /\ \A r \in Request : \/ phase'[r] = phase[r]
                              \/ phase[r] = "queued" /\ phase'[r] = "over"
    BY <1>20 DEF EndScheduler, clientVars
  <2>2. QED
    BY <2>1, Counters DEF EndIsAnnounced, AnsweredOnce
<1>21. CASE UNCHANGED schedulerVars
  BY <1>21 DEF EndIsAnnounced, AnsweredOnce, schedulerVars
<1>22. QED
  BY <1>1, <1>2, <1>3, <1>4, <1>5, <1>6, <1>7, <1>8, <1>9, <1>10, <1>11, <1>12, <1>13,
     <1>14, <1>15, <1>16, <1>17, <1>18, <1>19, <1>20, <1>21, CasesOfNext

\* Where the loop stands and what its queues hold.
QueuesHaveTypes ==
    /\ commands \in Seq(Request \cup {Shutdown}) /\ embeddings \in Seq(Request)
    /\ active \in Seq(Request) /\ available_ids \in Seq(SequenceIds)
    /\ running \in BOOLEAN
    /\ place \in {"stop", "remove", "accept", "embed", "wait", "advance", "decode", "cleanup", "ended"}

\* The queues keep their types.
LEMMA QueueTypesStep ==
    ASSUME SchedulerTypeOK, QueuesAreDisjoint, PoolIsExact,
           [SchedulerNext]_schedulerVars
    PROVE  QueuesHaveTypes'
<1>0. SequenceIds' = SequenceIds
  BY SequencesStay, CacheKeepsShape
<1>1. ASSUME NEW r \in Request, NEW k \in {"text", "image", "embedding"}, Send(r, k)
      PROVE  QueuesHaveTypes'
  BY <1>0, <1>1 DEF QueuesHaveTypes, SchedulerTypeOK, Send, llamaVars, tokenVars, clientVars
<1>2. CASE SendShutdown
  BY <1>0, <1>2 DEF QueuesHaveTypes, SchedulerTypeOK, SendShutdown, llamaVars, tokenVars, clientVars
<1>3. ASSUME NEW r \in Request, NEW leaves \in BOOLEAN, Stop(r, leaves)
      PROVE  QueuesHaveTypes'
  BY <1>0, <1>3 DEF QueuesHaveTypes, SchedulerTypeOK, Stop, queueVars, llamaVars, tokenVars
<1>4. CASE CheckStopSignals
  BY <1>0, <1>4 DEF QueuesHaveTypes, SchedulerTypeOK, CheckStopSignals, MarkCompleted, queueVars, tokenVars,
     llamaVars, clientVars
<1>5. CASE NoneCompleted
  BY <1>0, <1>5 DEF QueuesHaveTypes, SchedulerTypeOK, NoneCompleted, queueVars, tokenVars, llamaVars,
     clientVars
<1>6. CASE NoCommand
  BY <1>0, <1>6 DEF QueuesHaveTypes, SchedulerTypeOK, NoCommand, queueVars, tokenVars, llamaVars, clientVars
<1>7. CASE AcceptShutdown
  <2>1. Accepting(Shutdown)
    BY <1>7 DEF AcceptShutdown
  <2>2. /\ commands' \in Seq(Request \cup {Shutdown})
        /\ place' \in {"accept", "stop", "cleanup"}
        /\ Shutdown \in Elements(commands)
    BY <2>1, AcceptedCommand
  <2>3. QED
    BY <1>0, <1>7, <2>2 DEF QueuesHaveTypes, AcceptShutdown, SchedulerTypeOK
<1>8. ASSUME NEW r \in Request, AcceptEmbedding(r)
      PROVE  QueuesHaveTypes'
  <2>1. Accepting(r)
    BY <1>8 DEF AcceptEmbedding
  <2>2. /\ commands' \in Seq(Request \cup {Shutdown})
        /\ place' \in {"accept", "stop", "cleanup"}
        /\ r \in Elements(commands)
    BY <2>1, AcceptedCommand
  <2>3. embeddings' \in Seq(Request)
    BY <1>8 DEF AcceptEmbedding, SchedulerTypeOK
  <2>4. QED
    BY <1>0, <1>8, <2>2, <2>3 DEF QueuesHaveTypes, AcceptEmbedding, SchedulerTypeOK
<1>9. ASSUME NEW r \in Request, NEW p \in 1 .. MaxPrompt, AcceptTextPrompt(r, p)
      PROVE  QueuesHaveTypes'
  <2>1. Accepting(r)
    BY <1>9 DEF AcceptTextPrompt
  <2>2. /\ commands' \in Seq(Request \cup {Shutdown})
        /\ place' \in {"accept", "stop", "cleanup"}
        /\ r \in Elements(commands)
    BY <2>1, AcceptedCommand
  <2>3. phase[r] = "queued"
    BY <2>2, SchedulerAssumption DEF QueuesAreDisjoint
  <2>4. active' \in Seq(Request) /\ available_ids' \in Seq(SequenceIds)
    BY <1>9, <2>3, TakenSequence DEF AcceptTextPrompt
  <2>5. QED
    BY <1>0, <1>9, <2>2, <2>4 DEF QueuesHaveTypes, AcceptTextPrompt, SchedulerTypeOK
<1>10. ASSUME NEW r \in Request, NEW silent \in BOOLEAN, Refuse(r, silent)
      PROVE  QueuesHaveTypes'
  <2>1. Accepting(r)
    BY <1>10 DEF Refuse
  <2>2. /\ commands' \in Seq(Request \cup {Shutdown})
        /\ place' \in {"accept", "stop", "cleanup"}
        /\ r \in Elements(commands)
    BY <2>1, AcceptedCommand
  <2>3. QED
    BY <1>0, <1>10, <2>2 DEF QueuesHaveTypes, Refuse, SchedulerTypeOK
<1>11. ASSUME NEW r \in Request, NEW broken \in SUBSET Sampleable,
             NEW gain \in Gains(Sampleable \ broken), NEW shown \in SUBSET (Sampleable \ broken),
             NEW p \in 1 .. MaxPrompt, AcceptImage(r, p, broken, gain, shown)
      PROVE  QueuesHaveTypes'
  <2>1. Accepting(r)
    BY <1>11 DEF AcceptImage
  <2>2. /\ commands' \in Seq(Request \cup {Shutdown})
        /\ place' \in {"accept", "stop", "cleanup"}
        /\ r \in Elements(commands)
    BY <2>1, AcceptedCommand
  <2>3. phase[r] = "queued"
    BY <2>2, SchedulerAssumption DEF QueuesAreDisjoint
  <2>4. active' \in Seq(Request) /\ available_ids' \in Seq(SequenceIds)
    BY <1>11, <2>3, TakenSequence DEF AcceptImage
  <2>5. QED
    BY <1>0, <1>11, <2>2, <2>4 DEF QueuesHaveTypes, AcceptImage, SchedulerTypeOK
<1>12. ASSUME NEW r \in Request, NEW broken \in SUBSET Sampleable,
             NEW gain \in Gains(Sampleable \ broken), NEW shown \in SUBSET (Sampleable \ broken),
             NEW cells \in 0 .. MaxPrompt, NEW silent \in BOOLEAN,
             ImageFails(r, broken, gain, shown, cells, silent)
      PROVE  QueuesHaveTypes'
  <2>1. Accepting(r)
    BY <1>12 DEF ImageFails
  <2>2. /\ commands' \in Seq(Request \cup {Shutdown})
        /\ place' \in {"accept", "stop", "cleanup"}
        /\ r \in Elements(commands)
    BY <2>1, AcceptedCommand
  <2>3. QED
    BY <1>0, <1>12, <2>2 DEF QueuesHaveTypes, ImageFails, SchedulerTypeOK
<1>13. CASE NoEmbedding
  BY <1>0, <1>13 DEF QueuesHaveTypes, SchedulerTypeOK, NoEmbedding, AfterEmbedding, queueVars, tokenVars,
     llamaVars, clientVars
<1>14. CASE WaitTimeout
  BY <1>0, <1>14 DEF QueuesHaveTypes, SchedulerTypeOK, WaitTimeout, queueVars, tokenVars, llamaVars, clientVars
<1>15. ASSUME NEW cells \in 0 .. MaxPrompt, NEW silent \in BOOLEAN,
             ProcessEmbedding(cells, silent)
      PROVE  QueuesHaveTypes'
  <2>1. embeddings' \in Seq(Request)
    BY <1>15, TailElements DEF ProcessEmbedding, SchedulerTypeOK
  <2>2. QED
    BY <1>0, <1>15, <2>1 DEF QueuesHaveTypes, ProcessEmbedding, AfterEmbedding, SchedulerTypeOK
<1>16. ASSUME NEW broken \in SUBSET Sampleable, NEW ends \in SUBSET (Sampleable \ broken),
             NEW gain \in Gains(Sampleable \ broken), NEW shown \in SUBSET (Sampleable \ broken),
             Advance(ends, broken, gain, shown)
      PROVE  QueuesHaveTypes'
  BY <1>0, <1>16 DEF QueuesHaveTypes, SchedulerTypeOK, Advance, ClassifyTokens, EmitTokens, queueVars,
     llamaVars, clientVars
<1>17. CASE DecodeBatch
  BY <1>0, <1>17 DEF QueuesHaveTypes, SchedulerTypeOK, DecodeBatch, ApplyContributions, AfterIteration,
     queueVars, tokenVars, clientVars
<1>18. CASE DecodeNothing
  BY <1>0, <1>18 DEF QueuesHaveTypes, SchedulerTypeOK, DecodeNothing, AfterIteration, queueVars, tokenVars,
     llamaVars, clientVars
<1>19. ASSUME NEW i \in 1 .. Len(active), NEW result \in Outcome, Cleanup(i, result)
      PROVE  QueuesHaveTypes'
  <2>1. active' \in Seq(Request) /\ available_ids' \in Seq(SequenceIds)
    BY <1>19, CleanedUp DEF Cleanup
  <2>2. UNCHANGED <<commands, embeddings>> /\ running' = running
    BY <1>19 DEF Cleanup, queueVars
  <2>3. place' \in {place, "stop", "cleanup"}
    BY <1>19 DEF Cleanup
  <2>4. QED
    BY <1>0, <2>1, <2>2, <2>3 DEF QueuesHaveTypes, SchedulerTypeOK
<1>20. CASE EndScheduler
  <2>1. commands' = <<>> /\ embeddings' = <<>> /\ place' = "ended"
        /\ UNCHANGED <<active, available_ids>>
    BY <1>20 DEF EndScheduler
  <2>2. running' = running
    BY <1>20 DEF EndScheduler
  <2>3. <<>> \in Seq(Request) /\ <<>> \in Seq(Request \cup {Shutdown})
    OBVIOUS
  <2>4. QED
    BY <1>0, <2>1, <2>2, <2>3 DEF QueuesHaveTypes, SchedulerTypeOK
<1>21. CASE UNCHANGED schedulerVars
  BY <1>0, <1>21 DEF QueuesHaveTypes, SchedulerTypeOK, schedulerVars
<1>22. QED
  BY <1>1, <1>2, <1>3, <1>4, <1>5, <1>6, <1>7, <1>8, <1>9, <1>10, <1>11, <1>12, <1>13,
     <1>14, <1>15, <1>16, <1>17, <1>18, <1>19, <1>20, <1>21, CasesOfNext

\* What is kept of each request.
RequestsHaveTypes ==
    /\ kind \in [Request -> {"none", "text", "image", "embedding"}]
    /\ phase \in [Request -> {"new", "queued", "ingesting", "generating", "completed", "over"}]
    /\ outcome \in [Request -> {"EmitNothing", "Done", "Error"}]
    /\ id \in [Request -> SequenceIds \cup {-1}]
    /\ remaining \in [Request -> 0 .. MaxPrompt]
    /\ position \in [Request -> Nat]

\* So does what is kept of each request.
LEMMA RequestTypesStep ==
    ASSUME SchedulerTypeOK, QueuesAreDisjoint, PoolIsExact,
           [SchedulerNext]_schedulerVars
    PROVE  RequestsHaveTypes'
<1>0. SequenceIds' = SequenceIds
  BY SequencesStay, CacheKeepsShape
<1>1. ASSUME NEW r \in Request, NEW k \in {"text", "image", "embedding"}, Send(r, k)
      PROVE  RequestsHaveTypes'
  BY <1>0, <1>1 DEF RequestsHaveTypes, SchedulerTypeOK, Send, llamaVars, tokenVars,
     clientVars
<1>2. CASE SendShutdown
  BY <1>0, <1>2 DEF RequestsHaveTypes, SchedulerTypeOK, SendShutdown, llamaVars,
     tokenVars, clientVars
<1>3. ASSUME NEW r \in Request, NEW leaves \in BOOLEAN, Stop(r, leaves)
      PROVE  RequestsHaveTypes'
  BY <1>0, <1>3 DEF RequestsHaveTypes, SchedulerTypeOK, Stop, queueVars, llamaVars,
     tokenVars
<1>4. CASE CheckStopSignals
  BY <1>0, <1>4 DEF RequestsHaveTypes, SchedulerTypeOK, CheckStopSignals, MarkCompleted,
     queueVars, tokenVars, llamaVars, clientVars
<1>5. CASE NoneCompleted
  BY <1>0, <1>5 DEF RequestsHaveTypes, SchedulerTypeOK, NoneCompleted, queueVars,
     tokenVars, llamaVars, clientVars
<1>6. CASE NoCommand
  BY <1>0, <1>6 DEF RequestsHaveTypes, SchedulerTypeOK, NoCommand, queueVars, tokenVars,
     llamaVars, clientVars
<1>7. CASE AcceptShutdown
  BY <1>0, <1>7 DEF RequestsHaveTypes, SchedulerTypeOK, AcceptShutdown, Accepting,
     llamaVars, tokenVars, clientVars
<1>8. ASSUME NEW r \in Request, AcceptEmbedding(r)
      PROVE  RequestsHaveTypes'
  BY <1>0, <1>8 DEF RequestsHaveTypes, SchedulerTypeOK, AcceptEmbedding, Accepting,
     llamaVars, tokenVars, clientVars
<1>9. ASSUME NEW r \in Request, NEW p \in 1 .. MaxPrompt, AcceptTextPrompt(r, p)
      PROVE  RequestsHaveTypes'
  <2>1. phase[r] = "queued"
    BY <1>9, AcceptedCommand, SchedulerAssumption DEF QueuesAreDisjoint, AcceptTextPrompt
  <2>2. id' \in [Request -> SequenceIds \cup {-1}]
    BY <1>9, <2>1, TakenSequence DEF AcceptTextPrompt
  <2>3. p \in 0 .. MaxPrompt /\ p \in Nat
    BY SchedulerAssumption
  <2>4. QED
    BY <1>0, <1>9, <2>2, <2>3 DEF RequestsHaveTypes, SchedulerTypeOK, AcceptTextPrompt
<1>10. ASSUME NEW r \in Request, NEW silent \in BOOLEAN, Refuse(r, silent)
      PROVE  RequestsHaveTypes'
  BY <1>0, <1>10 DEF RequestsHaveTypes, SchedulerTypeOK, Refuse, Accepting,
     EndUnaccepted, llamaVars, tokenVars, clientVars
<1>11. ASSUME NEW r \in Request, NEW broken \in SUBSET Sampleable,
             NEW gain \in Gains(Sampleable \ broken), NEW shown \in SUBSET (Sampleable \ broken),
             NEW p \in 1 .. MaxPrompt, AcceptImage(r, p, broken, gain, shown)
      PROVE  RequestsHaveTypes'
  <2>1. phase[r] = "queued"
    BY <1>11, AcceptedCommand, SchedulerAssumption DEF QueuesAreDisjoint, AcceptImage
  <2>2. id' \in [Request -> SequenceIds \cup {-1}]
    BY <1>11, <2>1, TakenSequence DEF AcceptImage
  <2>3. p \in 0 .. MaxPrompt /\ p \in Nat
    BY SchedulerAssumption
  <2>4. QED
    BY <1>0, <1>11, <2>2, <2>3 DEF RequestsHaveTypes, SchedulerTypeOK, AcceptImage
<1>12. ASSUME NEW r \in Request, NEW broken \in SUBSET Sampleable,
             NEW gain \in Gains(Sampleable \ broken), NEW shown \in SUBSET (Sampleable \ broken),
             NEW cells \in 0 .. MaxPrompt, NEW silent \in BOOLEAN,
             ImageFails(r, broken, gain, shown, cells, silent)
      PROVE  RequestsHaveTypes'
  <2>1. /\ phase' \in [Request -> {"new", "queued", "ingesting", "generating", "completed", "over"}]
        /\ outcome' \in [Request -> Outcome]
    BY <1>12 DEF ImageFails, SchedulerTypeOK, Outcome
  <2>2. UNCHANGED <<id, remaining, position>> /\ kind' = [kind EXCEPT ![r] = "none"]
    BY <1>12 DEF ImageFails
  <2>3. QED
    BY <1>0, <2>1, <2>2 DEF RequestsHaveTypes, SchedulerTypeOK, Outcome
<1>13. CASE NoEmbedding
  BY <1>0, <1>13 DEF RequestsHaveTypes, SchedulerTypeOK, NoEmbedding, AfterEmbedding,
     queueVars, tokenVars, llamaVars, clientVars
<1>14. CASE WaitTimeout
  BY <1>0, <1>14 DEF RequestsHaveTypes, SchedulerTypeOK, WaitTimeout, queueVars,
     tokenVars, llamaVars, clientVars
<1>15. ASSUME NEW cells \in 0 .. MaxPrompt, NEW silent \in BOOLEAN,
             ProcessEmbedding(cells, silent)
      PROVE  RequestsHaveTypes'
  BY <1>0, <1>15 DEF RequestsHaveTypes, SchedulerTypeOK, ProcessEmbedding,
     AfterEmbedding, EndUnaccepted, ProcessEmbeddingBatch, llamaVars, tokenVars,
     clientVars
<1>16. ASSUME NEW broken \in SUBSET Sampleable, NEW ends \in SUBSET (Sampleable \ broken),
             NEW gain \in Gains(Sampleable \ broken), NEW shown \in SUBSET (Sampleable \ broken),
             Advance(ends, broken, gain, shown)
      PROVE  RequestsHaveTypes'
  <2>1. /\ phase' \in [Request -> {"new", "queued", "ingesting", "generating", "completed", "over"}]
        /\ outcome' \in [Request -> Outcome]
    BY <1>16 DEF Advance, SchedulerTypeOK, Outcome
  <2>2. UNCHANGED <<kind, id, remaining, position>>
    BY <1>16 DEF Advance
  <2>3. QED
    BY <1>0, <2>1, <2>2 DEF RequestsHaveTypes, SchedulerTypeOK, Outcome
<1>17. CASE DecodeBatch
  <2> DEFINE ingested == {r \in ActiveIn("ingesting") : [q \in Request |-> Contribution(q)][r] > 0}
             last == {r \in ingested : [q \in Request |-> Contribution(q)][r] = remaining[r]}
  <2>1. /\ position' = [r \in Request |-> position[r] + Contribution(r)]
        /\ remaining' = [r \in Request |->
               IF r \in ingested THEN remaining[r] - Contribution(r) ELSE remaining[r]]
        /\ phase' = [r \in Request |-> IF r \in last THEN "generating" ELSE phase[r]]
        /\ UNCHANGED <<kind, outcome, id>>
    BY <1>17 DEF DecodeBatch, ApplyContributions
  <2>2. ingested \subseteq ActiveIn("ingesting")
    OBVIOUS
  <2> HIDE DEF ingested, last
  <2>3. /\ \A r \in Request : Contribution(r) \in Nat
        /\ \A r \in ingested : Contribution(r) <= remaining[r]
    BY <2>2, ContributionFits
  <2>4. \A r \in Request : position[r] \in Nat /\ remaining[r] \in 0 .. MaxPrompt
    BY DEF SchedulerTypeOK
  <2>5. \A r \in Request : position[r] + Contribution(r) \in Nat
    BY <2>3, <2>4
  <2>6. \A r \in ingested : r \in Request => remaining[r] - Contribution(r) \in 0 .. MaxPrompt
    BY <2>3, <2>4, SchedulerAssumption
  <2>7. position' \in [Request -> Nat]
    BY <2>1, <2>5
  <2>8. remaining' \in [Request -> 0 .. MaxPrompt]
    BY <2>1, <2>4, <2>6
  <2>9. phase' \in [Request -> {"new", "queued", "ingesting", "generating", "completed", "over"}]
    BY <2>1 DEF SchedulerTypeOK
  <2>10. QED
    BY <1>0, <2>1, <2>7, <2>8, <2>9 DEF RequestsHaveTypes, SchedulerTypeOK
<1>18. CASE DecodeNothing
  BY <1>0, <1>18 DEF RequestsHaveTypes, SchedulerTypeOK, DecodeNothing, AfterIteration,
     queueVars, tokenVars, llamaVars, clientVars
<1>19. ASSUME NEW i \in 1 .. Len(active), NEW result \in Outcome, Cleanup(i, result)
      PROVE  RequestsHaveTypes'
  <2>1. CleanupCompletedRequest(i, result)
    BY <1>19 DEF Cleanup
  <2>2. active[i] \in Request
    BY <2>1, CleanedUp
  <2>3. 0 \in 0 .. MaxPrompt
    BY SchedulerAssumption
  <2>4. QED
    BY <1>0, <2>1, <2>2, <2>3 DEF RequestsHaveTypes, SchedulerTypeOK, CleanupCompletedRequest
<1>20. CASE EndScheduler
  BY <1>0, <1>20 DEF RequestsHaveTypes, SchedulerTypeOK, EndScheduler, llamaVars,
     tokenVars, clientVars
<1>21. CASE UNCHANGED schedulerVars
  BY <1>0, <1>21 DEF RequestsHaveTypes, SchedulerTypeOK, schedulerVars
<1>22. QED
  BY <1>1, <1>2, <1>3, <1>4, <1>5, <1>6, <1>7, <1>8, <1>9, <1>10, <1>11, <1>12, <1>13,
     <1>14, <1>15, <1>16, <1>17, <1>18, <1>19, <1>20, <1>21, CasesOfNext

\* The sets of requests and what is counted.
TokensHaveTypes ==
    /\ pending \in SUBSET Request /\ i_batch \in SUBSET Request /\ logits \in SUBSET Request
    /\ usage \in [Request -> Nat] /\ unsent \in SUBSET Request
    /\ terminals \in [Request -> Nat]
    /\ stop \in SUBSET Request /\ listening \in SUBSET Request
    /\ harvested \in SUBSET Request /\ failed \in SUBSET Request

\* A counter of one request goes up, or not.
LEMMA CounterType ==
    ASSUME NEW f \in [Request -> Nat], NEW r \in Request, NEW up \in BOOLEAN
    PROVE  [f EXCEPT ![r] = IF up THEN @ + 1 ELSE @] \in [Request -> Nat]
<1>1. CASE up = TRUE
  <2>1. [f EXCEPT ![r] = IF up THEN @ + 1 ELSE @] = [f EXCEPT ![r] = f[r] + 1]
    BY <1>1
  <2>2. f[r] + 1 \in Nat
    OBVIOUS
  <2>3. QED
    BY <2>1, <2>2
<1>2. CASE up = FALSE
  <2>1. [f EXCEPT ![r] = IF up THEN @ + 1 ELSE @] = [f EXCEPT ![r] = f[r]]
    BY <1>2
  <2>2. QED
    BY <2>1
<1>3. QED
  BY <1>1, <1>2

\* A request that ends unaccepted gets one message or none.
LEMMA TerminalsType ==
    ASSUME SchedulerTypeOK, NEW r \in Request, NEW quiet, EndUnaccepted(r, quiet)
    PROVE  terminals' \in [Request -> Nat]
<1> DEFINE sends == ~quiet /\ r \in listening
<1>1. terminals' = [terminals EXCEPT ![r] = IF sends THEN @ + 1 ELSE @]
  BY DEF EndUnaccepted
<1>2. sends \in BOOLEAN
  OBVIOUS
<1> HIDE DEF sends
<1>3. terminals \in [Request -> Nat]
  BY DEF SchedulerTypeOK
<1>4. QED
  BY <1>1, <1>2, <1>3, CounterType

\* So do the sets of requests and what is counted.
LEMMA TokenTypesStep ==
    ASSUME SchedulerTypeOK, QueuesAreDisjoint, PoolIsExact, TokensAreCounted,
           [SchedulerNext]_schedulerVars
    PROVE  TokensHaveTypes'
<1>1. ASSUME NEW r \in Request, NEW k \in {"text", "image", "embedding"}, Send(r, k)
      PROVE  TokensHaveTypes'
  BY <1>1 DEF TokensHaveTypes, SchedulerTypeOK, Send, llamaVars, tokenVars, clientVars
<1>2. CASE SendShutdown
  BY <1>2 DEF TokensHaveTypes, SchedulerTypeOK, SendShutdown, llamaVars, tokenVars,
     clientVars
<1>3. ASSUME NEW r \in Request, NEW leaves \in BOOLEAN, Stop(r, leaves)
      PROVE  TokensHaveTypes'
  BY <1>3 DEF TokensHaveTypes, SchedulerTypeOK, Stop, queueVars, llamaVars, tokenVars
<1>4. CASE CheckStopSignals
  BY <1>4 DEF TokensHaveTypes, SchedulerTypeOK, CheckStopSignals, MarkCompleted,
     queueVars, tokenVars, llamaVars, clientVars
<1>5. CASE NoneCompleted
  BY <1>5 DEF TokensHaveTypes, SchedulerTypeOK, NoneCompleted, queueVars, tokenVars,
     llamaVars, clientVars
<1>6. CASE NoCommand
  BY <1>6 DEF TokensHaveTypes, SchedulerTypeOK, NoCommand, queueVars, tokenVars,
     llamaVars, clientVars
<1>7. CASE AcceptShutdown
  BY <1>7 DEF TokensHaveTypes, SchedulerTypeOK, AcceptShutdown, Accepting, llamaVars,
     tokenVars, clientVars
<1>8. ASSUME NEW r \in Request, AcceptEmbedding(r)
      PROVE  TokensHaveTypes'
  BY <1>8 DEF TokensHaveTypes, SchedulerTypeOK, AcceptEmbedding, Accepting, llamaVars,
     tokenVars, clientVars
<1>9. ASSUME NEW r \in Request, NEW p \in 1 .. MaxPrompt, AcceptTextPrompt(r, p)
      PROVE  TokensHaveTypes'
  BY <1>9 DEF TokensHaveTypes, SchedulerTypeOK, AcceptTextPrompt, Accepting, tokenVars,
     clientVars
<1>10. ASSUME NEW r \in Request, NEW silent \in BOOLEAN, Refuse(r, silent)
      PROVE  TokensHaveTypes'
  <2>1. terminals' \in [Request -> Nat]
    BY <1>10, TerminalsType DEF Refuse
  <2>2. QED
    BY <1>10, <2>1 DEF TokensHaveTypes, SchedulerTypeOK, Refuse, EndUnaccepted, llamaVars, tokenVars, clientVars
<1>11. ASSUME NEW r \in Request, NEW broken \in SUBSET Sampleable,
             NEW gain \in Gains(Sampleable \ broken), NEW shown \in SUBSET (Sampleable \ broken),
             NEW p \in 1 .. MaxPrompt, AcceptImage(r, p, broken, gain, shown)
      PROVE  TokensHaveTypes'
  <2>1. Sampleable \subseteq Request
    BY Members DEF Sampleable, ActiveIn
  <2>2. usage' \in [Request -> Nat]
    BY <1>11, Counters, GainIsNatural DEF AcceptImage, Harvest, ClassifyTokens
  <2>3. terminals' \in [Request -> Nat]
    BY <1>11 DEF AcceptImage, SchedulerTypeOK
  <2>4. QED
    BY <1>11, <2>1, <2>2, <2>3 DEF TokensHaveTypes, SchedulerTypeOK, AcceptImage, Harvest, clientVars
<1>12. ASSUME NEW r \in Request, NEW broken \in SUBSET Sampleable,
             NEW gain \in Gains(Sampleable \ broken), NEW shown \in SUBSET (Sampleable \ broken),
             NEW cells \in 0 .. MaxPrompt, NEW silent \in BOOLEAN,
             ImageFails(r, broken, gain, shown, cells, silent)
      PROVE  TokensHaveTypes'
  <2>1. Sampleable \subseteq Request
    BY Members DEF Sampleable, ActiveIn
  <2>2. usage' \in [Request -> Nat]
    BY <1>12, Counters, GainIsNatural DEF ImageFails, Harvest, ClassifyTokens
  <2>3. terminals' \in [Request -> Nat]
    BY <1>12 DEF ImageFails, SchedulerTypeOK
  <2>4. QED
    BY <1>12, <2>1, <2>2, <2>3 DEF TokensHaveTypes, SchedulerTypeOK, ImageFails, Harvest, clientVars
<1>13. CASE NoEmbedding
  BY <1>13 DEF TokensHaveTypes, SchedulerTypeOK, NoEmbedding, AfterEmbedding, queueVars,
     tokenVars, llamaVars, clientVars
<1>14. CASE WaitTimeout
  BY <1>14 DEF TokensHaveTypes, SchedulerTypeOK, WaitTimeout, queueVars, tokenVars,
     llamaVars, clientVars
<1>15. ASSUME NEW cells \in 0 .. MaxPrompt, NEW silent \in BOOLEAN,
             ProcessEmbedding(cells, silent)
      PROVE  TokensHaveTypes'
  <2>1. Head(embeddings) \in Request
    BY <1>15, EmbeddingIsQueued DEF ProcessEmbedding
  <2>2. terminals' \in [Request -> Nat]
    <3>1. PICK quiet \in BOOLEAN : EndUnaccepted(Head(embeddings), quiet)
      BY <1>15 DEF ProcessEmbedding, ProcessEmbeddingBatch
    <3>2. QED
      BY <2>1, <3>1, TerminalsType
  <2>3. logits' \subseteq logits /\ failed' \subseteq failed \cup {Head(embeddings)}
    BY <1>15 DEF ProcessEmbedding, ProcessEmbeddingBatch, EndUnaccepted, llamaVars
  <2>4. UNCHANGED <<pending, i_batch, usage, unsent, stop, listening, harvested>>
    BY <1>15 DEF ProcessEmbedding, tokenVars, clientVars
  <2>5. QED
    BY <2>1, <2>2, <2>3, <2>4 DEF TokensHaveTypes, SchedulerTypeOK
<1>16. ASSUME NEW broken \in SUBSET Sampleable, NEW ends \in SUBSET (Sampleable \ broken),
             NEW gain \in Gains(Sampleable \ broken), NEW shown \in SUBSET (Sampleable \ broken),
             Advance(ends, broken, gain, shown)
      PROVE  TokensHaveTypes'
  <2>1. Sampleable \subseteq Request
    BY Members DEF Sampleable, ActiveIn
  <2>2. /\ unsent' \subseteq unsent \cup Sampleable
        /\ pending' \subseteq pending \cup Sampleable /\ i_batch' \subseteq i_batch
        /\ UNCHANGED <<logits, terminals, stop, listening, harvested, failed>>
    BY <1>16 DEF Advance, EmitTokens, llamaVars, clientVars
  <2>3. usage' \in [Request -> Nat]
    BY <1>16, Counters, GainIsNatural DEF Advance, ClassifyTokens
  <2>4. QED
    BY <2>1, <2>2, <2>3 DEF TokensHaveTypes, SchedulerTypeOK
<1>17. CASE DecodeBatch
  <2>1. FillGenerating \subseteq Request
    BY ContributionFits, Members DEF ActiveIn
  <2>2. ActiveIn("ingesting") \subseteq Request
    BY Members DEF ActiveIn
  <2>3. /\ pending' \subseteq pending /\ i_batch' \subseteq i_batch \cup FillGenerating \cup ActiveIn("ingesting")
        /\ logits' \subseteq FillGenerating \cup ActiveIn("ingesting")
    BY <1>17 DEF DecodeBatch, ApplyContributions
  <2>4. UNCHANGED <<usage, unsent, terminals, stop, listening, harvested, failed>>
    BY <1>17 DEF DecodeBatch, tokenVars, clientVars
  <2>5. QED
    BY <2>1, <2>2, <2>3, <2>4 DEF TokensHaveTypes, SchedulerTypeOK
<1>18. CASE DecodeNothing
  BY <1>18 DEF TokensHaveTypes, SchedulerTypeOK, DecodeNothing, AfterIteration,
     queueVars, tokenVars, llamaVars, clientVars
<1>19. ASSUME NEW i \in 1 .. Len(active), NEW result \in Outcome, Cleanup(i, result)
      PROVE  TokensHaveTypes'
  <2>1. CleanupCompletedRequest(i, result) /\ UNCHANGED <<logits, stop, listening, failed>>
    BY <1>19 DEF Cleanup, clientVars
  <2>2. active[i] \in Request
    BY <2>1, CleanedUp
  <2>3. terminals' \in [Request -> Nat]
    <3> DEFINE r == active[i]
               sends == result # "EmitNothing" /\ r \in listening
    <3>1. terminals' = [terminals EXCEPT ![r] = IF sends THEN @ + 1 ELSE @]
      BY <2>1 DEF CleanupCompletedRequest
    <3>2. sends \in BOOLEAN /\ r \in Request
      BY <2>2
    <3> HIDE DEF r, sends
    <3>3. terminals \in [Request -> Nat]
      BY DEF SchedulerTypeOK
    <3>4. QED
      BY <3>1, <3>2, <3>3, CounterType
  <2>4. QED
    BY <2>1, <2>2, <2>3 DEF TokensHaveTypes, SchedulerTypeOK, CleanupCompletedRequest
<1>20. CASE EndScheduler
  BY <1>20 DEF TokensHaveTypes, SchedulerTypeOK, EndScheduler, llamaVars, tokenVars,
     clientVars
<1>21. CASE UNCHANGED schedulerVars
  BY <1>21 DEF TokensHaveTypes, SchedulerTypeOK, schedulerVars
<1>22. QED
  BY <1>1, <1>2, <1>3, <1>4, <1>5, <1>6, <1>7, <1>8, <1>9, <1>10, <1>11, <1>12, <1>13,
     <1>14, <1>15, <1>16, <1>17, <1>18, <1>19, <1>20, <1>21, CasesOfNext

\* A step keeps the invariant.
LEMMA SchedulerStepIsSound ==
    ASSUME SchedulerInv, [SchedulerNext]_schedulerVars
    PROVE  SchedulerInv'
<1>1. /\ SchedulerTypeOK /\ QueuesAreDisjoint /\ PoolIsExact /\ CacheFollows
      /\ NothingIsOverwritten /\ TokensAreCounted /\ EndIsAnnounced /\ AnsweredOnce
  BY DEF SchedulerInv
<1>2. /\ QueuesHaveTypes' /\ RequestsHaveTypes' /\ TokensHaveTypes'
      /\ kv' \in [SequenceIds -> Nat]
  BY <1>1, QueueTypesStep, RequestTypesStep, TokenTypesStep, SequencesStay
<1>3. SchedulerTypeOK'
  BY <1>1, <1>2, CacheKeepsShape
  DEF SchedulerTypeOK, QueuesHaveTypes, RequestsHaveTypes, TokensHaveTypes
<1>4. QueuesAreDisjoint' /\ PoolIsExact' /\ CacheFollows'
  BY <1>1, QueuesStep, PoolStep, CacheStep
<1>5. NothingIsOverwritten' /\ TokensAreCounted' /\ EndIsAnnounced' /\ AnsweredOnce'
  BY <1>1, LogitsStep, TokensStep, AnswersStep
<1>6. QED
  BY <1>3, <1>4, <1>5 DEF SchedulerInv

\* Nothing is active at first and the pool has every sequence id once.
LEMMA SchedulerStartsSound ==
    ASSUME SchedulerInit
    PROVE  SchedulerInv
<1>1. PICK n \in 1 .. MaxSequences : /\ available_ids = [i \in 1 .. n |-> n - i]
                                     /\ kv = [s \in 0 .. n - 1 |-> 0]
  BY DEF SchedulerInit
<1>2. n \in Nat \ {0} /\ SequenceIds = 0 .. n - 1
  BY <1>1, SchedulerAssumption DEF SequenceIds
<1>3. available_ids \in Seq(0 .. n - 1) /\ Len(available_ids) = n
  BY <1>1, <1>2
<1>4. \A i \in 1 .. n : available_ids[i] = n - i
  BY <1>1
<1>5. Elements(available_ids) = SequenceIds
  <2>1. \A s \in 0 .. n - 1 : n - s \in 1 .. n /\ available_ids[n - s] = s
    BY <1>2, <1>4
  <2>2. \A i \in 1 .. n : available_ids[i] \in 0 .. n - 1
    BY <1>2, <1>4
  <2>3. QED
    BY <1>2, <1>3, <2>1, <2>2 DEF Elements
<1>6. Distinct(available_ids)
  BY <1>2, <1>3, <1>4 DEF Distinct
<1>7. /\ commands = <<>> /\ embeddings = <<>> /\ active = <<>>
      /\ Elements(commands) = {} /\ Elements(embeddings) = {} /\ Elements(active) = {}
  BY DEF SchedulerInit, Elements
<1>8. /\ <<>> \in Seq(Request) /\ <<>> \in Seq(Request \cup {Shutdown})
      /\ 0 \in 0 .. MaxPrompt
  BY SchedulerAssumption
<1>9. \E m \in 1 .. MaxSequences : kv \in [0 .. m - 1 -> Nat]
  BY <1>1
<1>10. running \in BOOLEAN
  BY DEF SchedulerInit
<1>11. id \in [Request -> SequenceIds \cup {-1}]
  BY DEF SchedulerInit
<1>12. SchedulerTypeOK
  BY <1>2, <1>3, <1>7, <1>8, <1>9, <1>10, <1>11 DEF SchedulerTypeOK, SchedulerInit
<1>13. QueuesAreDisjoint
  BY <1>7 DEF QueuesAreDisjoint, Distinct
<1>14. PoolIsExact
  BY <1>5, <1>6, <1>7 DEF PoolIsExact
<1>15. CacheFollows /\ NothingIsOverwritten
  BY <1>7 DEF CacheFollows, PositionIsCacheLength, NothingIsOverwritten, LogitsAreFresh, Sampleable,
     Unfinished, ActiveIn, SchedulerInit
<1>16. TokensAreCounted /\ EndIsAnnounced /\ AnsweredOnce
  BY SchedulerAssumption DEF TokensAreCounted, EndIsAnnounced, AnsweredOnce, SchedulerInit
<1>17. QED
  BY <1>12, <1>13, <1>14, <1>15, <1>16 DEF SchedulerInv

\* The invariant says what is kept of llama.cpp.
LEMMA CacheIsKnown ==
    ASSUME SchedulerInv
    PROVE  CacheIsTracked
<1>1. /\ SchedulerTypeOK /\ QueuesAreDisjoint /\ PoolIsExact /\ CacheFollows
      /\ NothingIsOverwritten
  BY DEF SchedulerInv
<1>2. BatchWithinLimit
  <2>1. Len(active) \in 0 .. Len(active)
    BY <1>1 DEF SchedulerTypeOK
  <2>2. FillIngesting[Len(active)] \in 0 .. NBatch
    BY <1>1, <2>1, BatchIsFilled
  <2>3. QED
    BY <2>2, SchedulerAssumption DEF BatchWithinLimit, BatchSize
<1>3. ASSUME NEW s \in SequenceIds
      PROVE  Cardinality({i \in 1 .. Len(available_ids) : available_ids[i] = s})
               + Cardinality({i \in 1 .. Len(active) : id[active[i]] = s}) = 1
  <2> DEFINE Free == {i \in 1 .. Len(available_ids) : available_ids[i] = s}
             Taken == {i \in 1 .. Len(active) : id[active[i]] = s}
  <2>1. CASE s \in Elements(available_ids)
    <3>1. PICK k \in 1 .. Len(available_ids) : available_ids[k] = s
      BY <2>1 DEF Elements
    <3>2. Free = {k}
      BY <1>1, <3>1 DEF PoolIsExact, Distinct
    <3>3. Taken = {}
      BY <1>1, <2>1 DEF PoolIsExact, Elements
    <3>4. Cardinality({k}) = 1 /\ Cardinality({}) = 0
      BY FS_Singleton, FS_EmptySet
    <3> HIDE DEF Free, Taken
    <3>5. Cardinality(Free) + Cardinality(Taken) = 1
      BY <3>2, <3>3, <3>4
    <3>6. QED
      BY <3>5 DEF Free, Taken
  <2>2. CASE s \notin Elements(available_ids)
    <3>1. PICK r \in Elements(active) : id[r] = s
      BY <1>1, <2>2 DEF PoolIsExact
    <3>2. PICK k \in 1 .. Len(active) : active[k] = r
      BY DEF Elements
    <3>3. \A i \in 1 .. Len(active) : id[active[i]] = s => active[i] = r
      BY <1>1, <3>1 DEF PoolIsExact, Elements
    <3>4. Taken = {k}
      BY <1>1, <3>1, <3>2, <3>3 DEF QueuesAreDisjoint, Distinct
    <3>5. Free = {}
      BY <2>2 DEF Elements
    <3>6. Cardinality({k}) = 1 /\ Cardinality({}) = 0
      BY FS_Singleton, FS_EmptySet
    <3> HIDE DEF Free, Taken
    <3>7. Cardinality(Free) + Cardinality(Taken) = 1
      BY <3>4, <3>5, <3>6
    <3>8. QED
      BY <3>7 DEF Free, Taken
  <2>3. QED
    BY <2>1, <2>2
<1>4. Len(active) = Cardinality(Elements(active))
  <2>1. Len(active) \in Nat /\ active \in [1 .. Len(active) -> Elements(active)]
    BY <1>1 DEF SchedulerTypeOK, Elements
  <2>2. active \in Bijection(1 .. Len(active), Elements(active))
    <3>1. active \in Injection(1 .. Len(active), Elements(active))
      BY <1>1, <2>1 DEF QueuesAreDisjoint, Distinct, Injection, IsInjective
    <3>2. \A r \in Elements(active) : \E i \in 1 .. Len(active) : active[i] = r
      BY DEF Elements
    <3>3. QED
      BY <2>1, <3>1, <3>2 DEF Bijection, Surjection
  <2>3. ExistsBijection(1 .. Len(active), Elements(active))
    BY <2>2 DEF ExistsBijection
  <2>4. IsFiniteSet(1 .. Len(active)) /\ Cardinality(1 .. Len(active)) = Len(active)
    BY <2>1, FS_Interval
  <2>5. QED
    BY <2>3, <2>4, FS_Bijection
<1>5. SequencesPartitioned
  BY <1>3, <1>4 DEF SequencesPartitioned
<1>6. QED
  BY <1>1, <1>2, <1>5 DEF CacheIsTracked, CacheFollows, NothingIsOverwritten

\* The invariant says that answers are whole.
LEMMA AnswersAreKnown ==
    ASSUME SchedulerInv
    PROVE  AnswerIsWhole
<1>1. SchedulerTypeOK /\ TokensAreCounted /\ AnsweredOnce
  BY DEF SchedulerInv
<1>2. EveryPieceSent
  BY <1>1 DEF EveryPieceSent, TokensAreCounted
<1>3. LimitIsKept
  BY <1>1, Members DEF LimitIsKept, ActiveIn, TokensAreCounted
<1>4. QED
  BY <1>1, <1>2, <1>3 DEF AnswerIsWhole

-----------------------------------------------------------------------------
(***************************************************************************)
(* The meter: a window without tokens was opened by the last one.          *)
(***************************************************************************)
WindowIsOpened ==
    /\ ThroughputTypeOK
    /\ window_token_count = 0 => window_age = idle

\* A step of the meter keeps it.
LEMMA MeterIsSound ==
    /\ ThroughputInit => WindowIsOpened
    /\ WindowIsOpened /\ [ThroughputNext]_throughputVars => WindowIsOpened'
    /\ WindowIsOpened => StaleIsZero
<1>1. ThroughputInit => WindowIsOpened
  BY ThroughputAssumption DEF ThroughputInit, WindowIsOpened, ThroughputTypeOK, STALE_AFTER
<1>2. WindowIsOpened /\ Tick => WindowIsOpened'
  BY ThroughputAssumption DEF WindowIsOpened, ThroughputTypeOK, Tick, Later, STALE_AFTER
<1>3. WindowIsOpened /\ RecordToken => WindowIsOpened'
  BY ThroughputAssumption DEF WindowIsOpened, ThroughputTypeOK, RecordToken, STALE_AFTER
<1>4. WindowIsOpened /\ UNCHANGED throughputVars => WindowIsOpened'
  BY DEF WindowIsOpened, ThroughputTypeOK, throughputVars
<1>5. WindowIsOpened => StaleIsZero
  BY DEF WindowIsOpened, ThroughputTypeOK, StaleIsZero, Reported, STALE_AFTER
<1>6. QED
  BY <1>1, <1>2, <1>3, <1>4, <1>5 DEF ThroughputNext

-----------------------------------------------------------------------------
(***************************************************************************)
(* The results.                                                            *)
(***************************************************************************)
\* The scheduler alone, whatever is sent, stopped, refused, evicted or fails:
\* requests, sequence ids, cache, logits and counters agree
\* (ContinuousBatchScheduler::run).
THEOREM SchedulerIsSound == SchedulerSpec => []SchedulerInv
<1>1. SchedulerInit => SchedulerInv
  BY SchedulerStartsSound
<1>2. SchedulerInv /\ [SchedulerNext]_schedulerVars => SchedulerInv'
  BY SchedulerStepIsSound
<1>3. QED
  BY <1>1, <1>2, PTL DEF SchedulerSpec

\* In the agent, the scheduler and the meter take their own steps.
LEMMA AgentIsSound == AgentSpec => [](SchedulerInv /\ WindowIsOpened)
<1>1. AgentInit => SchedulerInv /\ WindowIsOpened
  BY SchedulerStartsSound, MeterIsSound DEF AgentInit
<1>2. SchedulerInv /\ WindowIsOpened
         /\ [AgentNext]_<<part, schedulerVars, generationVars, throughputVars>>
         => (SchedulerInv /\ WindowIsOpened)'
  <2>1. [AgentNext]_<<part, schedulerVars, generationVars, throughputVars>>
           => [SchedulerNext]_schedulerVars /\ [ThroughputNext]_throughputVars
    BY DEF AgentNext
  <2>2. QED
    BY <2>1, SchedulerStepIsSound, MeterIsSound
<1>3. QED
  BY <1>1, <1>2, PTL DEF AgentSpec

\* The variables of the scheduler and of the meter keep their types, with the bounds
\* that the prompts and the sequence ids put on them
\* (ContinuousBatchScheduler::run, TokenThroughputMeter).
THEOREM AgentIsTyped == AgentSpec => []AgentTypeOK
<1>1. SchedulerInv /\ WindowIsOpened => AgentTypeOK
  BY DEF SchedulerInv, WindowIsOpened, AgentTypeOK
<1>2. QED
  BY <1>1, AgentIsSound, PTL

\* What the scheduler keeps of llama.cpp's context is always so: fresh logits, the
\* next position of every sequence, one owner per sequence id, and a batch within
\* n_batch (ContinuousBatchScheduler, SequenceIdPool, AssembleBatchPhase).
THEOREM CacheIsAlwaysTracked == AgentSpec => []CacheIsTracked
<1>1. SchedulerInv => CacheIsTracked
  BY CacheIsKnown
<1>2. QED
  BY <1>1, AgentIsSound, PTL

\* Every answer is whole, with one end, every visible piece before it and no more than
\* its limit, and the throughput of an idle agent goes away
\* (ContinuousBatchTerminalDelivery, CompletionCheckPhase, TokenThroughputMeter).
THEOREM AnswersAreAlwaysWhole == AgentSpec => []AnswersAreWhole
<1>1. SchedulerInv /\ WindowIsOpened => AnswersAreWhole
  BY AnswersAreKnown, MeterIsSound DEF AnswersAreWhole
<1>2. QED
  BY <1>1, AgentIsSound, PTL

=============================================================================
