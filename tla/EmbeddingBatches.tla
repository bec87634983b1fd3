-------------------------- MODULE EmbeddingBatches --------------------------
(***************************************************************************)
(* How an embedding request is divided: by the balancer into parts for the *)
(* agents, and by an agent into the batches it decodes.  Documents are     *)
(* numbers; a part or a batch is a sequence of consecutive ones.           *)
(***************************************************************************)
EXTENDS Naturals, Sequences, SequencesExt

Least(a, b) == IF a < b THEN a ELSE b
Greatest(a, b) == IF a > b THEN a ELSE b
DivCeil(a, b) == (a + b - 1) \div b

\* How many parts: one per agent or as many as the cap asks for, and never an
\* empty one.
ChunkCount(documents, agents, cap) ==
    Least(documents, Greatest(agents, DivCeil(documents, cap)))

\* chunk_evenly_with_cap: the first `remainder` parts get one document more.
ChunkEvenlyWithCap(documents, agents, cap) ==
    LET count == ChunkCount(documents, agents, cap)
        quotient == documents \div count
        remainder == documents % count
        start(i) == (i - 1) * quotient + Least(i - 1, remainder) + 1
    IN  IF documents = 0 THEN <<>>
        ELSE [i \in 1 .. count |->
                [k \in 1 .. quotient + (IF i <= remainder THEN 1 ELSE 0) |-> start(i) + k - 1]]

\* One document of plan_embedding_batches' loop: it joins the current batch, or
\* the batch is full and it begins the next one.
PlanDocument(tokens, n_batch, max_sequences, plan, document) ==
    IF /\ \/ plan.tokens + tokens[document] > n_batch
          \/ Len(plan.current) >= max_sequences
       /\ plan.current # <<>>
    THEN [batches |-> Append(plan.batches, plan.current),
          current |-> <<document>>, tokens |-> tokens[document]]
    ELSE [plan EXCEPT !.current = Append(@, document), !.tokens = @ + tokens[document]]

PlanEmbeddingBatches(documents, tokens, n_batch, max_sequences) ==
    LET step(plan, document) == PlanDocument(tokens, n_batch, max_sequences, plan, document)
        end == FoldLeft(step, [batches |-> <<>>, current |-> <<>>, tokens |-> 0], documents)
    IN  IF end.current = <<>> THEN end.batches ELSE Append(end.batches, end.current)
=============================================================================
