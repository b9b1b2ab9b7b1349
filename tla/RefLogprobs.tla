------------------------------ MODULE RefLogprobs ------------------------------
(***************************************************************************)
(* add_ref_logprobs_to_data of nemo_rl/algorithms/dpo.py over one of the   *)
(* dataloaders setup() builds: the generator pulls batches until           *)
(* StopIteration, pads a validation batch whose row count is not a         *)
(* multiple of data-parallel size times micro-batch size, asserts on such *)
(* a training batch, and attaches the reference log-probabilities rolled  *)
(* left by one position.                                                  *)
(*                                                                         *)
(* A batch is abstracted to its number of preference examples and of rows  *)
(* (preference_collate_fn puts the chosen and the rejected response of     *)
(* each example in rows of their own).  The reference log-probabilities   *)
(* of a batch are identified by the token position they score: position i *)
(* holds the log-probability of token i.                                  *)
(***************************************************************************)
EXTENDS Naturals, Sequences

CONSTANTS
    MaxSamples,   \* bound on the examples of a dataset
    BatchSizes,   \* train_global_batch_size / val_global_batch_size values
    MicroSizes,   \* train_micro_batch_size / val_micro_batch_size values
    DpSizes,      \* data-parallel sizes of the policy's sharding
    SeqLen        \* token positions of a batch

ASSUME RefLogprobsAssumption ==
    /\ MaxSamples \in Nat
    /\ BatchSizes \subseteq Nat \ {0}
    /\ MicroSizes \subseteq Nat \ {0}
    /\ DpSizes \subseteq Nat \ {0}
    /\ SeqLen \in Nat \ {0}

VARIABLES
    isVal,     \* the is_val argument
    n,         \* len(dataset)
    bs,        \* the dataloader's batch_size
    mbs,       \* the configured micro-batch size (per example)
    dp,        \* policy.sharding_annotations.get_axis_size("data_parallel")
    taken,     \* examples the dataloader iterator has returned
    out,       \* the batches yielded: [examples, rows, refLp]
    pc         \* "run", "done" (StopIteration) or "failed" (AssertionError)

vars == <<isVal, n, bs, mbs, dp, taken, out, pc>>

\* The train dataloader drops its last partial batch, the validation
\* dataloaders keep it (dpo.py:166-178, 188-201).
DropLast == ~isVal

\* Mutant: the train dataloader keeps its last partial batch.
LoaderNext_KeepLast ==
    IF n - taken >= bs THEN bs
    ELSE IF n - taken > 0 THEN n - taken
    ELSE 0

\* Mutant: the dataloader returns a full batch even past the end.
LoaderNext_PastEnd ==
    IF n - taken > 0 THEN bs ELSE 0

\* The examples of the batch next(dataloader_iter) returns, 0 for
\* StopIteration (StatefulDataLoader, dpo.py:273).
LoaderNext ==
    IF n - taken >= bs THEN bs
    ELSE IF ~DropLast /\ n - taken > 0 THEN n - taken
    ELSE 0

\* The rows of a batch of k examples (preference_collate_fn).
Rows(k) == 2 * k

\* micro_batch_size: twice the configured one, for the pairs (dpo.py:276-280).
MicroBatchSize == mbs * 2

\* The row count a batch must be a multiple of (dpo.py:284-285).
Shard == dp * MicroBatchSize

\* maybe_pad_last_batch: the rows are padded with empty rows up to the
\* next multiple of dp_size * micro_batch_size.
PadRows(r, m) == ((r + m - 1) \div m) * m

\* get_reference_policy_logprobs: the log-probability of each token.
RefLp == [i \in 1..SeqLen |-> i]

\* torch.roll(logprobs, -1, dims=-1): position i takes position i + 1, the
\* last position wraps around to the first (dpo.py:296-298).
RollLeft(s) == [i \in 1..Len(s) |-> s[(i % Len(s)) + 1]]

Init ==
    /\ isVal \in BOOLEAN
    /\ n \in 0..MaxSamples
    /\ bs \in BatchSizes
    /\ mbs \in MicroSizes
    /\ dp \in DpSizes
    /\ taken = 0
    /\ out = <<>>
    /\ pc = "run"

\* A batch is pulled; a partial one is padded during validation; its
\* reference log-probabilities are computed, rolled and attached, and the
\* batch is yielded (dpo.py:273-300).
YieldBatch ==
    /\ pc = "run"
    /\ LoaderNext > 0
    /\ isVal \/ Rows(LoaderNext) % Shard = 0
    /\ LET r == Rows(LoaderNext) IN
       out' = Append(out,
                [examples |-> LoaderNext,
                 rows     |-> IF r % Shard # 0 THEN PadRows(r, Shard) ELSE r,
                 refLp    |-> RollLeft(RefLp)])
    /\ taken' = taken + LoaderNext
    /\ UNCHANGED <<isVal, n, bs, mbs, dp, pc>>

\* A partial training batch fails the assertion (dpo.py:285-288).
PartialTrainBatch ==
    /\ pc = "run"
    /\ LoaderNext > 0
    /\ ~isVal /\ Rows(LoaderNext) % Shard # 0
    /\ taken' = taken + LoaderNext
    /\ pc' = "failed"
    /\ UNCHANGED <<isVal, n, bs, mbs, dp, out>>

\* The dataloader is exhausted and the generator returns (dpo.py:302-303).
Exhausted ==
    /\ pc = "run"
    /\ LoaderNext = 0
    /\ pc' = "done"
    /\ UNCHANGED <<isVal, n, bs, mbs, dp, taken, out>>

Next == YieldBatch \/ PartialTrainBatch \/ Exhausted

Spec == Init /\ [][Next]_vars

-----------------------------------------------------------------------------
(* Properties *)

TypeOK ==
    /\ isVal \in BOOLEAN /\ n \in 0..MaxSamples
    /\ bs \in BatchSizes /\ mbs \in MicroSizes /\ dp \in DpSizes
    /\ taken \in 0..n
    /\ out \in Seq([examples : Nat, rows : Nat, refLp : Seq(Nat)])
    /\ pc \in {"run", "done", "failed"}

\* The examples of the yielded batches.
Yielded ==
    LET f[k \in 0..Len(out)] == IF k = 0 THEN 0 ELSE f[k - 1] + out[k].examples
    IN f[Len(out)]

(* The assertion against partial training batches fires only for a       *)
(* global batch size that is not a multiple of dp_size times the micro-   *)
(* batch size, never for the tail of the dataset, which the train         *)
(* dataloader drops; a validation pass and a training epoch that end      *)
(* have yielded every example, respectively every full batch, once        *)
(* (dpo.py:166-201, 270-303).                                             *)
PartialOnlyFromConfig ==
    /\ pc = "failed" => ~isVal /\ bs % (dp * mbs) # 0
    /\ pc = "done" => Yielded = IF isVal THEN n ELSE n - (n % bs)
=============================================================================
