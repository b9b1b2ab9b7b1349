----------------------------- MODULE DPOValidate -----------------------------
(***************************************************************************)
(* validate() and validate_one_dataset() of nemo_rl/algorithms/dpo.py: one *)
(* validation pass over every validation dataset, a per-batch loop that    *)
(* stops after val_batches batches or at exhaustion, and the               *)
(* sample-weighted aggregation of the collected metrics.                  *)
(*                                                                         *)
(* A batch is the list all_mb_metrics of policy.train(eval_mode=True):     *)
(* one record per micro-batch with its num_valid_samples and its          *)
(* contribution to one representative weighted metric (loss; the other    *)
(* five weighted metrics are aggregated by the same lines).  A result is   *)
(* the exact fraction num / den of the weighted mean and the sample count. *)
(***************************************************************************)
EXTENDS Naturals, Integers, Sequences

CONSTANTS
    ValDatasets,   \* keys of val_dataloader
    ValBatches,    \* dpo.val_batches (<= 0: read every batch)
    MaxValBatches, \* bound on the batches of one validation dataset
    MicroBatches,  \* the micro-batch results policy.train may return
    NaN,           \* the value of a 0.0 / 0 on numpy floats
    NoResult       \* no dataset / no metrics yet

ASSUME ValAssumption ==
    /\ ValBatches \in Int
    /\ MaxValBatches \in Nat
    /\ MicroBatches \subseteq [samples : Nat, loss : Nat]

\* What policy.train(eval_mode=True) returns for one batch: no micro-batch
\* metrics at all, or one or two micro-batches.
Batches == {<<>>} \cup {<<m>> : m \in MicroBatches}
                  \cup {<<m, n>> : m, n \in MicroBatches}

\* A validation dataset as the batches its dataloader yields.
DataSets == UNION {[1..k -> Batches] : k \in 0..MaxValBatches}

\* val_metrics of one dataset: a weighted mean, all zeros, or NaN.
Results == [samples : Nat, num : Nat, den : Nat] \cup {NaN}

\* The metrics returned when no batch produced metrics (dpo.py:444-455).
Zeros == [samples |-> 0, num |-> 0, den |-> 1]

VARIABLES
    data,      \* the batches of each validation dataset
    pc,        \* "next_ds", "batch", "aggregate", "done", "error"
    todo,      \* datasets val_dataloader.items() has not yet yielded
    cur,       \* val_dataset_name
    batchIdx,  \* batches taken from the enumerate so far
    numValid,  \* num_valid_batches
    sumW,      \* sum(val_metrics["num_valid_samples"])
    sumVW,     \* sum(value * weight) for the weighted metric
    metrics    \* val_metrics of validate(), per dataset

vars == <<data, pc, todo, cur, batchIdx, numValid, sumW, sumVW, metrics>>

-----------------------------------------------------------------------------
\* Python's sum() of G over the elements of a list.
SeqSum(t, G(_)) ==
    LET f[k \in 0..Len(t)] == IF k = 0 THEN 0 ELSE f[k - 1] + G(t[k])
    IN  f[Len(t)]

\* The per-batch reductions of all_mb_metrics (dpo.py:396-410): sum over
\* the micro-batches of num_valid_samples and of the weighted metric.
BatchSamples(b) == SeqSum(b, LAMBDA m : m.samples)
BatchValue(b) == SeqSum(b, LAMBDA m : m.loss)

Init ==
    /\ data \in [ValDatasets -> DataSets]
    /\ pc = "next_ds"
    /\ todo = ValDatasets
    /\ cur = NoResult
    /\ batchIdx = 0 /\ numValid = 0 /\ sumW = 0 /\ sumVW = 0
    /\ metrics = [d \in ValDatasets |-> NoResult]

\* The loop of validate() (dpo.py:322-354): the next dataset is validated,
\* or validate() returns when every dataset has been.
ValidateBegin ==
    /\ pc = "next_ds"
    /\ \/ \E d \in todo :
            /\ cur' = d
            /\ batchIdx' = 0 /\ numValid' = 0 /\ sumW' = 0 /\ sumVW' = 0
            /\ pc' = "batch"
       \/ /\ todo = {}
          /\ pc' = "done"
          /\ UNCHANGED <<cur, batchIdx, numValid, sumW, sumVW>>
    /\ UNCHANGED <<data, todo, metrics>>

\* Mutant: the val_batches break is off by one (one batch too many).
StopAfter_OneMore(i) == ValBatches > 0 /\ i >= ValBatches

\* "if val_batches > 0 and batch_idx >= val_batches - 1: break"
\* (dpo.py:413-414).
StopAfter(i) == ValBatches > 0 /\ i >= ValBatches - 1

\* Mutant: a batch is weighted by 1 instead of its num_valid_samples.
Weighted_Unit(b) == BatchValue(b)

\* value * weight of one batch (dpo.py:424-430).
Weighted(b) == BatchValue(b) * BatchSamples(b)

\* One iteration of the batch loop (dpo.py:379-414): the forward pass on
\* the next batch; a batch with no micro-batch metrics is skipped with a
\* warning, any other batch appends its reductions and counts as valid.
ValBatch ==
    /\ pc = "batch"
    /\ batchIdx < Len(data[cur])
    /\ LET b == data[cur][batchIdx + 1] IN
       IF b = <<>>
         THEN UNCHANGED <<numValid, sumW, sumVW>>
         ELSE /\ numValid' = numValid + 1
              /\ sumW' = sumW + BatchSamples(b)
              /\ sumVW' = sumVW + Weighted(b)
    /\ batchIdx' = batchIdx + 1
    /\ pc' = IF StopAfter(batchIdx) THEN "aggregate" ELSE "batch"
    /\ UNCHANGED <<data, todo, cur, metrics>>

\* The dataloader is exhausted: the generator of add_ref_logprobs_to_data
\* stops (dpo.py:302-303) and the for loop ends.
ValExhausted ==
    /\ pc = "batch"
    /\ batchIdx = Len(data[cur])
    /\ pc' = "aggregate"
    /\ UNCHANGED <<data, todo, cur, batchIdx, numValid, sumW, sumVW, metrics>>

\* The aggregation (dpo.py:416-457), policy.prepare_for_training() and the
\* result stored under the dataset's prefix in validate() (dpo.py:335-341).
\* With valid batches but no valid sample the weighted mean divides by zero:
\* a ZeroDivisionError that leaves validate() (on Python floats) or NaN (on
\* numpy floats), whichever type the policy's metrics have.
Aggregate ==
    /\ pc = "aggregate"
    /\ \/ /\ numValid > 0 /\ sumW > 0
          /\ metrics' = [metrics EXCEPT ![cur] =
                           [samples |-> sumW, num |-> sumVW, den |-> sumW]]
          /\ todo' = todo \ {cur}
          /\ pc' = "next_ds"
       \/ /\ numValid > 0 /\ sumW = 0
          /\ \/ /\ pc' = "error"
                /\ UNCHANGED <<todo, metrics>>
             \/ /\ metrics' = [metrics EXCEPT ![cur] = NaN]
                /\ todo' = todo \ {cur}
                /\ pc' = "next_ds"
       \/ /\ numValid = 0
          /\ metrics' = [metrics EXCEPT ![cur] = Zeros]
          /\ todo' = todo \ {cur}
          /\ pc' = "next_ds"
    /\ UNCHANGED <<data, cur, batchIdx, numValid, sumW, sumVW>>

Next == ValidateBegin \/ ValBatch \/ ValExhausted \/ Aggregate

\* validate() is one blocking, single-threaded call whose every step returns.
Spec == Init /\ [][Next]_vars /\ WF_vars(Next)

-----------------------------------------------------------------------------
(* Properties *)

TypeOK ==
    /\ data \in [ValDatasets -> DataSets]
    /\ pc \in {"next_ds", "batch", "aggregate", "done", "error"}
    /\ todo \subseteq ValDatasets
    /\ cur \in ValDatasets \cup {NoResult}
    /\ batchIdx \in 0..MaxValBatches
    /\ numValid \in 0..MaxValBatches
    /\ sumW \in Nat /\ sumVW \in Nat
    /\ metrics \in [ValDatasets -> Results \cup {NoResult}]

\* The reference: the batches a pass over dataset d reads are the first
\* val_batches of them (all of them when val_batches <= 0); those with
\* metrics are the valid ones, and the result is the mean of their
\* values weighted by their valid samples.
ReadBatches(d) ==
    IF ValBatches > 0 /\ ValBatches < Len(data[d])
      THEN SubSeq(data[d], 1, ValBatches)
      ELSE data[d]
KeepValid(s) ==
    LET f[i \in 0..Len(s)] ==
          IF i = 0 THEN <<>>
          ELSE IF s[i] # <<>> THEN Append(f[i - 1], s[i]) ELSE f[i - 1]
    IN  f[Len(s)]
RefValid(d) == KeepValid(ReadBatches(d))
RefSamples(d) == SeqSum(RefValid(d), BatchSamples)
RefValueWeight(b) == BatchValue(b) * BatchSamples(b)
RefWeighted(d) == SeqSum(RefValid(d), RefValueWeight)

\* Every dataset validate() reports on carries exactly the sample-weighted
\* mean over the first val_batches batches (the break at dpo.py:413 and
\* the weighting at dpo.py:424-433), or zeros when none of them produced
\* metrics; a NaN or an error only when all those samples are zero.
AggregationCorrect ==
    \A d \in ValDatasets : metrics[d] \notin {NoResult, NaN} =>
        IF RefValid(d) = <<>>
          THEN metrics[d] = Zeros
          ELSE /\ metrics[d].samples = RefSamples(d)
               /\ metrics[d].num * RefSamples(d) = RefWeighted(d) * metrics[d].den

\* The spec (4.2): a validation in which no batch produced valid samples
\* reports every metric as zero, and validation never fails on it.  The
\* code counts a batch whose micro-batches hold no valid sample as valid
\* (dpo.py:412) and then divides by zero (dpo.py:434).
ZeroSamplesReportZeros ==
    /\ pc # "error"
    /\ \A d \in ValDatasets : metrics[d] # NoResult /\ RefSamples(d) = 0 =>
          metrics[d] = Zeros

=============================================================================
