# Formal model of the DPO training orchestration loop

This directory holds TLA+ modules that model `src/nemo_rl/algorithms/dpo.py`,
`src/nemo_rl/data/hf_datasets/dpo_chatml.py` and the postprocessing of
`src/nemo_rl/environments/penguin.py`. The TLC configurations check the models
on small instances. TLAPS proofs cover the training loop, its refinement of an
abstract progress specification, the reference-logprob augmentation and the
ChatML formatting for every value of the constants.

## 1. The system

`dpo.py` is a single-threaded orchestrator. Its parts:

| part (spec name) | code | state it owns |
|---|---|---|
| ProgressState | `DPOSaveState`, `_default_dpo_save_state` (43-58) | epoch, step, total_steps, consumed_samples, total_valid_tokens, validation keys |
| TrainingLoop | `dpo_train` (486-736) | current_epoch, current_step, total_steps, total_valid_tokens, val_metrics |
| CheckpointCoordinator | checkpoint block of `dpo_train` (611-680) | the save decision, stale-key pruning, the four checkpoint writes |
| TimeoutTracker | `TimeoutChecker` (external, `nemo_rl.utils.timer`) | answers `check_save()` |
| ReferenceAugmenter | `add_ref_logprobs_to_data` (270-303) | a generator over the dataloader |
| DPO ChatML formatting | `format_dpo_chatml`, `DPOChatMLDataset` (dpo_chatml.py) | none: a per-record conversion applied by `datasets.map` |
| Penguin postprocessing | `Penguin._postprocess_penguin_to_nemo_rl_result` (penguin.py 107-152) | the message log and the seen tokens of one rollout |
| ValidationRunner | `validate`, `validate_one_dataset` (309-483) | per-dataset accumulators |
| setup | `setup` (156-267) | restores the save state, the dataloader cursor and the weights |

It drives these external collaborators:
- the `StatefulDataLoader` cursor (torchdata);
- the `CheckpointManager` store (tmp directory, then finalize);
- the policy (train, save_checkpoint, reference logprobs).

The orchestrator makes one blocking call at a time. Every call is a point at
which the process may die. A relaunch goes through `setup()`, which loads the
latest *finalized* checkpoint.

### Behaviours that make it hard
- A crash can fall between `init_tmp_checkpoint`, `policy.save_checkpoint`,
  `torch.save(train_dataloader.state_dict())` and `finalize_checkpoint`.
- Suppose the last step of an epoch is saved. The save state then holds
  `step = 0` and the unchanged epoch, while the cursor is at the end of the
  epoch. A resume must neither replay nor skip a batch.
- Validation metrics from an earlier step must not be written into a later
  checkpoint as if they were its own. This is the stale-key pruning at 632-645.
- A timeout forces a save and a return. max_num_steps can end the run in the
  middle of an epoch.
- Validation stops after val_batches batches. It weights each batch by its
  valid samples.

## 2. Modules

### DPOTrain: training loop, checkpointing, crash and restart
Variables:
- `pc`: the position in `dpo_train`, with `"down"` meaning crashed;
- the loop counters `epoch`, `step`, `totalSteps` and `validToks`;
- `saveState` (`dpo_save_state`);
- `valMetrics`: one stamp per dataset;
- `timedOut` (`should_save_by_timeout`);
- `dl`: the dataloader cursor, with epoch, position and finished;
- `weights`: the batches trained so far;
- `staging`: the tmp checkpoint;
- `hasLatest` and `latest`: the finalized checkpoint;
- `crashes`.

Data abstraction:
- a batch is `<<dataloader epoch, position>>`;
- the weights are the sequence of batches trained;
- a validation metric is the `total_steps` of the weights it was computed on.

Actions, each the whole code fragment named in its comment and in the map:
- `Start`: validation at start;
- `EpochBegin`: the while condition and `iter()`;
- `TrainStep`: the batch, training, validation when due, the counters, `check_save()` and the save decision with pruning and merge;
- `InitTmpCheckpoint`, `SavePolicy`, `SaveDataloader` and `FinalizeCheckpoint`: the four checkpoint writes;
- `StepEnd`: the counter advance and the two returns;
- `EpochEnd`: the generator's StopIteration and the epoch advance;
- `Crash` and `Restart`: `setup()` followed by the head of `dpo_train`. `Boot`
  is the three restores of `setup()`, each an operator of its own
  (`LoadTrainingInfo` 156-160, `LoadDataloader` 182-186, `LoadPolicy`
  237-249), and `RestoreCounters` (505-517).

Some parts come from the spec, since their code is not in this repository:
- the `StatefulDataLoader` and the checkpoint store. A `state_dict` taken after
  the last batch resumes into an empty epoch. After StopIteration, `iter()`
  starts the next epoch.
- `check_save()`. It is a free boolean at every step, because the tracker is
  advisory.

### DPOValidate: one validation pass
Variables:
- `data`: the batches of each dataset, chosen in Init from small sets;
- `pc`, `todo` and `cur`: the dataset loop of `validate`;
- `batchIdx` and `numValid`: the batch loop;
- `sumW` and `sumVW`: the sums the aggregation computes;
- `metrics`.

A batch is the `all_mb_metrics` list of `policy.train(eval_mode=True)`. Each
micro-batch record holds a sample count and one representative weighted
metric. Results are exact fractions.

Zero valid samples at line 434 is undefined by the code's types. It raises
ZeroDivisionError on Python floats and gives NaN on numpy floats. The model
allows both outcomes.

The `val_dataloader is None` branch (365-371) is not modelled. `setup()`
always builds a dict of dataloaders, so a value is never None.

### DPOProgress: what the loop promises
The abstract specification. Its state:
- `trained`: the batches the live run's weights were trained on;
- `durable`: the batches of the published progress;
- `up`: whether a live run exists.

Its actions are `Train` (append the next batch of the data order, within the
epoch and step budget), `Publish` (durable := trained), `Crash` and `Restart`
(trained := durable). DPOTrain defines the refinement mapping `Progress`:
`trained <- weights`, `durable <- CkptWeights` (the weights of the latest
finalized checkpoint), `up <- pc # "down"`. Under it `TrainStep` is `Train`,
`FinalizeCheckpoint` is `Publish`, `Crash` and `Restart` are themselves, and
every other action is a stutter. The three staging writes change nothing
visible, which is the point of publish-after-complete.

### RefLogprobs: the reference-logprob generator
`add_ref_logprobs_to_data` over one dataloader. Variables:
- the configuration, chosen in Init: `isVal`, the dataset length `n`, the
  dataloader batch size `bs`, the micro-batch size `mbs`, the data-parallel
  size `dp`;
- `taken`: the examples the dataloader returned;
- `out`: the batches yielded, each with its examples, rows and rolled logprobs;
- `pc`: running, done (StopIteration) or failed (the assertion).

`setup()` builds the train dataloader with `drop_last=True` and the validation
dataloaders with `drop_last=False`, so `DropLast == ~isVal`. A batch is its
number of examples and of rows, two rows per example. The logprobs of a batch
are identified by the token position they score. `maybe_pad_last_batch` and
`preference_collate_fn` are outside this repository and follow the spec.
Actions: `YieldBatch` (pull, pad if validation, roll, yield),
`PartialTrainBatch` (the assertion) and `Exhausted`.

### DPOChatML: preference record formatting
`FormatDpoChatML(c, r)` translates `format_dpo_chatml`. Its checks come in the
code's order: the context assertion, an IndexError on an empty chosen
conversation, the chosen role assertion, an IndexError on an empty rejected
conversation, the rejected role assertion, then the split. A message is a
`[role, content]` record. The context check compares `json.dumps` of the two
contexts. `load_dataset` gives every message of a file the same keys in the
same order, so equal dumps are equal message lists. One action, `Format`,
applies the operator to a record chosen in Init, as `datasets.map` does.

### PenguinPostprocess: rollout to message log
Variables: the output `items` of one rollout, the loop index `i`, the message
`log`, `seen` (seen_token_ids), `inputLog` and `pc`. An item without
generation token ids is `NoGen`, and contents are left out. Actions:
`SkipItem`, `AppendTurn` (the assertion holds: a user message with the new
prompt tokens, an assistant message with the generated ones, both appended to
the seen tokens), `NonContiguous` (the AssertionError) and `Finish`.

## 3. Runs

| run | cfg | checks | bounds |
|---|---|---|---|
| train_epochs | MC_DPOTrain.cfg | TypeOK, ResumeExactlyOnce, CheckpointConsistent, NoStaleValMetrics, TrainingWithinBudget, DoneSavesAll, IInv, LatestNeverRegresses, RunCompletes, ImplementsProgress | 3 batches/epoch, 2 epochs, max_num_steps 7, val_period 2, save_period 4, 2 crashes |
| train_step_limit | MC_DPOTrain_steps.cfg | TrainingWithinBudget, DoneSavesAll | 3 batches/epoch, 3 epochs, max_num_steps 4 (binds mid-epoch), 2 crashes |
| timeout_without_checkpointing | MC_DPOTrain_nockpt.cfg | TimeoutStopSaves (expected violation) | checkpointing disabled |
| val_period_without_dataset | MC_DPOTrain_noval.cfg | NoValDataIsFatal (expected violation) | no validation dataset, val_period 1 |
| validation_aggregate | MC_DPOValidate.cfg | AggregationCorrect | 2 datasets, up to 3 batches of 0-2 micro-batches, val_batches 2 |
| validation_zero_samples | MC_DPOValidate_zero.cfg | ZeroSamplesReportZeros (expected violation) | as above |
| ref_logprobs | MC_RefLogprobs.cfg | TypeOK, PartialOnlyFromConfig | datasets of 0-5 examples, batch size 1-3, micro-batch 1-2, data-parallel 1-2, both modes |
| chatml_format | MC_DPOChatML.cfg | FormatCorrect | all pairs of conversations of 0-3 messages, 2 roles, 2 contents |
| penguin_postprocess | MC_PenguinPostprocess.cfg | PostprocessCorrect | all rollouts of 0-3 items, prompts of 0-3 tokens and generations of 0-1 tokens over 2 token ids |

What the new properties say:
- `NoStaleValMetrics`: a checkpoint carries exactly the validation keys of
  its own step. They are present when that step was validated and absent
  otherwise, including on a timeout-forced save and a last-step save that
  follow a validated save.
- `ImplementsProgress`: DPOTrain implements DPOProgress (a PROPERTY).
- `PartialOnlyFromConfig`: the training assertion fires only for a global batch
  size that is not a multiple of dp_size * micro_batch_size. It never fires for
  the dataset's tail, which the train dataloader drops. A finished validation
  pass has yielded every example once, and a finished training epoch every
  full batch once.
- `FormatCorrect`: `format_dpo_chatml` accepts exactly the records whose
  conversations share all but a final assistant message. The prompt and the
  two responses then rebuild both conversations.
- `PostprocessCorrect`: the postprocessing fails exactly on a rollout whose
  turns do not extend each other. Otherwise each assistant message holds one
  turn's generation, the log's tokens read in order are the last turn's prompt
  and generation, and `input_message_log` is the first turn's prompt.

Why the bounds are enough:
- Three batches per epoch with two epochs give a mid-epoch save (save_period 4)
  and a save at the epoch's last step (is_last_step). They also give a
  validation that is stale at the next save (val_period 2).
- Two crashes can fall at every point of two different saves. They can also
  land after a save and before StepEnd.
- For validation, three batches against val_batches 2 reach both the break and
  the exhaustion. The micro-batch values make unit weights and sample weights
  differ.
- For RefLogprobs, batch size 3 against a shard of 2 or 4 examples gives both a
  validation tail that is padded and the training assertion. Five examples leave a
  partial tail for every batch size above 1.
- For ChatML, three messages allow a shared context of two. The two roles and
  two contents make every assertion fail on some record and pass on another.
- For Penguin, three items allow a skipped item between two turns, and a
  contiguity break at the second or the third turn.

### Findings
1. **Timeout without checkpointing stops without saving** (dpo.py:730). The
   spec says a timeout stop "performs a checkpoint and returns". With
   `checkpointing.enabled = false` the run returns and loses its work.
2. **val_period > 0 without validation data is not fatal** (dpo.py:369). The
   assert is reached only for a `None` value. An empty dict is accepted.
3. **Zero valid samples in validation** (dpo.py:412, 434). The spec says such
   batches contribute nothing and a validation without valid samples reports
   zeros. The code counts such a batch as valid and then divides by zero.
   The result is an uncaught ZeroDivisionError, which ends training, or NaN
   metrics.

## 4. Fairness

`Spec` of DPOTrain assumes weak fairness of `Orchestrate`, which is every
action except `Crash`. The orchestrator is single-threaded and each call it
blocks on returns, so it cannot stay enabled forever without stepping.
Crashes are not fair. They are bounded by `MaxCrashes`, so a run cannot crash
forever. RunCompletes says that the run ends with the step budget trained or
with a timeout stop. It depends on this bound.

## 5. Proofs

### DPOTrain_proofs.tla
The proofs assume only `ConstAssumption`: StepsPerEpoch, SavePeriod and
GlobalBatchSize are positive, and the other constants are naturals or
booleans.

- `TypeCorrect`: `Spec => []TypeOK`.
- `IInvariant`: `Spec => []IInv`. IInv is the inductive invariant. It
  strengthens the properties with four groups of facts:
  - the live counters: `Len(weights)` and the cursor position
    `dl.epoch * L + dl.pos` both equal the number of trained steps, and
    consumed_samples and total_valid_tokens are proportional to it;
  - how `epoch` and `step` relate to the cursor inside and at the end of an
    epoch;
  - what the staging directory already holds at each checkpoint stage;
  - that `latest` is a consistent triple of info, weights and cursor, whose
    validation keys are those of its own step (`OwnValKey`).

  ResumeExactlyOnce alone is not inductive. A restart copies `latest`, so the
  proof must know that `latest` was consistent when it was written. That in
  turn needs the staging facts and the live counters.
- `CheckpointConsistentHolds`, `ResumeExactlyOnceHolds` and
  `NoStaleValMetricsHolds` follow from IInv.

### DPOTrain_refinement.tla
- `BudgetInvariant`: `Spec => []BudgetInv`. BudgetInv says three things. While
  a step is under way, the loop's budget check held (epoch < max_num_epochs
  and total_steps < max_num_steps). The live weights are within budget. So are
  the weights of the latest checkpoint. The step proof uses IInv. At
  `TrainStep`, `Len(weights) = totalSteps` and `dl.epoch = epoch` (LiveCounters).
  At `FinalizeCheckpoint`, `staging.weights = weights` (SavingInv). The
  checkpoint conjunct is needed because a restart copies its weights.
- `TrainingWithinBudgetHolds`: `Spec => []TrainingWithinBudget`.
- `Refinement`: `Spec => ImplementsProgress`. Initial states map to DPOProgress's
  initial state. Every step maps to a DPOProgress step or a stutter. The
  TrainStep case picks the batch `<<dl.epoch, dl.pos>>` as the witness. It
  needs LiveCounters for its place in the data order, and BudgetInv for the
  budget. The FinalizeCheckpoint case needs SavingInv.
- `LatestNeverRegressesHolds`: `Spec => LatestNeverRegresses`, from
  `LatestBehindInv`: in a running process the latest checkpoint's total_steps
  is at most the steps trained, and strictly less while a checkpoint is being
  written. A restart restores total_steps from that checkpoint, which keeps
  the first part. The training call makes the second true before
  `InitTmpCheckpoint`. `FinalizeCheckpoint` publishes the save state of step
  totalSteps + 1 (SavingInv), so the published step is strictly later.
- `DoneSavesAllHolds`: `Spec => []DoneSavesAll`, from `DoneInv` (DPOTrain.tla). DoneInv says the live weights equal those of the
  latest checkpoint (`Synced`) at every place the run may return: right after
  `setup()` restored them, once the budget is spent, and after a step on which
  is_last_step or the timeout forced a save. The step proof uses IInv for the
  staging contents, and BudgetInv to show that the last step of the last epoch
  is a save step.

### Proofs about sequences: the table technique
DPOValidate, RefLogprobs and PenguinPostprocess compute sums, filters and
concatenations over sequences. They write these as recursive *functions*
(`LET f[k \in 0..Len(s)] == ... IN f[Len(s)]`), which tlapm can reason about.
Recursive *operators* would take SMT away from the module.

The provers cannot unfold such a definition for every input. That would need
induction over data with an operator parameter. So each proof module states
"f computes v on s" as a relation on *tables*: a function g on 0..Len(s) that
satisfies the recursive equation. An append lemma takes a table of s to a table
of Append(s, x), and restricts a table of the longer sequence back. An
invariant then keeps one table existing (`\E g`) and says that every table
ends at the right value (`\A g`). Each step of the spec appends at most one
element, so only the append lemma is needed, never induction.

### RefLogprobs_proofs.tla
Under `RefLogprobsAssumption` (positive sizes):
- `TypeCorrect`: `Spec => []TypeOK`.
- `PartialOnlyFromConfigHolds`: `Spec => []PartialOnlyFromConfig`. The
  invariant `PartialInv` gives four facts:
  - the examples taken by a training loader are a multiple of the batch size;
  - a failure has a non-divisible batch size in training mode;
  - at the end, all examples were taken (validation) or all but the remainder
    were taken (training, drop_last);
  - the yielded batch sizes have a prefix-sum table (`SumEq`) that ends at
    `taken`.

  Modular-arithmetic lemmas (`RoundDown`, `ModAdd`...) carry the rounding.

### DPOChatML_proofs.tla
- `FormatSplits`: for any two sequences of messages, `FormatIsSplit` holds.
  Lemmas about `Front` (conv[:-1]) and `SameContext` reduce the context check
  to pointwise equality.
- `FormatCorrectHolds`: `Spec => []FormatCorrect`.

### DPOValidate_proofs.tla
- `AggregationCorrectHolds`: `Spec => []AggregationCorrect`. The invariant
  `AggInv` ties the two running sums to the batches read so far
  (`Prefix == SubSeq(data[cur], 1, batchIdx)`). `Accumulated` says there is a
  sequence v of the batches of Prefix that have metrics, with
  `Len(v) = numValid`, whose sample-count sum is sumW and whose weighted sum is
  sumVW. At the aggregation step, `ReadBatches(cur) = Prefix` links the
  invariant to the property's reference value. `KeepValidIs`, `SamplesSumIs`
  and `WeightedSumIs` link the property's recursive functions to the tables.

### PenguinPostprocess_proofs.tla
- `PostprocessCorrectHolds`: `Spec => []PostprocessCorrect`. The invariant
  `PInv` says that for every table F of the filter `KeepTurns` (the turns with
  generation tokens), the log and the seen tokens are those that the turns
  F[i] among the first i items produce (`LogOf`). It also says that an error
  leaves the next item a non-contiguous turn, and that done means
  i = Len(items).

  Table existence and monotonicity (a table of a longer prefix restricts to a
  table of a shorter one) come from a least-counterexample argument. `NatMin`
  is proved from `WFMin` and the well-foundedness of < on Nat in
  WellFoundedInduction. It needs no induction theorem with an operator
  parameter. `ContiguousIsPrefix` relates the code's contiguity check to
  `IsPrefix`.

### What stays with TLC
Every safety invariant and action property that a passing run checks now has
a theorem. Two things stay with TLC:
- `RunCompletes`, the liveness property of the train_epochs run. It rests on
  the weak fairness of `Orchestrate` and on the bound on crashes. The
  installed provers reason about neither fairness nor ENABLED.
- `ZeroSamplesReportZeros` of the validation_zero_samples run. It is a violation run:
  it shows the code's behaviour on a dataset with no valid samples, and there
  is nothing to prove.

The table lemmas relate each recursive function to its recursive equation.
They hold for every input, but they are proved only in the form the
invariants use: one step appends one element. A closed form of what a sum or
filter computes on an arbitrary sequence would need induction with an
operator parameter, which the installed provers cannot instantiate.

## 6. Not modelled
- Top-k checkpoint retention and the ranking by `metric_name`. They live in
  `CheckpointManager`, outside this repository. The model does pin down when
  the key is present, through NoStaleValMetrics.
- The Penguin actor's `__init__`, which mutates a config dict and starts
  servers. Also `run_rollouts`'s remote call and Ray's retries,
  `setup_penguin_config` and `penguin_example_to_nemo_rl_datum_spec`. These
  are configuration and I/O wiring with no state a property could tell apart.
- `load_dataset` (file I/O) in `DPOChatMLDataset`.
- Timings, logging, seeding, cluster and megatron configuration.

## 7. Plan for later sittings
1. Liveness of DPOProgress under fairness, checked on the refinement.
2. The composition of RefLogprobs with DPOValidate: validation over padded
   batches.
