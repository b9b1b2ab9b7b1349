------------------------------- MODULE DPOTrain -------------------------------
(***************************************************************************)
(* The DPO training orchestration loop of nemo_rl/algorithms/dpo.py:       *)
(* dpo_train() with the checkpoint it writes, the resumable train          *)
(* dataloader it drives, and a process that may crash at any blocking call *)
(* and be restarted through setup(), which restores the latest finalized   *)
(* checkpoint.                                                             *)
(*                                                                         *)
(* Data is abstracted to what the properties tell apart: a training batch  *)
(* is identified by <<dataloader epoch, position in the epoch>>; the      *)
(* policy's weights by the sequence of batches they were trained on; a    *)
(* validation metric by the total_steps of the weights it was computed   *)
(* on (its "stamp").  Metric values, timings and logging are left out.    *)
(***************************************************************************)
EXTENDS Naturals, Integers, Sequences

CONSTANTS
    StepsPerEpoch,   \* len(train_dataloader): batches per epoch (drop_last=True)
    MaxNumEpochs,    \* dpo.max_num_epochs
    MaxNumSteps,     \* dpo.max_num_steps
    ValPeriod,       \* dpo.val_period (0 disables periodic validation)
    ValAtStart,      \* dpo.val_at_start
    ValDatasets,     \* names of the validation datasets (keys of val_dataloader)
    SavePeriod,      \* checkpointing.save_period
    CkptEnabled,     \* checkpointing.enabled
    GlobalBatchSize, \* policy.train_global_batch_size
    ToksPerBatch,    \* metrics["global_valid_toks"] of one training step
    MaxCrashes       \* bound on process crashes in one behaviour

ASSUME ConstAssumption ==
    /\ StepsPerEpoch \in Nat \ {0}
    /\ MaxNumEpochs \in Nat
    /\ MaxNumSteps \in Nat
    /\ ValPeriod \in Nat
    /\ ValAtStart \in BOOLEAN
    /\ SavePeriod \in Nat \ {0}
    /\ CkptEnabled \in BOOLEAN
    /\ GlobalBatchSize \in Nat \ {0}
    /\ ToksPerBatch \in Nat
    /\ MaxCrashes \in Nat

-----------------------------------------------------------------------------
(* Values *)

\* A metric stamp: total_steps of the weights a validation metric was
\* computed on; NoStamp stands for "key absent" / "val_metrics is None".
NoStamp == -1
Stamps == {NoStamp} \cup Nat

\* One training batch: <<dataloader epoch, index within that epoch>>.
BatchIds == Nat \X Nat

\* train_dataloader.state_dict(): which epoch and how many batches of it
\* have been yielded.
Cursors == [epoch : Nat, pos : 0..StepsPerEpoch]

\* The validation keys of DPOSaveState, grouped per dataset: "num" is
\* <prefix>_num_valid_samples (never pruned), "other" the eight other keys
\* of DPOValMetrics (pruned together when stale).
ValKeys == [ValDatasets -> [other : Stamps, num : Stamps]]

\* DPOSaveState (dpo.py:43-48) with the validation keys merged into it.
Infos == [epoch : Nat, step : Nat, total : Nat, consumed : Nat,
          tokens : Nat, val : ValKeys]

\* A checkpoint directory: training_info, policy/weights, train_dataloader.pt
Ckpts == [info : Infos, weights : Seq(BatchIds), cursor : Cursors]

\* _default_dpo_save_state() (dpo.py:51-58): no validation keys.
DefaultSaveState ==
    [epoch |-> 0, step |-> 0, total |-> 0, consumed |-> 0, tokens |-> 0,
     val |-> [d \in ValDatasets |-> [other |-> NoStamp, num |-> NoStamp]]]

\* A freshly constructed StatefulDataLoader: nothing yielded yet.
FreshCursor == [epoch |-> 0, pos |-> 0]

\* The content of the "latest" slot before any checkpoint was finalized
\* (never read while hasLatest = FALSE).
NoCkpt == [info |-> DefaultSaveState, weights |-> <<>>, cursor |-> FreshCursor]

Labels == {"start", "epoch", "step", "init_tmp", "save_policy",
           "save_dataloader", "finalize", "step_end", "done", "down"}

-----------------------------------------------------------------------------
VARIABLES
    pc,          \* where the orchestrator is in dpo_train(); "down" = crashed
    epoch,       \* current_epoch
    step,        \* current_step (index within the epoch)
    totalSteps,  \* total_steps
    validToks,   \* total_valid_tokens (the local of dpo_train)
    saveState,   \* dpo_save_state
    valMetrics,  \* val_metrics: per dataset the stamp, NoStamp when None
    timedOut,    \* should_save_by_timeout of the current step
    dl,          \* train_dataloader: [epoch, pos, finished]
    weights,     \* batches the in-memory policy weights were trained on
    staging,     \* the tmp checkpoint directory being written
    hasLatest,   \* a finalized checkpoint exists
    latest,      \* the latest finalized checkpoint
    crashes      \* crashes so far

vars == <<pc, epoch, step, totalSteps, validToks, saveState, valMetrics,
          timedOut, dl, weights, staging, hasLatest, latest, crashes>>

NoValidation == [d \in ValDatasets |-> NoStamp]

-----------------------------------------------------------------------------
(* Restoring a process: setup() loads the latest checkpoint and dpo_train() *)
(* takes its counters from it.                                             *)

\* setup() (dpo.py:156-160): the training info of the latest checkpoint, or
\* None, which dpo_train() replaces by the default save state (505-506).
LoadTrainingInfo ==
    saveState' = IF hasLatest THEN latest.info ELSE DefaultSaveState

\* Mutant: the dataloader state_dict is not loaded (dpo.py:182-186 dropped).
LoadDataloader_NoState ==
    dl' = [epoch |-> 0, pos |-> 0, finished |-> FALSE]

\* setup() (dpo.py:182-186): a fresh train dataloader, given the state_dict
\* of the latest checkpoint when there is one.
LoadDataloader ==
    dl' = IF hasLatest
            THEN [epoch |-> latest.cursor.epoch, pos |-> latest.cursor.pos,
                  finished |-> FALSE]
            ELSE [epoch |-> 0, pos |-> 0, finished |-> FALSE]

\* setup() (dpo.py:237-249): the policy built from the weights of the latest
\* checkpoint, or from the initial weights when there is none.
LoadPolicy ==
    weights' = IF hasLatest THEN latest.weights ELSE <<>>

\* Mutant: the training info is not restored (counters start from zero).
RestoreCounters_Fresh ==
    /\ epoch' = 0 /\ step' = 0 /\ totalSteps' = 0 /\ validToks' = 0

\* dpo_train()'s counters taken from the (restored or default) save state
\* (dpo.py:505-517).
RestoreCounters ==
    /\ epoch' = saveState'.epoch
    /\ step' = saveState'.step
    /\ totalSteps' = saveState'.total
    /\ validToks' = saveState'.tokens


\* A process starting: setup() then the start of dpo_train().
Boot == LoadTrainingInfo /\ LoadDataloader /\ LoadPolicy /\ RestoreCounters

Init ==
    /\ pc = "start"
    /\ hasLatest = FALSE
    /\ latest = NoCkpt
    /\ staging = NoCkpt
    /\ crashes = 0
    /\ valMetrics = NoValidation
    /\ timedOut = FALSE
    /\ saveState = DefaultSaveState
    /\ epoch = 0 /\ step = 0 /\ totalSteps = 0 /\ validToks = 0
    /\ dl = [epoch |-> 0, pos |-> 0, finished |-> FALSE]
    /\ weights = <<>>

-----------------------------------------------------------------------------
(* dpo_train() *)

\* Validation at start when configured and nothing was trained yet
\* (dpo.py:525-545); validate() stamps every dataset's metrics.
Start ==
    /\ pc = "start"
    /\ valMetrics' = IF ValAtStart /\ totalSteps = 0
                       THEN [d \in ValDatasets |-> 0]
                       ELSE valMetrics
    /\ pc' = "epoch"
    /\ UNCHANGED <<epoch, step, totalSteps, validToks, saveState, timedOut,
                   dl, weights, staging, hasLatest, latest, crashes>>

\* Mutant: the epoch bound is off by one (one epoch too many).
EpochBegin_ExtraEpoch ==
    /\ pc = "epoch"
    /\ IF epoch <= MaxNumEpochs /\ totalSteps < MaxNumSteps
         THEN /\ dl' = IF dl.finished
                         THEN [epoch |-> dl.epoch + 1, pos |-> 0, finished |-> FALSE]
                         ELSE dl
              /\ pc' = "step"
         ELSE /\ pc' = "done"
              /\ UNCHANGED dl
    /\ UNCHANGED <<epoch, step, totalSteps, validToks, saveState, valMetrics,
                   timedOut, weights, staging, hasLatest, latest, crashes>>

\* Mutant: the epoch bound is off by one (one epoch too few).
EpochBegin_MissingEpoch ==
    /\ pc = "epoch"
    /\ IF epoch + 1 < MaxNumEpochs /\ totalSteps < MaxNumSteps
         THEN /\ dl' = IF dl.finished
                         THEN [epoch |-> dl.epoch + 1, pos |-> 0, finished |-> FALSE]
                         ELSE dl
              /\ pc' = "step"
         ELSE /\ pc' = "done"
              /\ UNCHANGED dl
    /\ UNCHANGED <<epoch, step, totalSteps, validToks, saveState, valMetrics,
                   timedOut, weights, staging, hasLatest, latest, crashes>>

\* The while condition and iter(train_dataloader) (dpo.py:547-553): a
\* dataloader whose last iteration ran to StopIteration starts a new epoch;
\* one restored from a state_dict continues from its saved position.
EpochBegin ==
    /\ pc = "epoch"
    /\ IF epoch < MaxNumEpochs /\ totalSteps < MaxNumSteps
         THEN /\ dl' = IF dl.finished
                         THEN [epoch |-> dl.epoch + 1, pos |-> 0, finished |-> FALSE]
                         ELSE dl
              /\ pc' = "step"
         ELSE /\ pc' = "done"
              /\ UNCHANGED dl
    /\ UNCHANGED <<epoch, step, totalSteps, validToks, saveState, valMetrics,
                   timedOut, weights, staging, hasLatest, latest, crashes>>

\* Mutant: next() is believed to succeed one batch past the end.
BatchAvailable_PastEnd == dl.pos <= StepsPerEpoch

\* next(dataloader_iter) returns a batch (dpo.py:271-274): the epoch has
\* batches left.
BatchAvailable == dl.pos < StepsPerEpoch

\* The dataloader is exhausted: the generator of add_ref_logprobs_to_data
\* stops, and the epoch counters advance (dpo.py:302-303, 735-736).
EpochEnd ==
    /\ pc = "step"
    /\ ~BatchAvailable
    /\ dl' = [dl EXCEPT !.finished = TRUE]
    /\ epoch' = epoch + 1
    /\ step' = 0
    /\ pc' = "epoch"
    /\ UNCHANGED <<totalSteps, validToks, saveState, valMetrics, timedOut,
                   weights, staging, hasLatest, latest, crashes>>

\* Mutant: the epoch clause of is_last_step is missing.
IsLastStep_StepsOnly == totalSteps + 1 >= MaxNumSteps

\* Mutant: max_num_steps compared off by one.
IsLastStep_OffByOne ==
    \/ totalSteps + 1 > MaxNumSteps
    \/ epoch + 1 = MaxNumEpochs /\ step + 1 = StepsPerEpoch

\* is_last_step (dpo.py:573-578).
IsLastStep ==
    \/ totalSteps + 1 >= MaxNumSteps
    \/ epoch + 1 = MaxNumEpochs /\ step + 1 = StepsPerEpoch

\* Mutant: val_metrics is not reset to None at the start of a step
\* (dpo.py:558 dropped): the last validation result is carried over.
StepValidation_NoReset ==
    IF ValPeriod > 0 /\ (totalSteps + 1) % ValPeriod = 0
      THEN [d \in ValDatasets |-> totalSteps + 1]
      ELSE valMetrics

\* The validation result of this step: every dataset is validated on the
\* weights after step totalSteps + 1 when that is a multiple of val_period;
\* otherwise val_metrics is None (dpo.py:558, 580-597).
StepValidation ==
    IF ValPeriod > 0 /\ (totalSteps + 1) % ValPeriod = 0
      THEN [d \in ValDatasets |-> totalSteps + 1]
      ELSE NoValidation

\* "Remove outdated validation metrics" (dpo.py:632-645): a key other than
\* num_valid_samples is deleted unless this step's val_metrics holds it.
PruneStale(val, vm) ==
    [d \in ValDatasets |->
        [val[d] EXCEPT !.other = IF vm[d] = NoStamp THEN NoStamp ELSE @]]

\* dpo_save_state.update(val_metrics) (dpo.py:646-647).
MergeMetrics(val, vm) ==
    [d \in ValDatasets |->
        IF vm[d] = NoStamp THEN val[d] ELSE [other |-> vm[d], num |-> vm[d]]]

\* Mutant: the saved step is current_step, without the "+1 because step is
\* 0-indexed".
CheckpointSaveState_StepNotAdvanced(vm) ==
    [epoch    |-> epoch,
     step     |-> step % StepsPerEpoch,
     total    |-> totalSteps + 1,
     consumed |-> saveState.consumed + GlobalBatchSize,
     tokens   |-> validToks + ToksPerBatch,
     val      |-> MergeMetrics(PruneStale(saveState.val, vm), vm)]

\* The save state written for a checkpoint after this step (dpo.py:628-647),
\* consumed_samples already advanced (dpo.py:611-613).
CheckpointSaveState(vm) ==
    [epoch    |-> epoch,
     step     |-> (step + 1) % StepsPerEpoch,
     total    |-> totalSteps + 1,
     consumed |-> saveState.consumed + GlobalBatchSize,
     tokens   |-> validToks + ToksPerBatch,
     val      |-> MergeMetrics(PruneStale(saveState.val, vm), vm)]

\* One training step up to the checkpoint decision (dpo.py:553-658): the
\* generator yields the next batch, the policy trains on it, validation
\* runs when due, the counters of the save state advance, and the timeout
\* checker (external, advisory) answers check_save() either way.
TrainStep ==
    /\ pc = "step"
    /\ BatchAvailable
    /\ LET vm == StepValidation IN
       /\ dl' = [dl EXCEPT !.pos = @ + 1]
       /\ weights' = Append(weights, <<dl.epoch, dl.pos>>)
       /\ valMetrics' = vm
       /\ validToks' = validToks + ToksPerBatch
       /\ \E checkSave \in BOOLEAN :
            /\ timedOut' = checkSave
            /\ IF CkptEnabled
                  /\ (IsLastStep \/ (totalSteps + 1) % SavePeriod = 0 \/ checkSave)
                 THEN /\ saveState' = CheckpointSaveState(vm)
                      /\ pc' = "init_tmp"
                 ELSE /\ saveState' = [saveState EXCEPT
                                         !.consumed = @ + GlobalBatchSize]
                      /\ pc' = "step_end"
    /\ UNCHANGED <<epoch, step, totalSteps, staging, hasLatest, latest, crashes>>

\* checkpointer.init_tmp_checkpoint(total_steps + 1, dpo_save_state, ...)
\* (dpo.py:661-663): a tmp directory holding the training info.
InitTmpCheckpoint ==
    /\ pc = "init_tmp"
    /\ staging' = [staging EXCEPT !.info = saveState]
    /\ pc' = "save_policy"
    /\ UNCHANGED <<epoch, step, totalSteps, validToks, saveState, valMetrics,
                   timedOut, dl, weights, hasLatest, latest, crashes>>

\* policy.save_checkpoint(...) into the tmp directory (dpo.py:664-675).
SavePolicy ==
    /\ pc = "save_policy"
    /\ staging' = [staging EXCEPT !.weights = weights]
    /\ pc' = "save_dataloader"
    /\ UNCHANGED <<epoch, step, totalSteps, validToks, saveState, valMetrics,
                   timedOut, dl, weights, hasLatest, latest, crashes>>

\* torch.save(train_dataloader.state_dict(), ...) (dpo.py:676-679).
SaveDataloader ==
    /\ pc = "save_dataloader"
    /\ staging' = [staging EXCEPT !.cursor = [epoch |-> dl.epoch, pos |-> dl.pos]]
    /\ pc' = "finalize"
    /\ UNCHANGED <<epoch, step, totalSteps, validToks, saveState, valMetrics,
                   timedOut, dl, weights, hasLatest, latest, crashes>>

\* checkpointer.finalize_checkpoint(checkpoint_path) (dpo.py:680): the tmp
\* directory is published as the latest checkpoint.
FinalizeCheckpoint ==
    /\ pc = "finalize"
    /\ latest' = staging
    /\ hasLatest' = TRUE
    /\ pc' = "step_end"
    /\ UNCHANGED <<epoch, step, totalSteps, validToks, saveState, valMetrics,
                   timedOut, dl, weights, staging, crashes>>

\* Mutant: no return at max_num_steps (dpo.py:732-733 dropped).
StepEnd_NoStepLimit ==
    /\ pc = "step_end"
    /\ step' = step + 1
    /\ totalSteps' = totalSteps + 1
    /\ pc' = IF timedOut THEN "done" ELSE "step"
    /\ UNCHANGED <<epoch, validToks, saveState, valMetrics, timedOut, dl,
                   weights, staging, hasLatest, latest, crashes>>

\* The end of the step (dpo.py:726-733): counters advance, and the run
\* returns after a timeout-forced save or at max_num_steps.
StepEnd ==
    /\ pc = "step_end"
    /\ step' = step + 1
    /\ totalSteps' = totalSteps + 1
    /\ pc' = IF timedOut \/ totalSteps + 1 >= MaxNumSteps THEN "done" ELSE "step"
    /\ UNCHANGED <<epoch, validToks, saveState, valMetrics, timedOut, dl,
                   weights, staging, hasLatest, latest, crashes>>

-----------------------------------------------------------------------------
(* Failures *)

\* The process dies at a blocking call; the tmp directory keeps whatever
\* was written to it, and only finalized checkpoints are visible to setup().
Crash ==
    /\ pc \notin {"done", "down"}
    /\ crashes < MaxCrashes
    /\ pc' = "down"
    /\ crashes' = crashes + 1
    /\ UNCHANGED <<epoch, step, totalSteps, validToks, saveState, valMetrics,
                   timedOut, dl, weights, staging, hasLatest, latest>>

\* The run is launched again: setup() and the start of dpo_train().
Restart ==
    /\ pc = "down"
    /\ Boot
    /\ valMetrics' = NoValidation
    /\ timedOut' = FALSE
    /\ pc' = "start"
    /\ UNCHANGED <<staging, hasLatest, latest, crashes>>

-----------------------------------------------------------------------------
\* Every step of the orchestrator itself.
Orchestrate ==
    \/ Start \/ EpochBegin \/ TrainStep \/ EpochEnd
    \/ InitTmpCheckpoint \/ SavePolicy \/ SaveDataloader \/ FinalizeCheckpoint
    \/ StepEnd \/ Restart

Next == Orchestrate \/ Crash

\* The orchestrator is single-threaded and every call it blocks on returns,
\* so it cannot stop forever while it has a step to take; crashes are not
\* fair (they are bounded by MaxCrashes).
Spec == Init /\ [][Next]_vars /\ WF_vars(Orchestrate)

-----------------------------------------------------------------------------
(* Properties *)

Dl == [epoch : Nat, pos : 0..StepsPerEpoch, finished : BOOLEAN]

TypeOK ==
    /\ pc \in Labels
    /\ epoch \in Nat /\ step \in Nat /\ totalSteps \in Nat /\ validToks \in Nat
    /\ saveState \in Infos
    /\ valMetrics \in [ValDatasets -> Stamps]
    /\ timedOut \in BOOLEAN
    /\ dl \in Dl
    /\ weights \in Seq(BatchIds)
    /\ staging \in Ckpts
    /\ hasLatest \in BOOLEAN
    /\ latest \in Ckpts
    /\ crashes \in 0..MaxCrashes

\* The weights of the latest finalized checkpoint (the initial model when
\* there is none): what a restarted run resumes from.
CkptWeights == IF hasLatest THEN latest.weights ELSE <<>>

\* The k-th update of w was made with the k-th batch of the data order
\* (epoch by epoch, position by position): no batch trained twice, none
\* skipped.
ExactlyOnce(w) ==
    \A k \in 1..Len(w) :
        /\ w[k][2] < StepsPerEpoch
        /\ w[k][1] * StepsPerEpoch + w[k][2] = k - 1

(* Across any number of crashes and restarts from the latest checkpoint,   *)
(* the policy is trained on the training data exactly once and in order:  *)
(* the dataloader cursor restored by setup() and the counters restored by *)
(* dpo_train() never replay nor skip a batch (dpo.py:182-186, 505-517).   *)
ResumeExactlyOnce == ExactlyOnce(weights)

(* The latest finalized checkpoint is self-consistent: the weights, the   *)
(* dataloader cursor and the training info (epoch, step, total_steps,     *)
(* consumed_samples, total_valid_tokens) describe the same moment of the  *)
(* run, although they are written by three separate calls and the process *)
(* may die between any two of them (dpo.py:611-680).                       *)
CheckpointConsistent ==
    hasLatest =>
        LET c == latest IN
        /\ Len(c.weights) = c.info.total
        /\ c.cursor.epoch * StepsPerEpoch + c.cursor.pos = c.info.total
        /\ c.info.epoch = c.cursor.epoch
        /\ c.info.step = c.cursor.pos % StepsPerEpoch
        /\ c.info.consumed = c.info.total * GlobalBatchSize
        /\ c.info.tokens = c.info.total * ToksPerBatch

\* The validation keys a checkpoint of step n holds: those of n when the
\* weights after n steps were validated, none otherwise.
OwnValKey(n) == IF ValPeriod > 0 /\ n % ValPeriod = 0 THEN n ELSE NoStamp

(* A checkpoint carries exactly the validation metrics (other than the    *)
(* num_valid_samples denominators) computed on the weights it stores:     *)
(* stale keys of an earlier validation are pruned at every save, and the  *)
(* keys are present exactly when the step was validated, so a configured  *)
(* checkpointing.metric_name is missing from every checkpoint of a step   *)
(* that is not a multiple of val_period -- a timeout-forced or last-step  *)
(* save included (dpo.py:558, 580-597, 632-657).                           *)
NoStaleValMetrics ==
    hasLatest =>
        \A d \in ValDatasets :
            latest.info.val[d].other = OwnValKey(latest.info.total)

(* Training never goes past max_num_steps nor past max_num_epochs epochs  *)
(* of data, however often the run was restarted (dpo.py:547-550, 732).    *)
TrainingWithinBudget ==
    /\ Len(weights) <= MaxNumSteps
    /\ \A k \in 1..Len(weights) : weights[k][1] < MaxNumEpochs

(* When the run returns with checkpointing enabled, the latest checkpoint *)
(* holds everything trained: the last step is always saved, by            *)
(* is_last_step or by the timeout (dpo.py:573-578, 616-627, 730-733).      *)
DoneSavesAll ==
    pc = "done" /\ CkptEnabled => CkptWeights = weights

(* A run stopped by the checkpoint timeout has saved its last step first  *)
(* (spec: "a timeout-triggered stop completes the current step, performs *)
(* a checkpoint, and returns"; dpo.py:623-627, 730-731).                   *)
TimeoutStopSaves ==
    pc = "done" /\ timedOut => CkptWeights = weights

(* Validation with a non-zero val_period and no validation dataset is a   *)
(* fatal configuration error (spec section 4.2; dpo.py:369-374): such a   *)
(* run never trains.                                                       *)
NoValDataIsFatal ==
    ValPeriod > 0 /\ ValDatasets = {} => weights = <<>>

(* A finalized checkpoint is only ever replaced by one of a later step:   *)
(* a restarted run never publishes a checkpoint at or below the step it   *)
(* resumed from (dpo.py:661-663, 680).                                     *)
LatestNeverRegresses ==
    [][hasLatest => latest'.info.total > latest.info.total]_<<hasLatest, latest>>

\* The number of steps a run that is not stopped by the timeout trains.
StepBudget ==
    IF MaxNumSteps < MaxNumEpochs * StepsPerEpoch
      THEN MaxNumSteps ELSE MaxNumEpochs * StepsPerEpoch

(* Under the bounded crashes, the run eventually returns, and unless the  *)
(* timeout stopped it, with the full step budget trained: restarts lose   *)
(* no epoch and add none (dpo.py:547-550, 730-736).                        *)
RunCompletes ==
    <>(pc = "done" /\ (timedOut \/ Len(weights) = StepBudget))

\* The refinement mapping to the promise of DPOProgress: the live run's
\* weights, the weights of the latest finalized checkpoint, and whether
\* the process is running.
Progress == INSTANCE DPOProgress
              WITH trained <- weights, durable <- CkptWeights,
                   up <- (pc # "down")

(* The training loop with its staged checkpoints, its restarts through    *)
(* setup() and its budget checks implements DPOProgress: every training   *)
(* step trains the next batch of the data order within the budget, every  *)
(* finalize_checkpoint publishes exactly the live weights, and a restart  *)
(* resumes from what was published; every other step changes none of it  *)
(* (dpo.py:156-186, 505-517, 547-736).                                    *)
ImplementsProgress == Progress!Spec

-----------------------------------------------------------------------------
(* The inductive invariant behind CheckpointConsistent and              *)
(* ResumeExactlyOnce: how the in-memory counters, the dataloader, the     *)
(* weights, the save state and the tmp directory relate at each point of  *)
(* the loop.                                                              *)

\* Between the training call and the counter increment of a step.
InStep == pc \in {"init_tmp", "save_policy", "save_dataloader", "finalize",
                  "step_end"}

\* Steps whose batch has been trained on.
Trained == IF InStep THEN totalSteps + 1 ELSE totalSteps

\* The checkpoint of a step is being written.
Saving == pc \in {"init_tmp", "save_policy", "save_dataloader", "finalize"}

\* A save state describing a checkpoint taken after `n` steps whose
\* dataloader cursor is <<e, p>>.
InfoMatches(info, n, e, p) ==
    /\ info.total = n
    /\ e * StepsPerEpoch + p = n
    /\ info.epoch = e
    /\ info.step = p % StepsPerEpoch
    /\ info.consumed = n * GlobalBatchSize
    /\ info.tokens = n * ToksPerBatch
    /\ \A d \in ValDatasets : info.val[d].other = OwnValKey(n)

\* The in-memory state of a running process (a crashed one is discarded).
LiveCounters ==
    /\ Len(weights) = Trained
    /\ dl.epoch * StepsPerEpoch + dl.pos = Trained
    /\ saveState.consumed = Trained * GlobalBatchSize
    /\ validToks = Trained * ToksPerBatch
    /\ dl.finished => /\ pc \in {"epoch", "done"}
                      /\ dl.pos = StepsPerEpoch
                      /\ epoch = dl.epoch + 1
                      /\ step = 0
    /\ ~dl.finished => /\ epoch = dl.epoch
                       /\ \/ dl.pos = step + (IF InStep THEN 1 ELSE 0)
                          \/ ~InStep /\ step = 0 /\ dl.pos = StepsPerEpoch

LiveInv ==
    /\ ExactlyOnce(weights)
    /\ pc # "down" => LiveCounters

SavingInv ==
    /\ Saving => /\ InfoMatches(saveState, totalSteps + 1, dl.epoch, dl.pos)
                 /\ ~dl.finished
    /\ pc \in {"save_policy", "save_dataloader", "finalize"} =>
           staging.info = saveState
    /\ pc \in {"save_dataloader", "finalize"} => staging.weights = weights
    /\ pc = "finalize" => staging.cursor = [epoch |-> dl.epoch, pos |-> dl.pos]

LatestInv ==
    hasLatest =>
        /\ InfoMatches(latest.info, Len(latest.weights),
                       latest.cursor.epoch, latest.cursor.pos)
        /\ ExactlyOnce(latest.weights)

IInv == TypeOK /\ LiveInv /\ SavingInv /\ LatestInv

\* A batch sequence within the epoch and step budget.
Budgeted(w) ==
    /\ Len(w) <= MaxNumSteps
    /\ \A k \in 1..Len(w) : w[k][1] < MaxNumEpochs

\* The strengthening behind TrainingWithinBudget and the refinement: a
\* step is only under way while the loop's budget check holds, and the
\* live weights and those of the latest checkpoint are within budget.
BudgetInv ==
    /\ pc = "step" \/ InStep => epoch < MaxNumEpochs /\ totalSteps < MaxNumSteps
    /\ Budgeted(weights)
    /\ hasLatest => Budgeted(latest.weights)

\* The strengthening behind LatestNeverRegresses: the latest checkpoint is
\* never ahead of the steps a running process has trained, and strictly
\* behind them while the checkpoint of a step is being written.
LatestBehindInv ==
    hasLatest /\ pc # "down" =>
        /\ latest.info.total <= Trained
        /\ Saving => latest.info.total < Trained

\* The live weights are those of the latest finalized checkpoint (the
\* initial ones when there is none).
Synced == CkptWeights = weights

\* The strengthening behind DoneSavesAll: the live weights are saved
\* wherever the run may still return -- right after setup() restored them,
\* once the budget is spent, and after the step on which is_last_step or
\* the timeout forced a save.
DoneInv ==
    /\ pc = "start" => Synced
    /\ pc = "epoch" /\ ~dl.finished => Synced
    /\ CkptEnabled =>
         /\ pc = "epoch" /\ ~(epoch < MaxNumEpochs /\ totalSteps < MaxNumSteps)
              => Synced
         /\ pc = "step" /\ ~BatchAvailable /\ epoch + 1 = MaxNumEpochs => Synced
         /\ pc = "step_end" /\ (IsLastStep \/ timedOut) => Synced
         /\ pc = "done" => Synced
=============================================================================
