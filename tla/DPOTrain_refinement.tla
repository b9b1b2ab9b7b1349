------------------------- MODULE DPOTrain_refinement -------------------------
(***************************************************************************)
(* Proofs that the training loop of dpo.py stays within its epoch and step *)
(* budget and implements the abstract progress specification DPOProgress *)
(* under the refinement mapping Progress of DPOTrain, for every value of  *)
(* the constants allowed by ConstAssumption.                              *)
(***************************************************************************)
EXTENDS DPOTrain_proofs, TLAPS

USE ConstAssumption

-----------------------------------------------------------------------------
(* The budget invariant *)

\* Appending a batch of an epoch within budget to a sequence shorter than
\* max_num_steps keeps it within budget.
LEMMA BudgetedAppend ==
    ASSUME NEW w \in Seq(BatchIds), Budgeted(w), Len(w) < MaxNumSteps,
           NEW e \in Nat, e < MaxNumEpochs, NEW p \in Nat
    PROVE  Budgeted(Append(w, <<e, p>>))
BY DEF Budgeted

LEMMA BudgetInit == Init => BudgetInv
BY DEF Init, BudgetInv, Budgeted, InStep

LEMMA BudgetStep == IInv /\ BudgetInv /\ [Next]_vars => BudgetInv'
<1> SUFFICES ASSUME IInv, BudgetInv, [Next]_vars PROVE BudgetInv'
  OBVIOUS
<1>1. CASE Start
  BY <1>1 DEF Start, BudgetInv, InStep
<1>2. CASE EpochBegin
  BY <1>2 DEF EpochBegin, BudgetInv, InStep
<1>3. CASE TrainStep
  <2>1. pc = "step" /\ ~InStep /\ LiveCounters
    BY <1>3 DEF TrainStep, InStep, IInv, LiveInv
  <2>2. Len(weights) = totalSteps /\ ~dl.finished /\ epoch = dl.epoch
    <3>1. ~dl.finished
      BY <2>1, Zenon DEF LiveCounters
    <3>2. QED
      BY <2>1, <3>1 DEF LiveCounters, Trained
  <2>3. epoch < MaxNumEpochs /\ totalSteps < MaxNumSteps
    BY <2>1 DEF BudgetInv
  <2>4. Budgeted(weights')
    <3>1. weights' = Append(weights, <<dl.epoch, dl.pos>>)
      BY <1>3 DEF TrainStep
    <3>2. weights \in Seq(BatchIds) /\ dl \in Dl
      BY DEF IInv, TypeOK
    <3>3. QED
      BY <2>2, <2>3, <3>1, <3>2, BudgetedAppend DEF BudgetInv, Dl
  <2>5. QED
    BY <1>3, <2>3, <2>4 DEF TrainStep, BudgetInv, InStep
<1>4. CASE EpochEnd
  BY <1>4 DEF EpochEnd, BudgetInv, InStep
<1>5. CASE InitTmpCheckpoint
  BY <1>5 DEF InitTmpCheckpoint, BudgetInv, InStep
<1>6. CASE SavePolicy
  BY <1>6 DEF SavePolicy, BudgetInv, InStep
<1>7. CASE SaveDataloader
  BY <1>7 DEF SaveDataloader, BudgetInv, InStep
<1>8. CASE FinalizeCheckpoint
  <2>1. staging.weights = weights
    BY <1>8 DEF FinalizeCheckpoint, IInv, SavingInv
  <2>2. QED
    BY <1>8, <2>1 DEF FinalizeCheckpoint, BudgetInv, InStep
<1>9. CASE StepEnd
  BY <1>9 DEF StepEnd, BudgetInv, InStep
<1>10. CASE Crash
  BY <1>10 DEF Crash, BudgetInv, InStep
<1>11. CASE Restart
  <2>1. weights' = IF hasLatest THEN latest.weights ELSE <<>>
    BY <1>11 DEF Restart, Boot, LoadTrainingInfo, LoadDataloader, LoadPolicy
  <2>2. Budgeted(<<>>)
    BY DEF Budgeted
  <2>3. QED
    BY <1>11, <2>1, <2>2 DEF Restart, BudgetInv, InStep
<1>12. CASE UNCHANGED vars
  BY <1>12 DEF vars, BudgetInv, Budgeted, InStep
<1>13. QED
  BY <1>1, <1>2, <1>3, <1>4, <1>5, <1>6, <1>7, <1>8, <1>9, <1>10, <1>11,
     <1>12 DEF Next, Orchestrate

(* The budget invariant holds in every reachable state. *)
THEOREM BudgetInvariant == Spec => []BudgetInv
<1>1. Spec => []IInv
  BY IInvariant
<1>2. QED
  BY <1>1, BudgetInit, BudgetStep, PTL DEF Spec

(* However often the run crashes and is restarted from its checkpoint,   *)
(* the live weights were trained on at most max_num_steps batches, all   *)
(* from the first max_num_epochs epochs of data (dpo.py:547-550, 732).   *)
THEOREM TrainingWithinBudgetHolds == Spec => []TrainingWithinBudget
<1>1. BudgetInv => TrainingWithinBudget
  BY DEF BudgetInv, Budgeted, TrainingWithinBudget
<1>2. QED
  BY <1>1, BudgetInvariant, PTL

-----------------------------------------------------------------------------
(* The refinement of DPOProgress *)

\* The mapped state of a step that changes neither the weights, nor the
\* latest checkpoint, nor whether the process is up.
LEMMA MappedStutter ==
    ASSUME UNCHANGED <<weights, hasLatest, latest>>,
           (pc = "down") <=> (pc' = "down")
    PROVE  UNCHANGED Progress!avars
BY DEF Progress!avars, CkptWeights

LEMMA RefinementInit == Init => Progress!Init
BY DEF Init, Progress!Init, CkptWeights

\* Every step of the loop is a step of DPOProgress or leaves its state
\* unchanged.
LEMMA RefinementStep ==
    IInv /\ BudgetInv /\ [Next]_vars => [Progress!Next]_Progress!avars
<1> SUFFICES ASSUME IInv, BudgetInv, [Next]_vars
             PROVE  [Progress!Next]_Progress!avars
  OBVIOUS
<1>1. CASE Start
  BY <1>1, MappedStutter DEF Start
<1>2. CASE EpochBegin
  BY <1>2, MappedStutter DEF EpochBegin
<1>3. CASE TrainStep
  <2>1. pc = "step" /\ ~InStep /\ LiveCounters
    BY <1>3 DEF TrainStep, InStep, IInv, LiveInv
  <2>2. /\ Len(weights) = totalSteps /\ ~dl.finished /\ epoch = dl.epoch
        /\ dl.epoch * StepsPerEpoch + dl.pos = totalSteps
    <3>1. ~dl.finished
      BY <2>1, Zenon DEF LiveCounters
    <3>2. QED
      BY <2>1, <3>1 DEF LiveCounters, Trained
  <2>3. epoch < MaxNumEpochs /\ totalSteps < MaxNumSteps
    BY <2>1 DEF BudgetInv
  <2>4. dl \in Dl /\ dl.pos < StepsPerEpoch
    BY <1>3 DEF TrainStep, BatchAvailable, IInv, TypeOK
  <2>5. <<dl.epoch, dl.pos>> \in Progress!Batches
    BY <2>2, <2>3, <2>4 DEF Progress!Batches, Dl
  <2>6. /\ weights' = Append(weights, <<dl.epoch, dl.pos>>)
        /\ UNCHANGED <<hasLatest, latest>>
        /\ pc' \in {"init_tmp", "step_end"}
    BY <1>3 DEF TrainStep
  <2>7. Progress!Train
    BY <2>1, <2>2, <2>3, <2>5, <2>6 DEF Progress!Train, CkptWeights
  <2>8. QED
    BY <2>7 DEF Progress!Next
<1>4. CASE EpochEnd
  BY <1>4, MappedStutter DEF EpochEnd
<1>5. CASE InitTmpCheckpoint
  BY <1>5, MappedStutter DEF InitTmpCheckpoint
<1>6. CASE SavePolicy
  BY <1>6, MappedStutter DEF SavePolicy
<1>7. CASE SaveDataloader
  BY <1>7, MappedStutter DEF SaveDataloader
<1>8. CASE FinalizeCheckpoint
  <2>1. staging.weights = weights
    BY <1>8 DEF FinalizeCheckpoint, IInv, SavingInv
  <2>2. Progress!Publish
    BY <1>8, <2>1 DEF FinalizeCheckpoint, Progress!Publish, CkptWeights
  <2>3. QED
    BY <2>2 DEF Progress!Next
<1>9. CASE StepEnd
  BY <1>9, MappedStutter DEF StepEnd
<1>10. CASE Crash
  <2>1. Progress!Crash
    BY <1>10 DEF Crash, Progress!Crash, CkptWeights
  <2>2. QED
    BY <2>1 DEF Progress!Next
<1>11. CASE Restart
  <2>1. weights' = CkptWeights
    BY <1>11 DEF Restart, Boot, LoadTrainingInfo, LoadDataloader, LoadPolicy, CkptWeights
  <2>2. Progress!Restart
    BY <1>11, <2>1 DEF Restart, Progress!Restart, CkptWeights
  <2>3. QED
    BY <2>2 DEF Progress!Next
<1>12. CASE UNCHANGED vars
  BY <1>12, MappedStutter DEF vars
<1>13. QED
  BY <1>1, <1>2, <1>3, <1>4, <1>5, <1>6, <1>7, <1>8, <1>9, <1>10, <1>11,
     <1>12 DEF Next, Orchestrate

(* The training loop implements DPOProgress: under the mapping Progress,  *)
(* each training step trains the next batch of the data order within the *)
(* budget, each finalize_checkpoint publishes exactly the live weights,   *)
(* and each restart through setup() resumes from the published weights   *)
(* (dpo.py:156-186, 505-517, 547-736), for every value of the constants.  *)
THEOREM Refinement == Spec => ImplementsProgress
<1>1. Spec => [](IInv /\ BudgetInv)
  BY IInvariant, BudgetInvariant, PTL
<1>2. QED
  BY <1>1, RefinementInit, RefinementStep, PTL
     DEF Spec, ImplementsProgress, Progress!Spec

-----------------------------------------------------------------------------
(* Checkpoints only move forward *)

LEMMA BehindInit == Init => LatestBehindInv
BY DEF Init, LatestBehindInv

LEMMA BehindStep == IInv /\ LatestBehindInv /\ [Next]_vars => LatestBehindInv'
<1> SUFFICES ASSUME IInv, LatestBehindInv, [Next]_vars PROVE LatestBehindInv'
  OBVIOUS
<1>0. totalSteps \in Nat /\ latest.info.total \in Nat
  BY DEF IInv, TypeOK, Ckpts, Infos
<1>1. CASE Start
  BY <1>1 DEF Start, LatestBehindInv, Trained, InStep, Saving
<1>2. CASE EpochBegin
  BY <1>2 DEF EpochBegin, LatestBehindInv, Trained, InStep, Saving
<1>3. CASE TrainStep
  <2>1. pc = "step" /\ ~InStep /\ ~Saving
    BY <1>3 DEF TrainStep, InStep, Saving
  <2>2. InStep' /\ UNCHANGED <<totalSteps, hasLatest, latest>>
    BY <1>3 DEF TrainStep, InStep
  <2>. QED  BY <1>0, <2>1, <2>2 DEF LatestBehindInv, Trained
<1>4. CASE EpochEnd
  BY <1>4 DEF EpochEnd, LatestBehindInv, Trained, InStep, Saving
<1>5. CASE InitTmpCheckpoint
  BY <1>5 DEF InitTmpCheckpoint, LatestBehindInv, Trained, InStep, Saving
<1>6. CASE SavePolicy
  BY <1>6 DEF SavePolicy, LatestBehindInv, Trained, InStep, Saving
<1>7. CASE SaveDataloader
  BY <1>7 DEF SaveDataloader, LatestBehindInv, Trained, InStep, Saving
<1>8. CASE FinalizeCheckpoint
  <2>1. latest'.info.total = totalSteps + 1
    <3>1. staging.info = saveState /\ saveState.total = totalSteps + 1
      BY <1>8 DEF FinalizeCheckpoint, IInv, SavingInv, Saving, InfoMatches
    <3>. QED  BY <1>8, <3>1 DEF FinalizeCheckpoint
  <2>2. pc' = "step_end" /\ UNCHANGED totalSteps
    BY <1>8 DEF FinalizeCheckpoint
  <2>. QED  BY <1>0, <2>1, <2>2 DEF LatestBehindInv, Trained, InStep, Saving
<1>9. CASE StepEnd
  <2>1. pc = "step_end" /\ ~Saving /\ InStep
    BY <1>9 DEF StepEnd, InStep, Saving
  <2>2. totalSteps' = totalSteps + 1 /\ UNCHANGED <<hasLatest, latest>>
    BY <1>9 DEF StepEnd
  <2>3. ~Saving' /\ ~InStep'
    BY <1>9 DEF StepEnd, InStep, Saving
  <2>. QED  BY <1>0, <2>1, <2>2, <2>3 DEF LatestBehindInv, Trained
<1>10. CASE Crash
  BY <1>10 DEF Crash, LatestBehindInv
<1>11. CASE Restart
  <2>1. hasLatest => totalSteps' = latest.info.total
    BY <1>11 DEF Restart, Boot, LoadTrainingInfo, LoadDataloader, LoadPolicy, RestoreCounters
  <2>2. pc' = "start" /\ UNCHANGED <<hasLatest, latest>>
    BY <1>11 DEF Restart
  <2>. QED  BY <1>0, <2>1, <2>2 DEF LatestBehindInv, Trained, InStep, Saving
<1>12. CASE UNCHANGED vars
  BY <1>12 DEF vars, LatestBehindInv, Trained, InStep, Saving
<1>13. QED
  BY <1>1, <1>2, <1>3, <1>4, <1>5, <1>6, <1>7, <1>8, <1>9, <1>10, <1>11,
     <1>12 DEF Next, Orchestrate

(* A finalized checkpoint is only ever replaced by one of a later step,   *)
(* however the crashes fall: a restarted run resumes at the step of the   *)
(* checkpoint it loaded and publishes only after training past it         *)
(* (dpo.py:505-517, 661-663, 680).                                        *)
THEOREM LatestNeverRegressesHolds == Spec => LatestNeverRegresses
<1>1. Spec => [](IInv /\ LatestBehindInv)
  <2>1. Spec => []IInv
    BY IInvariant
  <2>. QED  BY <2>1, BehindInit, BehindStep, PTL DEF Spec
<1>2. IInv /\ LatestBehindInv /\ [Next]_vars
        => [hasLatest => latest'.info.total > latest.info.total]_<<hasLatest, latest>>
  <2> SUFFICES ASSUME IInv, LatestBehindInv, [Next]_vars
               PROVE  [hasLatest => latest'.info.total > latest.info.total]_<<hasLatest, latest>>
    OBVIOUS
  <2>1. CASE FinalizeCheckpoint
    <3>1. staging.info = saveState /\ saveState.total = totalSteps + 1
      BY <2>1 DEF FinalizeCheckpoint, IInv, SavingInv, Saving, InfoMatches
    <3>2. hasLatest => latest.info.total < totalSteps + 1
      BY <2>1 DEF FinalizeCheckpoint, LatestBehindInv, Trained, InStep, Saving
    <3>. QED  BY <2>1, <3>1, <3>2 DEF FinalizeCheckpoint
  <2>2. CASE ~FinalizeCheckpoint
    BY <2>2 DEF Next, Orchestrate, Start, EpochBegin, TrainStep, EpochEnd,
       InitTmpCheckpoint, SavePolicy, SaveDataloader, StepEnd, Crash,
       Restart, vars
  <2>. QED  BY <2>1, <2>2
<1>. QED  BY <1>1, <1>2, PTL DEF Spec, LatestNeverRegresses

-----------------------------------------------------------------------------
(* The run returns with everything saved *)

\* A step that touches neither the weights nor the latest checkpoint keeps
\* them in sync or out of sync.
LEMMA SyncedUnchanged ==
    ASSUME UNCHANGED <<weights, hasLatest, latest>>
    PROVE  Synced' = Synced
BY DEF Synced, CkptWeights

LEMMA DoneInit == Init => DoneInv
BY DEF Init, DoneInv, Synced, CkptWeights

LEMMA DoneStep == IInv /\ BudgetInv /\ DoneInv /\ [Next]_vars => DoneInv'
<1> SUFFICES ASSUME IInv, BudgetInv, DoneInv, [Next]_vars PROVE DoneInv'
  OBVIOUS
<1>1. CASE Start
  <2>1. pc = "start" /\ pc' = "epoch" /\ UNCHANGED <<weights, hasLatest, latest>>
    BY <1>1 DEF Start
  <2>2. Synced'
    BY <2>1, SyncedUnchanged DEF DoneInv
  <2>. QED  BY <2>1, <2>2 DEF DoneInv
<1>2. CASE EpochBegin
  <2>1. pc = "epoch" /\ UNCHANGED <<weights, hasLatest, latest>>
    BY <1>2 DEF EpochBegin
  <2>2. CASE epoch < MaxNumEpochs /\ totalSteps < MaxNumSteps /\ dl.finished
    <3>1. pc' = "step" /\ dl'.pos = 0
      BY <1>2, <2>2 DEF EpochBegin
    <3>. QED  BY <3>1 DEF DoneInv, BatchAvailable
  <2>3. CASE epoch < MaxNumEpochs /\ totalSteps < MaxNumSteps /\ ~dl.finished
    <3>1. pc' = "step" /\ Synced
      BY <1>2, <2>1, <2>3 DEF EpochBegin, DoneInv
    <3>. QED  BY <2>1, <3>1, SyncedUnchanged DEF DoneInv
  <2>4. CASE ~(epoch < MaxNumEpochs /\ totalSteps < MaxNumSteps)
    <3>1. pc' = "done"
      BY <1>2, <2>4 DEF EpochBegin
    <3>2. CkptEnabled => Synced
      BY <2>1, <2>4 DEF DoneInv
    <3>. QED  BY <2>1, <3>1, <3>2, SyncedUnchanged DEF DoneInv
  <2>. QED  BY <2>2, <2>3, <2>4
<1>3. CASE TrainStep
  <2>1. pc = "step" /\ UNCHANGED <<epoch, step, totalSteps>>
    BY <1>3, TrainStepFacts
  <2>2. pc' = "step_end" => ~(CkptEnabled /\ (IsLastStep \/ timedOut'))
    BY <1>3 DEF TrainStep
  <2>3. IsLastStep' = IsLastStep
    BY <2>1 DEF IsLastStep
  <2>4. pc' \in {"init_tmp", "step_end"}
    BY <1>3, TrainStepFacts
  <2>. QED  BY <2>2, <2>3, <2>4 DEF DoneInv
<1>4. CASE EpochEnd
  <2>1. /\ pc = "step" /\ ~BatchAvailable /\ pc' = "epoch"
        /\ epoch' = epoch + 1 /\ totalSteps' = totalSteps
        /\ UNCHANGED <<weights, hasLatest, latest>>
    BY <1>4 DEF EpochEnd
  <2>2. epoch < MaxNumEpochs /\ totalSteps < MaxNumSteps /\ epoch \in Nat
    BY <2>1 DEF BudgetInv, IInv, TypeOK
  <2>3. CkptEnabled /\ ~(epoch' < MaxNumEpochs /\ totalSteps' < MaxNumSteps)
          => epoch + 1 = MaxNumEpochs
    BY <2>1, <2>2
  <2>4. CkptEnabled /\ epoch + 1 = MaxNumEpochs => Synced
    BY <2>1 DEF DoneInv
  <2>5. dl'.finished
    BY <1>4 DEF EpochEnd, IInv, TypeOK, Dl
  <2>. QED  BY <2>1, <2>3, <2>4, <2>5, SyncedUnchanged DEF DoneInv
<1>5. CASE InitTmpCheckpoint
  BY <1>5 DEF InitTmpCheckpoint, DoneInv
<1>6. CASE SavePolicy
  BY <1>6 DEF SavePolicy, DoneInv
<1>7. CASE SaveDataloader
  BY <1>7 DEF SaveDataloader, DoneInv
<1>8. CASE FinalizeCheckpoint
  <2>1. staging.weights = weights
    BY <1>8 DEF FinalizeCheckpoint, IInv, SavingInv
  <2>2. Synced'
    BY <1>8, <2>1 DEF FinalizeCheckpoint, Synced, CkptWeights
  <2>. QED  BY <1>8, <2>2 DEF FinalizeCheckpoint, DoneInv
<1>9. CASE StepEnd
  <2>1. /\ pc = "step_end"
        /\ UNCHANGED <<epoch, dl, timedOut, weights, hasLatest, latest>>
        /\ step' = step + 1 /\ totalSteps' = totalSteps + 1
    BY <1>9 DEF StepEnd
  <2>2. Synced' = Synced
    BY <2>1, SyncedUnchanged
  <2>3. CASE timedOut \/ totalSteps + 1 >= MaxNumSteps
    <3>1. pc' = "done" /\ (IsLastStep \/ timedOut)
      BY <1>9, <2>3 DEF StepEnd, IsLastStep
    <3>. QED  BY <2>1, <2>2, <3>1 DEF DoneInv
  <2>4. CASE ~(timedOut \/ totalSteps + 1 >= MaxNumSteps)
    <3>1. pc' = "step"
      BY <1>9, <2>4 DEF StepEnd
    <3>2. dl.pos = step + 1
      <4>1. LiveCounters /\ InStep
        BY <2>1 DEF IInv, LiveInv, InStep
      <4>2. ~dl.finished
        BY <2>1, <4>1, Zenon DEF LiveCounters
      <4>. QED  BY <4>1, <4>2 DEF LiveCounters
    <3>3. ~BatchAvailable' /\ epoch' + 1 = MaxNumEpochs => IsLastStep
      <4>1. dl.pos \in 0..StepsPerEpoch /\ step \in Nat
        BY DEF IInv, TypeOK, Dl
      <4>. QED  BY <2>1, <3>2, <4>1 DEF BatchAvailable, IsLastStep
    <3>. QED  BY <2>1, <2>2, <3>1, <3>3 DEF DoneInv
  <2>. QED  BY <2>3, <2>4
<1>10. CASE Crash
  BY <1>10 DEF Crash, DoneInv
<1>11. CASE Restart
  <2>1. weights' = CkptWeights /\ UNCHANGED <<hasLatest, latest>> /\ pc' = "start"
    BY <1>11 DEF Restart, Boot, LoadTrainingInfo, LoadDataloader, LoadPolicy, CkptWeights
  <2>. QED  BY <2>1 DEF DoneInv, Synced, CkptWeights
<1>12. CASE UNCHANGED vars
  BY <1>12, SyncedUnchanged DEF vars, DoneInv, BatchAvailable, IsLastStep
<1>13. QED
  BY <1>1, <1>2, <1>3, <1>4, <1>5, <1>6, <1>7, <1>8, <1>9, <1>10, <1>11,
     <1>12 DEF Next, Orchestrate

(* When the run returns with checkpointing enabled, whether at the end of *)
(* its epochs, at max_num_steps or on the checkpoint timeout, the latest  *)
(* checkpoint holds every batch trained, however the crashes fell         *)
(* (dpo.py:547-550, 573-578, 616-627, 730-733).                          *)
THEOREM DoneSavesAllHolds == Spec => []DoneSavesAll
<1>1. Spec => [](IInv /\ BudgetInv)
  <2>1. Spec => []IInv
    BY IInvariant
  <2>. QED  BY <2>1, BudgetInvariant, PTL
<1>2. Spec => []DoneInv
  BY <1>1, DoneInit, DoneStep, PTL DEF Spec
<1>3. DoneInv => DoneSavesAll
  BY DEF DoneInv, DoneSavesAll, Synced
<1>. QED  BY <1>2, <1>3, PTL
=============================================================================
