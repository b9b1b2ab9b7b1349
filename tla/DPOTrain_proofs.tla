--------------------------- MODULE DPOTrain_proofs ---------------------------
(***************************************************************************)
(* Machine-checked proofs about DPOTrain, for every value of the constants *)
(* allowed by ConstAssumption.                                             *)
(***************************************************************************)
EXTENDS DPOTrain, SequenceTheorems, TLAPS

USE ConstAssumption

-----------------------------------------------------------------------------
(* Type correctness *)

\* The restored or default save state, cursor and weights are well typed.
LEMMA BootType ==
    ASSUME TypeOK, Boot
    PROVE  /\ saveState' \in Infos
           /\ epoch' \in Nat /\ step' \in Nat
           /\ totalSteps' \in Nat /\ validToks' \in Nat
           /\ dl' \in Dl
           /\ weights' \in Seq(BatchIds)
<1>1. DefaultSaveState \in Infos
  BY DEF DefaultSaveState, Infos, ValKeys, Stamps, NoStamp
<1>2. saveState' \in Infos
  BY <1>1 DEF TypeOK, Boot, LoadTrainingInfo, LoadDataloader, LoadPolicy, Ckpts
<1>3. dl' \in Dl
  BY DEF TypeOK, Boot, LoadTrainingInfo, LoadDataloader, LoadPolicy, Ckpts, Cursors, Dl
<1>4. weights' \in Seq(BatchIds)
  BY DEF TypeOK, Boot, LoadTrainingInfo, LoadDataloader, LoadPolicy, Ckpts
<1>5. QED
  BY <1>2, <1>3, <1>4 DEF Boot, RestoreCounters, Infos

\* The save state of a checkpointing step is well typed.
LEMMA SaveStateType ==
    ASSUME TypeOK
    PROVE  CheckpointSaveState(StepValidation) \in Infos
<1>1. StepValidation \in [ValDatasets -> Stamps]
  BY DEF StepValidation, NoValidation, Stamps, NoStamp, TypeOK
<1>2. PruneStale(saveState.val, StepValidation) \in ValKeys
  BY <1>1 DEF PruneStale, ValKeys, TypeOK, Infos, Stamps, NoStamp
<1>3. MergeMetrics(PruneStale(saveState.val, StepValidation), StepValidation) \in ValKeys
  BY <1>1, <1>2 DEF MergeMetrics, ValKeys
<1>4. (step + 1) % StepsPerEpoch \in Nat
  BY DEF TypeOK
<1>5. QED
  BY <1>3, <1>4 DEF CheckpointSaveState, Infos, TypeOK

\* A dataloader record is determined by its three fields.
LEMMA DlFields ==
    ASSUME NEW r \in Dl
    PROVE  r = [epoch |-> r.epoch, pos |-> r.pos, finished |-> r.finished]
BY DEF Dl

\* What a training step does to everything but the save state.
LEMMA TrainStepFacts ==
    ASSUME TrainStep
    PROVE  /\ pc = "step" /\ dl.pos < StepsPerEpoch
           /\ dl' = [dl EXCEPT !.pos = @ + 1]
           /\ weights' = Append(weights, <<dl.epoch, dl.pos>>)
           /\ valMetrics' = StepValidation
           /\ validToks' = validToks + ToksPerBatch
           /\ pc' \in {"init_tmp", "step_end"}
           /\ UNCHANGED <<epoch, step, totalSteps, staging, hasLatest, latest,
                          crashes>>
BY DEF TrainStep, BatchAvailable

LEMMA TypeInit == Init => TypeOK
<1> SUFFICES ASSUME Init PROVE TypeOK
  OBVIOUS
<1>1. DefaultSaveState \in Infos
  BY DEF DefaultSaveState, Infos, ValKeys, Stamps, NoStamp
<1>2. NoCkpt \in Ckpts
  BY <1>1 DEF NoCkpt, Ckpts, FreshCursor, Cursors
<1>3. valMetrics \in [ValDatasets -> Stamps]
  BY DEF Init, NoValidation, Stamps, NoStamp
<1>4. dl \in Dl
  BY DEF Init, Dl
<1>5. weights \in Seq(BatchIds)
  BY DEF Init
<1>6. crashes \in 0..MaxCrashes
  BY DEF Init
<1>7. QED
  BY <1>1, <1>2, <1>3, <1>4, <1>5, <1>6 DEF Init, TypeOK, Labels

LEMMA TypeStep == TypeOK /\ [Next]_vars => TypeOK'
<1> SUFFICES ASSUME TypeOK, [Next]_vars PROVE TypeOK'
  OBVIOUS
<1>1. CASE Start
  BY <1>1 DEF Start, TypeOK, Labels, Stamps
<1>2. CASE EpochBegin
  <2>1. dl' \in Dl
    <3>1. CASE epoch < MaxNumEpochs /\ totalSteps < MaxNumSteps /\ dl.finished
      <4>1. dl' = [epoch |-> dl.epoch + 1, pos |-> 0, finished |-> FALSE]
        BY <1>2, <3>1 DEF EpochBegin
      <4>2. QED
        BY <4>1 DEF TypeOK, Dl
    <3>2. CASE ~(epoch < MaxNumEpochs /\ totalSteps < MaxNumSteps /\ dl.finished)
      <4>1. dl' = dl
        BY <1>2, <3>2 DEF EpochBegin
      <4>2. QED
        BY <4>1 DEF TypeOK
    <3>3. QED
      BY <3>1, <3>2
  <2>2. pc' \in Labels
    BY <1>2 DEF EpochBegin, Labels
  <2>3. QED
    BY <1>2, <2>1, <2>2 DEF EpochBegin, TypeOK
<1>3. CASE TrainStep
  <2>1. StepValidation \in [ValDatasets -> Stamps]
    BY DEF StepValidation, NoValidation, Stamps, NoStamp, TypeOK
  <2>2. saveState' \in Infos
    <3>1. PICK checkSave \in BOOLEAN :
            IF CkptEnabled
               /\ (IsLastStep \/ (totalSteps + 1) % SavePeriod = 0 \/ checkSave)
              THEN saveState' = CheckpointSaveState(StepValidation)
              ELSE saveState' = [saveState EXCEPT !.consumed = @ + GlobalBatchSize]
      BY <1>3 DEF TrainStep
    <3>2. [saveState EXCEPT !.consumed = @ + GlobalBatchSize] \in Infos
      <4>1. saveState.consumed + GlobalBatchSize \in Nat
        BY DEF TypeOK, Infos
      <4>2. QED
        BY <4>1, Zenon DEF TypeOK, Infos
    <3>3. QED
      BY <3>1, <3>2, SaveStateType
  <2>3. weights' \in Seq(BatchIds)
    <3>1. weights' = Append(weights, <<dl.epoch, dl.pos>>)
      BY <1>3, TrainStepFacts
    <3>2. <<dl.epoch, dl.pos>> \in BatchIds /\ weights \in Seq(BatchIds)
      BY DEF TypeOK, Dl, BatchIds
    <3>. QED  BY <3>1, <3>2, AppendProperties
  <2>4. dl' \in Dl
    <3>1. dl' = [epoch |-> dl.epoch, pos |-> dl.pos + 1, finished |-> dl.finished]
      <4>1. dl' = [dl EXCEPT !.pos = @ + 1]
        BY <1>3, TrainStepFacts
      <4>2. dl = [epoch |-> dl.epoch, pos |-> dl.pos, finished |-> dl.finished]
        BY DlFields DEF TypeOK
      <4>. QED  BY <4>1, <4>2
    <3>2. dl.pos + 1 \in 0..StepsPerEpoch
      <4>1. dl.pos < StepsPerEpoch
        BY <1>3, TrainStepFacts
      <4>. QED  BY <4>1 DEF TypeOK, Dl
    <3>3. QED
      BY <3>1, <3>2 DEF TypeOK, Dl
  <2>5. QED
    BY <1>3, <2>1, <2>2, <2>3, <2>4 DEF TrainStep, TypeOK, Labels
<1>4. CASE EpochEnd
  <2>1. dl' = [dl EXCEPT !.finished = TRUE]
    BY <1>4 DEF EpochEnd
  <2>2. dl' \in Dl
    BY <2>1, Zenon DEF TypeOK, Dl
  <2>3. QED
    BY <1>4, <2>2 DEF EpochEnd, TypeOK, Labels
<1>5. CASE InitTmpCheckpoint
  BY <1>5 DEF InitTmpCheckpoint, TypeOK, Labels, Ckpts
<1>6. CASE SavePolicy
  BY <1>6 DEF SavePolicy, TypeOK, Labels, Ckpts
<1>7. CASE SaveDataloader
  BY <1>7 DEF SaveDataloader, TypeOK, Labels, Ckpts, Cursors, Dl
<1>8. CASE FinalizeCheckpoint
  BY <1>8 DEF FinalizeCheckpoint, TypeOK, Labels
<1>9. CASE StepEnd
  BY <1>9 DEF StepEnd, TypeOK, Labels
<1>10. CASE Restart
  BY <1>10, BootType DEF Restart, TypeOK, Labels, NoValidation, Stamps, NoStamp
<1>11. CASE Crash
  BY <1>11 DEF Crash, TypeOK, Labels
<1>12. CASE UNCHANGED vars
  BY <1>12 DEF vars, TypeOK
<1>13. QED
  BY <1>1, <1>2, <1>3, <1>4, <1>5, <1>6, <1>7, <1>8, <1>9, <1>10, <1>11,
     <1>12 DEF Next, Orchestrate

(* Every reachable state is well typed (TypeOK), whatever the constants. *)
THEOREM TypeCorrect == Spec => []TypeOK
BY TypeInit, TypeStep, PTL DEF Spec

-----------------------------------------------------------------------------
(* Arithmetic and sequence facts *)

\* A cursor position of an epoch, reduced modulo the epoch length.
LEMMA PosMod ==
    ASSUME NEW p \in 0..StepsPerEpoch
    PROVE  p % StepsPerEpoch = IF p < StepsPerEpoch THEN p ELSE 0
BY DEF ExactlyOnce

\* Training on the next batch of the data order keeps the weights'
\* history exactly-once.
LEMMA ExactlyOnceAppend ==
    ASSUME NEW w \in Seq(BatchIds), ExactlyOnce(w),
           NEW e \in Nat, NEW p \in Nat, p < StepsPerEpoch,
           e * StepsPerEpoch + p = Len(w)
    PROVE  ExactlyOnce(Append(w, <<e, p>>))
<1> DEFINE w2 == Append(w, <<e, p>>)
<1>1. Len(w2) = Len(w) + 1
  OBVIOUS
<1>2. \A k \in 1..Len(w) : w2[k] = w[k]
  OBVIOUS
<1>3. w2[Len(w) + 1] = <<e, p>>
  OBVIOUS
<1>4. QED
  BY <1>1, <1>2, <1>3 DEF ExactlyOnce

-----------------------------------------------------------------------------
(* The inductive invariant *)

LEMMA IInvInit == Init => IInv
<1> SUFFICES ASSUME Init PROVE IInv
  OBVIOUS
<1>1. TypeOK
  BY TypeInit
<1>2. LiveInv
  BY DEF Init, LiveInv, LiveCounters, ExactlyOnce, Trained, InStep,
         DefaultSaveState
<1>3. SavingInv
  BY DEF Init, SavingInv, Saving
<1>4. LatestInv
  BY DEF Init, LatestInv
<1>5. QED
  BY <1>1, <1>2, <1>3, <1>4 DEF IInv

\* Actions that touch neither the checkpoint store nor the tmp directory.
LEMMA LatestUnchanged ==
    ASSUME LatestInv, UNCHANGED <<hasLatest, latest>>
    PROVE  LatestInv'
BY DEF LatestInv, InfoMatches, ExactlyOnce

LEMMA IInvStep == IInv /\ [Next]_vars => IInv'
<1> SUFFICES ASSUME IInv, [Next]_vars PROVE IInv'
  OBVIOUS
<1> USE DEF IInv
<1>0. TypeOK'
  BY TypeStep
<1>1. CASE Start
  <2>1. LiveInv'
    BY <1>1 DEF Start, LiveInv, LiveCounters, Trained, InStep, TypeOK
  <2>2. SavingInv'
    BY <1>1 DEF Start, SavingInv, Saving
  <2>3. QED
    BY <1>0, <1>1, <2>1, <2>2, LatestUnchanged DEF Start
<1>2. CASE EpochBegin
  <2>1. LiveInv'
    <3>1. CASE epoch < MaxNumEpochs /\ totalSteps < MaxNumSteps /\ dl.finished
      <4>1. dl' = [epoch |-> dl.epoch + 1, pos |-> 0, finished |-> FALSE]
        BY <1>2, <3>1 DEF EpochBegin
      <4>2. (dl.epoch + 1) * StepsPerEpoch = dl.epoch * StepsPerEpoch + StepsPerEpoch
        BY DEF TypeOK, Dl
      <4>3. QED
        BY <1>2, <3>1, <4>1, <4>2 DEF EpochBegin, LiveInv, LiveCounters,
           Trained, InStep, TypeOK, Dl
    <3>2. CASE epoch < MaxNumEpochs /\ totalSteps < MaxNumSteps /\ ~dl.finished
      BY <1>2, <3>2 DEF EpochBegin, LiveInv, LiveCounters, Trained, InStep
    <3>3. CASE ~(epoch < MaxNumEpochs /\ totalSteps < MaxNumSteps)
      BY <1>2, <3>3 DEF EpochBegin, LiveInv, LiveCounters, Trained, InStep
    <3>4. QED
      BY <3>1, <3>2, <3>3
  <2>2. SavingInv'
    BY <1>2 DEF EpochBegin, SavingInv, Saving
  <2>3. QED
    BY <1>0, <1>2, <2>1, <2>2, LatestUnchanged DEF EpochBegin
<1>3. CASE TrainStep
  <2>0. LiveCounters /\ pc = "step" /\ ~InStep
    BY <1>3 DEF TrainStep, LiveInv, InStep
  <2>1. ~dl.finished /\ epoch = dl.epoch /\ dl.pos = step
    <3>1. ~dl.finished
      BY <2>0, Zenon DEF LiveCounters
    <3>2. \/ dl.pos = step + (IF InStep THEN 1 ELSE 0)
          \/ ~InStep /\ step = 0 /\ dl.pos = StepsPerEpoch
      BY <2>0, <3>1 DEF LiveCounters
    <3>3. epoch = dl.epoch
      BY <2>0, <3>1 DEF LiveCounters
    <3>4. dl.pos < StepsPerEpoch
      BY <1>3 DEF TrainStep, BatchAvailable
    <3>5. QED
      BY <2>0, <3>1, <3>2, <3>3, <3>4 DEF TypeOK
  <2>2. dl'.epoch = dl.epoch /\ dl'.pos = dl.pos + 1 /\ ~dl'.finished
    BY <1>3, <2>1 DEF TrainStep, TypeOK, Dl
  <2>3. InStep' /\ Trained' = totalSteps + 1 /\ Trained = totalSteps
    BY <1>3, <2>0 DEF TrainStep, InStep, Trained
  <2>4. /\ Len(weights) = totalSteps
        /\ dl.epoch * StepsPerEpoch + dl.pos = totalSteps
        /\ saveState.consumed = totalSteps * GlobalBatchSize
        /\ validToks = totalSteps * ToksPerBatch
    BY <2>0, <2>3 DEF LiveCounters
  <2>5. weights' = Append(weights, <<dl.epoch, dl.pos>>)
    BY <1>3, TrainStepFacts
  <2>6. /\ weights \in Seq(BatchIds)
        /\ dl.epoch \in Nat /\ dl.pos \in Nat
        /\ dl.pos < StepsPerEpoch
    BY <1>3, TrainStepFacts DEF TypeOK, Dl
  <2>7. ExactlyOnce(weights')
    <3>1. ExactlyOnce(weights)
      BY DEF LiveInv
    <3>2. QED
      BY <2>4, <2>5, <2>6, <3>1, ExactlyOnceAppend
  <2>8. Len(weights') = totalSteps + 1
    BY <2>4, <2>5, <2>6, AppendProperties DEF BatchIds
  <2>9. saveState'.consumed = (totalSteps + 1) * GlobalBatchSize
    <3>1. PICK checkSave \in BOOLEAN :
            IF CkptEnabled
               /\ (IsLastStep \/ (totalSteps + 1) % SavePeriod = 0 \/ checkSave)
              THEN saveState' = CheckpointSaveState(StepValidation)
              ELSE saveState' = [saveState EXCEPT !.consumed = @ + GlobalBatchSize]
      BY <1>3 DEF TrainStep
    <3>2. saveState.consumed + GlobalBatchSize = (totalSteps + 1) * GlobalBatchSize
      BY <2>4 DEF TypeOK
    <3>3. CASE CkptEnabled
                 /\ (IsLastStep \/ (totalSteps + 1) % SavePeriod = 0 \/ checkSave)
      BY <3>1, <3>2, <3>3 DEF CheckpointSaveState
    <3>4. CASE ~(CkptEnabled
                 /\ (IsLastStep \/ (totalSteps + 1) % SavePeriod = 0 \/ checkSave))
      BY <3>1, <3>2, <3>4, Zenon DEF TypeOK, Infos
    <3>5. QED
      BY <3>3, <3>4
  <2>10. validToks' = (totalSteps + 1) * ToksPerBatch
    BY <1>3, <2>4 DEF TrainStep, TypeOK
  <2>11. LiveInv'
    <3>1. pc' # "down" /\ InStep' /\ Trained' = totalSteps + 1
      BY <1>3, <2>3 DEF TrainStep
    <3>2. UNCHANGED <<epoch, step>>
      BY <1>3 DEF TrainStep
    <3>3. dl'.pos = step' + 1 /\ epoch' = dl'.epoch /\ ~dl'.finished
      BY <2>1, <2>2, <3>2
    <3>4. dl'.epoch * StepsPerEpoch + dl'.pos = totalSteps + 1
      BY <2>1, <2>2, <2>4 DEF TypeOK, Dl
    <3>5. QED
      BY <3>1, <3>3, <3>4, <2>7, <2>8, <2>9, <2>10 DEF LiveInv, LiveCounters
  <2>12. SavingInv'
    <3>1. CASE pc' = "init_tmp"
      <4>1. saveState' = CheckpointSaveState(StepValidation)
        BY <1>3, <3>1 DEF TrainStep
      <4>2. \A d \in ValDatasets :
              saveState'.val[d].other = OwnValKey(totalSteps + 1)
        BY <4>1 DEF CheckpointSaveState, MergeMetrics, PruneStale,
           StepValidation, NoValidation, OwnValKey, TypeOK, Infos, ValKeys
      <4>3. /\ saveState'.total = totalSteps + 1
            /\ dl'.epoch * StepsPerEpoch + dl'.pos = totalSteps + 1
            /\ saveState'.epoch = dl'.epoch
            /\ saveState'.step = dl'.pos % StepsPerEpoch
            /\ saveState'.consumed = (totalSteps + 1) * GlobalBatchSize
            /\ saveState'.tokens = (totalSteps + 1) * ToksPerBatch
        BY <4>1, <2>1, <2>2, <2>4, <2>9, <2>10 DEF CheckpointSaveState, TypeOK
      <4>4. InfoMatches(saveState', totalSteps + 1, dl'.epoch, dl'.pos)
        BY <4>2, <4>3 DEF InfoMatches
      <4>5. QED
        BY <1>3, <3>1, <2>2, <4>4 DEF TrainStep, SavingInv, Saving
    <3>2. CASE pc' = "step_end"
      BY <1>3, <3>2 DEF TrainStep, SavingInv, Saving
    <3>3. QED
      BY <1>3, <3>1, <3>2 DEF TrainStep
  <2>13. QED
    BY <1>0, <1>3, <2>11, <2>12, LatestUnchanged DEF TrainStep
<1>4. CASE EpochEnd
  <2>0. LiveCounters /\ pc = "step" /\ ~InStep
    BY <1>4 DEF EpochEnd, LiveInv, InStep
  <2>1. ~dl.finished /\ epoch = dl.epoch /\ dl.pos = StepsPerEpoch
    BY <1>4, <2>0 DEF EpochEnd, BatchAvailable, LiveCounters, TypeOK, Dl
  <2>2. dl'.epoch = dl.epoch /\ dl'.pos = dl.pos /\ dl'.finished
    BY <1>4 DEF EpochEnd, TypeOK, Dl
  <2>3. LiveInv'
    BY <1>4, <2>0, <2>1, <2>2 DEF EpochEnd, LiveInv, LiveCounters, Trained,
       InStep
  <2>4. SavingInv'
    BY <1>4 DEF EpochEnd, SavingInv, Saving
  <2>5. QED
    BY <1>0, <1>4, <2>3, <2>4, LatestUnchanged DEF EpochEnd
<1>5. CASE InitTmpCheckpoint
  <2>1. LiveInv'
    BY <1>5 DEF InitTmpCheckpoint, LiveInv, LiveCounters, Trained, InStep
  <2>2. SavingInv'
    BY <1>5 DEF InitTmpCheckpoint, SavingInv, Saving, InfoMatches, TypeOK, Ckpts
  <2>3. QED
    BY <1>0, <1>5, <2>1, <2>2, LatestUnchanged DEF InitTmpCheckpoint
<1>6. CASE SavePolicy
  <2>1. LiveInv'
    BY <1>6 DEF SavePolicy, LiveInv, LiveCounters, Trained, InStep
  <2>2. SavingInv'
    BY <1>6 DEF SavePolicy, SavingInv, Saving, InfoMatches, TypeOK, Ckpts
  <2>3. QED
    BY <1>0, <1>6, <2>1, <2>2, LatestUnchanged DEF SavePolicy
<1>7. CASE SaveDataloader
  <2>1. LiveInv'
    BY <1>7 DEF SaveDataloader, LiveInv, LiveCounters, Trained, InStep
  <2>2. SavingInv'
    BY <1>7 DEF SaveDataloader, SavingInv, Saving, InfoMatches, TypeOK, Ckpts
  <2>3. QED
    BY <1>0, <1>7, <2>1, <2>2, LatestUnchanged DEF SaveDataloader
<1>8. CASE FinalizeCheckpoint
  <2>1. LiveInv'
    BY <1>8 DEF FinalizeCheckpoint, LiveInv, LiveCounters, Trained, InStep
  <2>2. SavingInv'
    BY <1>8 DEF FinalizeCheckpoint, SavingInv, Saving
  <2>3. LatestInv'
    <3>1. latest' = staging /\ hasLatest'
      BY <1>8 DEF FinalizeCheckpoint
    <3>2. /\ staging.info = saveState
          /\ staging.weights = weights
          /\ staging.cursor = [epoch |-> dl.epoch, pos |-> dl.pos]
          /\ InfoMatches(saveState, totalSteps + 1, dl.epoch, dl.pos)
      BY <1>8 DEF FinalizeCheckpoint, SavingInv, Saving
    <3>3. Len(weights) = totalSteps + 1 /\ ExactlyOnce(weights)
      BY <1>8 DEF FinalizeCheckpoint, LiveInv, LiveCounters, Trained, InStep
    <3>4. QED
      BY <3>1, <3>2, <3>3 DEF LatestInv
  <2>4. QED
    BY <1>0, <2>1, <2>2, <2>3
<1>9. CASE StepEnd
  <2>1. LiveInv'
    BY <1>9 DEF StepEnd, LiveInv, LiveCounters, Trained, InStep
  <2>2. SavingInv'
    BY <1>9 DEF StepEnd, SavingInv, Saving
  <2>3. QED
    BY <1>0, <1>9, <2>1, <2>2, LatestUnchanged DEF StepEnd
<1>10. CASE Crash
  <2>1. LiveInv'
    BY <1>10 DEF Crash, LiveInv
  <2>2. SavingInv'
    BY <1>10 DEF Crash, SavingInv, Saving
  <2>3. QED
    BY <1>0, <1>10, <2>1, <2>2, LatestUnchanged DEF Crash
<1>11. CASE Restart
  <2>1. LiveInv'
    <3>1. CASE hasLatest
      <4>1. /\ saveState' = latest.info
            /\ dl' = [epoch |-> latest.cursor.epoch, pos |-> latest.cursor.pos,
                      finished |-> FALSE]
            /\ weights' = latest.weights
        BY <1>11, <3>1 DEF Restart, Boot, LoadTrainingInfo, LoadDataloader, LoadPolicy
      <4>2. InfoMatches(latest.info, Len(latest.weights),
                        latest.cursor.epoch, latest.cursor.pos)
            /\ ExactlyOnce(latest.weights)
        BY <3>1 DEF LatestInv
      <4>3. latest.cursor.pos % StepsPerEpoch
              = IF latest.cursor.pos < StepsPerEpoch THEN latest.cursor.pos ELSE 0
        BY PosMod DEF TypeOK, Ckpts, Cursors
      <4>4. QED
        BY <1>11, <4>1, <4>2, <4>3 DEF Restart, Boot, RestoreCounters,
           InfoMatches, LiveInv, LiveCounters, Trained, InStep, TypeOK, Ckpts,
           Cursors
    <3>2. CASE ~hasLatest
      BY <1>11, <3>2 DEF Restart, Boot, LoadTrainingInfo, LoadDataloader, LoadPolicy, RestoreCounters,
         DefaultSaveState, LiveInv, LiveCounters, Trained, InStep, ExactlyOnce
    <3>3. QED
      BY <3>1, <3>2
  <2>2. SavingInv'
    BY <1>11 DEF Restart, SavingInv, Saving
  <2>3. QED
    BY <1>0, <1>11, <2>1, <2>2, LatestUnchanged DEF Restart
<1>12. CASE UNCHANGED vars
  <2>1. LiveInv' /\ SavingInv'
    BY <1>12 DEF vars, LiveInv, LiveCounters, Trained, InStep, SavingInv,
       Saving, InfoMatches, ExactlyOnce
  <2>2. QED
    BY <1>0, <1>12, <2>1, LatestUnchanged DEF vars
<1>13. QED
  BY <1>1, <1>2, <1>3, <1>4, <1>5, <1>6, <1>7, <1>8, <1>9, <1>10, <1>11,
     <1>12 DEF Next, Orchestrate

(* IInv holds in every reachable state. *)
THEOREM IInvariant == Spec => []IInv
BY IInvInit, IInvStep, PTL DEF Spec

-----------------------------------------------------------------------------
(* The checked safety properties, for every value of the constants *)

(* The latest finalized checkpoint is always self-consistent: weights,    *)
(* dataloader cursor and training info were taken at the same step, even  *)
(* though a crash may interrupt the three writes (dpo.py:611-680).         *)
THEOREM CheckpointConsistentHolds == Spec => []CheckpointConsistent
<1>1. IInv => CheckpointConsistent
  BY DEF IInv, LatestInv, InfoMatches, CheckpointConsistent
<1>2. QED
  BY <1>1, IInvariant, PTL

(* Across crashes and restarts, the policy is trained on each batch of    *)
(* the data order exactly once and in order (dpo.py:182-186, 505-517).    *)
THEOREM ResumeExactlyOnceHolds == Spec => []ResumeExactlyOnce
<1>1. IInv => ResumeExactlyOnce
  BY DEF IInv, LiveInv, ResumeExactlyOnce
<1>2. QED
  BY <1>1, IInvariant, PTL

(* A checkpoint carries exactly the validation metrics of its own step:    *)
(* none of an earlier validation, and those of its step exactly when the  *)
(* step was validated (dpo.py:558, 580-597, 632-657).                     *)
THEOREM NoStaleValMetricsHolds == Spec => []NoStaleValMetrics
<1>1. IInv => NoStaleValMetrics
  BY DEF IInv, LatestInv, InfoMatches, NoStaleValMetrics
<1>2. QED
  BY <1>1, IInvariant, PTL
=============================================================================
