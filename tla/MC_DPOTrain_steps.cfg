\* max_num_steps = 4 binds in the middle of the second epoch of three
\* batches; save_period 3, validation every 3 steps, no validation at start.
CONSTANTS
    d1 = d1
    ValDatasets <- MCValDatasets
    StepsPerEpoch = 3
    MaxNumEpochs = 3
    MaxNumSteps = 4
    ValPeriod = 3
    ValAtStart = FALSE
    SavePeriod = 3
    CkptEnabled = TRUE
    GlobalBatchSize = 2
    ToksPerBatch = 3
    MaxCrashes = 2
SPECIFICATION Spec
CHECK_DEADLOCK FALSE
INVARIANTS
    TrainingWithinBudget
    DoneSavesAll
