\* checkpointing.enabled = false while the timeout checker may still ask
\* for a save: the run returns on the timeout without saving.
CONSTANTS
    d1 = d1
    ValDatasets <- MCValDatasets
    StepsPerEpoch = 2
    MaxNumEpochs = 2
    MaxNumSteps = 4
    ValPeriod = 0
    ValAtStart = FALSE
    SavePeriod = 1
    CkptEnabled = FALSE
    GlobalBatchSize = 1
    ToksPerBatch = 1
    MaxCrashes = 0
SPECIFICATION Spec
CHECK_DEADLOCK FALSE
INVARIANT TimeoutStopSaves
