\* val_period = 1 with no validation dataset (val_dataset = {}).
CONSTANTS
    ValDatasets = {}
    d1 = d1
    StepsPerEpoch = 2
    MaxNumEpochs = 1
    MaxNumSteps = 2
    ValPeriod = 1
    ValAtStart = FALSE
    SavePeriod = 1
    CkptEnabled = TRUE
    GlobalBatchSize = 1
    ToksPerBatch = 1
    MaxCrashes = 0
SPECIFICATION Spec
CHECK_DEADLOCK FALSE
INVARIANT NoValDataIsFatal
