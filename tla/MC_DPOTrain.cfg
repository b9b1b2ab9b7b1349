\* Two epochs of three batches; max_num_steps does not bind, so the run
\* ends on the last step of the last epoch, which is not a multiple of
\* save_period. Validation every 2 steps, up to two crashes.
CONSTANTS
    d1 = d1
    ValDatasets <- MCValDatasets
    StepsPerEpoch = 3
    MaxNumEpochs = 2
    MaxNumSteps = 7
    ValPeriod = 2
    ValAtStart = TRUE
    SavePeriod = 4
    CkptEnabled = TRUE
    GlobalBatchSize = 2
    ToksPerBatch = 3
    MaxCrashes = 2
SPECIFICATION Spec
CHECK_DEADLOCK FALSE
INVARIANTS
    TypeOK
    ResumeExactlyOnce
    CheckpointConsistent
    NoStaleValMetrics
    TrainingWithinBudget
    DoneSavesAll
    IInv
PROPERTIES
    LatestNeverRegresses
    RunCompletes
    ImplementsProgress
