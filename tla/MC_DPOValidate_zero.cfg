\* One validation pass over two datasets of up to three batches, some of
\* whose batches may hold micro-batches without any valid sample.
CONSTANTS
    d1 = d1
    d2 = d2
    ValDatasets <- MCValDatasets
    MicroBatches <- MCMicroBatches
    ValBatches = 2
    MaxValBatches = 3
    NaN = NaN
    NoResult = NoResult
SPECIFICATION Spec
CHECK_DEADLOCK FALSE
INVARIANT
    ZeroSamplesReportZeros
