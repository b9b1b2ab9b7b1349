\* Two datasets of up to three batches each, val_batches = 2: the break
\* and the exhaustion of the loop both happen, and batches without
\* metrics, without valid samples and with them are mixed.
CONSTANTS
    d1 = d1
    d2 = d2
    ValDatasets <- MCValDatasets
    MicroBatches <- MCMicroBatches
    ValBatches = 2
    MaxValBatches = 3
    NaN = NaN
    NoResult = NoResult
SPECIFICATION Spec
CHECK_DEADLOCK FALSE
INVARIANTS
    AggregationCorrect
