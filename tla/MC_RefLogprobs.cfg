\* Datasets of up to 5 examples, batch sizes 1-3, micro-batch sizes 1-2,
\* data-parallel sizes 1-2: a batch size of 3 against a shard of 2 or 4
\* examples reaches both the padded validation tail and the training
\* assertion, and 5 examples leave a partial tail for every batch size
\* above 1.
CONSTANTS
    MaxSamples = 5
    BatchSizes = {1, 2, 3}
    MicroSizes = {1, 2}
    DpSizes = {1, 2}
    SeqLen = 3
SPECIFICATION Spec
CHECK_DEADLOCK FALSE
INVARIANTS
    TypeOK
    PartialOnlyFromConfig
