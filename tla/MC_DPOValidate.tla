---------------------------- MODULE MC_DPOValidate ----------------------------
EXTENDS DPOValidate

CONSTANTS d1, d2

\* Two validation datasets.
MCValDatasets == {d1, d2}

\* A micro-batch with no valid sample and one with two.
MCMicroBatches == {[samples |-> 0, loss |-> 1], [samples |-> 2, loss |-> 1]}
=============================================================================
