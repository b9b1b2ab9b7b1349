----------------------------- MODULE MC_DPOTrain -----------------------------
(* Small instances of DPOTrain for TLC. *)
EXTENDS DPOTrain

CONSTANTS d1

\* One validation dataset: all datasets are validated in the same call, so
\* a second one behaves identically.
MCValDatasets == {d1}
=============================================================================
