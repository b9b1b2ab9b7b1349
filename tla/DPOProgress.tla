------------------------------ MODULE DPOProgress ------------------------------
(***************************************************************************)
(* What the DPO training loop promises about its progress, whatever the   *)
(* checkpoint mechanics (spec sections 1, 4.4, 4.5): the live run trains  *)
(* on the batches of the data order one after the other, within the      *)
(* epoch and step budget; a checkpoint publishes exactly what the live    *)
(* run has trained so far; a crash loses the live run, and a restart     *)
(* resumes from the published progress.                                   *)
(***************************************************************************)
EXTENDS Naturals, Sequences

CONSTANTS
    StepsPerEpoch,  \* batches per epoch
    MaxNumEpochs,   \* epochs of data the run may train on
    MaxNumSteps     \* training steps the run may take

VARIABLES
    trained,  \* the batches the live run's weights were trained on
    durable,  \* the batches the published progress was trained on
    up        \* a live run exists

avars == <<trained, durable, up>>

\* The batches of the data order: <<epoch, position in the epoch>>.
Batches == (0..(MaxNumEpochs - 1)) \X (0..(StepsPerEpoch - 1))

Init ==
    /\ trained = <<>>
    /\ durable = <<>>
    /\ up = TRUE

\* The live run trains on the next batch of the data order.
Train ==
    /\ up
    /\ Len(trained) < MaxNumSteps
    /\ \E b \in Batches :
          /\ b[1] * StepsPerEpoch + b[2] = Len(trained)
          /\ trained' = Append(trained, b)
    /\ UNCHANGED <<durable, up>>

\* The live run's progress is published.
Publish ==
    /\ up
    /\ durable' = trained
    /\ UNCHANGED <<trained, up>>

\* The live run is lost.
Crash ==
    /\ up
    /\ up' = FALSE
    /\ UNCHANGED <<trained, durable>>

\* A new run starts from the published progress.
Restart ==
    /\ ~up
    /\ trained' = durable
    /\ up' = TRUE
    /\ UNCHANGED durable

Next == Train \/ Publish \/ Crash \/ Restart

Spec == Init /\ [][Next]_avars
=============================================================================
