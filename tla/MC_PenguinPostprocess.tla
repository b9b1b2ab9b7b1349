------------------------- MODULE MC_PenguinPostprocess -------------------------
EXTENDS PenguinPostprocess

CONSTANTS noGen

\* Two token ids: prompts that extend, repeat or contradict earlier turns.
MCTokens == {1, 2}
=============================================================================
