-------------------------- MODULE PenguinPostprocess --------------------------
(***************************************************************************)
(* Penguin._postprocess_penguin_to_nemo_rl_result of                      *)
(* nemo_rl/environments/penguin.py: the output items of one Penguin       *)
(* rollout are turned into a NeMo RL message log, one user message (the   *)
(* new prompt tokens) and one assistant message (the generated tokens)    *)
(* per item that carries generation token ids, after asserting that each  *)
(* item's prompt continues the tokens seen so far.                        *)
(*                                                                         *)
(* Token ids are small integers; an item without generation_token_ids is   *)
(* NoGen.  Contents are "" in the code and left out; log-probabilities    *)
(* follow the generated tokens and are left out.                          *)
(***************************************************************************)
EXTENDS Naturals, Sequences

CONSTANTS
    Tokens,       \* token ids
    MaxItems,     \* bound on the output items of one rollout
    MaxPrompt,    \* bound on the prompt_token_ids of one item
    MaxGen,       \* bound on the generation_token_ids of one item
    NoGen         \* an output item without generation_token_ids

ASSUME PenguinAssumption ==
    /\ MaxItems \in Nat /\ MaxPrompt \in Nat /\ MaxGen \in Nat

\* Token sequences of length at most n.
TokSeqs(n) == UNION {[1..k -> Tokens] : k \in 0..n}

\* An output item of penguin_result["response"]["output"].
Items == {NoGen} \cup [prompt : TokSeqs(MaxPrompt), gen : TokSeqs(MaxGen)]

\* The outputs of one rollout.
Outputs == UNION {[1..k -> Items] : k \in 0..MaxItems}

\* Python's s[:n] and s[n:] on a list.
SliceTo(s, n) == SubSeq(s, 1, IF n < Len(s) THEN n ELSE Len(s))
SliceFrom(s, n) == SubSeq(s, n + 1, Len(s))

VARIABLES
    items,     \* penguin_result["response"]["output"]
    i,         \* output items the for loop has taken
    log,       \* nemo_rl_message_log: [role, tokens] records
    seen,      \* seen_token_ids
    inputLog,  \* the returned input_message_log
    pc         \* "loop", "done", or "error" (the AssertionError)

vars == <<items, i, log, seen, inputLog, pc>>

Init ==
    /\ items \in Outputs
    /\ i = 0
    /\ log = <<>>
    /\ seen = <<>>
    /\ inputLog = <<>>
    /\ pc = "loop"

\* An item without generation token ids is skipped (penguin.py:116-117).
SkipItem ==
    /\ pc = "loop"
    /\ i < Len(items)
    /\ items[i + 1] = NoGen
    /\ i' = i + 1
    /\ UNCHANGED <<items, log, seen, inputLog, pc>>

\* Mutant: the user message holds the whole prompt instead of its new part.
UserTokens_WholePrompt(it) == it.prompt

\* prompt_token_ids[len(seen_token_ids):] (penguin.py:131-133).
UserTokens(it) == SliceFrom(it.prompt, Len(seen))

\* The contiguity assertion (penguin.py:119-125).
Contiguous(it) == seen = SliceTo(it.prompt, Len(seen))

\* An item whose prompt continues the seen tokens adds a user and an
\* assistant message, and seen_token_ids is extended by both
\* (penguin.py:127-146).
AppendTurn ==
    /\ pc = "loop"
    /\ i < Len(items)
    /\ items[i + 1] # NoGen
    /\ LET it == items[i + 1] IN
       /\ Contiguous(it)
       /\ log' = log \o << [role |-> "user", tokens |-> UserTokens(it)],
                           [role |-> "assistant", tokens |-> it.gen] >>
       /\ seen' = seen \o UserTokens(it) \o it.gen
    /\ i' = i + 1
    /\ UNCHANGED <<items, inputLog, pc>>

\* An item whose prompt does not continue them raises the AssertionError,
\* which leaves run_rollouts with the results of the whole batch.
NonContiguous ==
    /\ pc = "loop"
    /\ i < Len(items)
    /\ items[i + 1] # NoGen
    /\ ~Contiguous(items[i + 1])
    /\ pc' = "error"
    /\ UNCHANGED <<items, i, log, seen, inputLog>>

\* The loop ends and the result is returned, input_message_log being the
\* first message of the log (penguin.py:148-152).
Finish ==
    /\ pc = "loop"
    /\ i = Len(items)
    /\ inputLog' = SliceTo(log, 1)
    /\ pc' = "done"
    /\ UNCHANGED <<items, i, log, seen>>

Next == SkipItem \/ AppendTurn \/ NonContiguous \/ Finish

Spec == Init /\ [][Next]_vars

-----------------------------------------------------------------------------
(* Properties *)

\* The reference: the items carrying generated tokens, in order; each one's
\* full token sequence; the rollout is contiguous when every such item's
\* prompt starts with the full sequence of the one before.
KeepTurns(s) ==
    LET f[k \in 0..Len(s)] ==
          IF k = 0 THEN <<>>
          ELSE IF s[k] # NoGen THEN Append(f[k - 1], s[k]) ELSE f[k - 1]
    IN  f[Len(s)]
Turns == KeepTurns(items)
FullTokens(it) == it.prompt \o it.gen
IsPrefix(s, t) == Len(s) <= Len(t) /\ SubSeq(t, 1, Len(s)) = s
RolloutContiguous ==
    \A k \in 2..Len(Turns) : IsPrefix(FullTokens(Turns[k - 1]), Turns[k].prompt)

\* The tokens of the messages of a log, read in order.
LogTokens(l) ==
    LET f[k \in 0..Len(l)] == IF k = 0 THEN <<>> ELSE f[k - 1] \o l[k].tokens
    IN  f[Len(l)]

(* The message log of a rollout is exact: the postprocessing fails only on *)
(* a rollout whose turns do not extend each other, and otherwise the      *)
(* tokens of the log, read in order, are the last turn's prompt and        *)
(* generation, every assistant message holds exactly one turn's generated *)
(* tokens, and input_message_log is the first turn's prompt                *)
(* (penguin.py:107-152).                                                   *)
PostprocessCorrect ==
    /\ pc = "error" => ~RolloutContiguous
    /\ pc = "done" =>
         /\ RolloutContiguous
         /\ Len(log) = 2 * Len(Turns)
         /\ \A k \in 1..Len(Turns) :
               log[2 * k] = [role |-> "assistant", tokens |-> Turns[k].gen]
         /\ Turns # <<>> =>
              /\ LogTokens(log) = FullTokens(Turns[Len(Turns)])
              /\ inputLog = << [role |-> "user", tokens |-> Turns[1].prompt] >>
=============================================================================
