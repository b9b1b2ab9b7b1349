------------------------------ MODULE DPOChatML ------------------------------
(***************************************************************************)
(* format_dpo_chatml of nemo_rl/data/hf_datasets/dpo_chatml.py: a          *)
(* preference record holding a chosen and a rejected ChatML conversation  *)
(* is split into the shared context (the prompt) and the two final        *)
(* assistant responses, or rejected by one of its assertions.             *)
(*                                                                         *)
(* A message is a record with a role and a content.  The context check    *)
(* compares json.dumps of the two contexts; load_dataset gives every       *)
(* message of a file the same keys in the same order (one Arrow schema),   *)
(* so equal dumps are equal message lists.                                *)
(***************************************************************************)
EXTENDS Naturals, Sequences

CONSTANTS
    Roles,     \* message roles that occur in the data
    Contents,  \* message contents
    MaxLen     \* bound on the length of a conversation

ASSUME ChatMLAssumption ==
    /\ "assistant" \in Roles
    /\ MaxLen \in Nat

Messages == [role : Roles, content : Contents]

\* The conversations a record may hold, up to MaxLen messages.
Conversations == UNION {[1..n -> Messages] : n \in 0..MaxLen}

\* Python's conv[:-1]: every message but the last (empty stays empty).
Front(s) == IF s = <<>> THEN <<>> ELSE SubSeq(s, 1, Len(s) - 1)

\* Python's conv[-1] on a non-empty list.
Last(s) == s[Len(s)]

\* A record that format_dpo_chatml rejects, with the exception raised.
Fail(kind) == [status |-> kind, prompt |-> <<>>, chosen |-> "", rejected |-> ""]

\* Mutant: the assertion on the rejected conversation's last role is
\* missing.
FormatDpoChatML_NoRejectedRole(c, r) ==
    IF Front(c) # Front(r) THEN Fail("context_mismatch")
    ELSE IF c = <<>> THEN Fail("index_error")
    ELSE IF Last(c).role # "assistant" THEN Fail("chosen_not_assistant")
    ELSE IF r = <<>> THEN Fail("index_error")
    ELSE [status   |-> "ok",
          prompt   |-> Front(c),
          chosen   |-> Last(c).content,
          rejected |-> Last(r).content]

\* format_dpo_chatml (dpo_chatml.py:23-57): the context assertion, then the
\* role assertions on chosen[-1] and rejected[-1] (an IndexError on an
\* empty conversation), then the split.
FormatDpoChatML(c, r) ==
    IF Front(c) # Front(r) THEN Fail("context_mismatch")
    ELSE IF c = <<>> THEN Fail("index_error")
    ELSE IF Last(c).role # "assistant" THEN Fail("chosen_not_assistant")
    ELSE IF r = <<>> THEN Fail("index_error")
    ELSE IF Last(r).role # "assistant" THEN Fail("rejected_not_assistant")
    ELSE [status   |-> "ok",
          prompt   |-> Front(c),
          chosen   |-> Last(c).content,
          rejected |-> Last(r).content]

-----------------------------------------------------------------------------
(* One record formatted by datasets.map(format_dpo_chatml).               *)

VARIABLES chosen, rejected, out

vars == <<chosen, rejected, out>>

NotFormatted == [status |-> "pending", prompt |-> <<>>, chosen |-> "",
                 rejected |-> ""]

Init ==
    /\ chosen \in Conversations
    /\ rejected \in Conversations
    /\ out = NotFormatted

Format ==
    /\ out = NotFormatted
    /\ out' = FormatDpoChatML(chosen, rejected)
    /\ UNCHANGED <<chosen, rejected>>

Next == Format

Spec == Init /\ [][Next]_vars

-----------------------------------------------------------------------------
(* Properties *)

\* The record the class docstring describes: two conversations of the same
\* length that agree message by message except for the last, which is an
\* assistant message in both.
WellFormed(c, r) ==
    /\ Len(c) = Len(r) /\ Len(c) > 0
    /\ \A i \in 1..(Len(c) - 1) : c[i] = r[i]
    /\ c[Len(c)].role = "assistant" /\ r[Len(r)].role = "assistant"

\* The formatting loses nothing: a record is accepted exactly when it is
\* a shared context followed by two assistant responses, and then the
\* prompt and the two responses rebuild both conversations exactly
\* (dpo_chatml.py:29-57).
FormatIsSplit(c, r) ==
    LET o == FormatDpoChatML(c, r) IN
    /\ (o.status = "ok") <=> WellFormed(c, r)
    /\ o.status = "ok" =>
         /\ c = Append(o.prompt, [role |-> "assistant", content |-> o.chosen])
         /\ r = Append(o.prompt, [role |-> "assistant", content |-> o.rejected])

(* A formatted record carries the shared prompt and the final assistant    *)
(* responses of both conversations, and format_dpo_chatml accepts exactly  *)
(* the records whose conversations differ only in a final assistant turn. *)
FormatCorrect == out # NotFormatted => FormatIsSplit(chosen, rejected)
=============================================================================
