--------------------------- MODULE DPOChatML_proofs ---------------------------
(***************************************************************************)
(* Proofs that format_dpo_chatml splits a preference record without loss *)
(* and rejects exactly the malformed ones, for conversations of any       *)
(* length over any roles and contents.                                    *)
(***************************************************************************)
EXTENDS DPOChatML, SequenceTheorems, TLAPS

USE ChatMLAssumption

\* conv[:-1] of a non-empty conversation is a conversation one shorter,
\* holding its first messages.
LEMMA FrontProperties ==
    ASSUME NEW s \in Seq(Messages), s # <<>>
    PROVE  /\ Front(s) \in Seq(Messages)
           /\ Len(Front(s)) = Len(s) - 1
           /\ \A i \in 1..(Len(s) - 1) : Front(s)[i] = s[i]
           /\ s = Append(Front(s), Last(s))
<1>1. Len(s) \in Nat /\ Len(s) > 0
  BY EmptySeq, LenProperties
<1>2. Front(s) = SubSeq(s, 1, Len(s) - 1)
  BY DEF Front
<1>3. /\ SubSeq(s, 1, Len(s) - 1) \in Seq(Messages)
      /\ Len(SubSeq(s, 1, Len(s) - 1)) = Len(s) - 1
      /\ \A i \in 1..(Len(s) - 1) : SubSeq(s, 1, Len(s) - 1)[i] = s[i]
  <2>1. \A i \in 1..(Len(s) - 1) : s[i] \in Messages
    BY <1>1, ElementOfSeq
  <2>2. SubSeq(s, 1, Len(s) - 1) = [i \in 1..(Len(s) - 1) |-> s[i]]
    BY <1>1
  <2>3. [i \in 1..(Len(s) - 1) |-> s[i]] \in [1..(Len(s) - 1) -> Messages]
    BY <2>1
  <2>4. [i \in 1..(Len(s) - 1) |-> s[i]] \in Seq(Messages)
    BY <1>1, <2>3, SeqDef
  <2>5. Len([i \in 1..(Len(s) - 1) |-> s[i]]) = Len(s) - 1
    <3>1. DOMAIN [i \in 1..(Len(s) - 1) |-> s[i]]
            = 1..Len([i \in 1..(Len(s) - 1) |-> s[i]])
      BY <2>4, LenProperties
    <3>2. Len([i \in 1..(Len(s) - 1) |-> s[i]]) \in Nat
      BY <2>4, LenProperties
    <3>. QED  BY <1>1, <3>1, <3>2
  <2>. QED  BY <2>2, <2>4, <2>5
<1>4. Last(s) \in Messages
  BY <1>1, ElementOfSeq DEF Last
<1>5. s = Append(Front(s), Last(s))
  <2>1. /\ Append(Front(s), Last(s)) \in Seq(Messages)
        /\ Len(Append(Front(s), Last(s))) = Len(s)
        /\ \A i \in 1..(Len(s) - 1) : Append(Front(s), Last(s))[i] = s[i]
        /\ Append(Front(s), Last(s))[Len(s)] = Last(s)
    BY <1>1, <1>2, <1>3, <1>4, AppendProperties
  <2>2. \A i \in 1..Len(s) : Append(Front(s), Last(s))[i] = s[i]
    BY <1>1, <2>1 DEF Last
  <2>. QED  BY <2>1, <2>2, SeqEqual
<1>. QED  BY <1>2, <1>3, <1>5

\* A message whose role is "assistant" is the record the round trip
\* rebuilds from its content.
LEMMA AssistantMessage ==
    ASSUME NEW m \in Messages, m.role = "assistant"
    PROVE  m = [role |-> "assistant", content |-> m.content]
BY DEF Messages

\* When both conversations are non-empty, their contexts are equal exactly
\* when they have the same length and agree before their last messages.
LEMMA SameContext ==
    ASSUME NEW c \in Seq(Messages), NEW r \in Seq(Messages),
           c # <<>>, r # <<>>
    PROVE  (Front(c) = Front(r)) <=>
             /\ Len(c) = Len(r)
             /\ \A i \in 1..(Len(c) - 1) : c[i] = r[i]
<1>1. /\ Front(c) \in Seq(Messages) /\ Len(Front(c)) = Len(c) - 1
      /\ \A i \in 1..(Len(c) - 1) : Front(c)[i] = c[i]
      /\ Front(r) \in Seq(Messages) /\ Len(Front(r)) = Len(r) - 1
      /\ \A i \in 1..(Len(r) - 1) : Front(r)[i] = r[i]
  BY FrontProperties
<1>2. ASSUME Front(c) = Front(r)
      PROVE  /\ Len(c) = Len(r)
             /\ \A i \in 1..(Len(c) - 1) : c[i] = r[i]
  BY <1>1, <1>2, LenProperties
<1>3. ASSUME Len(c) = Len(r), \A i \in 1..(Len(c) - 1) : c[i] = r[i]
      PROVE  Front(c) = Front(r)
  <2>1. Len(Front(c)) = Len(Front(r))
    BY <1>1, <1>3
  <2>2. \A i \in 1..Len(Front(c)) : Front(c)[i] = Front(r)[i]
    BY <1>1, <1>3
  <2>. QED  BY <1>1, <2>1, <2>2, SeqEqual
<1>. QED  BY <1>2, <1>3

\* An accepted record is a well-formed one.
LEMMA AcceptedIsWellFormed ==
    ASSUME NEW c \in Seq(Messages), NEW r \in Seq(Messages),
           FormatDpoChatML(c, r).status = "ok"
    PROVE  /\ Front(c) = Front(r) /\ c # <<>> /\ r # <<>>
           /\ Last(c).role = "assistant" /\ Last(r).role = "assistant"
           /\ WellFormed(c, r)
<1>1. /\ Front(c) = Front(r) /\ c # <<>> /\ r # <<>>
      /\ Last(c).role = "assistant" /\ Last(r).role = "assistant"
  BY DEF FormatDpoChatML, Fail
<1>2. Len(c) = Len(r) /\ \A i \in 1..(Len(c) - 1) : c[i] = r[i]
  BY <1>1, SameContext
<1>3. Len(c) > 0
  BY <1>1, EmptySeq, LenProperties
<1>. QED  BY <1>1, <1>2, <1>3 DEF WellFormed, Last

\* A well-formed record is accepted.
LEMMA WellFormedIsAccepted ==
    ASSUME NEW c \in Seq(Messages), NEW r \in Seq(Messages), WellFormed(c, r)
    PROVE  FormatDpoChatML(c, r).status = "ok"
<1>1. c # <<>> /\ r # <<>>
  BY EmptySeq DEF WellFormed
<1>2. Front(c) = Front(r)
  BY <1>1, SameContext DEF WellFormed
<1>3. Last(c).role = "assistant" /\ Last(r).role = "assistant"
  BY DEF WellFormed, Last
<1>. QED  BY <1>1, <1>2, <1>3 DEF FormatDpoChatML

(* format_dpo_chatml (dpo_chatml.py:23-57) accepts exactly the records    *)
(* whose two conversations share every message but a final assistant one, *)
(* and its prompt and responses rebuild both conversations, for           *)
(* conversations of every length.                                         *)
THEOREM FormatSplits ==
    ASSUME NEW c \in Seq(Messages), NEW r \in Seq(Messages)
    PROVE  FormatIsSplit(c, r)
<1> DEFINE o == FormatDpoChatML(c, r)
<1>1. (o.status = "ok") <=> WellFormed(c, r)
  BY AcceptedIsWellFormed, WellFormedIsAccepted
<1>2. ASSUME o.status = "ok"
      PROVE  /\ c = Append(o.prompt, [role |-> "assistant", content |-> o.chosen])
             /\ r = Append(o.prompt, [role |-> "assistant", content |-> o.rejected])
  <2>1. /\ Front(c) = Front(r) /\ c # <<>> /\ r # <<>>
        /\ Last(c).role = "assistant" /\ Last(r).role = "assistant"
    BY <1>2, AcceptedIsWellFormed
  <2>2. o = [status |-> "ok", prompt |-> Front(c),
             chosen |-> Last(c).content, rejected |-> Last(r).content]
    BY <2>1 DEF FormatDpoChatML
  <2>3. Last(c) \in Messages /\ Last(r) \in Messages
    BY <2>1, EmptySeq, LenProperties, ElementOfSeq DEF Last
  <2>4. /\ Last(c) = [role |-> "assistant", content |-> Last(c).content]
        /\ Last(r) = [role |-> "assistant", content |-> Last(r).content]
    BY <2>1, <2>3, AssistantMessage
  <2>5. c = Append(Front(c), Last(c)) /\ r = Append(Front(r), Last(r))
    BY <2>1, FrontProperties
  <2>. QED  BY <2>1, <2>2, <2>4, <2>5
<1>. QED  BY <1>1, <1>2 DEF FormatIsSplit

\* Every conversation of up to MaxLen messages is a sequence of messages.
LEMMA ConversationsAreSeqs ==
    Conversations \subseteq Seq(Messages)
BY SeqDef DEF Conversations

(* The formatting run checked by TLC satisfies FormatCorrect for every     *)
(* choice of roles, contents and conversation lengths.                    *)
THEOREM FormatCorrectHolds == Spec => []FormatCorrect
<1> DEFINE Inputs == chosen \in Seq(Messages) /\ rejected \in Seq(Messages)
<1>1. Init => Inputs
  BY ConversationsAreSeqs DEF Init
<1>2. Inputs /\ [Next]_vars => Inputs'
  BY DEF Next, Format, vars
<1>3. Inputs => FormatCorrect
  BY FormatSplits DEF FormatCorrect
<1>. QED  BY <1>1, <1>2, <1>3, PTL DEF Spec
=============================================================================
