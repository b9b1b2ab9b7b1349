----------------------- MODULE PenguinPostprocess_proofs -----------------------
(***************************************************************************)
(* Proof that the message log built by _postprocess_penguin_to_nemo_rl_   *)
(* result is exact (PostprocessCorrect).                                   *)
(*                                                                         *)
(* The reference values Turns and LogTokens are recursive functions over  *)
(* a sequence.  They are reasoned about through their tables (functions   *)
(* on 0..Len(s) that satisfy the defining equation).  Facts that hold at  *)
(* every entry of a table (its type, that each entry extends the earlier  *)
(* ones, that a table exists at all) are proved by a least counterexample: *)
(* a nonempty set of naturals has a least element (NatMin, from the well- *)
(* foundedness of < on Nat), and the entry before the least bad one is    *)
(* good, which the defining equation carries over to the bad one.         *)
(***************************************************************************)
EXTENDS PenguinPostprocess, SequenceTheorems, WellFoundedInduction, TLAPS

\* F is a table of the items that carry generated tokens.
TurnTab(F, s) ==
    F = [k \in 0..Len(s) |->
           IF k = 0 THEN <<>>
           ELSE IF s[k] # NoGen THEN Append(F[k - 1], s[k]) ELSE F[k - 1]]

\* Sequence b begins with sequence a.
Extends(a, b) ==
    /\ Len(a) <= Len(b)
    /\ \A n \in 1..Len(a) : b[n] = a[n]

-----------------------------------------------------------------------------
(* A nonempty set of naturals has a least element *)

LEMMA NatMin ==
    ASSUME NEW T \in SUBSET Nat, T # {}
    PROVE  \E m \in T : \A k \in T : m <= k
<1>1. PICK m \in T : \A y \in T : ~(<<y, m>> \in OpToRel(<, Nat))
  BY WFMin, NatLessThanWellFounded
<1>2. ASSUME NEW k \in T PROVE m <= k
  <2>1. <<k, m>> \in Nat \X Nat
    OBVIOUS
  <2>2. ~(k < m)
    BY <1>1, <2>1 DEF OpToRel
  <2>. QED  BY <2>2
<1>. QED  BY <1>2

-----------------------------------------------------------------------------
(* Tables of the turns *)

\* A table of s extends to one of Append(s, x).
LEMMA TurnTabAppend ==
    ASSUME NEW S, NEW s \in Seq(S), NEW x \in S, NEW F, TurnTab(F, s)
    PROVE  \E G : TurnTab(G, Append(s, x))
<1>. DEFINE L == Len(s)
<1>1. /\ Len(Append(s, x)) = L + 1
      /\ \A q \in 1..L : Append(s, x)[q] = s[q]
      /\ Append(s, x)[L + 1] = x
      /\ L \in Nat
  BY AppendProperties
<1>. DEFINE G == [j \in 0..(L + 1) |->
                   IF j <= L THEN F[j]
                   ELSE IF x # NoGen THEN Append(F[L], x) ELSE F[L]]
<1>2. \A q \in 1..L : F[q] = IF s[q] # NoGen THEN Append(F[q - 1], s[q]) ELSE F[q - 1]
  <2>. SUFFICES ASSUME NEW q \in 1..L
                PROVE  F[q] = IF s[q] # NoGen THEN Append(F[q - 1], s[q]) ELSE F[q - 1]
    OBVIOUS
  <2>1. q \in 0..Len(s) /\ q # 0
    BY <1>1
  <2>. QED  BY <2>1, Zenon DEF TurnTab
<1>3. F[0] = <<>>
  BY <1>1 DEF TurnTab
<1>4. \A k \in 0..(L + 1) :
        G[k] = IF k = 0 THEN <<>>
               ELSE IF Append(s, x)[k] # NoGen THEN Append(G[k - 1], Append(s, x)[k])
               ELSE G[k - 1]
  <2>. SUFFICES ASSUME NEW k \in 0..(L + 1)
                PROVE  G[k] = IF k = 0 THEN <<>>
                              ELSE IF Append(s, x)[k] # NoGen
                                     THEN Append(G[k - 1], Append(s, x)[k])
                                   ELSE G[k - 1]
    OBVIOUS
  <2>1. CASE k = 0
    BY <2>1, <1>1, <1>3
  <2>2. CASE k \in 1..L
    <3>1. G[k] = F[k] /\ G[k - 1] = F[k - 1] /\ Append(s, x)[k] = s[k]
      BY <2>2, <1>1
    <3>. QED  BY <2>2, <3>1, <1>2
  <2>3. CASE k = L + 1
    <3>1. G[k] = IF x # NoGen THEN Append(F[L], x) ELSE F[L]
      BY <2>3, <1>1
    <3>2. G[k - 1] = F[L] /\ Append(s, x)[k] = x
      BY <2>3, <1>1
    <3>. QED  BY <2>3, <3>1, <3>2, <1>1
  <2>. QED  BY <2>1, <2>2, <2>3, <1>1
<1>5. TurnTab(G, Append(s, x))
  BY <1>1, <1>4 DEF TurnTab
<1>. QED  BY <1>5

\* The entries of a table are sequences of items with generated tokens.
LEMMA TurnTabType ==
    ASSUME NEW S, NEW s \in Seq(S), NEW F, TurnTab(F, s)
    PROVE  \A k \in 0..Len(s) : F[k] \in Seq(S \ {NoGen})
<1>. DEFINE Bad == {k \in 0..Len(s) : F[k] \notin Seq(S \ {NoGen})}
<1>. SUFFICES ASSUME Bad # {} PROVE FALSE
  OBVIOUS
<1>0a. Bad \subseteq Nat
  OBVIOUS
<1>1. PICK m \in Bad : \A k \in Bad : m <= k
  BY <1>0a, NatMin
<1>2. m # 0
  <2>1. F[0] = <<>>
    BY DEF TurnTab
  <2>. QED  BY <2>1, EmptySeq
<1>3. F[m - 1] \in Seq(S \ {NoGen})
  BY <1>1, <1>2
<1>4. F[m] = IF s[m] # NoGen THEN Append(F[m - 1], s[m]) ELSE F[m - 1]
  <2>1. m \in 0..Len(s) /\ m # 0
    BY <1>1, <1>2
  <2>. QED  BY <2>1, Zenon DEF TurnTab
<1>5. s[m] \in S
  BY <1>1, <1>2
<1>6. F[m] \in Seq(S \ {NoGen})
  BY <1>3, <1>4, <1>5, AppendProperties
<1>. QED  BY <1>1, <1>6

\* Each entry of a table begins with every earlier one.
LEMMA TurnTabMono ==
    ASSUME NEW S, NEW s \in Seq(S), NEW F, TurnTab(F, s), NEW j \in 0..Len(s)
    PROVE  \A k \in j..Len(s) : Extends(F[j], F[k])
<1>0. \A k \in 0..Len(s) : F[k] \in Seq(S \ {NoGen})
  BY TurnTabType
<1>. DEFINE Bad == {k \in j..Len(s) : ~Extends(F[j], F[k])}
<1>. SUFFICES ASSUME Bad # {} PROVE FALSE
  OBVIOUS
<1>0a. Bad \subseteq Nat
  OBVIOUS
<1>1. PICK m \in Bad : \A k \in Bad : m <= k
  BY <1>0a, NatMin
<1>2. m # j
  BY <1>0, <1>1 DEF Extends
<1>3. Extends(F[j], F[m - 1])
  BY <1>1, <1>2
<1>4. F[m] = IF s[m] # NoGen THEN Append(F[m - 1], s[m]) ELSE F[m - 1]
  <2>1. m \in 0..Len(s) /\ m # 0
    BY <1>1, <1>2
  <2>. QED  BY <2>1, Zenon DEF TurnTab
<1>5. Extends(F[m - 1], F[m])
  <2>1. F[m - 1] \in Seq(S \ {NoGen}) /\ s[m] \in S
    BY <1>0, <1>1, <1>2
  <2>. QED  BY <1>4, <2>1, AppendProperties DEF Extends
<1>6. Extends(F[j], F[m])
  BY <1>0, <1>1, <1>2, <1>3, <1>5 DEF Extends
<1>. QED  BY <1>1, <1>6

\* The first n items (Python's s[:n]) grow by the next one.
LEMMA PrefixAppend ==
    ASSUME NEW S, NEW s \in Seq(S), NEW k \in 0..(Len(s) - 1)
    PROVE  /\ SubSeq(s, 1, k) \in Seq(S)
           /\ s[k + 1] \in S
           /\ SubSeq(s, 1, k + 1) = Append(SubSeq(s, 1, k), s[k + 1])
BY SubSeqProperties, AppendProperties, SeqEqual

\* Every sequence has a table.
LEMMA TurnTabExists ==
    ASSUME NEW S, NEW s \in Seq(S)
    PROVE  \E F : TurnTab(F, s)
<1>. DEFINE Bad == {n \in 0..Len(s) : ~\E F : TurnTab(F, SubSeq(s, 1, n))}
<1>1. Bad = {}
  <2>. SUFFICES ASSUME Bad # {} PROVE FALSE
    OBVIOUS
  <2>0. Bad \subseteq Nat
    OBVIOUS
  <2>1. PICK m \in Bad : \A k \in Bad : m <= k
    BY <2>0, NatMin
  <2>2. m # 0
    <3>1. SubSeq(s, 1, 0) = <<>>
      BY SubSeqEmpty
    <3>2. TurnTab([k \in {0} |-> <<>>], <<>>)
      BY DEF TurnTab
    <3>. QED  BY <2>1, <3>1, <3>2
  <2>3. PICK F : TurnTab(F, SubSeq(s, 1, m - 1))
    BY <2>1, <2>2
  <2>4. /\ SubSeq(s, 1, m - 1) \in Seq(S)
        /\ s[m] \in S
        /\ SubSeq(s, 1, m) = Append(SubSeq(s, 1, m - 1), s[m])
    BY <2>1, <2>2, PrefixAppend
  <2>5. \E G : TurnTab(G, SubSeq(s, 1, m))
    BY <2>3, <2>4, TurnTabAppend
  <2>. QED  BY <2>1, <2>5
<1>2. SubSeq(s, 1, Len(s)) = s
  BY SubSeqFull
<1>3. Len(s) \in 0..Len(s)
  OBVIOUS
<1>4. \E F : TurnTab(F, SubSeq(s, 1, Len(s)))
  BY <1>1, <1>3
<1>. QED  BY <1>2, <1>4

-----------------------------------------------------------------------------
(* Tables of the tokens of a log *)

\* f is a table of the tokens of the messages of l, read in order.
TokTab(f, l) ==
    f = [k \in 0..Len(l) |-> IF k = 0 THEN <<>> ELSE f[k - 1] \o l[k].tokens]

\* The tokens of the messages of l, read in order, are t.
TokensAre(l, t) ==
    /\ \E f : TokTab(f, l)
    /\ \A f : TokTab(f, l) => f[Len(l)] = t

\* An empty log has no tokens.
LEMMA TokensAreEmpty == TokensAre(<<>>, <<>>)
<1>1. TokTab([k \in {0} |-> <<>>], <<>>)
  BY DEF TokTab
<1>2. ASSUME NEW f, TokTab(f, <<>>) PROVE f[0] = <<>>
  BY <1>2 DEF TokTab
<1>. QED  BY <1>1, <1>2 DEF TokensAre

\* Appending a message appends its tokens.
LEMMA TokensAreAppend ==
    ASSUME NEW S, NEW l \in Seq(S), NEW x \in S, NEW t, TokensAre(l, t)
    PROVE  TokensAre(Append(l, x), t \o x.tokens)
<1>. DEFINE L == Len(l)
<1>1. /\ Len(Append(l, x)) = L + 1
      /\ \A q \in 1..L : Append(l, x)[q] = l[q]
      /\ Append(l, x)[L + 1] = x
      /\ L \in Nat
  BY AppendProperties
<1>2. \E g : TokTab(g, Append(l, x))
  <2>1. PICK f : TokTab(f, l)
    BY DEF TokensAre
  <2>. DEFINE g == [j \in 0..(L + 1) |-> IF j <= L THEN f[j] ELSE f[L] \o x.tokens]
  <2>2. \A k \in 1..L : f[k] = f[k - 1] \o l[k].tokens
    <3>. SUFFICES ASSUME NEW k \in 1..L PROVE f[k] = f[k - 1] \o l[k].tokens
      OBVIOUS
    <3>1. k \in 0..Len(l) /\ k # 0
      BY <1>1
    <3>. QED  BY <3>1, <2>1, Zenon DEF TokTab
  <2>3. f[0] = <<>>
    BY <2>1, <1>1 DEF TokTab
  <2>4. \A k \in 0..(L + 1) :
          g[k] = IF k = 0 THEN <<>> ELSE g[k - 1] \o Append(l, x)[k].tokens
    <3>. SUFFICES ASSUME NEW k \in 0..(L + 1)
                  PROVE  g[k] = IF k = 0 THEN <<>> ELSE g[k - 1] \o Append(l, x)[k].tokens
      OBVIOUS
    <3>1. CASE k = 0
      BY <3>1, <1>1, <2>3
    <3>2. CASE k \in 1..L
      <4>1. g[k] = f[k] /\ g[k - 1] = f[k - 1] /\ Append(l, x)[k] = l[k]
        BY <3>2, <1>1
      <4>2. k # 0 /\ f[k] = f[k - 1] \o l[k].tokens
        <5>1. k # 0
          BY <3>2
        <5>. QED  BY <5>1, <3>2, <2>2, Zenon
      <4>. QED  BY <4>1, <4>2, Zenon
    <3>3. CASE k = L + 1
      <4>1. g[k] = f[L] \o x.tokens /\ g[k - 1] = f[L] /\ Append(l, x)[k] = x
        BY <3>3, <1>1
      <4>. QED  BY <3>3, <4>1, <1>1
    <3>. QED  BY <3>1, <3>2, <3>3, <1>1
  <2>5. TokTab(g, Append(l, x))
    BY <1>1, <2>4 DEF TokTab
  <2>. QED  BY <2>5
<1>3. ASSUME NEW g, TokTab(g, Append(l, x)) PROVE g[L + 1] = t \o x.tokens
  <2>. DEFINE f == [j \in 0..L |-> g[j]]
  <2>1. \A k \in 0..(L + 1) :
          g[k] = IF k = 0 THEN <<>> ELSE g[k - 1] \o Append(l, x)[k].tokens
    BY <1>3, <1>1, Zenon DEF TokTab
  <2>2. \A k \in 0..L : f[k] = IF k = 0 THEN <<>> ELSE f[k - 1] \o l[k].tokens
    <3>. SUFFICES ASSUME NEW k \in 0..L
                  PROVE  f[k] = IF k = 0 THEN <<>> ELSE f[k - 1] \o l[k].tokens
      OBVIOUS
    <3>1. k \in 0..(L + 1) /\ (k # 0 => k - 1 \in 0..L /\ Append(l, x)[k] = l[k])
      BY <1>1
    <3>. QED  BY <2>1, <3>1
  <2>3. TokTab(f, l)
    BY <2>2 DEF TokTab
  <2>4. g[L] = t
    BY <2>3, <1>1 DEF TokensAre
  <2>5. g[L + 1] = g[L] \o x.tokens
    <3>1. L + 1 \in 0..(L + 1) /\ L + 1 # 0 /\ (L + 1) - 1 = L
      BY <1>1
    <3>2. g[L + 1] = g[(L + 1) - 1] \o Append(l, x)[L + 1].tokens
      BY <2>1, <3>1, Zenon
    <3>. QED  BY <3>1, <3>2, <1>1, Zenon
  <2>. QED  BY <2>4, <2>5
<1>. QED  BY <1>1, <1>2, <1>3 DEF TokensAre

\* LogTokens is what its tables say.
LEMMA LogTokensIs ==
    ASSUME NEW l, NEW t, TokensAre(l, t)
    PROVE  LogTokens(l) = t
<1>1. LogTokens(l) = (CHOOSE f : TokTab(f, l))[Len(l)]
  BY DEF LogTokens, TokTab
<1>. QED  BY <1>1 DEF TokensAre

\* Turns is the last entry of a table of the items.
LEMMA TurnsChoose ==
    Turns = (CHOOSE F : TurnTab(F, items))[Len(items)]
BY DEF Turns, KeepTurns, TurnTab

-----------------------------------------------------------------------------
(* The contiguity assertion *)

\* seen_token_ids == prompt_token_ids[:len(seen_token_ids)] holds exactly
\* when seen is a prefix of the prompt, and then the prompt is seen
\* followed by prompt_token_ids[len(seen_token_ids):].
LEMMA ContiguousIsPrefix ==
    ASSUME NEW T, NEW p \in Seq(T), NEW q \in Seq(T)
    PROVE  /\ (q = SliceTo(p, Len(q))) <=> IsPrefix(q, p)
           /\ IsPrefix(q, p) => q \o SliceFrom(p, Len(q)) = p
<1>1. CASE Len(q) <= Len(p)
  <2>1. SliceTo(p, Len(q)) = SubSeq(p, 1, Len(q))
    BY <1>1 DEF SliceTo
  <2>2. SubSeq(p, 1, Len(q)) \o SubSeq(p, Len(q) + 1, Len(p)) = SubSeq(p, 1, Len(p))
    <3>1. /\ 1 \in 1..(Len(p) + 1)
          /\ Len(q) \in (1 - 1)..Len(p)
          /\ Len(p) \in Len(q)..Len(p)
      BY <1>1
    <3>. QED  BY <3>1, ConcatAdjacentSubSeq
  <2>3. SubSeq(p, 1, Len(p)) = p
    BY SubSeqFull
  <2>. QED  BY <1>1, <2>1, <2>2, <2>3 DEF IsPrefix, SliceFrom
<1>2. CASE ~(Len(q) <= Len(p))
  <2>1. SliceTo(p, Len(q)) = p
    BY <1>2, SubSeqFull DEF SliceTo
  <2>. QED  BY <1>2, <2>1 DEF IsPrefix
<1>. QED  BY <1>1, <1>2

-----------------------------------------------------------------------------
(* The message log of the turns taken so far *)

\* The messages of nemo_rl_message_log.
Msgs == [role : {"user", "assistant"}, tokens : Seq(Tokens)]

\* The output items that carry generated tokens.
Turn == Items \ {NoGen}

\* lg and sn are the message log and seen_token_ids after the turns v: two
\* messages per turn, the assistant one holding the turn's generated
\* tokens, the first user one its prompt, the tokens of the log read in
\* order are seen_token_ids, which is the last turn's prompt and
\* generation, and every turn's prompt extends the turn before.
LogOf(v, lg, sn) ==
    /\ Len(lg) = 2 * Len(v)
    /\ \A k \in 1..Len(v) : lg[2 * k] = [role |-> "assistant", tokens |-> v[k].gen]
    /\ TokensAre(lg, sn)
    /\ v = <<>> => sn = <<>>
    /\ v # <<>> => /\ sn = FullTokens(v[Len(v)])
                   /\ lg[1] = [role |-> "user", tokens |-> v[1].prompt]
    /\ \A k \in 2..Len(v) : IsPrefix(FullTokens(v[k - 1]), v[k].prompt)

\* The prompt and the generation of an output item are token sequences.
LEMMA TurnTokens ==
    ASSUME NEW it \in Turn
    PROVE  it.prompt \in Seq(Tokens) /\ it.gen \in Seq(Tokens)
BY DEF Turn, Items, TokSeqs

\* Nothing taken, nothing logged.
LEMMA LogOfEmpty == LogOf(<<>>, <<>>, <<>>)
BY TokensAreEmpty DEF LogOf

\* An item whose prompt continues the seen tokens (the assertion of
\* penguin.py:119-125 holds) adds its user and assistant messages, and
\* seen_token_ids becomes the item's prompt and generation.
LEMMA LogOfAppend ==
    ASSUME NEW v \in Seq(Turn), NEW it \in Turn,
           NEW lg \in Seq(Msgs), NEW sn \in Seq(Tokens),
           LogOf(v, lg, sn),
           sn = SliceTo(it.prompt, Len(sn))
    PROVE  LET U == SliceFrom(it.prompt, Len(sn))
               u == [role |-> "user", tokens |-> U]
               a == [role |-> "assistant", tokens |-> it.gen]
           IN  /\ LogOf(Append(v, it), lg \o <<u, a>>, sn \o U \o it.gen)
               /\ lg \o <<u, a>> \in Seq(Msgs)
               /\ sn \o U \o it.gen \in Seq(Tokens)
<1>. DEFINE U == SliceFrom(it.prompt, Len(sn))
            u == [role |-> "user", tokens |-> U]
            a == [role |-> "assistant", tokens |-> it.gen]
            v2 == Append(v, it)
            lg2 == lg \o <<u, a>>
            sn2 == sn \o U \o it.gen
<1>1. /\ it.prompt \in Seq(Tokens) /\ it.gen \in Seq(Tokens)
      /\ U \in Seq(Tokens)
  BY TurnTokens, SubSeqProperties DEF SliceFrom
<1>2. IsPrefix(sn, it.prompt) /\ sn \o U = it.prompt
  BY <1>1, ContiguousIsPrefix
<1>3. sn2 = FullTokens(it) /\ sn2 \in Seq(Tokens)
  BY <1>1, <1>2 DEF FullTokens
<1>4. u \in Msgs /\ a \in Msgs
  BY <1>1 DEF Msgs
<1>5. /\ lg2 = Append(Append(lg, u), a)
      /\ lg2 \in Seq(Msgs)
      /\ Len(lg2) = Len(lg) + 2
      /\ \A k \in 1..Len(lg) : lg2[k] = lg[k]
      /\ lg2[Len(lg) + 1] = u
      /\ lg2[Len(lg) + 2] = a
  BY <1>4, AppendProperties, AppendIsConcat, ConcatAssociative, ConcatProperties
<1>6. TokensAre(lg2, sn2)
  <2>0. TokensAre(lg, sn) /\ u.tokens = U /\ a.tokens = it.gen
    BY DEF LogOf
  <2>1. TokensAre(Append(lg, u), sn \o U)
    BY <1>4, <2>0, TokensAreAppend
  <2>2. TokensAre(Append(Append(lg, u), a), (sn \o U) \o it.gen)
    BY <1>4, <2>0, <2>1, AppendProperties, TokensAreAppend
  <2>. QED  BY <1>5, <2>2
<1>7. /\ v2 \in Seq(Turn) /\ Len(v2) = Len(v) + 1
      /\ \A k \in 1..Len(v) : v2[k] = v[k]
      /\ v2[Len(v) + 1] = it
      /\ v2 # <<>>
  BY AppendProperties
<1>8. Len(lg2) = 2 * Len(v2)
  BY <1>5, <1>7 DEF LogOf
<1>9. \A k \in 1..Len(v2) : lg2[2 * k] = [role |-> "assistant", tokens |-> v2[k].gen]
  BY <1>5, <1>7 DEF LogOf
<1>10. sn2 = FullTokens(v2[Len(v2)])
  BY <1>3, <1>7
<1>11. lg2[1] = [role |-> "user", tokens |-> v2[1].prompt]
  <2>1. CASE v = <<>>
    <3>1. sn = <<>> /\ lg = <<>>
      BY <2>1 DEF LogOf
    <3>2. U = it.prompt
      BY <1>1, <1>2, <3>1, ConcatEmptySeq
    <3>. QED  BY <1>5, <1>7, <2>1, <3>1, <3>2
  <2>2. CASE v # <<>>
    <3>1. lg[1] = [role |-> "user", tokens |-> v[1].prompt] /\ Len(v) >= 1
      BY <2>2 DEF LogOf
    <3>. QED  BY <1>5, <1>7, <3>1 DEF LogOf
  <2>. QED  BY <2>1, <2>2
<1>12. \A k \in 2..Len(v2) : IsPrefix(FullTokens(v2[k - 1]), v2[k].prompt)
  <2>. SUFFICES ASSUME NEW k \in 2..Len(v2)
                PROVE  IsPrefix(FullTokens(v2[k - 1]), v2[k].prompt)
    OBVIOUS
  <2>1. CASE k <= Len(v)
    BY <1>7, <2>1 DEF LogOf
  <2>2. CASE k = Len(v) + 1
    <3>1. v # <<>> /\ Len(v) \in Nat
      BY <1>7, <2>2
    <3>2. sn = FullTokens(v[Len(v)])
      BY <3>1 DEF LogOf
    <3>. QED  BY <1>2, <1>7, <2>2, <3>2
  <2>. QED  BY <1>7, <2>1, <2>2
<1>. QED  BY <1>3, <1>5, <1>6, <1>7, <1>8, <1>9, <1>10, <1>11, <1>12 DEF LogOf

-----------------------------------------------------------------------------
(* The inductive invariant *)

\* PostprocessCorrect strengthened by the loop invariant of the for loop
\* over the output items (penguin.py:115-146): whatever table of the turns
\* is taken, its entry for the items taken so far is described by the log
\* and seen_token_ids; an AssertionError was raised by the next item,
\* which carries generated tokens and does not continue the seen tokens;
\* the result is returned after the last item.
PInv ==
    /\ items \in Seq(Items)
    /\ i \in 0..Len(items)
    /\ log \in Seq(Msgs)
    /\ seen \in Seq(Tokens)
    /\ pc \in {"loop", "done", "error"}
    /\ \A F : TurnTab(F, items) => LogOf(F[i], log, seen)
    /\ pc = "error" =>
         /\ i < Len(items) /\ items[i + 1] # NoGen
         /\ ~Contiguous(items[i + 1])
    /\ pc = "done" => i = Len(items) /\ inputLog = SliceTo(log, 1)

\* One entry of a table of the items from the one before.
LEMMA TurnTabNext ==
    ASSUME NEW F, items \in Seq(Items), TurnTab(F, items),
           NEW k \in 0..(Len(items) - 1)
    PROVE  /\ F[k] \in Seq(Turn)
           /\ F[k + 1] = IF items[k + 1] # NoGen THEN Append(F[k], items[k + 1])
                         ELSE F[k]
<1>1. F[k] \in Seq(Turn)
  BY TurnTabType DEF Turn
<1>2. k + 1 \in 0..Len(items) /\ k + 1 # 0 /\ (k + 1) - 1 = k
  OBVIOUS
<1>. QED  BY <1>1, <1>2, Zenon DEF TurnTab

LEMMA PInit == Init => PInv
<1>. SUFFICES ASSUME Init PROVE PInv
  OBVIOUS
<1>1. items \in Seq(Items)
  BY DEF Init, Outputs
<1>2. \A F : TurnTab(F, items) => F[0] = <<>>
  BY <1>1 DEF TurnTab
<1>3. <<>> \in Seq(Msgs) /\ <<>> \in Seq(Tokens)
  BY EmptySeq
<1>. QED  BY <1>1, <1>2, <1>3, LogOfEmpty DEF Init, PInv

\* An item that continues the seen tokens: its two messages are logged.
LEMMA AppendTurnStep ==
    ASSUME PInv, AppendTurn
    PROVE  PInv'
<1>. DEFINE it == items[i + 1]
<1>1. /\ items \in Seq(Items) /\ i \in 0..(Len(items) - 1)
      /\ it \in Turn
      /\ Contiguous(it)
  BY DEF PInv, AppendTurn, Turn
<1>2. ASSUME NEW F, TurnTab(F, items) PROVE LogOf(F[i + 1], log', seen')
  <2>1. F[i] \in Seq(Turn) /\ F[i + 1] = Append(F[i], it)
    <3>1. /\ F[i] \in Seq(Turn)
          /\ F[i + 1] = IF it # NoGen THEN Append(F[i], it) ELSE F[i]
      BY <1>1, <1>2, TurnTabNext
    <3>2. it # NoGen
      BY <1>1 DEF Turn
    <3>. QED  BY <3>1, <3>2, Zenon
  <2>2. LogOf(F[i], log, seen) /\ log \in Seq(Msgs) /\ seen \in Seq(Tokens)
    BY <1>2 DEF PInv
  <2>3. seen = SliceTo(it.prompt, Len(seen))
    BY <1>1 DEF Contiguous
  <2>4. /\ log' = log \o << [role |-> "user", tokens |-> SliceFrom(it.prompt, Len(seen))],
                         [role |-> "assistant", tokens |-> it.gen] >>
        /\ seen' = seen \o SliceFrom(it.prompt, Len(seen)) \o it.gen
    BY DEF AppendTurn, UserTokens
  <2>. QED  BY <1>1, <2>1, <2>2, <2>3, <2>4, LogOfAppend
<1>3. log' \in Seq(Msgs) /\ seen' \in Seq(Tokens)
  <2>1. seen = SliceTo(it.prompt, Len(seen))
    BY <1>1 DEF Contiguous
  <2>2. /\ log' = log \o << [role |-> "user", tokens |-> SliceFrom(it.prompt, Len(seen))],
                         [role |-> "assistant", tokens |-> it.gen] >>
        /\ seen' = seen \o SliceFrom(it.prompt, Len(seen)) \o it.gen
    BY DEF AppendTurn, UserTokens
  <2>3. PICK F : TurnTab(F, items)
    BY <1>1, TurnTabExists
  <2>4. F[i] \in Seq(Turn) /\ LogOf(F[i], log, seen)
    BY <1>1, <2>3, TurnTabNext DEF PInv
  <2>. QED  BY <1>1, <2>1, <2>2, <2>4, LogOfAppend DEF PInv
<1>4. items' = items /\ i' = i + 1 /\ pc' = "loop" /\ pc = "loop"
  BY DEF AppendTurn
<1>5. \A F : TurnTab(F, items') => LogOf(F[i'], log', seen')
  BY <1>2, <1>4
<1>. QED  BY <1>1, <1>3, <1>4, <1>5 DEF PInv

\* An item without generated tokens changes neither log nor table entry.
LEMMA SkipItemStep ==
    ASSUME PInv, SkipItem
    PROVE  PInv'
<1>1. items \in Seq(Items) /\ i \in 0..(Len(items) - 1) /\ items[i + 1] = NoGen
  BY DEF PInv, SkipItem
<1>2. ASSUME NEW F, TurnTab(F, items) PROVE LogOf(F[i + 1], log', seen')
  <2>1. F[i + 1] = IF items[i + 1] # NoGen THEN Append(F[i], items[i + 1]) ELSE F[i]
    BY <1>1, <1>2, TurnTabNext
  <2>2. F[i + 1] = F[i]
    BY <1>1, <2>1, Zenon
  <2>3. LogOf(F[i], log, seen) /\ log' = log /\ seen' = seen
    BY <1>2 DEF PInv, SkipItem
  <2>. QED  BY <2>2, <2>3
<1>3. items' = items /\ i' = i + 1 /\ pc' = "loop" /\ pc = "loop"
      /\ log' = log /\ seen' = seen
  BY DEF SkipItem
<1>4. \A F : TurnTab(F, items') => LogOf(F[i'], log', seen')
  BY <1>2, <1>3
<1>. QED  BY <1>1, <1>3, <1>4 DEF PInv

LEMMA PStep == PInv /\ [Next]_vars => PInv'
<1>. SUFFICES ASSUME PInv, [Next]_vars PROVE PInv'
  OBVIOUS
<1>1. CASE SkipItem  BY <1>1, SkipItemStep
<1>2. CASE AppendTurn  BY <1>2, AppendTurnStep
<1>3. CASE NonContiguous
  <2>1. /\ items' = items /\ i' = i /\ log' = log /\ seen' = seen
        /\ pc' = "error"
    BY <1>3 DEF NonContiguous
  <2>2. \A F : TurnTab(F, items') => LogOf(F[i'], log', seen')
    BY <2>1 DEF PInv
  <2>3. (i < Len(items) /\ items[i + 1] # NoGen /\ ~Contiguous(items[i + 1]))'
    BY <1>3, <2>1 DEF NonContiguous, Contiguous
  <2>. QED  BY <2>1, <2>2, <2>3 DEF PInv
<1>4. CASE Finish
  <2>1. /\ items' = items /\ i' = i /\ log' = log /\ seen' = seen
        /\ pc' = "done" /\ i = Len(items) /\ inputLog' = SliceTo(log, 1)
    BY <1>4 DEF Finish
  <2>2. \A F : TurnTab(F, items') => LogOf(F[i'], log', seen')
    BY <2>1 DEF PInv
  <2>. QED  BY <2>1, <2>2 DEF PInv
<1>5. CASE UNCHANGED vars
  <2>1. /\ items' = items /\ i' = i /\ log' = log /\ seen' = seen
        /\ pc' = pc /\ inputLog' = inputLog
    BY <1>5 DEF vars
  <2>2. \A F : TurnTab(F, items') => LogOf(F[i'], log', seen')
    BY <2>1 DEF PInv
  <2>. QED  BY <2>1, <2>2 DEF PInv, Contiguous
<1>. QED  BY <1>1, <1>2, <1>3, <1>4, <1>5 DEF Next

\* The invariant gives PostprocessCorrect.  On the error path the failing
\* item is the turn after those taken (TurnTabMono), and the turn before
\* it ends with the seen tokens its prompt does not continue.
LEMMA PInvCorrect == PInv => PostprocessCorrect
<1>. SUFFICES ASSUME PInv PROVE PostprocessCorrect
  OBVIOUS
<1>. DEFINE C == CHOOSE F : TurnTab(F, items)
<1>1. items \in Seq(Items) /\ i \in 0..Len(items) /\ seen \in Seq(Tokens)
      /\ log \in Seq(Msgs)
  BY DEF PInv
<1>2. TurnTab(C, items)
  BY <1>1, TurnTabExists
<1>3. Turns = C[Len(items)]
  BY TurnsChoose
<1>4. LogOf(C[i], log, seen)
  BY <1>2 DEF PInv
<1>5. CASE pc = "done"
  <2>1. i = Len(items) /\ inputLog = SliceTo(log, 1)
    BY <1>5 DEF PInv
  <2>2. LogOf(Turns, log, seen) /\ Turns \in Seq(Turn)
    BY <1>1, <1>2, <1>3, <1>4, <2>1, TurnTabType DEF Turn
  <2>3. RolloutContiguous
    BY <2>2 DEF LogOf, RolloutContiguous
  <2>4. Turns # <<>> =>
          /\ LogTokens(log) = FullTokens(Turns[Len(Turns)])
          /\ inputLog = << [role |-> "user", tokens |-> Turns[1].prompt] >>
    <3>. SUFFICES ASSUME Turns # <<>>
                  PROVE  /\ LogTokens(log) = FullTokens(Turns[Len(Turns)])
                         /\ inputLog = << [role |-> "user", tokens |-> Turns[1].prompt] >>
      OBVIOUS
    <3>1. LogTokens(log) = seen
      BY <2>2, LogTokensIs DEF LogOf
    <3>2. seen = FullTokens(Turns[Len(Turns)])
      BY <2>2 DEF LogOf
    <3>3. Len(log) >= 2 /\ log[1] = [role |-> "user", tokens |-> Turns[1].prompt]
      BY <2>2 DEF LogOf
    <3>4. SliceTo(log, 1) = << log[1] >>
      <4>1. SliceTo(log, 1) = SubSeq(log, 1, 1)
        BY <1>1, <3>3 DEF SliceTo
      <4>2. /\ SubSeq(log, 1, 1) \in Seq(Msgs)
            /\ Len(SubSeq(log, 1, 1)) = 1
            /\ SubSeq(log, 1, 1)[1] = log[1]
        BY <1>1, <3>3, SubSeqProperties
      <4>3. << log[1] >> \in Seq(Msgs) /\ Len(<< log[1] >>) = 1
        BY <1>1, <3>3
      <4>. QED  BY <4>1, <4>2, <4>3, SeqEqual
    <3>. QED  BY <2>1, <3>1, <3>2, <3>3, <3>4
  <2>. QED  BY <1>5, <2>2, <2>3, <2>4 DEF PostprocessCorrect, LogOf
<1>6. CASE pc = "error"
  <2>. DEFINE it == items[i + 1]
              v == C[i]
  <2>1. i \in 0..(Len(items) - 1) /\ it # NoGen /\ ~Contiguous(it) /\ it \in Turn
    BY <1>1, <1>6 DEF PInv, Turn
  <2>2. v \in Seq(Turn) /\ C[i + 1] = Append(v, it)
    <3>1. v \in Seq(Turn) /\ C[i + 1] = IF it # NoGen THEN Append(v, it) ELSE v
      BY <1>1, <1>2, <2>1, TurnTabNext
    <3>. QED  BY <2>1, <3>1, Zenon
  <2>3. Extends(C[i + 1], Turns)
    <3>1. i + 1 \in 0..Len(items) /\ Len(items) \in (i + 1)..Len(items)
      BY <2>1
    <3>. QED  BY <1>1, <1>2, <1>3, <3>1, TurnTabMono
  <2>4. it.prompt \in Seq(Tokens)
    BY <2>1, TurnTokens
  <2>5. v # <<>>
    <3>. SUFFICES ASSUME v = <<>> PROVE FALSE
      OBVIOUS
    <3>1. seen = <<>>
      BY <1>4 DEF LogOf
    <3>2. SliceTo(it.prompt, 0) = <<>>
      BY <2>4 DEF SliceTo
    <3>. QED  BY <2>1, <3>1, <3>2 DEF Contiguous
  <2>. DEFINE K == Len(v) + 1
  <2>6. /\ K \in 2..Len(Turns)
        /\ Turns[K - 1] = v[Len(v)]
        /\ Turns[K] = it
    <3>1. Len(v) \in Nat /\ Len(v) >= 1
      BY <2>2, <2>5, EmptySeq
    <3>2. /\ Len(C[i + 1]) = K
          /\ C[i + 1][K - 1] = v[Len(v)]
          /\ C[i + 1][K] = it
      BY <2>1, <2>2, <3>1, AppendProperties DEF Turn
    <3>3. /\ Len(C[i + 1]) <= Len(Turns)
          /\ \A n \in 1..Len(C[i + 1]) : Turns[n] = C[i + 1][n]
      BY <2>3 DEF Extends
    <3>4. Turns \in Seq(Turn)
      <4>1. \A k \in 0..Len(items) : C[k] \in Seq(Turn)
        BY <1>1, <1>2, TurnTabType DEF Turn
      <4>2. Len(items) \in 0..Len(items)
        BY <1>1
      <4>. QED  BY <1>3, <4>1, <4>2
    <3>5. K - 1 \in 1..Len(C[i + 1]) /\ K \in 1..Len(C[i + 1])
      BY <3>1, <3>2
    <3>6. Turns[K - 1] = C[i + 1][K - 1] /\ Turns[K] = C[i + 1][K]
      BY <3>3, <3>5
    <3>. QED  BY <3>1, <3>2, <3>3, <3>4, <3>6
  <2>7. seen = FullTokens(v[Len(v)])
    BY <1>4, <2>5 DEF LogOf
  <2>8. ~IsPrefix(seen, it.prompt)
    BY <1>1, <2>1, <2>4, ContiguousIsPrefix DEF Contiguous
  <2>9. ~RolloutContiguous
    BY <2>6, <2>7, <2>8 DEF RolloutContiguous
  <2>. QED  BY <1>6, <2>9 DEF PostprocessCorrect
<1>7. CASE pc = "loop"
  BY <1>7 DEF PostprocessCorrect
<1>. QED  BY <1>5, <1>6, <1>7 DEF PInv

-----------------------------------------------------------------------------
\* The message log of every rollout is exact (penguin.py:107-152), for
\* every set of token ids and every bound on items, prompts and
\* generations: the AssertionError is raised only on a rollout whose turns
\* do not extend each other, and otherwise the log alternates user and
\* assistant messages whose tokens rebuild the last turn.
THEOREM PostprocessCorrectHolds == Spec => []PostprocessCorrect
<1>1. Init => PInv  BY PInit
<1>2. PInv /\ [Next]_vars => PInv'  BY PStep
<1>3. PInv => PostprocessCorrect  BY PInvCorrect
<1>. QED  BY <1>1, <1>2, <1>3, PTL DEF Spec

=============================================================================
