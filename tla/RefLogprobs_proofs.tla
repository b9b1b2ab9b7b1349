-------------------------- MODULE RefLogprobs_proofs --------------------------
(***************************************************************************)
(* Proofs that add_ref_logprobs_to_data keeps its types and that its      *)
(* training assertion fires only from the configuration, never from the  *)
(* tail of the dataset, for every dataset length, batch size, micro-batch *)
(* size and data-parallel size.                                           *)
(***************************************************************************)
EXTENDS RefLogprobs, SequenceTheorems, TLAPS

USE RefLogprobsAssumption

\* The shard size is positive.
LEMMA ShardPositive ==
    ASSUME mbs \in MicroSizes, dp \in DpSizes
    PROVE  Shard \in Nat \ {0}
BY DEF Shard, MicroBatchSize

\* The batch YieldBatch appends.
NewBatch ==
    LET r == Rows(LoaderNext) IN
    [examples |-> LoaderNext,
     rows     |-> IF r % Shard # 0 THEN PadRows(r, Shard) ELSE r,
     refLp    |-> RollLeft(RefLp)]

LEMMA TypeInit == Init => TypeOK
BY DEF Init, TypeOK

\* The batch a step pulls holds at most the examples not yet taken.
LEMMA LoaderNextBound ==
    ASSUME TypeOK
    PROVE  LoaderNext \in 0..(n - taken)
BY DEF TypeOK, LoaderNext, DropLast

LEMMA TypeStep == TypeOK /\ [Next]_vars => TypeOK'
<1> SUFFICES ASSUME TypeOK, [Next]_vars PROVE TypeOK'
  OBVIOUS
<1>0. LoaderNext \in 0..(n - taken) /\ Shard \in Nat \ {0}
  BY LoaderNextBound, ShardPositive DEF TypeOK
<1>1. CASE YieldBatch
  <2>1. RollLeft(RefLp) \in Seq(Nat)
    <3>1. \A i \in 1..SeqLen : (i % SeqLen) + 1 \in 1..SeqLen
      BY SMT
    <3>2. Len(RefLp) = SeqLen
      BY DEF RefLp
    <3>. QED  BY <3>1, <3>2 DEF RollLeft, RefLp
  <2>2. PadRows(Rows(LoaderNext), Shard) \in Nat
    <3>1. Rows(LoaderNext) \in Nat
      BY <1>0 DEF Rows
    <3>. QED  BY <1>0, <3>1, SMT DEF PadRows
  <2>3. NewBatch \in [examples : Nat, rows : Nat, refLp : Seq(Nat)]
    BY <1>0, <2>1, <2>2 DEF NewBatch, Rows
  <2>4. out' = Append(out, NewBatch) /\ taken' = taken + LoaderNext
    BY <1>1 DEF YieldBatch, NewBatch
  <2>5. out' \in Seq([examples : Nat, rows : Nat, refLp : Seq(Nat)])
    BY <2>3, <2>4, AppendProperties DEF TypeOK
  <2>. QED  BY <1>0, <1>1, <2>4, <2>5 DEF YieldBatch, TypeOK
<1>2. CASE PartialTrainBatch
  BY <1>0, <1>2 DEF PartialTrainBatch, TypeOK
<1>3. CASE Exhausted
  BY <1>3 DEF Exhausted, TypeOK
<1>4. CASE UNCHANGED vars
  BY <1>4 DEF vars, TypeOK
<1>. QED  BY <1>1, <1>2, <1>3, <1>4 DEF Next

(* The generator's variables keep their types. *)
THEOREM TypeCorrect == Spec => []TypeOK
BY TypeInit, TypeStep, PTL DEF Spec

-----------------------------------------------------------------------------
(* The assertion and the examples yielded.                                 *)

\* g is the table of prefix sums of the examples of the batches of s; the
\* function Yielded defines is the one such table.
SumEq(g, s) ==
    g = [k \in 0..Len(s) |-> IF k = 0 THEN 0 ELSE g[k - 1] + s[k].examples]

\* The prefix-sum table g of s extended by the examples of a batch b.
AppendSum(g, s, b) ==
    [j \in 0..(Len(s) + 1) |-> IF j <= Len(s) THEN g[j] ELSE g[Len(s)] + b.examples]

LEMMA YieldedChoose ==
    Yielded = (CHOOSE g : SumEq(g, out))[Len(out)]
BY DEF Yielded, SumEq

\* Facts of integer division: a number with remainder 0 is a multiple,
\* and the remainder of q * c + r with r < c is r.
LEMMA MultipleOf ==
    ASSUME NEW a \in Nat, NEW c \in Nat \ {0}, a % c = 0
    PROVE  a = (a \div c) * c /\ a \div c \in Nat
BY SMT

LEMMA ModRemainder ==
    ASSUME NEW q \in Nat, NEW r \in Nat, NEW c \in Nat \ {0}, r < c
    PROVE  (q * c + r) % c = r
BY SMT

LEMMA ModMultiple ==
    ASSUME NEW q \in Nat, NEW c \in Nat \ {0}
    PROVE  (q * c) % c = 0
BY SMT

\* A training pass pulls whole batches: what it has taken is a multiple of
\* the batch size.
LEMMA ModAdd ==
    ASSUME NEW t \in Nat, NEW b \in Nat \ {0}, t % b = 0
    PROVE  (t + b) % b = 0
<1>1. t + b = ((t \div b) + 1) * b /\ (t \div b) + 1 \in Nat
  BY MultipleOf, SMT
<1>. QED  BY <1>1, ModRemainder, SMT

\* A batch size that is a multiple of dp_size * micro_batch_size gives a
\* row count that is a multiple of the shard.
LEMMA ModDouble ==
    ASSUME NEW b \in Nat, NEW d \in Nat \ {0}, NEW u \in Nat \ {0},
           b % (d * u) = 0
    PROVE  (2 * b) % (d * (u * 2)) = 0
<1> DEFINE c == d * u
           q == b \div c
<1>1. c \in Nat \ {0}
  BY SMT
<1>2. b = q * c /\ q \in Nat
  BY <1>1, MultipleOf
<1> DEFINE s == d * (u * 2)
<1>3. 2 * b = q * s /\ s \in Nat \ {0}
  BY <1>2, SMT
<1>4. (q * s) % s = 0
  BY <1>2, <1>3, ModMultiple
<1>. QED  BY <1>3, <1>4

\* A multiple of b at most m and less than b below it is m rounded down to
\* a multiple of b.
LEMMA RoundDown ==
    ASSUME NEW t \in Nat, NEW m \in Nat, NEW b \in Nat \ {0},
           t % b = 0, t <= m, m - t < b
    PROVE  t = m - (m % b)
<1> DEFINE q == t \div b
<1>1. q \in Nat /\ t = q * b
  BY MultipleOf
<1>2. m = q * b + (m - t) /\ m - t \in Nat
  BY <1>1, SMT
<1>3. (q * b + (m - t)) % b = m - t
  BY <1>1, <1>2, ModRemainder
<1>4. m % b = m - t
  BY <1>2, <1>3
<1>. QED  BY <1>4, SMT

\* The inductive invariant behind PartialOnlyFromConfig.  Prefix-sum
\* tables of the yielded batches exist, and every one of them ends at the
\* examples taken, unless the assertion fired after taking a batch it did
\* not yield.
PartialInv ==
    /\ TypeOK
    /\ ~isVal => taken % bs = 0
    /\ pc = "failed" => ~isVal /\ bs % (dp * mbs) # 0
    /\ pc = "done" => taken = IF isVal THEN n ELSE n - (n % bs)
    /\ \E g : SumEq(g, out)
    /\ pc # "failed" => \A g : SumEq(g, out) => g[Len(out)] = taken

LEMMA PartialInit == Init => PartialInv
<1> SUFFICES ASSUME Init PROVE PartialInv
  OBVIOUS
<1>1. TypeOK
  BY TypeInit
<1>2. out = <<>> /\ taken = 0 /\ pc = "run"
  BY DEF Init
<1>3. SumEq([k \in {0} |-> 0], out)
  BY <1>2 DEF SumEq
<1>4. \A g : SumEq(g, out) => g[0] = 0
  BY <1>2 DEF SumEq
<1>. QED  BY <1>1, <1>2, <1>3, <1>4 DEF PartialInv, TypeOK

\* Under a training pass the loader returns the whole batch or nothing.
LEMMA TrainLoaderNext ==
    ASSUME TypeOK, ~isVal, LoaderNext > 0
    PROVE  LoaderNext = bs
BY DEF LoaderNext, DropLast

\* The entries of a prefix-sum table.
LEMMA SumEqAt ==
    ASSUME NEW s \in Seq([examples : Nat, rows : Nat, refLp : Seq(Nat)]),
           NEW g, SumEq(g, s)
    PROVE  /\ DOMAIN g = 0..Len(s)
           /\ g[0] = 0
           /\ \A k \in 1..Len(s) : g[k] = g[k - 1] + s[k].examples
<1>1. g = [k \in 0..Len(s) |-> IF k = 0 THEN 0 ELSE g[k - 1] + s[k].examples]
  BY DEF SumEq
<1>2. Len(s) \in Nat
  OBVIOUS
<1>3. DOMAIN g = 0..Len(s)
  BY <1>1, Zenon
<1>4. g[0] = 0
  <2>1. 0 \in 0..Len(s)
    BY <1>2
  <2>. QED  BY <1>1, <2>1, Zenon
<1>5. \A k \in 1..Len(s) : g[k] = g[k - 1] + s[k].examples
  <2> SUFFICES ASSUME NEW k \in 1..Len(s)
               PROVE  g[k] = g[k - 1] + s[k].examples
    OBVIOUS
  <2>1. k \in 0..Len(s) /\ k # 0
    BY <1>2
  <2>. QED  BY <1>1, <2>1, Zenon
<1>. QED  BY <1>3, <1>4, <1>5

\* What Append does to a sequence of batches, one fact per conjunct.
LEMMA AppendBatch ==
    ASSUME NEW s \in Seq([examples : Nat, rows : Nat, refLp : Seq(Nat)]),
           NEW b \in [examples : Nat, rows : Nat, refLp : Seq(Nat)]
    PROVE  /\ Len(s) \in Nat
           /\ Append(s, b) \in Seq([examples : Nat, rows : Nat, refLp : Seq(Nat)])
           /\ Len(Append(s, b)) = Len(s) + 1
           /\ Append(s, b)[Len(s) + 1] = b
           /\ \A k \in 1..Len(s) : Append(s, b)[k] = s[k]
BY AppendProperties

\* Appending a batch extends a prefix-sum table by the batch's examples.
LEMMA SumEqAppend ==
    ASSUME NEW s \in Seq([examples : Nat, rows : Nat, refLp : Seq(Nat)]),
           NEW b \in [examples : Nat, rows : Nat, refLp : Seq(Nat)],
           NEW g, SumEq(g, s)
    PROVE  SumEq(AppendSum(g, s, b), Append(s, b))
<1> DEFINE f == AppendSum(g, s, b)
<1>1. Len(s) \in Nat /\ Len(Append(s, b)) = Len(s) + 1
  BY AppendBatch
<1>2. g[0] = 0 /\ \A k \in 1..Len(s) : g[k] = g[k - 1] + s[k].examples
  BY SumEqAt
<1>3. ASSUME NEW k \in 1..Len(s)
      PROVE  f[k] = f[k - 1] + Append(s, b)[k].examples
  <2>1. f[k] = g[k] /\ f[k - 1] = g[k - 1]
    BY <1>1 DEF f, AppendSum
  <2>2. Append(s, b)[k] = s[k]
    BY AppendBatch
  <2>. QED  BY <1>2, <2>1, <2>2
<1>4. f[Len(s) + 1] = f[Len(s)] + Append(s, b)[Len(s) + 1].examples
  <2>1. f[Len(s) + 1] = g[Len(s)] + b.examples /\ f[Len(s)] = g[Len(s)]
    BY <1>1 DEF f, AppendSum
  <2>2. Append(s, b)[Len(s) + 1] = b
    BY AppendBatch
  <2>. QED  BY <2>1, <2>2
<1>5. ASSUME NEW k \in 1..(Len(s) + 1)
      PROVE  f[k] = f[k - 1] + Append(s, b)[k].examples
  <2>1. CASE k \in 1..Len(s)
    BY <1>3, <2>1
  <2>2. CASE k = Len(s) + 1
    BY <1>4, <2>2
  <2>. QED  BY <1>1, <2>1, <2>2
<1>6. f[0] = 0 /\ DOMAIN f = 0..(Len(s) + 1)
  BY <1>1, <1>2 DEF f, AppendSum
<1>7. f = [k \in 0..(Len(s) + 1) |->
             IF k = 0 THEN 0 ELSE f[k - 1] + Append(s, b)[k].examples]
  <2>1. f = [k \in DOMAIN f |-> f[k]]
    BY DEF f, AppendSum
  <2>2. \A k \in 0..(Len(s) + 1) :
           f[k] = IF k = 0 THEN 0 ELSE f[k - 1] + Append(s, b)[k].examples
    BY <1>1, <1>5, <1>6
  <2>. QED  BY <1>6, <2>1, <2>2
<1>. QED  BY <1>1, <1>7, Zenon DEF SumEq, f

\* A prefix-sum table of s with a batch appended restricts to one of s.
LEMMA SumEqRestrict ==
    ASSUME NEW s \in Seq([examples : Nat, rows : Nat, refLp : Seq(Nat)]),
           NEW b \in [examples : Nat, rows : Nat, refLp : Seq(Nat)],
           NEW g, SumEq(g, Append(s, b))
    PROVE  /\ SumEq([j \in 0..Len(s) |-> g[j]], s)
           /\ g[Len(s) + 1] = g[Len(s)] + b.examples
<1>1. Len(s) \in Nat /\ Len(Append(s, b)) = Len(s) + 1
  BY AppendBatch
<1>2. /\ g[0] = 0
      /\ \A k \in 1..Len(Append(s, b)) :
            g[k] = g[k - 1] + Append(s, b)[k].examples
  <2>1. Append(s, b) \in Seq([examples : Nat, rows : Nat, refLp : Seq(Nat)])
    BY AppendBatch
  <2>. QED  BY <2>1, SumEqAt
<1>3. \A k \in 1..Len(s) : g[k] = g[k - 1] + s[k].examples
  <2> SUFFICES ASSUME NEW k \in 1..Len(s)
               PROVE  g[k] = g[k - 1] + s[k].examples
    OBVIOUS
  <2>1. Append(s, b)[k] = s[k]
    BY AppendBatch
  <2>2. k \in 1..Len(Append(s, b))
    BY <1>1
  <2>. QED  BY <1>2, <2>1, <2>2
<1>4. g[0] = 0
  BY <1>2
<1>5. [j \in 0..Len(s) |-> g[j]]
        = [k \in 0..Len(s) |-> IF k = 0 THEN 0
                               ELSE [j \in 0..Len(s) |-> g[j]][k - 1] + s[k].examples]
  <2>1. \A k \in 0..Len(s) :
           [j \in 0..Len(s) |-> g[j]][k]
             = IF k = 0 THEN 0
               ELSE [j \in 0..Len(s) |-> g[j]][k - 1] + s[k].examples
    <3> SUFFICES ASSUME NEW k \in 0..Len(s)
                 PROVE  [j \in 0..Len(s) |-> g[j]][k]
                          = IF k = 0 THEN 0
                            ELSE [j \in 0..Len(s) |-> g[j]][k - 1] + s[k].examples
      OBVIOUS
    <3>1. CASE k = 0
      BY <3>1, <1>4
    <3>2. CASE k # 0
      <4>1. k \in 1..Len(s) /\ k - 1 \in 0..Len(s)
        BY <3>2, <1>1
      <4>. QED  BY <3>2, <4>1, <1>3
    <3>. QED  BY <3>1, <3>2
  <2>. QED  BY <2>1, Zenon
<1>6. g[Len(s) + 1] = g[Len(s)] + b.examples
  <2>1. Append(s, b)[Len(s) + 1] = b
    BY AppendBatch
  <2>2. Len(s) + 1 \in 1..Len(Append(s, b))
    BY <1>1
  <2>3. g[Len(s) + 1] = g[(Len(s) + 1) - 1] + Append(s, b)[Len(s) + 1].examples
    BY <1>2, <2>2, Zenon
  <2>4. (Len(s) + 1) - 1 = Len(s)
    BY <1>1
  <2>. QED  BY <2>1, <2>3, <2>4, Zenon
<1>. QED  BY <1>5, <1>6 DEF SumEq

LEMMA PartialStep == PartialInv /\ [Next]_vars => PartialInv'
<1> SUFFICES ASSUME PartialInv, [Next]_vars PROVE PartialInv'
  OBVIOUS
<1>0. /\ TypeOK /\ TypeOK'
      /\ out \in Seq([examples : Nat, rows : Nat, refLp : Seq(Nat)])
      /\ taken \in Nat /\ n \in Nat /\ bs \in Nat \ {0}
      /\ dp \in Nat \ {0} /\ mbs \in Nat \ {0}
  BY TypeStep DEF PartialInv, TypeOK
<1>1. CASE YieldBatch
  <2>0. /\ pc = "run" /\ LoaderNext > 0
        /\ out' = Append(out, NewBatch) /\ taken' = taken + LoaderNext
        /\ UNCHANGED <<isVal, n, bs, mbs, dp, pc>>
    BY <1>1 DEF YieldBatch, NewBatch
  <2>1. NewBatch \in [examples : Nat, rows : Nat, refLp : Seq(Nat)]
        /\ NewBatch.examples = LoaderNext
    <3>1. Len(out') = Len(out) + 1 /\ out'[Len(out) + 1] = NewBatch
      BY <1>0, <2>0, AppendProperties
    <3>. QED  BY <1>0, <3>1, AppendProperties DEF TypeOK, NewBatch
  <2>2. (~isVal => taken % bs = 0)'
    BY <1>0, <2>0, TrainLoaderNext, ModAdd DEF PartialInv
  <2>3. (\E g : SumEq(g, out))'
    <3>1. PICK g : SumEq(g, out)
      BY DEF PartialInv
    <3>. QED  BY <1>0, <2>0, <2>1, <3>1, SumEqAppend
  <2>4. (pc # "failed" => \A g : SumEq(g, out) => g[Len(out)] = taken)'
    <3> SUFFICES ASSUME NEW g, SumEq(g, out') PROVE g[Len(out')] = taken'
      BY <2>0
    <3>1. SumEq([k \in 0..Len(out) |-> g[k]], out)
          /\ g[Len(out) + 1] = g[Len(out)] + LoaderNext
      BY <1>0, <2>0, <2>1, SumEqRestrict
    <3>2. [k \in 0..Len(out) |-> g[k]][Len(out)] = taken
      BY <2>0, <3>1 DEF PartialInv
    <3>. QED  BY <1>0, <2>0, <3>1, <3>2, AppendProperties
  <2>. QED  BY <1>0, <2>0, <2>2, <2>3, <2>4 DEF PartialInv
<1>2. CASE PartialTrainBatch
  <2>0. /\ pc = "run" /\ ~isVal /\ LoaderNext > 0
        /\ Rows(LoaderNext) % Shard # 0
        /\ taken' = taken + LoaderNext /\ pc' = "failed"
        /\ UNCHANGED <<isVal, n, bs, mbs, dp, out>>
    BY <1>2 DEF PartialTrainBatch
  <2>1. LoaderNext = bs
    BY <1>0, <2>0, TrainLoaderNext
  <2>2. bs % (dp * mbs) # 0
    <3>1. Rows(bs) % Shard # 0
      BY <2>0, <2>1
    <3>. QED  BY <1>0, <3>1, ModDouble DEF Rows, Shard, MicroBatchSize
  <2>3. taken' % bs = 0
    BY <1>0, <2>0, <2>1, ModAdd DEF PartialInv
  <2>. QED  BY <1>0, <2>0, <2>2, <2>3 DEF PartialInv
<1>3. CASE Exhausted
  <2>0. /\ pc = "run" /\ LoaderNext = 0 /\ pc' = "done"
        /\ UNCHANGED <<isVal, n, bs, mbs, dp, taken, out>>
    BY <1>3 DEF Exhausted
  <2>1. taken <= n
    BY DEF PartialInv, TypeOK
  <2>4. /\ (\E g : SumEq(g, out))'
        /\ (\A g : SumEq(g, out) => g[Len(out)] = taken)'
    <3>1. \E g : SumEq(g, out)
      BY DEF PartialInv
    <3>2. \A g : SumEq(g, out) => g[Len(out)] = taken
      BY <2>0 DEF PartialInv
    <3>. QED  BY <2>0, <3>1, <3>2
  <2>2. CASE isVal
    <3>1. taken = n
      BY <1>0, <2>0, <2>1, <2>2 DEF LoaderNext, DropLast
    <3>. QED  BY <1>0, <2>0, <2>2, <2>4, <3>1 DEF PartialInv
  <2>3. CASE ~isVal
    <3>1. n - taken < bs /\ taken % bs = 0
      BY <1>0, <2>0, <2>3 DEF LoaderNext, PartialInv
    <3>2. taken = n - (n % bs)
      BY <1>0, <2>1, <3>1, RoundDown
    <3>. QED  BY <1>0, <2>0, <2>3, <2>4, <3>2 DEF PartialInv
  <2>. QED  BY <2>2, <2>3
<1>4. CASE UNCHANGED vars
  BY <1>0, <1>4 DEF vars, PartialInv
<1>. QED  BY <1>1, <1>2, <1>3, <1>4 DEF Next

(* The assertion against partial training batches fires only for a global *)
(* batch size that is not a multiple of dp_size * micro_batch_size, and a  *)
(* pass that ends has yielded every example (validation) or every full    *)
(* batch (training) exactly once, for every dataset length and            *)
(* configuration (dpo.py:166-201, 270-303).                               *)
THEOREM PartialOnlyFromConfigHolds == Spec => []PartialOnlyFromConfig
<1>1. PartialInv => PartialOnlyFromConfig
  <2> SUFFICES ASSUME PartialInv PROVE PartialOnlyFromConfig
    OBVIOUS
  <2>1. pc = "done" => Yielded = taken
    <3> SUFFICES ASSUME pc = "done" PROVE Yielded = taken
      OBVIOUS
    <3>1. SumEq(CHOOSE g : SumEq(g, out), out)
      BY DEF PartialInv
    <3>2. (CHOOSE g : SumEq(g, out))[Len(out)] = taken
      BY <3>1 DEF PartialInv
    <3>. QED  BY <3>2, YieldedChoose
  <2>. QED  BY <2>1 DEF PartialInv, PartialOnlyFromConfig
<1>. QED  BY <1>1, PartialInit, PartialStep, PTL DEF Spec
=============================================================================
