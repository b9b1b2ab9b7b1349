-------------------------- MODULE DPOValidate_proofs --------------------------
(***************************************************************************)
(* Proof that a validation pass reports the sample-weighted mean of the   *)
(* batches it was meant to read (AggregationCorrect).                      *)
(*                                                                         *)
(* The reference values are sums and a filter written as recursive        *)
(* functions over a sequence.  The provers cannot do induction over a      *)
(* sequence, so a recursive function is handled through its table: a      *)
(* function g on 0..Len(t) that satisfies the defining equation.  "The     *)
(* sum of w over t is n" says that such a table exists and that every     *)
(* such table ends in n.  Both halves are preserved when an element is    *)
(* appended: a table is extended by one entry, and a table of the longer  *)
(* sequence restricts to one of the shorter.  Uniqueness of the table is  *)
(* never needed.                                                           *)
(***************************************************************************)
EXTENDS DPOValidate, SequenceTheorems, TLAPS

\* g is a table of the running sum of w[t[k]].
SumTab(g, t, w) ==
    g = [k \in 0..Len(t) |-> IF k = 0 THEN 0 ELSE g[k - 1] + w[t[k]]]

\* The sum of w over the elements of t is n.
SumIs(t, w, n) ==
    /\ \E g : SumTab(g, t, w)
    /\ \A g : SumTab(g, t, w) => g[Len(t)] = n

\* F is a table of the batches of s that produced metrics.
FiltTab(F, s) ==
    F = [i \in 0..Len(s) |->
           IF i = 0 THEN <<>>
           ELSE IF s[i] # <<>> THEN Append(F[i - 1], s[i]) ELSE F[i - 1]]

\* The batches of s with metrics, in order, are v.
FiltIs(s, v) ==
    /\ \E F : FiltTab(F, s)
    /\ \A F : FiltTab(F, s) => F[Len(s)] = v

\* The batch reductions as functions on the batches.
Ws == [b \in Batches |-> BatchSamples(b)]
Ww == [b \in Batches |-> Weighted(b)]

-----------------------------------------------------------------------------
(* The tables of the empty sequence and of an appended element *)

\* The sum over the empty sequence is 0.
LEMMA SumIsEmpty ==
    ASSUME NEW w
    PROVE  SumIs(<<>>, w, 0)
<1>1. SumTab([k \in {0} |-> 0], <<>>, w)
  BY DEF SumTab
<1>2. ASSUME NEW g, SumTab(g, <<>>, w) PROVE g[0] = 0
  BY <1>2 DEF SumTab
<1>. QED  BY <1>1, <1>2 DEF SumIs

\* The filter of the empty sequence is empty.
LEMMA FiltIsEmpty == FiltIs(<<>>, <<>>)
<1>1. FiltTab([i \in {0} |-> <<>>], <<>>)
  BY DEF FiltTab
<1>2. ASSUME NEW F, FiltTab(F, <<>>) PROVE F[0] = <<>>
  BY <1>2 DEF FiltTab
<1>. QED  BY <1>1, <1>2 DEF FiltIs

\* Appending x to t adds w[x] to the sum.
LEMMA SumIsAppend ==
    ASSUME NEW S, NEW t \in Seq(S), NEW x \in S, NEW w, NEW n,
           SumIs(t, w, n)
    PROVE  SumIs(Append(t, x), w, n + w[x])
<1>. DEFINE L == Len(t)
<1>1. /\ Len(Append(t, x)) = L + 1
      /\ \A i \in 1..L : Append(t, x)[i] = t[i]
      /\ Append(t, x)[L + 1] = x
      /\ L \in Nat
  BY AppendProperties
<1>2. \E g : SumTab(g, Append(t, x), w)
  <2>1. PICK g : SumTab(g, t, w)
    BY DEF SumIs
  <2>. DEFINE h == [j \in 0..(L + 1) |-> IF j <= L THEN g[j] ELSE g[L] + w[x]]
  <2>2. \A k \in 1..L : g[k] = g[k - 1] + w[t[k]]
    BY <2>1, <1>1 DEF SumTab
  <2>3. g[0] = 0
    BY <2>1, <1>1 DEF SumTab
  <2>4. SumTab(h, Append(t, x), w)
    BY <1>1, <2>2, <2>3 DEF SumTab
  <2>. QED  BY <2>4
<1>3. ASSUME NEW h, SumTab(h, Append(t, x), w) PROVE h[L + 1] = n + w[x]
  <2>. DEFINE g == [j \in 0..L |-> h[j]]
  <2>1. \A k \in 0..(L + 1) : h[k] = IF k = 0 THEN 0 ELSE h[k - 1] + w[Append(t, x)[k]]
    BY <1>3, <1>1 DEF SumTab
  <2>2. SumTab(g, t, w)
    BY <2>1, <1>1 DEF SumTab
  <2>3. g[L] = n
    BY <2>2 DEF SumIs
  <2>4. h[L + 1] = h[L] + w[x]
    BY <2>1, <1>1
  <2>. QED  BY <2>3, <2>4, <1>1
<1>. QED  BY <1>1, <1>2, <1>3 DEF SumIs

\* Appending a batch with metrics appends it to the filter; appending one
\* without leaves the filter as it was.
LEMMA FiltIsAppend ==
    ASSUME NEW S, NEW s \in Seq(S), NEW x \in S, NEW v, FiltIs(s, v)
    PROVE  FiltIs(Append(s, x), IF x # <<>> THEN Append(v, x) ELSE v)
<1>. DEFINE L == Len(s)
<1>. DEFINE Grown(u) == IF x # <<>> THEN Append(u, x) ELSE u
<1>1. /\ Len(Append(s, x)) = L + 1
      /\ \A i \in 1..L : Append(s, x)[i] = s[i]
      /\ Append(s, x)[L + 1] = x
      /\ L \in Nat
  BY AppendProperties
<1>2. \E F : FiltTab(F, Append(s, x))
  <2>1. PICK F : FiltTab(F, s)
    BY DEF FiltIs
  <2>. DEFINE G == [j \in 0..(L + 1) |-> IF j <= L THEN F[j] ELSE Grown(F[L])]
  <2>2. \A i \in 1..L : F[i] = IF s[i] # <<>> THEN Append(F[i - 1], s[i]) ELSE F[i - 1]
    <3>. SUFFICES ASSUME NEW i \in 1..L
                  PROVE  F[i] = IF s[i] # <<>> THEN Append(F[i - 1], s[i]) ELSE F[i - 1]
      OBVIOUS
    <3>1. i \in 0..Len(s) /\ i # 0
      BY <1>1
    <3>. QED  BY <3>1, <2>1, Zenon DEF FiltTab
  <2>3. F[0] = <<>>
    BY <2>1, <1>1 DEF FiltTab
  <2>4. FiltTab(G, Append(s, x))
    BY <1>1, <2>2, <2>3 DEF FiltTab
  <2>. QED  BY <2>4
<1>3. ASSUME NEW G, FiltTab(G, Append(s, x)) PROVE G[L + 1] = Grown(v)
  <2>. DEFINE F == [j \in 0..L |-> G[j]]
  <2>1. \A i \in 0..(L + 1) : G[i] = IF i = 0 THEN <<>>
                                     ELSE IF Append(s, x)[i] # <<>>
                                            THEN Append(G[i - 1], Append(s, x)[i])
                                            ELSE G[i - 1]
    BY <1>3, <1>1 DEF FiltTab
  <2>2. FiltTab(F, s)
    BY <2>1, <1>1 DEF FiltTab
  <2>3. G[L] = v
    BY <2>2 DEF FiltIs
  <2>4. G[L + 1] = Grown(G[L])
    BY <2>1, <1>1
  <2>. QED  BY <2>3, <2>4
<1>. QED  BY <1>1, <1>2, <1>3 DEF FiltIs

-----------------------------------------------------------------------------
(* The reference operators through their tables *)

\* KeepValid(s) is the filter its table describes.
LEMMA KeepValidIs ==
    ASSUME NEW s, NEW v, FiltIs(s, v)
    PROVE  KeepValid(s) = v
<1>1. KeepValid(s) = (CHOOSE F : FiltTab(F, s))[Len(s)]
  BY DEF KeepValid, FiltTab
<1>. QED  BY <1>1 DEF FiltIs

\* The sum of num_valid_samples over a list of batches.
LEMMA SamplesSumIs ==
    ASSUME NEW t \in Seq(Batches), NEW n, SumIs(t, Ws, n)
    PROVE  SeqSum(t, BatchSamples) = n
<1>. DEFINE Tab(g) == g = [k \in 0..Len(t) |->
                             IF k = 0 THEN 0 ELSE g[k - 1] + BatchSamples(t[k])]
<1>1. SeqSum(t, BatchSamples) = (CHOOSE g : Tab(g))[Len(t)]
  BY DEF SeqSum
<1>2. ASSUME NEW g PROVE Tab(g) <=> SumTab(g, t, Ws)
  <2>1. \A k \in 1..Len(t) : t[k] \in Batches
    OBVIOUS
  <2>2. [k \in 0..Len(t) |-> IF k = 0 THEN 0 ELSE g[k - 1] + BatchSamples(t[k])]
        = [k \in 0..Len(t) |-> IF k = 0 THEN 0 ELSE g[k - 1] + Ws[t[k]]]
    BY <2>1 DEF Ws
  <2>. QED  BY <2>2 DEF SumTab
<1>3. Tab(CHOOSE g : Tab(g))
  BY <1>2 DEF SumIs
<1>. QED  BY <1>1, <1>2, <1>3 DEF SumIs

\* The sum of value * weight over a list of batches.
LEMMA WeightedSumIs ==
    ASSUME NEW t \in Seq(Batches), NEW n, SumIs(t, Ww, n)
    PROVE  SeqSum(t, RefValueWeight) = n
<1>. DEFINE Tab(g) == g = [k \in 0..Len(t) |->
                             IF k = 0 THEN 0
                             ELSE g[k - 1] + RefValueWeight(t[k])]
<1>1. SeqSum(t, RefValueWeight) = (CHOOSE g : Tab(g))[Len(t)]
  BY DEF SeqSum
<1>2. ASSUME NEW g PROVE Tab(g) <=> SumTab(g, t, Ww)
  <2>1. \A k \in 1..Len(t) : t[k] \in Batches
    OBVIOUS
  <2>2. [k \in 0..Len(t) |-> IF k = 0 THEN 0
                             ELSE g[k - 1] + RefValueWeight(t[k])]
        = [k \in 0..Len(t) |-> IF k = 0 THEN 0 ELSE g[k - 1] + Ww[t[k]]]
    BY <2>1 DEF Ww, Weighted, RefValueWeight
  <2>. QED  BY <2>2 DEF SumTab
<1>3. Tab(CHOOSE g : Tab(g))
  BY <1>2 DEF SumIs
<1>. QED  BY <1>1, <1>2, <1>3 DEF SumIs

\* The batches read so far grow by the next one.
LEMMA PrefixAppend ==
    ASSUME NEW S, NEW s \in Seq(S), NEW k \in 0..(Len(s) - 1)
    PROVE  /\ SubSeq(s, 1, k) \in Seq(S)
           /\ s[k + 1] \in S
           /\ SubSeq(s, 1, k + 1) = Append(SubSeq(s, 1, k), s[k + 1])
BY SubSeqProperties, AppendProperties, SeqEqual

\* A validation dataset is a sequence of batches.
LEMMA DataSetsSeq == DataSets \subseteq Seq(Batches)
BY DEF DataSets

-----------------------------------------------------------------------------
(* The inductive invariant *)

\* The batches of the current dataset taken from the enumerate so far.
Prefix == SubSeq(data[cur], 1, batchIdx)

\* The loop of validate_one_dataset has accumulated exactly the reductions
\* of the valid batches among those taken.
Accumulated ==
    \E v \in Seq(Batches) :
        /\ FiltIs(Prefix, v)
        /\ Len(v) = numValid
        /\ SumIs(v, Ws, sumW)
        /\ SumIs(v, Ww, sumVW)

\* AggregationCorrect strengthened by the loop invariant of the batch loop
\* (dpo.py:379-414): the accumulators hold the reductions of the valid
\* batches taken so far, the val_batches break has not been passed, and
\* the loop ends with exactly the batches ReadBatches names.
AggInv ==
    /\ data \in [ValDatasets -> Seq(Batches)]
    /\ DOMAIN metrics = ValDatasets
    /\ todo \subseteq ValDatasets
    /\ pc \in {"next_ds", "batch", "aggregate", "done", "error"}
    /\ pc \in {"batch", "aggregate"} =>
         /\ cur \in ValDatasets
         /\ batchIdx \in 0..Len(data[cur])
         /\ Accumulated
    /\ pc = "batch" /\ ValBatches > 0 => batchIdx < ValBatches
    /\ pc = "aggregate" => ReadBatches(cur) = Prefix
    /\ AggregationCorrect

LEMMA AggInit == Init => AggInv
<1>. SUFFICES ASSUME Init PROVE AggInv
  OBVIOUS
<1>1. data \in [ValDatasets -> Seq(Batches)]
  BY DataSetsSeq DEF Init
<1>2. AggregationCorrect
  BY DEF Init, AggregationCorrect
<1>. QED  BY <1>1, <1>2 DEF Init, AggInv

\* When the batch loop has ended, the accumulators are the reference values.
LEMMA AtAggregate ==
    ASSUME AggInv, pc = "aggregate"
    PROVE  /\ RefValid(cur) = <<>> <=> numValid = 0
           /\ RefSamples(cur) = sumW
           /\ RefWeighted(cur) = sumVW
<1>1. PICK v \in Seq(Batches) :
        /\ FiltIs(Prefix, v)
        /\ Len(v) = numValid
        /\ SumIs(v, Ws, sumW)
        /\ SumIs(v, Ww, sumVW)
  BY DEF AggInv, Accumulated
<1>2. RefValid(cur) = v
  <2>1. ReadBatches(cur) = Prefix
    BY DEF AggInv
  <2>. QED  BY <1>1, <2>1, KeepValidIs DEF RefValid
<1>3. v = <<>> <=> numValid = 0
  BY <1>1, EmptySeq, LenProperties
<1>4. RefSamples(cur) = sumW
  BY <1>1, <1>2, SamplesSumIs DEF RefSamples
<1>5. RefWeighted(cur) = sumVW
  BY <1>1, <1>2, WeightedSumIs DEF RefWeighted
<1>. QED  BY <1>2, <1>3, <1>4, <1>5

\* The reference values depend on the datasets alone.
LEMMA RefUnchanged ==
    ASSUME data' = data
    PROVE  \A d : /\ RefValid(d)' = RefValid(d)
                  /\ RefSamples(d)' = RefSamples(d)
                  /\ RefWeighted(d)' = RefWeighted(d)
<1>1. \A d : ReadBatches(d)' = ReadBatches(d)
  BY DEF ReadBatches
<1>2. \A d : RefValid(d)' = RefValid(d)
  BY <1>1 DEF RefValid
<1>3. \A d : RefSamples(d)' = RefSamples(d)
  BY <1>2 DEF RefSamples
<1>4. \A d : RefWeighted(d)' = RefWeighted(d)
  BY <1>2 DEF RefWeighted
<1>. QED  BY <1>2, <1>3, <1>4

\* A step that changes neither the datasets nor the metrics keeps
\* AggregationCorrect.
LEMMA AggregationUnchanged ==
    ASSUME AggregationCorrect, data' = data, metrics' = metrics
    PROVE  AggregationCorrect'
BY RefUnchanged DEF AggregationCorrect

\* Taking the next batch: the prefix grows by it, and the accumulators by
\* its reductions when it has metrics.
LEMMA ValBatchStep ==
    ASSUME AggInv, ValBatch
    PROVE  AggInv'
<1>. DEFINE d == data[cur]
            b == d[batchIdx + 1]
<1>1. /\ cur \in ValDatasets
      /\ d \in Seq(Batches)
      /\ batchIdx \in 0..(Len(d) - 1)
  BY DEF AggInv, ValBatch
<1>2. /\ Prefix \in Seq(Batches)
      /\ b \in Batches
      /\ Prefix' = Append(Prefix, b)
  <2>1. /\ SubSeq(d, 1, batchIdx) \in Seq(Batches)
        /\ b \in Batches
        /\ SubSeq(d, 1, batchIdx + 1) = Append(SubSeq(d, 1, batchIdx), b)
    BY <1>1, PrefixAppend
  <2>. QED  BY <2>1 DEF Prefix, ValBatch
<1>3. Accumulated'
  <2>1. PICK v \in Seq(Batches) :
          /\ FiltIs(Prefix, v)
          /\ Len(v) = numValid
          /\ SumIs(v, Ws, sumW)
          /\ SumIs(v, Ww, sumVW)
    BY DEF AggInv, Accumulated, ValBatch
  <2>2. FiltIs(Prefix', IF b # <<>> THEN Append(v, b) ELSE v)
    BY <1>2, <2>1, FiltIsAppend
  <2>3. CASE b = <<>>
    <3>1. /\ numValid' = numValid /\ sumW' = sumW /\ sumVW' = sumVW
      BY <2>3 DEF ValBatch
    <3>. QED  BY <2>1, <2>2, <2>3, <3>1 DEF Accumulated
  <2>4. CASE b # <<>>
    <3>1. /\ numValid' = numValid + 1
          /\ sumW' = sumW + BatchSamples(b)
          /\ sumVW' = sumVW + Weighted(b)
      BY <2>4 DEF ValBatch
    <3>2. /\ Append(v, b) \in Seq(Batches)
          /\ Len(Append(v, b)) = numValid + 1
      BY <1>2, <2>1, AppendProperties
    <3>3. SumIs(Append(v, b), Ws, sumW + Ws[b])
      BY <1>2, <2>1, SumIsAppend
    <3>4. SumIs(Append(v, b), Ww, sumVW + Ww[b])
      BY <1>2, <2>1, SumIsAppend
    <3>5. Ws[b] = BatchSamples(b) /\ Ww[b] = Weighted(b)
      BY <1>2 DEF Ws, Ww
    <3>. QED  BY <2>2, <2>4, <3>1, <3>2, <3>3, <3>4, <3>5 DEF Accumulated
  <2>. QED  BY <2>3, <2>4
<1>4. pc' = "batch" /\ ValBatches > 0 => batchIdx' < ValBatches
  BY <1>1, ValAssumption DEF ValBatch, StopAfter
<1>5. pc' = "aggregate" => ReadBatches(cur)' = Prefix'
  <2>. SUFFICES ASSUME pc' = "aggregate" PROVE ReadBatches(cur)' = Prefix'
    OBVIOUS
  <2>1. ValBatches > 0 /\ batchIdx + 1 = ValBatches
    BY <1>1, ValAssumption DEF ValBatch, StopAfter, AggInv
  <2>2. ReadBatches(cur)' = ReadBatches(cur) /\ Prefix' = SubSeq(d, 1, batchIdx + 1)
    BY DEF ValBatch, ReadBatches, Prefix
  <2>3. CASE ValBatches < Len(d)
    BY <2>1, <2>2, <2>3 DEF ReadBatches
  <2>4. CASE ~(ValBatches < Len(d))
    <3>1. Len(d) = batchIdx + 1
      BY <1>1, <2>1, <2>4
    <3>2. SubSeq(d, 1, Len(d)) = d
      BY <1>1, SubSeqFull
    <3>. QED  BY <2>1, <2>2, <2>4, <3>1, <3>2 DEF ReadBatches
  <2>. QED  BY <2>3, <2>4
<1>6. AggregationCorrect'
  BY AggregationUnchanged DEF AggInv, ValBatch
<1>7. batchIdx' \in 0..Len(data'[cur'])
  BY <1>1 DEF ValBatch
<1>. QED  BY <1>3, <1>4, <1>5, <1>6, <1>7 DEF AggInv, ValBatch

\* Starting the next dataset: nothing has been taken or accumulated.
LEMMA ValidateBeginStep ==
    ASSUME AggInv, ValidateBegin
    PROVE  AggInv'
<1>1. AggregationCorrect'
  BY AggregationUnchanged DEF AggInv, ValidateBegin
<1>2. CASE \E d \in todo : /\ cur' = d
                          /\ batchIdx' = 0 /\ numValid' = 0 /\ sumW' = 0 /\ sumVW' = 0
                          /\ pc' = "batch"
  <2>1. PICK d \in todo : /\ cur' = d
                         /\ batchIdx' = 0 /\ numValid' = 0 /\ sumW' = 0 /\ sumVW' = 0
                         /\ pc' = "batch"
    BY <1>2
  <2>2. d \in ValDatasets /\ data'[d] \in Seq(Batches)
    BY DEF AggInv, ValidateBegin
  <2>3. Prefix' = <<>>
    BY <2>1, <2>2, SubSeqEmpty DEF Prefix
  <2>4. Accumulated'
    <3>1. <<>> \in Seq(Batches) /\ Len(<<>>) = 0
      BY EmptySeq
    <3>. QED  BY <2>1, <2>3, <3>1, FiltIsEmpty, SumIsEmpty DEF Accumulated
  <2>5. batchIdx' \in 0..Len(data'[cur'])
    BY <2>1, <2>2
  <2>. QED  BY <1>1, <2>1, <2>2, <2>4, <2>5 DEF AggInv, ValidateBegin
<1>3. CASE /\ todo = {}
           /\ pc' = "done"
           /\ UNCHANGED <<cur, batchIdx, numValid, sumW, sumVW>>
  BY <1>1, <1>3 DEF AggInv, ValidateBegin
<1>. QED  BY <1>2, <1>3 DEF ValidateBegin

\* The dataloader is exhausted: every batch has been read, which is what
\* ReadBatches names since the val_batches break was not reached.
LEMMA ValExhaustedStep ==
    ASSUME AggInv, ValExhausted
    PROVE  AggInv'
<1>1. AggregationCorrect'
  BY AggregationUnchanged DEF AggInv, ValExhausted
<1>2. /\ cur \in ValDatasets
      /\ data[cur] \in Seq(Batches)
      /\ batchIdx = Len(data[cur])
      /\ ValBatches > 0 => batchIdx < ValBatches
  BY DEF AggInv, ValExhausted
<1>3. ReadBatches(cur) = Prefix
  <2>1. SubSeq(data[cur], 1, Len(data[cur])) = data[cur]
    BY <1>2, SubSeqFull
  <2>. QED  BY <1>2, <2>1, ValAssumption DEF ReadBatches, Prefix
<1>4. ReadBatches(cur)' = Prefix'
  BY <1>3 DEF ValExhausted, ReadBatches, Prefix
<1>5. Accumulated'
  <2>1. Prefix' = Prefix
    BY DEF ValExhausted, Prefix
  <2>. QED  BY <2>1 DEF AggInv, ValExhausted, Accumulated
<1>. QED  BY <1>1, <1>4, <1>5 DEF AggInv, ValExhausted

\* The aggregation stores for the current dataset what AtAggregate shows
\* the reference to be; the other datasets keep their results.
LEMMA AggregateStep ==
    ASSUME AggInv, Aggregate
    PROVE  AggInv'
<1>1. /\ cur \in ValDatasets
      /\ RefValid(cur) = <<>> <=> numValid = 0
      /\ RefSamples(cur) = sumW
      /\ RefWeighted(cur) = sumVW
  BY AtAggregate DEF AggInv, Aggregate
<1>3. ASSUME NEW d \in ValDatasets, d # cur \/ metrics'[cur] = metrics[cur]
      PROVE  metrics'[d] = metrics[d]
  BY <1>3 DEF Aggregate, AggInv
<1>4. AggregationCorrect'
  <2>. SUFFICES ASSUME NEW d \in ValDatasets, metrics'[d] \notin {NoResult, NaN}
                PROVE  IF RefValid(d)' = <<>>
                         THEN metrics'[d] = Zeros
                         ELSE /\ metrics'[d].samples = RefSamples(d)'
                              /\ metrics'[d].num * RefSamples(d)'
                                   = RefWeighted(d)' * metrics'[d].den
    BY DEF AggregationCorrect
  <2>1. /\ RefValid(d)' = RefValid(d)
        /\ RefSamples(d)' = RefSamples(d)
        /\ RefWeighted(d)' = RefWeighted(d)
    BY RefUnchanged DEF Aggregate
  <2>2. CASE d # cur \/ metrics'[cur] = metrics[cur]
    BY <1>3, <2>1, <2>2 DEF AggInv, AggregationCorrect
  <2>3. CASE d = cur /\ metrics'[cur] # metrics[cur]
    <3>1. CASE /\ numValid > 0 /\ sumW > 0
               /\ metrics' = [metrics EXCEPT ![cur] =
                                [samples |-> sumW, num |-> sumVW, den |-> sumW]]
      BY <1>1, <2>1, <2>3, <3>1 DEF AggInv
    <3>2. CASE /\ numValid > 0 /\ sumW = 0
               /\ \/ metrics' = metrics
                  \/ metrics' = [metrics EXCEPT ![cur] = NaN]
      BY <2>3, <3>2 DEF AggInv
    <3>3. CASE /\ numValid = 0
               /\ metrics' = [metrics EXCEPT ![cur] = Zeros]
      BY <1>1, <2>1, <2>3, <3>3 DEF AggInv
    <3>. QED  BY <3>1, <3>2, <3>3 DEF Aggregate
  <2>. QED  BY <2>2, <2>3
<1>5. pc' \in {"next_ds", "error"} /\ todo' \subseteq ValDatasets
      /\ DOMAIN metrics' = ValDatasets
  BY DEF Aggregate, AggInv
<1>. QED  BY <1>4, <1>5 DEF AggInv, Aggregate

LEMMA AggStep == AggInv /\ [Next]_vars => AggInv'
<1>. SUFFICES ASSUME AggInv, [Next]_vars PROVE AggInv'
  OBVIOUS
<1>1. CASE ValidateBegin  BY <1>1, ValidateBeginStep
<1>2. CASE ValBatch  BY <1>2, ValBatchStep
<1>3. CASE ValExhausted  BY <1>3, ValExhaustedStep
<1>4. CASE Aggregate  BY <1>4, AggregateStep
<1>5. CASE UNCHANGED vars
  <2>1. AggregationCorrect'
    BY <1>5, AggregationUnchanged DEF AggInv, vars
  <2>. QED  BY <1>5, <2>1 DEF AggInv, vars, Accumulated, Prefix, ReadBatches
<1>. QED  BY <1>1, <1>2, <1>3, <1>4, <1>5 DEF Next

-----------------------------------------------------------------------------
\* Every dataset validate() has reported on carries the sample-weighted
\* mean of the valid batches among the first val_batches (dpo.py:413-414,
\* 424-433), zeros when none produced metrics, for every number of
\* datasets, batches and micro-batches and every val_batches.
THEOREM AggregationCorrectHolds == Spec => []AggregationCorrect
<1>1. Init => AggInv  BY AggInit
<1>2. AggInv /\ [Next]_vars => AggInv'  BY AggStep
<1>3. AggInv => AggregationCorrect  BY DEF AggInv
<1>. QED  BY <1>1, <1>2, <1>3, PTL DEF Spec

=============================================================================
