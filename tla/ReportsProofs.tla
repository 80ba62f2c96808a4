--------------------------- MODULE ReportsProofs ---------------------------
(***************************************************************************)
(* Proofs about Reports for every size of the reports and every sequence   *)
(* of latencies: the top-n list is the top n of all samples, in order and  *)
(* with the right indices.                                                 *)
(***************************************************************************)
EXTENDS Reports, FiniteSetTheorems, TLAPS

\* Ranks that hold no sample yet hold the initial zero, so that every sample
\* finds its rank among the filled ones or directly behind them.
EmptyTail == \A i \in Ranks : i >= idx_ => top_ns_[i] = 0

\* The counters of the reports that exist count the samples.
InStep ==
  /\ idx_ = IF HasHist THEN Len(seen) ELSE 0
  /\ HasSeries => series_idx_ = Len(seen)

TopInv ==
  /\ TopSorted /\ TopPointsToSamples /\ TopIsLargest /\ EmptyTail

\* Row r of the time series is sample r.
SeriesInv ==
  HasSeries => \A r \in Rows : r < Len(seen) => data_[r] = seen[r + 1]

\* Nothing is exported before the end, and nothing is recorded after it.
CsvInv ==
  /\ status = "running" => DOMAIN csv = {}
  /\ \A f \in DOMAIN csv : csv[f] = Contents[f]

IInv == TypeOK /\ InStep /\ TopInv /\ SeriesInv /\ CsvInv

-----------------------------------------------------------------------------
(* Type correctness.                                                        *)

LEMMA MaxTopnType == MaxTopn \in Nat /\ MaxTopn > 0
  BY SizesAssumption DEF SizesAssumption

\* Moving a list back by one from rank i keeps it a list of numbers, and says
\* where every old entry has gone.
LEMMA ShiftedType ==
  ASSUME NEW f \in [Ranks -> Nat], NEW i \in Ranks, NEW new \in Nat,
         NEW g, g = Shifted(f, i, new)
  PROVE  /\ g \in [Ranks -> Nat]
         /\ g[i] = new
         /\ \A j \in Ranks : j < i => g[j] = f[j]
         /\ \A j \in Ranks : j > i => j - 1 \in Ranks /\ g[j] = f[j - 1]
  BY MaxTopnType DEF Shifted, Ranks

LEMMA TypeInit == Init => TypeOK
<1> SUFFICES ASSUME Init PROVE TypeOK
  OBVIOUS
<1>1. seen \in Seq(Nat) /\ status \in {"running", "exited", "undefined"}
  BY DEF Init
<1>2. /\ bins_ \in [Bins -> Nat] /\ data_ \in [Rows -> Nat]
      /\ top_ns_ \in [Ranks -> Nat] /\ top_idx_ \in [Ranks -> Nat]
  BY DEF Init
<1>3. idx_ \in Nat /\ series_idx_ \in Nat /\ DOMAIN csv \subseteq files
  BY DEF Init
<1>4. files \subseteq {"hist", "topn", "timeseries"}
  BY DEF Init
<1>5. QED
  BY <1>1, <1>2, <1>3, <1>4, Zenon DEF TypeOK

LEMMA UpdateTopType ==
  ASSUME TypeOK, NEW ns \in Nat, UpdateTop(ns)
  PROVE  top_ns_' \in [Ranks -> Nat] /\ top_idx_' \in [Ranks -> Nat]
<1>1. CASE \E i \in Ranks : /\ IsRankOf(i, ns)
                            /\ top_ns_' = Shifted(top_ns_, i, ns)
                            /\ top_idx_' = Shifted(top_idx_, i, idx_)
  <2>1. PICK i \in Ranks : /\ top_ns_' = Shifted(top_ns_, i, ns)
                           /\ top_idx_' = Shifted(top_idx_, i, idx_)
    BY <1>1
  <2>2. /\ top_ns_ \in [Ranks -> Nat] /\ top_idx_ \in [Ranks -> Nat]
        /\ idx_ \in Nat
    BY DEF TypeOK
  <2>3. QED
    BY <2>1, <2>2, ShiftedType
<1>2. CASE UNCHANGED <<top_ns_, top_idx_>>
  BY <1>2 DEF TypeOK
<1>3. QED
  BY <1>1, <1>2 DEF UpdateTop

LEMMA TypeStep == TypeOK /\ [Next]_vars => TypeOK'
<1> SUFFICES ASSUME TypeOK, [Next]_vars PROVE TypeOK'
  OBVIOUS
<1>1. ASSUME NEW ns \in Latencies, Record(ns) PROVE TypeOK'
  <2>1. ns \in Nat
    BY SizesAssumption DEF SizesAssumption
  <2>2. seen' \in Seq(Nat) /\ UNCHANGED <<files, csv>>
    BY <1>1, <2>1 DEF Record, TypeOK
  <2>3. /\ bins_' \in [Bins -> Nat] /\ idx_' \in Nat
        /\ top_ns_' \in [Ranks -> Nat] /\ top_idx_' \in [Ranks -> Nat]
        /\ status' \in {"running", "exited", "undefined"}
    <3>1. CASE HasHist
      <4>1. CountBin(ns) /\ UpdateTop(ns) /\ idx_' = idx_ + 1
        BY <1>1, <3>1 DEF Record, HistAdd
      <4>2. /\ bins_' \in [Bins -> Nat]
            /\ status' \in {"running", "exited", "undefined"}
        BY <4>1 DEF CountBin, TypeOK
      <4>3. QED
        BY <2>1, <4>1, <4>2, UpdateTopType DEF TypeOK
    <3>2. CASE ~HasHist
      BY <1>1, <3>2 DEF Record, hist, TypeOK
    <3>3. QED
      BY <3>1, <3>2
  <2>4. series_idx_' \in Nat /\ data_' \in [Rows -> Nat]
    <3>1. CASE HasSeries
      <4>1. SeriesAdd(ns)
        BY <1>1, <3>1 DEF Record
      <4>2. CASE series_idx_ < Iterations
        <5>1. data_' = [data_ EXCEPT ![series_idx_] = ns]
          BY <4>1, <4>2 DEF SeriesAdd
        <5>2. data_' \in [Rows -> Nat]
          BY <2>1, <5>1 DEF TypeOK
        <5>3. QED
          BY <4>1, <5>2 DEF SeriesAdd, TypeOK
      <4>3. CASE ~(series_idx_ < Iterations)
        BY <4>1, <4>3 DEF SeriesAdd, TypeOK
      <4>4. QED
        BY <4>2, <4>3
    <3>2. CASE ~HasSeries
      BY <1>1, <3>2 DEF Record, series, TypeOK
    <3>3. QED
      BY <3>1, <3>2
  <2>5. QED
    BY <2>2, <2>3, <2>4 DEF TypeOK
<1>2. CASE Export
  <2>1. UNCHANGED <<files, hist, series, seen>>
    BY <1>2 DEF Export
  <2>2. DOMAIN csv' \subseteq files /\ status' \in {"exited", "undefined"}
    BY <1>2 DEF Export, TypeOK
  <2>3. QED
    BY <2>1, <2>2 DEF hist, series, TypeOK
<1>3. CASE UNCHANGED vars
  BY <1>3 DEF vars, TypeOK
<1>4. QED
  BY <1>1, <1>2, <1>3 DEF Next, Stopped

\* The two vectors are never written outside their bounds by the time series
\* or by the top-n list, whatever the number of samples.
THEOREM TypeCorrect == Spec => []TypeOK
  BY TypeInit, TypeStep, PTL DEF Spec
-----------------------------------------------------------------------------
(* The top-n list.                                                          *)

\* The two outcomes of a call of add for the top-n list.
SkippedStep(ns) ==
  /\ \A i \in Ranks : ns < top_ns_[i]
  /\ UNCHANGED <<top_ns_, top_idx_>>
  /\ idx_' = idx_ + 1 /\ seen' = Append(seen, ns) /\ UNCHANGED files

InsertedStep(i, ns) ==
  /\ IsRankOf(i, ns)
  /\ top_ns_' = Shifted(top_ns_, i, ns)
  /\ top_idx_' = Shifted(top_idx_, i, idx_)
  /\ idx_' = idx_ + 1 /\ seen' = Append(seen, ns) /\ UNCHANGED files

\* A latency that no rank admits: the list is full, and it stays as it is.
LEMMA TopSkipped ==
  ASSUME TypeOK, TopInv, InStep, HasHist, NEW ns \in Nat, SkippedStep(ns)
  PROVE  TopInv'
<1>0. /\ \A i \in Ranks : ns < top_ns_[i]
      /\ top_ns_' = top_ns_ /\ top_idx_' = top_idx_
      /\ idx_' = idx_ + 1
  BY DEF SkippedStep
<1>1. /\ top_ns_ \in [Ranks -> Nat] /\ top_idx_ \in [Ranks -> Nat]
      /\ seen \in Seq(Nat) /\ idx_ = Len(seen) /\ idx_ \in Nat
  BY DEF TypeOK, InStep
<1>2. /\ Len(seen') = Len(seen) + 1 /\ seen'[Len(seen) + 1] = ns
      /\ \A k \in 1..Len(seen) : seen'[k] = seen[k]
  BY <1>1 DEF SkippedStep
<1>3. \A i \in Ranks : i < idx_
  <2> SUFFICES ASSUME NEW i \in Ranks, i >= idx_ PROVE FALSE
    BY MaxTopnType, <1>1 DEF Ranks
  <2>1. top_ns_[i] = 0
    BY DEF TopInv, EmptyTail
  <2>2. QED
    BY <1>0, <2>1
<1>4. Filled = Ranks /\ Filled' = Ranks
  BY MaxTopnType, <1>0, <1>1, <1>3 DEF Filled, Ranks
<1>5. TopSorted' /\ EmptyTail'
  BY MaxTopnType, <1>0, <1>1, <1>3 DEF TopInv, TopSorted, EmptyTail, Ranks
<1>6. TopPointsToSamples'
  <2>1. TopPointsToSamples
    BY DEF TopInv
  <2>2. \A i \in Ranks : /\ top_idx_[i] \in Nat /\ top_idx_[i] < Len(seen)
                         /\ seen[top_idx_[i] + 1] = top_ns_[i]
    BY <1>1, <1>4, <2>1 DEF TopPointsToSamples
  <2>3. \A i \in Ranks : seen'[top_idx_[i] + 1] = top_ns_[i]
    BY <1>0, <1>1, <1>2, <2>2
  <2>4. QED
    BY <1>0, <1>1, <1>2, <1>4, <2>1, <2>2, <2>3 DEF TopPointsToSamples
<1>7. TopIsLargest'
  <2>a. 0..(Len(seen') - 1) = 0..Len(seen)
    BY <1>0, <1>1, <1>2
  <2> SUFFICES ASSUME NEW k \in 0..Len(seen)
               PROVE  \/ \E i \in Ranks : top_idx_[i] = k
                      \/ \A i \in Ranks : seen'[k + 1] <= top_ns_[i]
    BY <1>0, <1>4, <2>a DEF TopIsLargest
  <2>1. CASE k = Len(seen)
    BY <1>0, <1>1, <1>2, <2>1
  <2>2. CASE k \in 0..(Len(seen) - 1)
    BY <1>0, <1>1, <1>2, <1>4, <2>2 DEF TopInv, TopIsLargest
  <2>3. QED
    BY <1>1, <2>1, <2>2
<1>8. QED
  BY <1>5, <1>6, <1>7 DEF TopInv

\* A latency that enters the list at rank i: the entries from i on move back,
\* latencies and indices alike, and the last one may leave.
LEMMA TopInserted ==
  ASSUME TypeOK, TopInv, InStep, HasHist, NEW ns \in Nat, NEW i \in Ranks,
         InsertedStep(i, ns)
  PROVE  TopInv'
<1>0. idx_' = idx_ + 1
  BY DEF InsertedStep
<1>1. /\ top_ns_ \in [Ranks -> Nat] /\ top_idx_ \in [Ranks -> Nat]
      /\ seen \in Seq(Nat) /\ idx_ = Len(seen) /\ idx_ \in Nat
  BY DEF TypeOK, InStep
<1>2. /\ Len(seen') = Len(seen) + 1 /\ seen'[Len(seen) + 1] = ns
      /\ \A k \in 1..Len(seen) : seen'[k] = seen[k]
  BY <1>1 DEF InsertedStep
<1>3. /\ top_ns_' \in [Ranks -> Nat] /\ top_ns_'[i] = ns
      /\ \A j \in Ranks : j < i => top_ns_'[j] = top_ns_[j]
      /\ \A j \in Ranks : j > i =>
           j - 1 \in Ranks /\ top_ns_'[j] = top_ns_[j - 1]
  <2>1. top_ns_' = Shifted(top_ns_, i, ns)
    BY DEF InsertedStep
  <2>2. /\ top_ns_ \in [Ranks -> Nat] /\ top_idx_ \in [Ranks -> Nat]
        /\ idx_ \in Nat
    BY <1>1
  <2>3. QED
    BY <2>1, <2>2, ShiftedType
<1>4. /\ top_idx_' \in [Ranks -> Nat] /\ top_idx_'[i] = idx_
      /\ \A j \in Ranks : j < i => top_idx_'[j] = top_idx_[j]
      /\ \A j \in Ranks : j > i =>
           j - 1 \in Ranks /\ top_idx_'[j] = top_idx_[j - 1]
  <2>1. top_idx_' = Shifted(top_idx_, i, idx_)
    BY DEF InsertedStep
  <2>2. top_idx_ \in [Ranks -> Nat] /\ idx_ \in Nat
    BY <1>1
  <2>3. QED
    BY <2>1, <2>2, ShiftedType
<1>5. /\ \A j \in Ranks : j < i => ns < top_ns_[j]
      /\ ns >= top_ns_[i]
      /\ \A a, b \in Ranks : a < b => top_ns_[a] >= top_ns_[b]
      /\ \A j \in Ranks : j >= idx_ => top_ns_[j] = 0
  BY MaxTopnType DEF InsertedStep, IsRankOf, TopInv, TopSorted, EmptyTail, Ranks
<1>r. /\ \A j \in Ranks : j \in Nat
      /\ \A j \in Ranks : top_ns_[j] \in Nat /\ top_ns_'[j] \in Nat
  <2>1. \A j \in Ranks : j \in Nat
    BY MaxTopnType DEF Ranks
  <2>2. QED
    BY <1>1, <1>3, <2>1
<1>6. i <= idx_
  <2> SUFFICES ASSUME i > idx_ PROVE FALSE
    BY MaxTopnType, <1>1 DEF Ranks
  <2>1. idx_ \in Ranks
    BY MaxTopnType, <1>1 DEF Ranks
  <2>2. QED
    BY <1>1, <1>5, <2>1
<1>7. TopSorted'
  <2> SUFFICES ASSUME NEW a \in Ranks, NEW b \in Ranks, a < b
               PROVE  top_ns_'[a] >= top_ns_'[b]
    BY DEF TopSorted
  <2>1. CASE b < i
    BY MaxTopnType, <1>1, <1>3, <1>5, <2>1 DEF Ranks
  <2>2. CASE b = i
    BY <1>r, <1>3, <1>5, <2>2
  <2>3. CASE b > i
    <3>1. b - 1 \in Ranks /\ top_ns_'[b] = top_ns_[b - 1]
      BY <1>3, <2>3
    <3>2. CASE a < i
      BY MaxTopnType, <1>1, <1>3, <1>5, <2>3, <3>1, <3>2 DEF Ranks
    <3>3. CASE a = i
      <4>1. ns >= top_ns_[b - 1]
        <5>1. b - 1 = i \/ i < b - 1
          BY <1>r, <2>3
        <5>2. QED
          BY <1>r, <1>5, <3>1, <5>1
      <4>2. QED
        BY <1>3, <3>1, <3>3, <4>1
    <3>4. CASE a > i
      <4>1. a - 1 \in Ranks /\ top_ns_'[a] = top_ns_[a - 1]
        BY <1>3, <3>4
      <4>2. a - 1 < b - 1
        BY MaxTopnType DEF Ranks
      <4>3. QED
        BY <1>5, <3>1, <4>1, <4>2
    <3>5. QED
      BY MaxTopnType, <3>2, <3>3, <3>4 DEF Ranks
  <2>4. QED
    BY MaxTopnType, <2>1, <2>2, <2>3 DEF Ranks
<1>8. EmptyTail'
  <2> SUFFICES ASSUME NEW j \in Ranks, j >= idx_ + 1 PROVE top_ns_'[j] = 0
    BY <1>0 DEF EmptyTail
  <2>1. j > i /\ j - 1 >= idx_
    BY MaxTopnType, <1>0, <1>1, <1>6 DEF Ranks
  <2>2. QED
    BY <1>3, <1>5, <2>1
<1>9. TopPointsToSamples'
  <2>1. \A j \in Ranks : j < idx_ =>
          /\ top_idx_[j] < idx_ /\ seen[top_idx_[j] + 1] = top_ns_[j]
          /\ seen'[top_idx_[j] + 1] = top_ns_[j]
    <3> SUFFICES ASSUME NEW j \in Ranks, j < idx_
                 PROVE  /\ top_idx_[j] < idx_
                        /\ seen[top_idx_[j] + 1] = top_ns_[j]
                        /\ seen'[top_idx_[j] + 1] = top_ns_[j]
      OBVIOUS
    <3>1. top_idx_[j] < idx_ /\ seen[top_idx_[j] + 1] = top_ns_[j]
      BY <1>1 DEF TopInv, TopPointsToSamples, Filled
    <3>2. top_idx_[j] + 1 \in 1..Len(seen)
      BY <1>1, <3>1
    <3>3. QED
      BY <1>2, <3>1, <3>2
  <2>2. \A j \in Ranks : j < idx_ + 1 =>
          /\ top_idx_'[j] < idx_ + 1 /\ seen'[top_idx_'[j] + 1] = top_ns_'[j]
          /\ j # i => top_idx_'[j] < idx_
    <3> SUFFICES ASSUME NEW j \in Ranks, j < idx_ + 1
                 PROVE  /\ top_idx_'[j] < idx_ + 1
                        /\ seen'[top_idx_'[j] + 1] = top_ns_'[j]
                        /\ j # i => top_idx_'[j] < idx_
      OBVIOUS
    <3>1. CASE j < i
      <4>1. j < idx_
        BY MaxTopnType, <1>0, <1>1, <1>6, <3>1 DEF Ranks
      <4>2. top_idx_'[j] = top_idx_[j] /\ top_ns_'[j] = top_ns_[j]
        BY <1>3, <1>4, <3>1
      <4>3. QED
        BY <1>1, <2>1, <4>1, <4>2
    <3>2. CASE j = i
      BY <1>1, <1>2, <1>3, <1>4, <3>2
    <3>3. CASE j > i
      <4>1. /\ j - 1 \in Ranks /\ j - 1 < idx_
            /\ top_idx_'[j] = top_idx_[j - 1] /\ top_ns_'[j] = top_ns_[j - 1]
        BY MaxTopnType, <1>1, <1>3, <1>4, <3>3 DEF Ranks
      <4>2. /\ top_idx_[j - 1] < idx_ /\ top_idx_[j - 1] \in Nat
            /\ seen'[top_idx_[j - 1] + 1] = top_ns_[j - 1]
        BY <1>1, <2>1, <4>1
      <4>3. QED
        BY <1>1, <4>1, <4>2
    <3>4. QED
      BY <1>r, <3>1, <3>2, <3>3
  <2>3. \A a, b \in Ranks : a < idx_ /\ b < idx_ /\ a # b =>
          top_idx_[a] # top_idx_[b]
    BY DEF TopInv, TopPointsToSamples, Filled
  <2>4. ASSUME NEW a \in Ranks, NEW b \in Ranks, a < b, b < idx_ + 1
        PROVE  top_idx_'[a] # top_idx_'[b]
    <3>r. a \in Nat /\ b \in Nat /\ i \in Nat /\ a < idx_ + 1
      BY <1>1, <1>r, <2>4
    <3>0. CASE a = i
      <4>1. top_idx_'[a] = idx_ /\ top_idx_'[b] < idx_
        BY <1>4, <2>2, <2>4, <3>r, <3>0
      <4>2. QED
        BY <1>1, <4>1
    <3>1. CASE b = i
      <4>1. top_idx_'[b] = idx_ /\ top_idx_'[a] < idx_
        BY <1>4, <2>2, <2>4, <3>r, <3>1
      <4>2. QED
        BY <1>1, <4>1
    <3>2. CASE b < i
      <4>1. a < i /\ a < idx_ /\ b < idx_
        BY <1>1, <1>r, <1>6, <2>4, <3>2
      <4>2. top_idx_'[a] = top_idx_[a] /\ top_idx_'[b] = top_idx_[b]
        BY <1>4, <3>2, <4>1
      <4>3. top_idx_[a] # top_idx_[b]
        BY <2>3, <2>4, <3>r, <4>1
      <4>4. QED
        BY <4>2, <4>3
    <3>3. CASE a < i /\ b > i
      <4>1. b - 1 \in Ranks /\ top_idx_'[b] = top_idx_[b - 1]
        BY <1>4, <3>3
      <4>2. a < idx_ /\ b - 1 < idx_ /\ a # b - 1
        BY <1>1, <2>4, <3>r, <3>3
      <4>3. QED
        BY <1>4, <2>3, <3>3, <4>1, <4>2
    <3>4. CASE a > i
      <4>1. /\ a - 1 \in Ranks /\ top_idx_'[a] = top_idx_[a - 1]
            /\ b - 1 \in Ranks /\ top_idx_'[b] = top_idx_[b - 1]
        BY <1>4, <2>4, <3>r, <3>4
      <4>2. a - 1 < idx_ /\ b - 1 < idx_ /\ a - 1 # b - 1
        BY <1>1, <2>4, <3>r, <3>4
      <4>3. QED
        BY <2>3, <4>1, <4>2
    <3>5. QED
      BY <2>4, <3>r, <3>0, <3>1, <3>2, <3>3, <3>4
  <2>5. \A a, b \in Ranks : a < idx_ + 1 /\ b < idx_ + 1 /\ a # b =>
          top_idx_'[a] # top_idx_'[b]
    BY MaxTopnType, <1>1, <2>4 DEF Ranks
  <2>6. QED
    BY <1>0, <1>1, <1>2, <2>2, <2>5 DEF TopPointsToSamples, Filled
<1>10. TopIsLargest'
  <2>a. 0..(Len(seen') - 1) = 0..Len(seen)
    BY <1>1, <1>2
  <2>b. Filled' = {j \in Ranks : j < idx_ + 1}
    BY <1>0 DEF Filled
  <2> SUFFICES ASSUME NEW k \in 0..Len(seen)
               PROVE  \/ \E j \in Ranks : j < idx_ + 1 /\ top_idx_'[j] = k
                      \/ /\ \A j \in Ranks : j < idx_ + 1
                         /\ \A j \in Ranks : seen'[k + 1] <= top_ns_'[j]
    BY <2>a, <2>b DEF TopIsLargest
  <2>1. CASE k = Len(seen)
    BY MaxTopnType, <1>1, <1>4, <1>6, <2>1 DEF Ranks
  <2>2. ASSUME NEW v \in Nat, \A j \in Ranks : v <= top_ns_[j]
        PROVE  \A j \in Ranks : v <= top_ns_'[j]
    <3> SUFFICES ASSUME NEW j \in Ranks PROVE v <= top_ns_'[j]
      OBVIOUS
    <3>1. CASE j = i
      BY <1>1, <1>3, <1>5, <2>2, <3>1
    <3>2. CASE j < i
      BY <1>3, <2>2, <3>2
    <3>3. CASE j > i
      BY <1>3, <2>2, <3>3
    <3>4. QED
      BY MaxTopnType, <3>1, <3>2, <3>3 DEF Ranks
  <2>3. CASE k \in 0..(Len(seen) - 1)
    <3>1. seen'[k + 1] = seen[k + 1] /\ seen[k + 1] \in Nat
      BY <1>1, <1>2, <2>3
    <3>2. CASE \E j \in Filled : top_idx_[j] = k
      <4>1. PICK j \in Ranks : j < idx_ /\ top_idx_[j] = k
        BY <3>2 DEF Filled
      <4>2. CASE j < i
        BY MaxTopnType, <1>1, <1>4, <4>1, <4>2 DEF Ranks
      <4>3. CASE j >= i /\ j + 1 \in Ranks
        <5>1. top_idx_'[j + 1] = top_idx_[j + 1 - 1]
          BY MaxTopnType, <1>4, <4>3 DEF Ranks
        <5>2. j + 1 < idx_ + 1 /\ j + 1 - 1 = j
          BY MaxTopnType, <1>1, <4>1 DEF Ranks
        <5>3. QED
          BY <4>1, <4>3, <5>1, <5>2
      <4>4. CASE j + 1 \notin Ranks
        <5>1. \A m \in Ranks : m <= j
          BY MaxTopnType, <4>4 DEF Ranks
        <5>2. \A m \in Ranks : m < idx_ + 1
          <6> SUFFICES ASSUME NEW m \in Ranks PROVE m < idx_ + 1
            OBVIOUS
          <6>1. m \in Nat /\ j \in Nat /\ m <= j
            BY <1>r, <5>1
          <6>2. QED
            BY <1>1, <4>1, <6>1
        <5>3. seen[k + 1] = top_ns_[j]
          BY <4>1 DEF TopInv, TopPointsToSamples, Filled
        <5>4. \A m \in Ranks : seen[k + 1] <= top_ns_[m]
          <6> SUFFICES ASSUME NEW m \in Ranks
                       PROVE  seen[k + 1] <= top_ns_[m]
            OBVIOUS
          <6>1. m < j \/ m = j
            BY <1>r, <5>1
          <6>2. top_ns_[m] >= top_ns_[j]
            BY <1>r, <1>5, <6>1
          <6>3. QED
            BY <1>r, <5>3, <6>2
        <5>5. QED
          BY <2>2, <3>1, <5>2, <5>4
      <4>5. QED
        BY MaxTopnType, <4>2, <4>3, <4>4 DEF Ranks
    <3>3. CASE Filled = Ranks /\ \A j \in Ranks : seen[k + 1] <= top_ns_[j]
      <4>1. \A j \in Ranks : j < idx_ + 1
        <5> SUFFICES ASSUME NEW j \in Ranks PROVE j < idx_ + 1
          OBVIOUS
        <5>1. j \in Nat /\ j < idx_
          BY <1>r, <3>3 DEF Filled
        <5>2. QED
          BY <1>1, <5>1
      <4>2. QED
        BY <2>2, <3>1, <3>3, <4>1
    <3>4. QED
      BY <2>3, <3>2, <3>3 DEF TopInv, TopIsLargest
  <2>4. QED
    BY <1>1, <2>1, <2>3
<1>11. QED
  BY <1>7, <1>8, <1>9, <1>10 DEF TopInv

-----------------------------------------------------------------------------
(* The inductive invariant.                                                 *)

LEMMA InvInit == Init => IInv
<1> SUFFICES ASSUME Init PROVE IInv
  OBVIOUS
<1>1. TypeOK
  BY TypeInit
<1>2. seen = <<>> /\ Len(seen) = 0 /\ idx_ = 0 /\ series_idx_ = 0
  BY DEF Init
<1>3. \A i \in Ranks : top_ns_[i] = 0
  BY DEF Init
<1>4. Filled = {}
  BY MaxTopnType, <1>2 DEF Filled, Ranks
<1>5. InStep
  BY <1>2 DEF InStep
<1>6. TopSorted /\ EmptyTail
  BY <1>3 DEF TopSorted, EmptyTail
<1>7. TopPointsToSamples
  BY <1>4 DEF TopPointsToSamples
<1>8. TopIsLargest
  <2>1. 0..(Len(seen) - 1) = {}
    BY <1>2
  <2>2. QED
    BY <2>1 DEF TopIsLargest
<1>9. SeriesInv
  <2> SUFFICES ASSUME NEW r \in Rows, r < Len(seen) PROVE FALSE
    BY DEF SeriesInv
  <2>1. QED
    BY <1>2, SizesAssumption DEF SizesAssumption, Rows
<1>10. CsvInv
  <2>1. DOMAIN csv = {}
    BY DEF Init
  <2>2. QED
    BY <2>1 DEF CsvInv
<1>11. QED
  BY <1>1, <1>5, <1>6, <1>7, <1>8, <1>9, <1>10 DEF IInv, TopInv

LEMMA InStepStep == TypeOK /\ InStep /\ [Next]_vars => InStep'
<1> SUFFICES ASSUME TypeOK, InStep, [Next]_vars PROVE InStep'
  OBVIOUS
<1>1. ASSUME NEW ns \in Latencies, Record(ns) PROVE InStep'
  <2>1. /\ seen \in Seq(Nat) /\ ns \in Nat /\ seen' = Append(seen, ns)
        /\ files' = files
    BY <1>1, SizesAssumption DEF SizesAssumption, Record, TypeOK
  <2>2. Len(seen') = Len(seen) + 1
    BY <2>1
  <2>3. (HasHist' <=> HasHist) /\ (HasSeries' <=> HasSeries)
    BY <2>1 DEF HasHist, HasSeries
  <2>4. idx_' = IF HasHist THEN Len(seen') ELSE 0
    BY <1>1, <2>2 DEF InStep, Record, HistAdd, hist
  <2>5. HasSeries => series_idx_' = Len(seen')
    BY <1>1, <2>2 DEF InStep, Record, SeriesAdd, series
  <2>6. QED
    BY <2>3, <2>4, <2>5 DEF InStep
<1>2. CASE Export
  BY <1>2 DEF Export, hist, series, InStep, HasHist, HasSeries
<1>3. CASE UNCHANGED vars
  BY <1>3 DEF vars, InStep, HasHist, HasSeries
<1>4. QED
  BY <1>1, <1>2, <1>3 DEF Next, Stopped

LEMMA TopStep == TypeOK /\ InStep /\ TopInv /\ [Next]_vars => TopInv'
<1> SUFFICES ASSUME TypeOK, InStep, TopInv, [Next]_vars PROVE TopInv'
  OBVIOUS
<1>1. ASSUME NEW ns \in Latencies, Record(ns) PROVE TopInv'
  <2>1. ns \in Nat
    BY SizesAssumption DEF SizesAssumption
  <2>2. CASE HasHist
    <3>1. /\ UpdateTop(ns) /\ idx_' = idx_ + 1
          /\ seen' = Append(seen, ns) /\ UNCHANGED files
      BY <1>1, <2>2 DEF Record, HistAdd
    <3>2. CASE SkippedStep(ns)
      BY <2>1, <2>2, <3>2, TopSkipped
    <3>3. CASE \E i \in Ranks : InsertedStep(i, ns)
      BY <2>1, <2>2, <3>3, TopInserted
    <3>4. QED
      BY <3>1, <3>2, <3>3 DEF UpdateTop, SkippedStep, InsertedStep
  <2>3. CASE ~HasHist
    <3>1. /\ UNCHANGED <<top_ns_, top_idx_, idx_>> /\ idx_ = 0
          /\ ~HasHist'
      BY <1>1, <2>3 DEF Record, hist, InStep, HasHist
    <3>2. Filled' = {}
      BY <3>1, MaxTopnType DEF Filled, Ranks
    <3>3. TopSorted' /\ EmptyTail'
      BY <3>1 DEF TopInv, TopSorted, EmptyTail
    <3>4. TopPointsToSamples' /\ TopIsLargest'
      BY <3>1, <3>2 DEF TopPointsToSamples, TopIsLargest
    <3>5. QED
      BY <3>3, <3>4 DEF TopInv
  <2>4. QED
    BY <2>2, <2>3
<1>2. CASE UNCHANGED <<files, hist, seen>>
  BY <1>2 DEF hist, TopInv, TopSorted, TopPointsToSamples, TopIsLargest,
     EmptyTail, Filled, HasHist
<1>3. QED
  BY <1>1, <1>2 DEF Next, Export, Stopped, vars, hist

LEMMA SeriesStep == TypeOK /\ InStep /\ SeriesInv /\ [Next]_vars => SeriesInv'
<1> SUFFICES ASSUME TypeOK, InStep, SeriesInv, [Next]_vars PROVE SeriesInv'
  OBVIOUS
<1>1. ASSUME NEW ns \in Latencies, Record(ns), HasSeries PROVE SeriesInv'
  <2>1. ns \in Nat /\ Iterations \in Nat
    BY SizesAssumption DEF SizesAssumption
  <2>2. /\ seen \in Seq(Nat) /\ seen' = Append(seen, ns)
        /\ series_idx_ = Len(seen) /\ data_ \in [Rows -> Nat]
    BY <1>1 DEF TypeOK, InStep, Record
  <2>3. /\ Len(seen) \in Nat /\ Len(seen') = Len(seen) + 1
        /\ seen'[Len(seen) + 1] = ns
        /\ \A k \in 1..Len(seen) : seen'[k] = seen[k]
    BY <2>1, <2>2
  <2>4. data_' = IF Len(seen) < Iterations
                   THEN [data_ EXCEPT ![Len(seen)] = ns] ELSE data_
    BY <1>1, <2>2 DEF Record, SeriesAdd
  <2> SUFFICES ASSUME NEW r \in Rows, r < Len(seen) + 1
               PROVE  data_'[r] = seen'[r + 1]
    BY <2>3 DEF SeriesInv
  <2>5. r \in Nat /\ r < Iterations
    BY <2>1 DEF Rows
  <2>6. CASE r = Len(seen)
    BY <2>2, <2>3, <2>4, <2>5, <2>6
  <2>7. CASE r < Len(seen)
    <3>1. data_[r] = seen[r + 1]
      BY <1>1, <2>7 DEF SeriesInv
    <3>2. seen'[r + 1] = seen[r + 1]
      BY <2>3, <2>5, <2>7
    <3>3. data_'[r] = data_[r]
      BY <2>2, <2>3, <2>4, <2>5, <2>7
    <3>4. QED
      BY <3>1, <3>2, <3>3
  <2>8. QED
    BY <2>3, <2>5, <2>6, <2>7
<1>2. ASSUME NEW ns \in Latencies, Record(ns), ~HasSeries PROVE SeriesInv'
  BY <1>2 DEF Record, SeriesInv, HasSeries
<1>3. CASE UNCHANGED <<files, series, seen>>
  BY <1>3 DEF series, SeriesInv, HasSeries
<1>4. QED
  BY <1>1, <1>2, <1>3 DEF Next, Export, Stopped, vars, series

\* What is exported are the reports as they stay from then on.
LEMMA CsvStep == CsvInv /\ [Next]_vars => CsvInv'
<1> SUFFICES ASSUME CsvInv, [Next]_vars PROVE CsvInv'
  OBVIOUS
<1>1. ASSUME NEW ns \in Latencies, Record(ns) PROVE CsvInv'
  BY <1>1 DEF Record, CsvInv
<1>2. CASE Export
  <2>1. Contents' = Contents
    BY <1>2 DEF Export, hist, series, Contents, histToCsv, topnToHist, toCsv
  <2>2. status' # "running"
    BY <1>2 DEF Export
  <2>3. CASE UNCHANGED csv
    BY <2>1, <2>2, <2>3 DEF CsvInv
  <2>4. CASE \E opened \in SUBSET files :
               csv' = [f \in opened |-> Contents[f]]
    BY <2>1, <2>2, <2>4 DEF CsvInv
  <2>5. QED
    BY <1>2, <2>3, <2>4 DEF Export
<1>3. CASE UNCHANGED vars
  BY <1>3 DEF vars, CsvInv, Contents, histToCsv, topnToHist, toCsv
<1>4. QED
  BY <1>1, <1>2, <1>3 DEF Next, Stopped

THEOREM Invariant == Spec => []IInv
<1>1. IInv /\ [Next]_vars => IInv'
  BY TypeStep, InStepStep, TopStep, SeriesStep, CsvStep DEF IInv
<1>2. QED
  BY InvInit, <1>1, PTL DEF Spec

-----------------------------------------------------------------------------
(* The properties.                                                          *)

\* The ranks fall, every filled rank names a sample of its own with its
\* latency, and no sample left out is larger than one in the list: HistReport
\* reports the top n of any sequence of latencies, for every n.
THEOREM TopNCorrect == Spec => []TopN
<1>1. IInv => TopN
  BY DEF IInv, TopInv, TopN
<1>2. QED
  BY <1>1, Invariant, PTL

\* The top-n file and the time series file of a run agree on every index that
\* both hold.
THEOREM TopAgreesWithSeries == Spec => []TopJoinsSeries
<1>1. IInv => TopJoinsSeries
  <2> SUFFICES ASSUME IInv, {"topn", "timeseries"} \subseteq DOMAIN csv,
                      NEW i \in Filled, csv["topn"][i].index < Iterations
               PROVE  csv["timeseries"][csv["topn"][i].index].latency
                        = csv["topn"][i].latency
    BY DEF TopJoinsSeries
  <2>1. HasSeries
    BY DEF IInv, TypeOK, HasSeries
  <2>2. csv["topn"] = topnToHist /\ csv["timeseries"] = toCsv
    BY DEF IInv, CsvInv, Contents
  <2>3. /\ csv["topn"][i].index = top_idx_[i]
        /\ csv["topn"][i].latency = top_ns_[i]
    BY <2>2 DEF topnToHist, Filled
  <2>4. /\ top_idx_[i] \in Nat /\ top_idx_[i] < Len(seen)
        /\ seen[top_idx_[i] + 1] = top_ns_[i]
    BY DEF IInv, TypeOK, TopInv, TopPointsToSamples, Filled
  <2>5. top_idx_[i] \in Rows
    BY <2>3, <2>4, SizesAssumption DEF SizesAssumption, Rows
  <2>6. data_[top_idx_[i]] = top_ns_[i]
    BY <2>1, <2>4, <2>5 DEF IInv, SeriesInv
  <2>7. csv["timeseries"][top_idx_[i]].latency = data_[top_idx_[i]]
    BY <2>2, <2>5 DEF toCsv
  <2>8. QED
    BY <2>3, <2>6, <2>7
<1>2. QED
  BY <1>1, Invariant, PTL

-----------------------------------------------------------------------------
(* The histogram.                                                           *)

\* The samples that bin b has to count.
Hits(b) == {k \in 1..Len(seen) : seen[k] \div BinWidth = b}

\* A bin number that fits an int is not changed by the conversion.
LEMMA ToIntInRange ==
  ASSUME NEW q \in Nat, q < IntHalf
  PROVE  ToInt(q) = q
<1>1. IntHalf \in Nat \ {0}
  BY SizesAssumption DEF SizesAssumption
<1>2. q + IntHalf \in Nat /\ 2 * IntHalf \in Nat \ {0}
      /\ q + IntHalf < 2 * IntHalf
  BY <1>1
<1>3. ASSUME NEW n \in Nat, NEW d \in Nat \ {0}, n < d PROVE n % d = n
  BY <1>3
<1>4. (q + IntHalf) % (2 * IntHalf) = q + IntHalf
  BY <1>2, <1>3
<1>5. QED
  BY <1>1, <1>4 DEF ToInt

\* A new sample is a hit of its own bin and of no other.
LEMMA HitsStep ==
  ASSUME seen \in Seq(Nat), NEW ns \in Nat, seen' = Append(seen, ns), NEW b
  PROVE  /\ IsFiniteSet(Hits(b))
         /\ Cardinality(Hits(b)') =
              Cardinality(Hits(b)) + (IF ns \div BinWidth = b THEN 1 ELSE 0)
<1> DEFINE n == Len(seen)
<1>1. /\ n \in Nat /\ Len(seen') = n + 1 /\ seen'[n + 1] = ns
      /\ \A k \in 1..n : seen'[k] = seen[k]
  OBVIOUS
<1>2. IsFiniteSet(Hits(b))
  <2>1. IsFiniteSet(1..n)
    BY <1>1, FS_Interval
  <2>2. Hits(b) \subseteq 1..n
    BY DEF Hits
  <2>3. QED
    BY <2>1, <2>2, FS_Subset
<1>3. n + 1 \notin Hits(b)
  BY <1>1 DEF Hits
<1>4. CASE ns \div BinWidth = b
  <2>1. Hits(b)' = Hits(b) \cup {n + 1}
    BY <1>1, <1>4 DEF Hits
  <2>2. QED
    BY <1>2, <1>3, <1>4, <2>1, FS_AddElement
<1>5. CASE ns \div BinWidth # b
  <2>1. Hits(b)' = Hits(b)
    BY <1>1, <1>5 DEF Hits
  <2>2. Cardinality(Hits(b)) \in Nat
    BY <1>2, FS_CardinalityType
  <2>3. QED
    BY <1>2, <1>5, <2>1, <2>2
<1>6. QED
  BY <1>4, <1>5

BinsInv == BinsExact /\ OnlyKnownUndefined

LEMMA BinsInit == Init => BinsInv
<1> SUFFICES ASSUME Init PROVE BinsInv
  OBVIOUS
<1>1. seen = << >> /\ status = "running" /\ bins_ = [b \in Bins |-> 0]
  BY DEF Init
<1>2. ASSUME NEW b PROVE Cardinality(Hits(b)) = 0
  <2>1. Hits(b) = {}
    BY <1>1 DEF Hits
  <2>2. QED
    BY <2>1, FS_EmptySet
<1>3. BinsExact
  BY <1>1, <1>2 DEF BinsExact, Hits
<1>4. QED
  BY <1>1, <1>3 DEF BinsInv, OnlyKnownUndefined

\* What a call of add does to the histogram: while all latencies are in range
\* it counts the sample, or leaves it out beyond the last bin, and no call
\* leaves the range of the bins.
LEMMA CountStep ==
  ASSUME TypeOK, NEW ns \in Nat, CountBin(ns), ns \div BinWidth < IntHalf
  PROVE  /\ UNCHANGED status
         /\ \A b \in Bins :
              bins_'[b] = bins_[b] + (IF ns \div BinWidth = b THEN 1 ELSE 0)
<1> DEFINE q == ns \div BinWidth
<1>1. q \in Nat /\ BinsNum \in Nat
  BY SizesAssumption DEF SizesAssumption
<1>2. ToInt(q) = q
  BY <1>1, ToIntInRange
<1>3. bins_ \in [Bins -> Nat]
  BY DEF TypeOK
<1>4. CASE q >= BinsNum
  <2>1. UNCHANGED <<bins_, status>>
    BY <1>1, <1>2, <1>4 DEF CountBin, Bins
  <2>2. \A b \in Bins : b # q
    BY <1>1, <1>4 DEF Bins
  <2>3. QED
    BY <1>3, <2>1, <2>2
<1>5. CASE q < BinsNum
  <2>1. q \in Bins
    BY <1>1, <1>5 DEF Bins
  <2>2. bins_' = [bins_ EXCEPT ![q] = @ + 1] /\ UNCHANGED status
    BY <1>1, <1>2, <1>5 DEF CountBin
  <2>3. QED
    BY <1>3, <2>1, <2>2
<1>6. QED
  BY <1>1, <1>4, <1>5

LEMMA BinsStep == TypeOK /\ BinsInv /\ [Next]_vars => BinsInv'
<1> SUFFICES ASSUME TypeOK, BinsInv, [Next]_vars PROVE BinsInv'
  OBVIOUS
<1>1. ASSUME NEW ns \in Latencies, Record(ns) PROVE BinsInv'
  <2>1. /\ ns \in Nat /\ seen \in Seq(Nat) /\ seen' = Append(seen, ns)
        /\ files' = files /\ status = "running"
    BY <1>1, SizesAssumption DEF SizesAssumption, Record, TypeOK
  <2>2. /\ Len(seen) \in Nat /\ Len(seen') = Len(seen) + 1
        /\ seen'[Len(seen) + 1] = ns
        /\ \A k \in 1..Len(seen) : seen'[k] = seen[k]
    BY <2>1
  <2>3. InRange' => InRange /\ ns \div BinWidth < IntHalf
    BY <2>2 DEF InRange
  <2>4. HasHist' <=> HasHist
    BY <2>1 DEF HasHist
  <2>5. CASE HasHist /\ InRange'
    <3>1. CountBin(ns)
      BY <1>1, <2>5 DEF Record, HistAdd
    <3>2. /\ UNCHANGED status
          /\ \A b \in Bins :
               bins_'[b] = bins_[b] + (IF ns \div BinWidth = b THEN 1 ELSE 0)
      BY <2>1, <2>3, <2>5, <3>1, CountStep
    <3>3. \A b \in Bins : bins_[b] = Cardinality(Hits(b))
      BY <2>3, <2>5 DEF BinsInv, BinsExact, Hits
    <3>4. \A b \in Bins : bins_'[b] = Cardinality(Hits(b)')
      BY <2>1, <3>2, <3>3, HitsStep
    <3>5. BinsExact'
      BY <3>4 DEF BinsExact, Hits
    <3>6. QED
      BY <2>1, <3>2, <3>5 DEF BinsInv, OnlyKnownUndefined
  <2>6. CASE ~HasHist
    <3>1. UNCHANGED status
      BY <1>1, <2>6 DEF Record
    <3>2. QED
      BY <2>1, <2>4, <2>6, <3>1 DEF BinsInv, BinsExact, OnlyKnownUndefined
  <2>7. CASE ~InRange'
    BY <2>7 DEF BinsInv, BinsExact, OnlyKnownUndefined
  <2>8. QED
    BY <2>5, <2>6, <2>7
<1>2. CASE Export
  <2>1. UNCHANGED <<files, bins_, seen>>
    BY <1>2 DEF Export, hist
  <2>2. BinsExact'
    BY <2>1 DEF BinsInv, BinsExact, HasHist, InRange
  <2>3. status' = "undefined" => files = {"topn"}
    BY <1>2 DEF Export, HasHist, TypeOK
  <2>4. QED
    BY <2>1, <2>2, <2>3 DEF BinsInv, OnlyKnownUndefined
<1>3. CASE UNCHANGED vars
  BY <1>3 DEF vars, BinsInv, BinsExact, OnlyKnownUndefined, HasHist, InRange
<1>4. QED
  BY <1>1, <1>2, <1>3 DEF Next, Stopped

LEMMA Histogram == Spec => [](BinsExact /\ OnlyKnownUndefined)
<1>1. BinsInv => BinsExact /\ OnlyKnownUndefined
  BY DEF BinsInv
<1>2. QED
  BY <1>1, BinsInit, BinsStep, TypeCorrect, PTL DEF Spec

\* As long as no bin number overflows an int, every bin counts exactly the
\* samples of its range, for any number of samples, bins and any width.
THEOREM BinsCorrect == Spec => []BinsExact
  BY Histogram, PTL

\* The two ways into undefined behaviour that the code leaves open are the only
\* ones: the top-n file asked for alone, and a latency of 2^31 bins.
THEOREM UndefinedKnown == Spec => []OnlyKnownUndefined
  BY Histogram, PTL
=============================================================================
