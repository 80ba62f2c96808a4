------------------------------ MODULE Reports ------------------------------
(***************************************************************************)
(* The measurements of one side (ping or pong): the callback's calls of    *)
(* HistReport::add and TimeSeriesReport::add (measure_common/src/util.cpp) *)
(* for every latency, and the export of the CSV files at the end of the    *)
(* run (two_way.cpp).  Which reports exist follows from the file names     *)
(* given on the command line.                                              *)
(***************************************************************************)
EXTENDS Integers, Sequences, FiniteSets

CONSTANTS
  BinsNum,    \* bins_num: bins of the histogram (5000 in the program)
  BinWidth,   \* bin_width_ns (1000)
  MaxTopn,    \* max_topn (10)
  Iterations, \* max_data_num: rows of the time series
  IntHalf,    \* an int holds -IntHalf .. IntHalf - 1 (2^31)
  Latencies,  \* the latencies that the callback computes (64 bits, unsigned)
  MaxAdds     \* bound: samples in one behaviour

ASSUME SizesAssumption ==
  /\ BinsNum \in Nat /\ BinsNum <= IntHalf /\ Iterations \in Nat
  /\ BinWidth \in Nat \ {0} /\ MaxTopn \in Nat \ {0} /\ IntHalf \in Nat \ {0}
  /\ Latencies \subseteq Nat /\ MaxAdds \in Nat

VARIABLES
  files,      \* the file names given: a subset of {"hist", "topn", "timeseries"}
  bins_, top_ns_, top_idx_, idx_,  \* HistReport
  data_, series_idx_,              \* TimeSeriesReport (data_, idx_)
  csv,        \* the rows of the CSV files written so far
  status,     \* "running", "exited", or "undefined" (behaviour)
  seen        \* history: every latency the callback computed, in order

hist   == <<bins_, top_ns_, top_idx_, idx_>>
series == <<data_, series_idx_>>
vars   == <<files, bins_, top_ns_, top_idx_, idx_, data_, series_idx_, csv,
            status, seen>>

Bins  == 0..(BinsNum - 1)
Ranks == 0..(MaxTopn - 1)
Rows  == 0..(Iterations - 1)

\* Conversion of an unsigned 64 bit integer to int.
ToInt(n) == ((n + IntHalf) % (2 * IntHalf)) - IntHalf

\* The reports that exist; the top-n list lives inside HistReport.
HasHist   == files \intersect {"hist", "timeseries"} # {}
HasSeries == "timeseries" \in files

Init ==
  /\ files \in SUBSET {"hist", "topn", "timeseries"}
  /\ bins_ = [b \in Bins |-> 0]
  /\ top_ns_ = [i \in Ranks |-> 0]
  /\ top_idx_ = [i \in Ranks |-> 0]
  /\ idx_ = 0
  /\ data_ = [r \in Rows |-> 0]
  /\ series_idx_ = 0
  /\ csv = << >>
  /\ status = "running"
  /\ seen = <<>>

-----------------------------------------------------------------------------
(* HistReport::add                                                          *)

\* A wrong bound: the bin after the last one is counted too.
CountBinPastEnd(ns) ==
  LET bi == ToInt(ns \div BinWidth) IN
  \/ bi > BinsNum /\ UNCHANGED <<bins_, status>>
  \/ bi \in Bins /\ bins_' = [bins_ EXCEPT ![bi] = @ + 1] /\ UNCHANGED status
  \/ bi <= BinsNum /\ bi \notin Bins /\ status' = "undefined" /\ UNCHANGED bins_

\* A wrong histogram: late samples go into the last bin.
CountBinClamped(ns) ==
  LET bi == ToInt(ns \div BinWidth)
      b  == IF bi < BinsNum THEN bi ELSE BinsNum - 1
  IN /\ bins_' = [bins_ EXCEPT ![b] = @ + 1]
     /\ UNCHANGED status

\* There is an upper bound on the bin number but no lower one: when the
\* conversion to int gives a negative number, memory before bins_ is written.
CountBin(ns) ==
  LET bi == ToInt(ns \div BinWidth) IN
  \/ bi >= BinsNum /\ UNCHANGED <<bins_, status>>
  \/ bi \in Bins /\ bins_' = [bins_ EXCEPT ![bi] = @ + 1] /\ UNCHANGED status
  \/ bi < 0 /\ status' = "undefined" /\ UNCHANGED bins_

\* The first rank whose latency ns reaches; the loop skips the ranks before.
IsRankOf(i, ns) ==
  /\ ns >= top_ns_[i]
  /\ \A j \in 0..(i - 1) : ns < top_ns_[j]

\* f with the ranks from i on moved back by one and new at i.
Shifted(f, i, new) ==
  [j \in Ranks |-> IF j < i THEN f[j] ELSE IF j = i THEN new ELSE f[j - 1]]

\* A wrong update: the list of the indices is left as it was shifted last.
UpdateTopForgetsIndex(ns) ==
  \/ \E i \in Ranks :
        /\ IsRankOf(i, ns)
        /\ top_ns_' = Shifted(top_ns_, i, ns)
        /\ top_idx_' = [top_idx_ EXCEPT ![i] = idx_]
  \/ /\ \A i \in Ranks : ns < top_ns_[i]
     /\ UNCHANGED <<top_ns_, top_idx_>>

UpdateTop(ns) ==
  \/ \E i \in Ranks :
        /\ IsRankOf(i, ns)
        /\ top_ns_' = Shifted(top_ns_, i, ns)
        /\ top_idx_' = Shifted(top_idx_, i, idx_)
  \/ /\ \A i \in Ranks : ns < top_ns_[i]
     /\ UNCHANGED <<top_ns_, top_idx_>>

HistAdd(ns) ==
  /\ CountBin(ns)
  /\ UpdateTop(ns)
  /\ idx_' = idx_ + 1

-----------------------------------------------------------------------------
(* TimeSeriesReport::add                                                    *)

\* A wrong time series: the last row is overwritten when it is full.
SeriesAddStuck(ns) ==
  /\ data_' = IF series_idx_ < Iterations THEN [data_ EXCEPT ![series_idx_] = ns]
              ELSE IF Iterations > 0 THEN [data_ EXCEPT ![Iterations - 1] = ns]
              ELSE data_
  /\ series_idx_' = series_idx_ + 1

\* A wrong time series: nothing stops it at its last row.
SeriesAddUnbounded(ns) ==
  /\ data_' = [r \in Rows \cup {series_idx_} |->
                 IF r = series_idx_ THEN ns ELSE data_[r]]
  /\ series_idx_' = series_idx_ + 1

SeriesAdd(ns) ==
  /\ data_' = IF series_idx_ < Iterations THEN [data_ EXCEPT ![series_idx_] = ns]
                                          ELSE data_
  /\ series_idx_' = series_idx_ + 1

-----------------------------------------------------------------------------
(* The callback and the end of ping or pong.                                *)

Record(ns) ==
  /\ status = "running" /\ Len(seen) < MaxAdds
  /\ seen' = Append(seen, ns)
  /\ IF HasHist   THEN HistAdd(ns)   ELSE UNCHANGED <<hist, status>>
  /\ IF HasSeries THEN SeriesAdd(ns) ELSE UNCHANGED series
  /\ UNCHANGED <<files, csv>>

\* The rows below the headings.  Every file has all rows, those that no sample
\* has reached as zeros.
histToCsv  == [i \in Bins |-> [bin |-> i, count |-> bins_[i]]]
topnToHist == [i \in Ranks |-> [latency |-> top_ns_[i], index |-> top_idx_[i]]]
toCsv      == [i \in Rows |-> [idx |-> i, latency |-> data_[i]]]

Contents == [hist |-> histToCsv, topn |-> topnToHist, timeseries |-> toCsv]

\* spin has returned or the iterations are over: the files are written, each
\* one only if it can be opened.  With only the top-n file asked for, hist is
\* a null pointer here.
Export ==
  /\ status = "running"
  /\ IF "topn" \in files /\ ~HasHist
       THEN status' = "undefined" /\ UNCHANGED csv
       ELSE /\ status' = "exited"
            /\ \E opened \in SUBSET files :
                 csv' = [f \in opened |-> Contents[f]]
  /\ UNCHANGED <<files, hist, series, seen>>

Stopped == status # "running" /\ UNCHANGED vars

Next ==
  \/ \E ns \in Latencies : Record(ns)
  \/ Export
  \/ Stopped

Spec == Init /\ [][Next]_vars

-----------------------------------------------------------------------------
(* Correctness.                                                             *)

\* Every variable has its type: the two vectors are never written past their
\* end, however many samples arrive.
TypeOK ==
  /\ files \subseteq {"hist", "topn", "timeseries"} /\ DOMAIN csv \subseteq files
  /\ bins_ \in [Bins -> Nat]
  /\ top_ns_ \in [Ranks -> Nat] /\ top_idx_ \in [Ranks -> Nat]
  /\ idx_ \in Nat /\ series_idx_ \in Nat
  /\ data_ \in [Rows -> Nat]
  /\ status \in {"running", "exited", "undefined"}
  /\ seen \in Seq(Nat)

\* The ranks that hold a sample; the others still hold the initial zeros.
Filled == {i \in Ranks : i < idx_}

\* "index 0-max_topn_ corresponds to top1-topn": the latencies fall with the
\* rank, whatever the order in which they arrived.
TopSorted == \A i, j \in Ranks : i < j => top_ns_[i] >= top_ns_[j]

\* Every filled rank names a sample of its own, and the latency of that one:
\* latencies and indices are shifted together.
TopPointsToSamples ==
  /\ \A i \in Filled : /\ top_idx_[i] < Len(seen)
                       /\ seen[top_idx_[i] + 1] = top_ns_[i]
  /\ \A i, j \in Filled : i # j => top_idx_[i] # top_idx_[j]

\* A sample that the list does not name is no larger than any it does: the
\* list is the top n of all samples so far, and no sample is dropped while
\* there is room.
TopIsLargest ==
  HasHist => \A k \in 0..(Len(seen) - 1) :
    \/ \E i \in Filled : top_idx_[i] = k
    \/ Filled = Ranks /\ \A i \in Ranks : seen[k + 1] <= top_ns_[i]

\* HistReport reports the top n: in order, with the right indices, complete.
TopN == TopSorted /\ TopPointsToSamples /\ TopIsLargest

\* Every latency so far has a bin number that fits an int.
InRange == \A k \in 1..Len(seen) : seen[k] \div BinWidth < IntHalf

\* Every bin counts exactly the samples of its range, as long as all latencies
\* are in range: beyond that a long one is counted as a short one.
BinsExact ==
  HasHist /\ InRange => \A b \in Bins :
    bins_[b] = Cardinality({k \in 1..Len(seen) : seen[k] \div BinWidth = b})

\* A sample of the top-n file is found under its index in the time series file
\* of the same run: the two counters of the two reports stay in step, and the
\* series keeps its first rows when the peer sends more than it has room for.
TopJoinsSeries ==
  {"topn", "timeseries"} \subseteq DOMAIN csv => \A i \in Filled :
    LET top == csv["topn"][i] IN
    top.index < Iterations => csv["timeseries"][top.index].latency = top.latency

\* Undefined behaviour is reached through the two paths that the code leaves
\* open only: the top-n file asked for alone, or a latency of 2^31 bins.
OnlyKnownUndefined ==
  status = "undefined" =>
    \/ files = {"topn"}
    \/ ~InRange
=============================================================================
