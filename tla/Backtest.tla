------------------------------ MODULE Backtest ------------------------------
(***************************************************************************)
(* The backtest (python/backtest.py) around its regressions. Before them,  *)
(* load_bins cuts the rows of ofi.csv that are valid and have a mid into   *)
(* bins of bin_events observations; a bin has the flow summed over it and  *)
(* the price change within it, and is usable when the next bin gives it a  *)
(* forward return. Behind them, positions, _pnl_from_positions and         *)
(* _select_deadband turn predictions and forward returns into a result.    *)
(*                                                                         *)
(* The regressions compute with floating-point numbers and are left out:   *)
(* predictions are free, and what stands before and behind the regressions *)
(* is explored separately, the file growing row by row, predictions and    *)
(* forward returns bin by bin. Mids are kept times two, as they are halves *)
(* of a tick in the code. Predictions, bands and costs are integers: only  *)
(* comparisons of them and sums matter. The dead-bands are multiples of the *)
(* standard deviation of the training predictions, an operator that is     *)
(* given: which predictions it is taken of is what matters.                *)
(***************************************************************************)
EXTENDS Integers, SequencesExt

CONSTANTS
  bin_events,       \* --bin-events
  TwiceMids,        \* twice the mids that the book may show
  Flows,            \* values of the imbalance
  NoMid,            \* the empty mid of a one-sided book
  MaxRows,          \* bound on the rows written
  Preds, Returns,   \* values of predictions and forward returns
  Grid,             \* the multiples tried, in the order of the code
  Std(_),           \* np.std of a sequence of predictions
  cost,             \* --cost-ticks
  MaxBins           \* bound on the bins with a prediction

ASSUME BinsAssumption ==
  /\ bin_events \in Nat \ {0} /\ MaxRows \in Nat
  /\ TwiceMids \subseteq 1 .. 2000000000 /\ Flows \subseteq Int /\ NoMid \notin TwiceMids

ASSUME DeadbandAssumption ==
  /\ Preds \subseteq Int /\ Returns \subseteq Int
  /\ Grid \in Seq(Nat) /\ \A j, k \in DOMAIN Grid : j < k => Grid[j] < Grid[k]
  /\ cost \in Nat /\ MaxBins \in Nat
  /\ \A len \in 1 .. MaxBins : \A s \in [1 .. len -> Preds] : Std(s) \in Nat

VARIABLES
  rows,    \* ofi.csv
  shown,   \* twice the mid of the book at each row, which the file has printed
  series   \* pred and fwd, bin by bin

vars == <<rows, shown, series>>

Init == rows = <<>> /\ shown = <<>> /\ series = <<>>

(***************************************************************************)
(* Before the regressions                                                  *)
(***************************************************************************)

\* The step, in halves of a tick, between numbers of six significant digits:
\* they have a decimal place below 100000, and miss one digit from 1000000 on.
Step(twice) ==
  IF twice < 200000 THEN 1
  ELSE 2 * 10 ^ Min({k \in 0 .. 3 : k = 3 \/ twice < 2000000 * 10 ^ k})

\* To a multiple of step, a half to the even one.
Rounded(twice, step) ==
  LET below == twice \div step
      rest == twice % step
  IN IF 2 * rest < step \/ (2 * rest = step /\ below % 2 = 0)
     THEN below * step ELSE (below + 1) * step

\* Faulty variant: whole ticks are written.
PrintedWhole(twice) == Rounded(twice, 2)

\* What `<<` makes of the double: six significant digits.
Printed(twice) == Rounded(twice, Step(twice))

\* The replay writes the row of one more event; a row that is not valid has no
\* flow, and one of a one-sided book no mid and is not valid.
WriteRow(valid, twice, ofi) ==
  /\ series = <<>>
  /\ Len(rows) < MaxRows
  /\ rows' = Append(rows, [valid |-> valid, ofi |-> ofi,
                           mid |-> IF twice = NoMid THEN NoMid ELSE Printed(twice)])
  /\ shown' = Append(shown, twice)
  /\ UNCHANGED series

\* The rows that the bins are made of.
Observations == SelectSeq(rows, LAMBDA row : row.valid /\ row.mid # NoMid)

\* Otherwise the script stops.
Enough == Len(Observations) >= 2 * bin_events

Bin(k) ==
  LET bin == SubSeq(Observations, (k - 1) * bin_events + 1,
                    Min({k * bin_events, Len(Observations)}))
  IN [ofi |-> FoldSeq(LAMBDA row, sum : sum + row.ofi, 0, bin),
      size |-> Len(bin),
      ret |-> Last(bin).mid - Head(bin).mid]

\* The full bins.
Bins ==
  IF Enough THEN [k \in 1 .. Len(Observations) \div bin_events |-> Bin(k)] ELSE <<>>

\* Faulty variant: the shift goes the other way.
UsableShiftedBack ==
  [k \in 1 .. Len(Bins) - 1 |->
     [ofi |-> Bins[k + 1].ofi, ret |-> Bins[k + 1].ret, fwd_ret |-> Bins[k].ret]]

\* fwd_ret = ret.shift(-1), without the last bin, which has none.
Usable ==
  [k \in 1 .. Len(Bins) - 1 |->
     [ofi |-> Bins[k].ofi, ret |-> Bins[k].ret, fwd_ret |-> Bins[k + 1].ret]]

(***************************************************************************)
(* Behind them                                                             *)
(***************************************************************************)

\* One more usable bin has a prediction and a forward return.
AddBin(p, ret) ==
  /\ rows = <<>>
  /\ Len(series) < MaxBins
  /\ series' = Append(series, [pred |-> p, fwd |-> ret])
  /\ UNCHANGED <<rows, shown>>

Predictions(bins) == [i \in DOMAIN bins |-> bins[i].pred]

\* Faulty variant: within the band there is no position.
SteppedFlat(cur, p, band) == IF p > band THEN 1 ELSE IF p < -band THEN -1 ELSE 0

\* One iteration of positions: within the band the position is held.
Stepped(cur, p, band) == IF p > band THEN 1 ELSE IF p < -band THEN -1 ELSE cur

\* positions, with the 0 that diff prepends at index 0.
positions(bins, band) ==
  LET pos[i \in 0 .. Len(bins)] ==
        IF i = 0 THEN 0 ELSE Stepped(pos[i - 1], bins[i].pred, band)
  IN pos

\* abs(diff(pos)), summed over a window.
Turnover(bins, band, from, to) ==
  LET pos == positions(bins, band)
      Change(i) == IF pos[i] >= pos[i - 1] THEN pos[i] - pos[i - 1] ELSE pos[i - 1] - pos[i]
  IN FoldSet(LAMBDA i, sum : sum + Change(i), 0, from .. to)

\* (pos * fwd) summed over a window.
Gross(bins, band, from, to) ==
  LET pos == positions(bins, band)
  IN FoldSet(LAMBDA i, sum : sum + pos[i] * bins[i].fwd, 0, from .. to)

\* train_net: all bins have positions, those before the split count.
TrainNet(bins, band, split) ==
  Gross(bins, band, 1, split) - cost * Turnover(bins, band, 1, split)

\* Faulty variant: the test window has a say in the scale.
SigmaOfAll(bins, split) ==
  LET deviation == Std(Predictions(bins)) IN IF deviation = 0 THEN 1 ELSE deviation

\* sigma, which is 1 where the deviation is 0.
Sigma(bins, split) ==
  LET deviation == Std(SubSeq(Predictions(bins), 1, split))
  IN IF deviation = 0 THEN 1 ELSE deviation

\* The bands tried, in their order.
Bands(bins, split) == [k \in DOMAIN Grid |-> Grid[k] * Sigma(bins, split)]

Improves(bins, band, best, split) ==
  \/ best = {}
  \/ TrainNet(bins, band, split) > TrainNet(bins, CHOOSE other \in best : TRUE, split)

\* _select_deadband: a band replaces the best so far (none, at first) if its
\* train_net is greater.
Selected(bins, split) ==
  LET Try(best, band) == IF Improves(bins, band, best, split) THEN {band} ELSE best
  IN CHOOSE band \in FoldLeft(Try, {}, Bands(bins, split)) : TRUE

Next ==
  \/ \E twice \in TwiceMids, ofi \in Flows : WriteRow(TRUE, twice, ofi)
  \/ \E twice \in TwiceMids \cup {NoMid} : WriteRow(FALSE, twice, 0)
  \/ \E p \in Preds, ret \in Returns : AddBin(p, ret)

Spec == Init /\ [][Next]_vars

(***************************************************************************)
(* Properties                                                              *)
(***************************************************************************)

\* The rows of the file up to the j-th.
UpTo(j) == SelectSeq(SubSeq(rows, 1, j), LAMBDA row : row.valid /\ row.mid # NoMid)

\* A signal is known before its forward return begins: the flow of the first k
\* bins is the flow of a part of the file, and the k-th forward return is the
\* price change over observations behind that part, the next bin_events.
SignalPrecedesReturn ==
  \A k \in DOMAIN Usable :
    \E j \in 1 .. Len(rows) :
      LET seen == UpTo(j)
          later == SubSeq(UpTo(Len(rows)), Len(seen) + 1, Len(seen) + bin_events)
          FlowOf(part) == FoldSeq(LAMBDA row, sum : sum + row.ofi, 0, part)
      IN /\ Len(seen) = k * bin_events
         /\ Bins[k].size = bin_events
         /\ FlowOf(seen) = FoldSeq(LAMBDA bin, sum : sum + bin.ofi, 0, SubSeq(Usable, 1, k))
         /\ Usable[k].fwd_ret = Last(later).mid - Head(later).mid

\* How far off a mid may be in the file: half of its last digit there, which is
\* nothing below 100000 ticks.
Slack(twice) == Step(twice) \div 2

\* A return is computed from what the file shows of the mids. It is how far the
\* book's mid moved within the bin, up to half of the last digit of the two
\* mids that it is the difference of, whatever the rows between, and it is
\* never a fall where the book rose, or a rise where it fell.
ReturnsFollowTheBook ==
  LET Kept(i) == rows[i].valid /\ rows[i].mid # NoMid
      observed == SelectSeq([i \in DOMAIN rows |-> i], Kept)
  IN \A k \in DOMAIN Bins :
       LET first == shown[observed[(k - 1) * bin_events + 1]]
           last == shown[observed[k * bin_events]]
           slack == Slack(first) + Slack(last)
           ret == Bins[k].ret
       IN /\ ret - (last - first) \in -slack .. slack
          /\ first <= last => ret >= 0
          /\ last <= first => ret <= 0

\* "A wider band trades less" (the docstring of positions): over a series, and
\* over the training part of it, a wider band never has the larger turnover.
\* Over the test part it may have, as the band may have to turn a position
\* that the other rule had turned in training: but by no more than that one
\* turn, wherever the split is, which bounds the ratio that main prints.
WiderTradesLess ==
  \A split \in 1 .. Len(series) :
    \A narrow, wide \in Range(Bands(series, split)) : narrow <= wide =>
      LET Over(band, from, to) == Turnover(series, band, from, to)
          total == Len(series)
      IN /\ Over(wide, 1, split) <= Over(narrow, 1, split)
         /\ Over(wide, split + 1, total) <= Over(narrow, split + 1, total) + 2

\* The band is "tuned only on the training window" (the docstring of
\* _select_deadband). It nets no less there than any other of the grid, plain
\* sign(pred) included, and of equals it is the narrowest; and it is the band
\* that would be selected if the series ended at the split: no later bin has
\* a say, neither by its result nor by the scale of its prediction.
TunedOnTraining ==
  \A split \in 1 .. Len(series) :
    LET best == Selected(series, split)
        best_net == TrainNet(series, best, split)
        training == SubSeq(series, 1, split)
    IN /\ best = Selected(training, split)
       /\ \A band \in Range(Bands(training, split)) :
            LET net == TrainNet(series, band, split)
            IN net <= best_net /\ (net = best_net => best <= band)
=============================================================================
