------------------------------ MODULE Candles ------------------------------
(***************************************************************************)
(* Bars: how CandleSet folds the prints of one instrument into them        *)
(* (crates/marketdata/src/candles.rs), and how a consumer keeps the bars   *)
(* that are republished as they form (the read-model and the terminal).    *)
(*                                                                         *)
(* A print has a time, a price, a size, a side and an id; a bucketing has  *)
(* a kind, "Time" or "Ticks", and a size.  A series is oldest first.       *)
(***************************************************************************)
EXTENDS Integers, Sequences, SequencesExt, FiniteSets, FiniteSetsExt

\* Candle.
Bar == [openTime : Int, trades : Int, open : Int, high : Int, low : Int, close : Int,
        volume : Int, closed : BOOLEAN]

\* CandleSet::new: a degenerate bucketing is clamped.
Clamped(bucketing) == [bucketing EXCEPT !.size = Max({@, 1})]

\* The newest of a series; what is left of it when the oldest are dropped.
Keep(series, capacity) ==
    SubSeq(series, Max({1, Len(series) - capacity + 1}), Len(series))

\* A bar that begins with a print; one that needs no other is complete at once.
Opened(print, at, bucketing) ==
    [openTime |-> at, trades |-> 1, open |-> print.price, high |-> print.price,
     low |-> print.price, close |-> print.price, volume |-> print.qty,
     closed |-> bucketing.kind = "Ticks" /\ bucketing.size <= 1]

\* A mutant: the low is the last.
ExtendForgetful(bar, print) ==
    [bar EXCEPT !.high = Max({@, print.price}), !.low = print.price, !.close = print.price,
                !.volume = @ + print.qty, !.trades = @ + 1]

\* extend.
Extend(bar, print) ==
    [bar EXCEPT !.high = Max({@, print.price}), !.low = Min({@, print.price}),
                !.close = print.price, !.volume = @ + print.qty, !.trades = @ + 1]

\* What folding a print gives: the series, and the bars consumers must redraw.
Folded(series, redraw) == [series |-> series, redraw |-> redraw]

\* The last bar is the print's.
Formed(series, bar) == Folded(Front(series) \o <<bar>>, <<bar>>)

\* roll: the last bar is closed, and the print begins one.
Roll(series, print, at, bucketing, capacity) ==
    LET opened == Opened(print, at, bucketing)
    IN  IF series = <<>> THEN Folded(<<opened>>, <<opened>>)
        ELSE LET closed == [Last(series) EXCEPT !.closed = TRUE]
             IN  Folded(Keep(Front(series) \o <<closed, opened>>, capacity), <<closed, opened>>)

\* The start of a print's interval.
Interval(print, size) == print.at - (print.at % size)

\* fold_time: the clock decides, and a print older than the forming bar is ignored.
FoldTime(series, print, bucketing, capacity) ==
    LET at == Interval(print, bucketing.size)
    IN  CASE series = <<>> \/ Last(series).openTime < at ->
               Roll(series, print, at, bucketing, capacity)
          [] series # <<>> /\ Last(series).openTime = at -> Formed(series, Extend(Last(series), print))
          [] OTHER -> Folded(series, <<>>)

\* fold_ticks: the number of prints decides, and the last one closes its bar.
FoldTicks(series, print, bucketing, capacity) ==
    IF series # <<>> /\ ~Last(series).closed /\ Last(series).trades < bucketing.size
    THEN LET bar == Extend(Last(series), print)
         IN  Formed(series, [bar EXCEPT !.closed = bar.trades >= bucketing.size])
    ELSE Roll(series, print, print.at, bucketing, capacity)

\* CandleSet::on_trade.
OnTrade(series, print, bucketing, capacity) ==
    IF bucketing.kind = "Time" THEN FoldTime(series, print, bucketing, capacity)
                               ELSE FoldTicks(series, print, bucketing, capacity)

\* A consumer's series after one more bar: the last one is replaced by a bar with its open
\* time, and an older bar is ignored.
FoldCandle(series, bar, depth) ==
    CASE series = <<>> \/ Last(series).openTime < bar.openTime -> Keep(Append(series, bar), depth)
      [] series # <<>> /\ Last(series).openTime = bar.openTime -> Front(series) \o <<bar>>
      [] OTHER -> series

-----------------------------------------------------------------------------
(* What the bars are of: the reference for on_trade.                       *)

\* The bar of some prints, oldest first.
BarOf(prints, at, closed) ==
    LET prices == {prints[i].price : i \in DOMAIN prints}
    IN  [openTime |-> at, trades |-> Len(prints), open |-> Head(prints).price,
         high |-> Max(prices), low |-> Min(prices), close |-> Last(prints).price,
         volume |-> FoldLeft(LAMBDA n, p : n + p.qty, 0, prints), closed |-> closed]

\* Tick bars: as many prints each as the bucketing says, but for the last.
TickBars(prints, size) ==
    [k \in 1 .. (Len(prints) + size - 1) \div size |->
        LET chunk == SubSeq(prints, (k - 1) * size + 1, Min({k * size, Len(prints)}))
        IN  BarOf(chunk, Head(chunk).at, Len(chunk) = size)]

\* Time bars: the prints of each interval, but those that come after one of a later
\* interval.
TimeBars(prints, size) ==
    LET late(i) == \E j \in 1 .. i - 1 : Interval(prints[j], size) > Interval(prints[i], size)
        kept    == {i \in DOMAIN prints : ~late(i)}
        starts  == SetToSortSeq({Interval(prints[i], size) : i \in kept}, <)
        of(at)  == SetToSortSeq({i \in kept : Interval(prints[i], size) = at}, <)
    IN  [k \in DOMAIN starts |->
            BarOf([n \in DOMAIN of(starts[k]) |-> prints[of(starts[k])[n]]], starts[k], k < Len(starts))]

Bars(prints, bucketing) ==
    IF bucketing.kind = "Time" THEN TimeBars(prints, bucketing.size) ELSE TickBars(prints, bucketing.size)
=============================================================================
