------------------------------- MODULE Chart -------------------------------
(***************************************************************************)
(* What the terminal draws of a tape and of a book: tick_plot and heatmap  *)
(* (crates/terminal/src/chart.rs) and depth_view (book_view.rs).           *)
(*                                                                         *)
(* Prices are scaled by PRICE, so that padding and gridlines are whole     *)
(* numbers; places on the unit square are thousandths.  A book has bids    *)
(* and asks, best first.                                                   *)
(***************************************************************************)
EXTENDS Integers, Sequences, SequencesExt, FiniteSets, FiniteSetsExt

CONSTANT VOLUME_BUCKETS

ASSUME ChartAssumption == VOLUME_BUCKETS \in Nat \ {0}

PRICE        == 1000
UNIT         == 1000
TARGET_TICKS == 6
TIME_TICKS   == 6
MaxTicks     == 32

Sum(s) == FoldLeft(LAMBDA n, x : n + x, 0, s)
Column(s, Op(_)) == [i \in DOMAIN s |-> Op(s[i])]
Clamp(x) == Max({0, Min({x, UNIT})})

\* ratio.
Ratio(part, whole) == IF whole <= 0 THEN 0 ELSE Clamp((part * UNIT) \div whole)

\* The prints of the last span, by time and id.
Sorted(prints) == SortSeq(prints, LAMBDA p, q : p.at < q.at \/ (p.at = q.at /\ p.id < q.id))
Shown(prints, span) ==
    LET sorted == Sorted(prints)
        from   == Last(sorted).at - Max({span, 1})
    IN  SelectSeq(sorted, LAMBDA p : p.at >= from)

\* price_extremes: widened to include the touch of a book that has two sides.
Prices(shown, book) ==
    {PRICE * shown[i].price : i \in DOMAIN shown}
        \cup IF book.bids = <<>> \/ book.asks = <<>> THEN {}
             ELSE {PRICE * Head(book.bids).price, PRICE * Head(book.asks).price}

\* pad: 8% of the range on each side, and a thousandth of the price when there is none.
Margin(prices) ==
    LET range == Max(prices) - Min(prices)
        high  == Max(prices)
    IN  CASE range > 0 -> (range * 8) \div 100
          [] range = 0 /\ high # 0 -> Max({high, -high}) \div 1000
          [] OTHER -> PRICE

\* nice_step: the largest of 1, 2, 2.5 and 5 times a power of ten that is not above.
NiceSteps == UNION {{n, 2 * n, 5 * n} : n \in {1, 10, 100, 1000, 10000, 100000}}
                 \cup {25 * n : n \in {1, 10, 100, 1000, 10000}}
NiceStep(rough) == Max({0} \cup {s \in NiceSteps : s <= rough})

\* price_ticks: the multiples of the step in the range.
PriceTicks(high, low) ==
    LET step  == NiceStep((high - low) \div TARGET_TICKS)
        first == -((-low) \div step) * step
    IN  IF step = 0 THEN <<>>
        ELSE [i \in 1 .. Min({MaxTicks, (high - first) \div step + 1}) |-> first + (i - 1) * step]

\* time_ticks.
TimeTicks(from, to, span) ==
    SelectSeq([i \in 1..TIME_TICKS |-> from + ((span * (i - 1)) \div (TIME_TICKS - 1))],
              LAMBDA at : at <= to)

\* A mutant: the newest print is past the last bucket.
BucketPast(print, from, span) == ((print.at - from) * VOLUME_BUCKETS) \div span

\* The bucket of the histogram a print falls in: the newest falls in the last.
BucketOf(print, from, span) ==
    Min({((print.at - from) * VOLUME_BUCKETS) \div span, VOLUME_BUCKETS - 1})

\* volume: laid over the time from the first print shown to the last.
VolumeBars(shown) ==
    LET from == Head(shown).at
        span == Max({Last(shown).at - from, 1})
        size(i, side) == Sum(Column(SelectSeq(shown, LAMBDA p : BucketOf(p, from, span) = i /\ p.side = side),
                                    LAMBDA p : p.qty))
        bars == [i \in 0 .. VOLUME_BUCKETS - 1 |-> [buys |-> size(i, "Buy"), sells |-> size(i, "Sell")]]
    IN  {[slot |-> i, qty |-> bars[i].buys + bars[i].sells, buy |-> bars[i].buys >= bars[i].sells] :
            i \in {j \in DOMAIN bars : bars[j].buys + bars[j].sells > 0}}

\* tick_plot, of a tape that is not empty.
TickPlot(prints, spanMs, book) ==
    LET shown  == Shown(prints, spanMs)
        span   == Max({spanMs, 1})
        to     == Last(shown).at
        from   == to - span
        prices == Prices(shown, book)
        high   == Max(prices) + Margin(prices)
        low    == Min(prices) - Margin(prices)
        XOf(at) == Clamp(((at - from) * UNIT) \div span)
        YOf(price) == IF high <= low THEN UNIT \div 2
                      ELSE Clamp(((high - PRICE * price) * UNIT) \div (high - low))
        heaviest == Max({shown[i].qty : i \in DOMAIN shown})
    IN  [marks  |-> Column(shown, LAMBDA p : [x |-> XOf(p.at), y |-> YOf(p.price),
                                              buy |-> p.side = "Buy", weight |-> Ratio(p.qty, heaviest)]),
         steps  |-> [i \in DOMAIN shown |->
                       [x |-> XOf(shown[i].at), y |-> YOf(shown[i].price),
                        toX |-> IF i = Len(shown) THEN UNIT ELSE XOf(shown[i + 1].at)]],
         priceTicks |-> PriceTicks(high, low),
         timeTicks  |-> TimeTicks(from, to, span),
         volume |-> VolumeBars(shown),
         high   |-> high, low |-> low,
         lastY  |-> YOf(Last(shown).price)]

\* heatmap: levels outside the range are dropped rather than clamped onto its edge.
Heatmap(book, high, low, depth) ==
    LET first(side) == SubSeq(side, 1, Min({depth, Len(side)}))
        levels == SelectSeq(first(book.asks) \o first(book.bids),
                            LAMBDA l : PRICE * l.price <= high /\ PRICE * l.price >= low)
    IN  IF high <= low THEN <<>>
        ELSE Column(levels, LAMBDA l :
                [y |-> Clamp(((high - PRICE * l.price) * UNIT) \div (high - low)),
                 fill |-> Ratio(l.qty, Max({levels[i].qty : i \in DOMAIN levels}))])

\* side and depth_view: sizes add up from the touch, on one scale for both sides; the asks
\* are drawn with the far side at the top.
DepthSide(side, levels, deepest) ==
    [i \in 1 .. Min({levels, Len(side)}) |->
        LET cumulative == Sum(Column(SubSeq(side, 1, i), LAMBDA l : l.qty))
        IN  [price |-> side[i].price, cumulative |-> cumulative, fill |-> Ratio(cumulative, deepest)]]

DepthView(book, levels) ==
    LET total(side) == Sum(Column(SubSeq(side, 1, Min({levels, Len(side)})), LAMBDA l : l.qty))
        deepest == Max({total(book.bids), total(book.asks)})
    IN  [asks |-> Reverse(DepthSide(book.asks, levels, deepest)),
         bids |-> DepthSide(book.bids, levels, deepest)]
=============================================================================
