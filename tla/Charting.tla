------------------------------ MODULE Charting ------------------------------
(***************************************************************************)
(* The tape and the bars of one instrument, from the venue's prints to     *)
(* what a terminal draws: the connector folds a print into bars and sends  *)
(* both (crates/binance/src/lib.rs), the pump folds each event into the    *)
(* read-model before it broadcasts it, a session hands the read-model over *)
(* after every reply and forwards the rest (crates/core/src/server.rs,     *)
(* crates/wire/src/session.rs), and the feed keeps what it is sent across  *)
(* connections (crates/terminal/src/feed.rs).                              *)
(*                                                                         *)
(* A socket is FIFO: what is lost when it ends is as if it had not been    *)
(* sent, and a message is applied when it is sent.  Books are              *)
(* Distribution's.                                                         *)
(***************************************************************************)
EXTENDS Candles, Chart

CONSTANTS None,
          Bucketings,      \* the ways bars may be cut
          Sizes,           \* the price, size and side of each print, by its id
          Times,           \* the instants prints are made at
          MaxConnects, MaxUpsets,  \* bounds: connections, other upsets
          CAPACITY,        \* bars of a CandleSet
          HISTORY, TAPE_HISTORY,      \* bars and prints of the read-model
          CANDLE_DEPTH, TAPE_DEPTH,   \* bars and prints of the terminal
          FANOUT_CAPACITY,
          SpanMs, Books, DEPTH_ROWS   \* what is drawn

\* What a print says, what an event carries, and what a terminal keeps.
PublicTrade == [id : Nat, at : Nat, price : Int, qty : Int, side : {"Buy", "Sell"}]
Event == [kind : {"Trade"}, print : PublicTrade] \cup [kind : {"Candle"}, bar : Bar]
FeedState == [status : {"Connecting", "Live", "Lost", "Refused"}, bars : Seq(Bar),
              tape : Seq(PublicTrade), trades : Nat]

ASSUME ChartingAssumption ==
    /\ {CAPACITY, HISTORY, TAPE_HISTORY, CANDLE_DEPTH, TAPE_DEPTH, FANOUT_CAPACITY} \subseteq Nat \ {0}
    /\ HISTORY <= CANDLE_DEPTH
    /\ Bucketings \subseteq [kind : {"Time", "Ticks"}, size : Int]
    /\ Sizes \in Seq([price : Int, qty : Int, side : {"Buy", "Sell"}])
    /\ {MaxConnects, MaxUpsets, SpanMs, DEPTH_ROWS} \cup Times \subseteq Nat
    /\ None \notin Event

VARIABLES bucketing,     \* of the connector's CandleSet
          printed,       \* the venue's prints
          fed,           \* the prints folded since the core started (history)
          series,        \* the CandleSet's bars
          sink, inHand,  \* events sent and not received by the pump, and the one it has folded
          held,          \* the read-model: its bars and its tape
          queue, missed, \* the session's backlog, and whether it was overrun
          stage,         \* where the session stands
          session,       \* the core's Session
          toCore,        \* the client's messages not handled yet
          feed,          \* the terminal's FeedState
          goodToken,     \* whether its token is the core's
          lagged,        \* some connection has been overrun (history)
          connects, upsets   \* connections; replays, restarts and pings (history)

venueVars   == <<bucketing, printed, goodToken>>
coreVars    == <<fed, series, sink, inHand, held>>
sessionVars == <<queue, missed, stage, session, toCore, lagged>>
chartingVars == <<venueVars, coreVars, sessionVars, feed, connects, upsets>>

Trade(print) == [kind |-> "Trade", print |-> print]
Candle(bar)  == [kind |-> "Candle", bar |-> bar]

NoSession == [authenticated |-> FALSE, subscribed |-> FALSE]
NoHistory == [bars |-> <<>>, tape |-> <<>>]

ChartingInit ==
    /\ bucketing \in {Clamped(b) : b \in Bucketings}
    /\ goodToken \in BOOLEAN
    /\ printed = <<>> /\ fed = <<>> /\ series = <<>>
    /\ sink = <<>> /\ inHand = None
    /\ held = NoHistory
    /\ queue = <<>> /\ missed = FALSE /\ stage = "none" /\ session = NoSession /\ toCore = <<>>
    /\ feed = [status |-> "Connecting", bars |-> <<>>, tape |-> <<>>, trades |-> 0]
    /\ lagged = FALSE
    /\ connects = 0 /\ upsets = 0

\* One of the upsets a behaviour may have.
Upset == upsets < MaxUpsets /\ upsets' = upsets + 1 /\ UNCHANGED connects

-----------------------------------------------------------------------------
(* The connector and the pump.                                             *)

\* A print comes from the socket: its bars are sent, and then the print.
OnPrint(print) ==
    LET folded == OnTrade(series, print, bucketing, CAPACITY)
    IN  /\ fed' = Append(fed, print)
        /\ series' = folded.series
        /\ sink' = sink \o Column(folded.redraw, Candle) \o <<Trade(print)>>
        /\ UNCHANGED <<inHand, held, sessionVars, feed>>

VenuePrints(at) ==
    LET id == Len(printed) + 1
    IN  /\ id \in DOMAIN Sizes
        /\ printed # <<>> => at >= Last(printed).at
        /\ LET print == [id |-> id, at |-> at, price |-> Sizes[id].price, qty |-> Sizes[id].qty,
                         side |-> Sizes[id].side]
           IN  printed' = Append(printed, print) /\ OnPrint(print)
        /\ UNCHANGED <<bucketing, goodToken, connects, upsets>>

\* "Venues replay prints after a reconnect" (candles.rs).
VenueReplays(i) ==
    /\ Upset
    /\ OnPrint(fed[i])
    /\ UNCHANGED venueVars

\* MarketState::apply, of a print or a bar.
Kept(history, event) ==
    IF event.kind = "Trade" THEN [history EXCEPT !.tape = Keep(Append(@, event.print), TAPE_HISTORY)]
    ELSE [history EXCEPT !.bars = FoldCandle(@, event.bar, HISTORY)]

PumpFolds ==
    /\ sink # <<>> /\ inHand = None
    /\ inHand' = Head(sink)
    /\ sink' = Tail(sink)
    /\ held' = Kept(held, Head(sink))
    /\ UNCHANGED <<venueVars, fed, series, sessionVars, feed, connects, upsets>>

\* The broadcast, to the session if there is one; a full backlog loses its oldest.
PumpSends ==
    /\ inHand # None
    /\ inHand' = None
    /\ LET over == Len(queue) = FANOUT_CAPACITY
       IN  IF stage = "none" THEN UNCHANGED <<queue, missed, lagged>>
           ELSE /\ queue' = Append(IF over THEN Tail(queue) ELSE queue, inHand)
                /\ missed' = (missed \/ over)
                /\ lagged' = (lagged \/ over)
    /\ UNCHANGED <<venueVars, fed, series, sink, held, stage, session, toCore, feed, connects, upsets>>

-----------------------------------------------------------------------------
(* The terminal's feed.                                                    *)

\* apply: a print goes in front of the tape, and a bar is folded.
Applied(f, event) ==
    IF event.kind = "Trade"
    THEN [f EXCEPT !.trades = @ + 1, !.tape = SubSeq(<<event.print>> \o @, 1, Min({Len(@) + 1, TAPE_DEPTH}))]
    ELSE [f EXCEPT !.bars = FoldCandle(@, event.bar, CANDLE_DEPTH)]

AppliedAll(f, events) == FoldLeft(Applied, f, events)

\* The feed connects and says Hello; it goes on until it is refused.
FeedConnects ==
    /\ stage = "none" /\ feed.status # "Refused"
    /\ connects < MaxConnects /\ connects' = connects + 1 /\ UNCHANGED upsets
    /\ stage' = "select"
    /\ toCore' = <<"Hello">>
    /\ feed' = [feed EXCEPT !.status = "Connecting"]
    /\ UNCHANGED <<venueVars, coreVars, queue, missed, session, lagged>>

\* Another message a client may send at any time.
Ping ==
    /\ stage # "none" /\ feed.status = "Live"
    /\ Upset
    /\ \E msg \in {"Ping", "Unsubscribe", "Subscribe"} : toCore' = Append(toCore, msg)
    /\ UNCHANGED <<venueVars, coreVars, queue, missed, stage, session, feed, lagged>>

\* The connection is gone, with all the core keeps of it.
Gone ==
    /\ stage' = "none" /\ session' = NoSession
    /\ queue' = <<>> /\ missed' = FALSE /\ toCore' = <<>>
    /\ UNCHANGED lagged

FeedDisconnects ==
    /\ stage # "none"
    /\ Gone
    /\ feed' = [feed EXCEPT !.status = "Lost"]
    /\ UNCHANGED <<venueVars, coreVars, connects, upsets>>

\* The core starts anew: it has no history, and the terminal keeps its own.
CoreRestarts ==
    /\ Upset
    /\ Gone
    /\ feed' = IF stage = "none" THEN feed ELSE [feed EXCEPT !.status = "Lost"]
    /\ fed' = <<>> /\ series' = <<>> /\ sink' = <<>> /\ inHand' = None /\ held' = NoHistory
    /\ UNCHANGED venueVars

-----------------------------------------------------------------------------
(* The session.                                                            *)

\* Session::handle, and what the feed makes of the reply: a bad token is refused for good,
\* Welcome is answered with Subscribe.
SessionHandles ==
    /\ stage = "select" /\ toCore # <<>>
    /\ LET msg == Head(toCore)
       IN  CASE msg = "Hello" /\ ~goodToken ->
                  /\ Gone
                  /\ feed' = [feed EXCEPT !.status = "Refused"]
             [] msg = "Hello" /\ goodToken ->
                  /\ session' = [session EXCEPT !.authenticated = TRUE]
                  /\ toCore' = Append(Tail(toCore), "Subscribe")
                  /\ feed' = [feed EXCEPT !.status = "Live"]
                  /\ stage' = "tape"
                  /\ UNCHANGED <<queue, missed, lagged>>
             [] OTHER ->
                  /\ session' = IF msg = "Ping" THEN session
                                ELSE [session EXCEPT !.subscribed = (msg = "Subscribe")]
                  /\ toCore' = Tail(toCore)
                  /\ stage' = "tape"
                  /\ UNCHANGED <<queue, missed, lagged, feed>>
    /\ UNCHANGED <<venueVars, coreVars, connects, upsets>>

\* A mutant: only to a session whose client has no tape yet.
HandTapeOnce ==
    /\ stage = "tape"
    /\ stage' = "candles"
    /\ feed' = IF session.subscribed /\ feed.tape = <<>>
               THEN AppliedAll(feed, Column(held.tape, Trade)) ELSE feed
    /\ UNCHANGED <<venueVars, coreVars, queue, missed, session, toCore, lagged, connects, upsets>>

\* The tape is handed over.
HandTape ==
    /\ stage = "tape"
    /\ stage' = "candles"
    /\ feed' = IF session.subscribed THEN AppliedAll(feed, Column(held.tape, Trade)) ELSE feed
    /\ UNCHANGED <<venueVars, coreVars, queue, missed, session, toCore, lagged, connects, upsets>>

\* A mutant: only the forming bar.
HandForming ==
    /\ stage = "candles"
    /\ stage' = "select"
    /\ feed' = IF session.subscribed /\ held.bars # <<>>
               THEN Applied(feed, Candle(Last(held.bars))) ELSE feed
    /\ UNCHANGED <<venueVars, coreVars, queue, missed, session, toCore, lagged, connects, upsets>>

\* And then the bars, as the read-model has them by then.
HandCandles ==
    /\ stage = "candles"
    /\ stage' = "select"
    /\ feed' = IF session.subscribed THEN AppliedAll(feed, Column(held.bars, Candle)) ELSE feed
    /\ UNCHANGED <<venueVars, coreVars, queue, missed, session, toCore, lagged, connects, upsets>>

\* An event is forwarded if the session wants it, or what was lost is noticed.
Forward ==
    /\ stage = "select"
    /\ IF missed THEN missed' = FALSE /\ UNCHANGED <<queue, feed>>
       ELSE /\ queue # <<>>
            /\ queue' = Tail(queue)
            /\ feed' = IF session.subscribed THEN Applied(feed, Head(queue)) ELSE feed
            /\ UNCHANGED missed
    /\ UNCHANGED <<venueVars, coreVars, stage, session, toCore, lagged, connects, upsets>>

ChartingNext ==
    \/ \E at \in Times : VenuePrints(at)
    \/ \E i \in DOMAIN fed : VenueReplays(i)
    \/ PumpFolds \/ PumpSends
    \/ FeedConnects \/ Ping \/ FeedDisconnects \/ CoreRestarts
    \/ SessionHandles \/ HandTape \/ HandCandles \/ Forward

ChartingSpec == ChartingInit /\ [][ChartingNext]_chartingVars

-----------------------------------------------------------------------------
(* Properties.                                                             *)

\* Every variable keeps its type, and what is kept of bars, prints and events its bound.
ChartingTypeOK ==
    /\ bucketing \in [kind : {"Time", "Ticks"}, size : Nat \ {0}]
    /\ {goodToken, missed, lagged} \subseteq BOOLEAN
    /\ {printed, fed} \subseteq Seq(PublicTrade)
    /\ series \in Seq(Bar) /\ Len(series) <= CAPACITY
    /\ sink \in Seq(Event) /\ inHand \in Event \cup {None}
    /\ held \in [bars : Seq(Bar), tape : Seq(PublicTrade)]
    /\ Len(held.bars) <= HISTORY /\ Len(held.tape) <= TAPE_HISTORY
    /\ queue \in Seq(Event) /\ Len(queue) <= FANOUT_CAPACITY
    /\ stage \in {"none", "select", "tape", "candles"}
    /\ session \in [authenticated : BOOLEAN, subscribed : BOOLEAN]
    /\ toCore \in Seq({"Hello", "Subscribe", "Unsubscribe", "Ping"})
    /\ feed \in FeedState
    /\ Len(feed.bars) <= CANDLE_DEPTH /\ Len(feed.tape) <= TAPE_DEPTH
    /\ {connects, upsets} \subseteq Nat

\* "A candle built from the same prints the tape shows" (candles.rs): the bars are those of
\* the prints since the core started, oldest dropped first.
BarsTrue == series = Keep(Bars(fed, bucketing), CAPACITY)

\* Everything the core has sent has reached a terminal that is subscribed.
Settled ==
    /\ sink = <<>> /\ inHand = None
    /\ stage = "select" /\ session.subscribed /\ toCore = <<>> /\ queue = <<>>
    /\ ~lagged

\* A terminal ends with the read-model's bars at the right of its own, whatever was sent
\* twice, at a handover or across connections, unless its backlog was overrun; and it never
\* has two bars of one open time, or one before an older.
CandlesSettle ==
    /\ Settled => IsSuffix(held.bars, feed.bars)
    /\ \A i \in 1 .. Len(feed.bars) - 1 : feed.bars[i].openTime < feed.bars[i + 1].openTime

\* "A terminal joining late needs the prints themselves" (state.rs): of the prints the
\* read-model has, it has every one that is newer than half of what it keeps. An older one
\* may have been pushed out by prints that were handed over and then forwarded too, and
\* so it has them all if there is room for a whole backlog besides.
TapeComplete ==
    Settled => \A i \in DOMAIN held.tape :
        LET newer == Len(held.tape) - i
        IN  2 * newer < TAPE_DEPTH \/ newer + FANOUT_CAPACITY + 1 < TAPE_DEPTH =>
              held.tape[i] \in Range(feed.tape)

\* What is drawn accounts for every print shown: a mark each, inside the price scale, a line
\* without gaps that reaches the right edge, and a histogram with all their volume; the
\* gridlines are in the range, fewer than the bound that stops them; and a book's depth
\* grows outward from the touch, with the heat inside the scale.  It is asked of a terminal
\* that has lost its connection: a plot is of the tape alone, and one may be lost with any.
PlotFaithful ==
    (feed.tape # <<>> /\ feed.status = "Lost") => \A book \in Books :
        LET shown == Shown(feed.tape, SpanMs)
            plot  == TickPlot(feed.tape, SpanMs, book)
            depth == DepthView(book, DEPTH_ROWS)
        IN  /\ Len(plot.marks) = Len(shown)
            /\ \A i \in DOMAIN plot.marks : plot.marks[i].y \in 1 .. UNIT - 1
            /\ \A i \in 1 .. Len(plot.steps) - 1 : plot.steps[i].toX = plot.steps[i + 1].x
            /\ Last(plot.steps).toX = UNIT
            /\ MapThenSumSet(LAMBDA b : b.qty, plot.volume) = Sum(Column(shown, LAMBDA p : p.qty))
            /\ Len(plot.priceTicks) \in 1 .. MaxTicks - 1
            /\ \A i \in DOMAIN plot.priceTicks : plot.priceTicks[i] \in plot.low .. plot.high
            /\ \A s \in {Reverse(depth.asks), depth.bids} : \A i \in 1 .. Len(s) - 1 :
                 s[i].cumulative < s[i + 1].cumulative
            /\ \A i \in DOMAIN Heatmap(book, plot.high, plot.low, DEPTH_ROWS) :
                 Heatmap(book, plot.high, plot.low, DEPTH_ROWS)[i].y \in 0..UNIT
=============================================================================
