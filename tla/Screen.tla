------------------------------- MODULE Screen -------------------------------
(***************************************************************************)
(* What a terminal knows of its core and what its window says of it        *)
(* (crates/terminal: the state feed.rs publishes, the panels of panels.rs  *)
(* and the shell of main.rs).  A frame is a function of one copy of that   *)
(* state and of what is selected; colours, sizes and layout are left out,  *)
(* and so is the plot (see Chart).                                         *)
(*                                                                         *)
(* An instrument's book is the number of the connection it came with.      *)
(***************************************************************************)
EXTENDS Naturals, Sequences, SequencesExt, FiniteSets, Functions

CONSTANTS
    LOG_DEPTH, TAPE_DEPTH,      \* lines and prints kept
    LOG_ROWS, TAPE_ROWS         \* lines and prints shown

-----------------------------------------------------------------------------
(* The state (FeedState).                                                  *)

\* FeedState::default; `connection' numbers the sessions so far.
NoFeed == [status |-> "connecting", connection |-> 0, books |-> <<>>, trades |-> <<>>,
           tape |-> <<>>, note |-> "none", log |-> <<>>]

At(table, key, default) == IF key \in DOMAIN table THEN table[key] ELSE default
With(table, entries) ==
    [k \in DOMAIN table \cup DOMAIN entries |-> IF k \in DOMAIN entries THEN entries[k] ELSE table[k]]
Without(table, key) == Restrict(table, DOMAIN table \ {key})

Truncated(seq, n) == SubSeq(seq, 1, IF Len(seq) < n THEN Len(seq) ELSE n)

\* push_log: newest first, and not a line that repeats the one before it.
PushLog(state, level, text) ==
    IF state.log # <<>> /\ state.log[1].text = text THEN state
    ELSE [state EXCEPT !.log = Truncated(<<[text |-> text, level |-> level]>> \o @, LOG_DEPTH)]

\* set_status.
SetStatus(state, status) ==
    PushLog([state EXCEPT !.status = status], IF status = "live" THEN "info" ELSE "warn", status)

Noted(state, level, note) == PushLog([state EXCEPT !.note = note], level, note)

\* Mutant: the books of a connection that ended are kept.
KeepBooks(state) == state

\* run, at the end of a session that is to be tried again.
ClearBooks(state) == [state EXCEPT !.books = <<>>]

\* apply (feed.rs) of a book, or of a print, of each of some instruments.
Booked(state, keys) ==
    [state EXCEPT !.books = With(@, [k \in keys |-> state.connection])]
Printed(state, keys) ==
    [state EXCEPT
       !.trades = With(@, [k \in keys |-> At(state.trades, k, 0) + 1]),
       !.tape   = With(@, [k \in keys |->
                       Truncated(<<"Trade">> \o At(state.tape, k, <<>>), TAPE_DEPTH)])]

\* apply, of what a read-model hands over.
Handed(state, events) ==
    LET of(kind) == {e.key : e \in {x \in events : x.kind = kind}}
    IN  Booked(Printed(state, of("Trade")), of("BookSnapshot"))

\* apply, for an event of an instrument or of the venue's connection; `torn' says
\* that an update does not chain onto the copy that is held.
Shown(state, event, torn) ==
    CASE event.kind = "BookSnapshot" -> Booked(state, {event.key})
      [] event.kind = "BookDelta" ->
           IF event.key \in DOMAIN state.books /\ torn
           THEN Noted([state EXCEPT !.books = Without(@, event.key)], "warn", "desynced")
           ELSE state
      [] event.kind = "Trade"        -> Printed(state, {event.key})
      [] event.kind = "Resyncing"    -> Noted(state, "info", "resyncing")
      [] event.kind = "Disconnected" -> Noted(state, "warn", "core lost its venue feed")
      [] event.kind = "Ready"        ->
           PushLog([state EXCEPT !.note = "none"], "info", "core feed ready")
      [] event.kind = "Connecting"   -> state

-----------------------------------------------------------------------------
(* The panels.                                                             *)

\* waiting, and order_book: levels of a book, or why there are none.
Waiting(state) == IF state.status = "live" THEN "waiting for the book" ELSE "not connected"

OrderBookPanel(state, key) ==
    IF key \in DOMAIN state.books
    THEN [note |-> "none", book |-> state.books[key]]
    ELSE [note |-> Waiting(state), book |-> 0]

\* tape and chart, which has the same two ways to be empty: a book whose trades do not
\* come, and nothing at all.
Absent(state, key) ==
    IF key \in DOMAIN state.books THEN "no trades have arrived" ELSE "waiting for the instrument"

TapePanel(state, key) ==
    LET tape == At(state.tape, key, <<>>)
    IN  IF tape = <<>> THEN [note |-> Absent(state, key), rows |-> <<>>]
        ELSE [note |-> "none", rows |-> Truncated(tape, TAPE_ROWS)]

ChartPanel(state, key) ==
    LET tape == At(state.tape, key, <<>>)
    IN  IF tape = <<>> THEN [note |-> Absent(state, key), prints |-> <<>>, heat |-> 0]
        ELSE [note |-> "none", prints |-> tape, heat |-> At(state.books, key, 0)]

\* instruments: every instrument that is watched has a row, dim without a book.
InstrumentsPanel(state, watching) ==
    [i \in DOMAIN watching |->
        [key |-> watching[i], dim |-> watching[i] \notin DOMAIN state.books,
         book |-> At(state.books, watching[i], 0), trades |-> At(state.trades, watching[i], 0)]]

\* core_status.
StatusPanel(state, watching) ==
    [connection |-> state.status, green |-> state.status = "live", note |-> state.note,
     synced |-> Cardinality({k \in ToSet(watching) : k \in DOMAIN state.books})]

\* log.
LogPanel(state) == Truncated(state.log, LOG_ROWS)

-----------------------------------------------------------------------------
(* The shell.                                                              *)

\* TerminalView: what is selected. The order sizes are wired to nothing.
FirstView == [instrument |-> 1, dock |-> 1, size |-> 2, zoom |-> 2]

\* Each ticker on each market (MARKETS).
Watched(tickers, markets) ==
    FlattenSeq([i \in DOMAIN tickers |-> [m \in DOMAIN markets |-> <<markets[m], tickers[i]>>]])

Tabs == <<"Time & Sales", "Instruments", "Core Status", "Log">>
Spans == <<30, 60, 300, 900, 3600>>
SizePresets == <<50, 100, 250, 500, 1000, 2500>>

\* instrument_bar.
InstrumentBar(view, state, watching) ==
    [i \in DOMAIN watching |->
        IF i = view.instrument THEN "selected"
        ELSE IF watching[i] \in DOMAIN state.books THEN "plain" ELSE "faint"]

\* status_bar.
StatusBar(state, watching) ==
    [tone   |-> CASE state.status = "live" -> "positive" [] state.status = "refused" -> "negative"
                  [] OTHER -> "info",
     books  |-> Cardinality(DOMAIN state.books),
     of     |-> Len(watching)]

\* top_bar: the middle of the selected book.
TopBar(state, key) == At(state.books, key, 0)

\* toolbar, with size_presets.
Toolbar(view, state, watching) ==
    [instruments |-> InstrumentBar(view, state, watching), size |-> SizePresets[view.size]]

\* chart_pane: how many prints there are, whatever span of them is drawn.
ChartPane(view, state, key) ==
    [prints |-> Len(At(state.tape, key, <<>>)), span |-> Spans[view.zoom],
     chart  |-> ChartPanel(state, key)]

\* dock: the tabs' counts, and the panel of the one that is open.
Badges(state, key) ==
    <<Len(At(state.tape, key, <<>>)), Cardinality(DOMAIN state.books), 0, Len(state.log)>>

Dock(view, state, watching, key) ==
    [tab    |-> Tabs[view.dock],
     badges |-> Badges(state, key),
     tape   |-> IF view.dock = 1 THEN TapePanel(state, key) ELSE [note |-> "none", rows |-> <<>>],
     rows   |-> IF view.dock = 2 THEN InstrumentsPanel(state, watching) ELSE <<>>,
     status |-> IF view.dock = 3 THEN {StatusPanel(state, watching)} ELSE {},
     log    |-> IF view.dock = 4 THEN LogPanel(state) ELSE <<>>]

\* TerminalView::render.
Frame(view, state, watching) ==
    LET key == watching[view.instrument]
    IN  [connection |-> state.connection,
         mid    |-> TopBar(state, key),
         tools  |-> Toolbar(view, state, watching),
         chart  |-> ChartPane(view, state, key),
         book   |-> OrderBookPanel(state, key),
         dock   |-> Dock(view, state, watching, key),
         bottom |-> StatusBar(state, watching)]
=============================================================================
