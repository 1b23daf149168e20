# Verification of mooncat

mooncat is a trading terminal split in two: a *core* that keeps connections to a
venue (Binance) and a *terminal* that draws what the core sends it. This
directory holds TLA+ modules that model the code under `src/crates`, TLC
configurations that check them on small instances, and theorems checked by
TLAPS for every instance.

    tlc -config BookSync.cfg MCBookSync.tla        # one run
    tlapm MarketProofs.tla                         # one set of proofs

## 1. Inventory

Data flows one way, commands the other:

    venue --ws/REST--> connector --EventSink--> core pump --broadcast--> session --ws--> terminal
                       (BookSet,                (MarketState)            (Session)       (feed,
                        CandleSet)                                                        panels)

Several crates hold parts that are complete and tested but that the core's
`main.rs` does not use yet: most of `wire` (resume, idempotency, heartbeat,
admission, devices, batches), the rate limiter and all of `storage`. They are
specified by their own code; whoever is to call them is external, and does what
their documentation asks of it.

| Component | State | Operations | What is hard | What makes it correct |
|---|---|---|---|---|
| order book, `domain/src/market.rs` | levels, `last_update_id`, `synced` | `apply` | joining a snapshot to a stream, gaps | the levels are the venue's at that number |
| book maintenance, `marketdata/src/books.rs` | per symbol: book, held-back updates, request bookkeeping | `on_delta`, `install_snapshot`, `snapshot_failed`, `reset` | overlapping, late and lost fetches; full buffer | true books, consumers agree, the venue is not hammered, a book is built in the end |
| connector, `binance/src/lib.rs` | socket, fetch tasks, commands, active streams | `subscribe`, `unsubscribe`, `socket_task`, `pump` | reconnects, failed writes, tasks that fail or die, lost frames | keeps the promise of a chained feed; the venue sends what was asked for |
| candle folding, `marketdata/src/candles.rs` | a series per instrument | `on_trade` | boundaries, out-of-order prints, tick bars | the bars of the prints |
| read-model, `core/src/state.rs` | books, candles, tape | `apply`, `snapshots_for`, ... | read by sessions while the pump writes | never torn, at least as new as what is queued |
| distribution, `core/src/main.rs`, `server.rs` | channel, broadcast, one session per terminal | pump, `serve`, `session` | handover against stream, overrun, slow sockets | terminals end in step with the core; losses are counted |
| terminal feed, `terminal/src/feed.rs` | books, candles, tape, status, log | `run`, `session`, `apply` | reconnects, replayed state, refusals | draws nothing that never was |
| terminal display, `terminal/src/panels.rs`, `chart.rs`, `main.rs` | what is selected | `render`, the panels, `tick_plot`, `heatmap` | empty and partial state, degenerate ranges | what is shown is of this connection, and all of it |
| session protocol, `wire/src/session.rs` | authenticated, subscriptions | `handle`, `wants` | order of messages | nothing private before Hello |
| request idempotency, `wire/src/idempotency.rs` | ring of requests and answers | `admit`, `complete` | retries, eviction | no command runs twice |
| resume log, `wire/src/resume.rs` | ring per channel | `record`, `resume` | age and length limits | resumed exactly, or told it cannot be |
| heartbeat, `wire/src/heartbeat.rs` | probe in flight, misses | `on_send`, `on_pong` | late pongs | a live peer is not declared dead |
| admission, `wire/src/admission.rs` | windows per address, sessions | `admit`, `failed`, `open`, `revoke_device` | limits, connections under way, revocation | limits hold, a revoked device has no session |
| device registry, `wire/src/auth.rs` | codes, devices | `issue_code`, `enroll`, `verify`, `revoke`, `expire_codes` | one-time codes, expiry | a code enrols once |
| subscriptions and ids, `wire/src/subscription.rs`, `domain/src/registry.rs` | asked, announced; ids issued | `subscribe`, `activate`, `unsubscribe`, `intern`, `resolve` | announcement before use, restarts | an id means what it was given for |
| batcher and frames, `wire/src/batch.rs`, `frame.rs` | parts, deadline | `push`, `flush`, `encode`, `decode` | urgent events, size and time limits | once, in order, in time |
| instruments and catalogue, `wire/src/catalogue.rs`, `domain/src/instrument.rs` | list, revision | `replace`, `page`, grids | the list changes between pages | all of it, once |
| rate limiter, `exchange/src/limits.rs` | windows, the venue's count | `check`, `observe_*` | window edges, late counts | nothing is sent that will be refused, waits are exact |
| event store, `storage/src/store.rs` | queue, writer thread, database | `write`, commit, drop | batch failures, crash, shutdown | everyone answered, truly |
| order log, `storage/src/orders.rs`, `read.rs` | orders, deals | intent, update, never placed; reports | crash between steps | no order is forgotten, none ends twice |
| retention, `storage/src/retention.rs` | tables by age | `sweep` | writer beside it | all that has expired, no more |
| schema and maintenance, `storage/src/schema.rs`, `maintenance.rs` | version, files | `migrate`, `check`, `recover` | crash between steps | each migration once; a damaged file is kept |
| configuration, `core/src/config.rs`; keys and trust, `core/src/tls.rs`, `wire/src/pin.rs`, `keystore.rs` | files | `load`, `acceptor`, `verify_server_cert`, `store`, `load` | files change while they are read or written | only what is trusted is served; a key is not lost silently |
| metrics, `core/src/metrics.rs` | counters | `render`, `respond` | tasks that die, receivers that lag | every loss is in a number |

The parts that are modelled only partly, and what is left out of each, are in
`PROJECT.json` ("components") and in section 6.

## 2. Plan

Done, in this order: book synchronisation (`BookSync`, `BookSyncLive`),
distribution, storage (`Store`, `Ledger`), commands and sessions (`ReqRing`,
`Link`), admission (`Access`), the rate limiter, delivery, charting, operations.

Left:

* proofs of what section 5 does not list: `BarsTrue` and `PlotFaithful`;
* backup and vacuum of `maintenance.rs`, when something calls them.

Bounds stay at the smallest instance in which the interesting case happens, and
each run finishes in well under five minutes.

## 3. Modules

`OrderBook`, `BookSet`, `ResumeLog`, `Heartbeat`, `Gatekeeper`,
`Devices`, `Candles`, `Chart`, `Database`, `Catalogue`, `Subscriptions`, `Framing`,
`Startup` and `Screen` are operators from a state to a state, one per function of
the code, so that the modules that compose them cannot disagree about what a handler
does. `BookSync`, `Distribution`, `Store`, `ReqRing`, `Link`, `Access`, `RateLimiter`,
`Ledger`, `Charting`, `Delivery` and `Operations` are the systems; an `MC` module gives
one its constants, unless its configuration can (`Access`, `ReqRing`). A module's comments name the function each operator stands for;
`PROJECT.json` ("map") gives the lines.

**OrderBook** - `OrderBook::apply`. A book is a function from price levels to
quantities, its number and `synced`. The sorted vectors, decimals and timestamps
are left out; an absolute quantity of `Absent` drops a level, as a zero does. What a
consumer does with a book event is here too, since the core's read-model and the
terminal have the same rules. Its last part, the venue, is external: `VenueBook(e, n)` is the venue's book at number `n` of
connection `e`; updates and snapshots are computed from it. A snapshot carries
the whole book: the code asks for the first `SNAPSHOT_DEPTH` levels only, so that a
level beyond them is unknown until it is touched. The numbers may span several
steps, as an update of the venue does.

**BookSet** - the entry of one symbol. `asked` is the age of `requested_at`, kept
only up to the deadline, since the code compares it with the cooldown and the
deadline and nothing else. The clock does not step back.

**BookSync** - the connector. Variables: the connection (`epoch`, `up`), the
venue (`head`), the socket (`stream`), the BookSet `entry`, the `fetches`, what a
consumer has seen (`shown`, `shownIn`) and `rested`, a history variable. Actions:
`VenueUpdate` (the update arrives or is lost), `RestAnswers`, `DeltaArrives`
(the whole of `on_delta`, its publishing and its spawn included),
`SnapshotArrives`, `FetchFails`, `FetchDies`, `Disconnect`, `Connect`, `Tick`.
A fetch is spawned with the connection it was asked on; after a reconnect its
answer goes to a closed channel, so `Disconnect` forgets it.

**BookFeed** - what the connector promises, in five short actions, and what
Distribution starts from.

**BookSyncLive** - the same handlers over an endless stream. A fetch that never
reports is given up at the deadline, or when the buffer fills. All the code does
with numbers is to compare two of them, so the venue stays at one number and
every number in the system sinks instead. `BookSyncLiveAssumption` gives the
room in which no comparison changes by that.

**Distribution** - `sink` (the connector's channel), `inHand` (the event the pump
has folded and not sent yet), `held` (the read-model), and per terminal its
receiver (`queue`, `missed`), its session (`stage`, `subscribed`), the socket
(`toCore`, `toTerminal`) and its book. The pump's two steps are two actions, since
a session can read the model in between. A session that has replied hands
over before it returns to `select!`, while the pump goes on: `SessionReplies` then
`SessionHandsOver`. A full receiver loses its oldest event and reports it at its
next receive. A full socket makes `send` wait and with it the whole session.
Sessions share nothing but the broadcast, so one terminal is checked; the
proofs are for any number.

**DurableLog** - what the store promises: a write is asked for, committed with
others, and told the truth, in that order, or told nothing because the process died.

**Store** - `calls` and `blocked` are the callers inside `write`, `queue` the
channel; `stage`, `batch`, `applied`, `open` and `outcome` are the writer thread
between `recv` and the last answer; `db` is what is committed and `synced` how much
of it a checkpoint has forced to disk; `answer` what each `WriteAck` holds. Actions:
`Write`, `Unblock`, `DropStore` for the callers; `Take`, `Begin`, `Apply`,
`CommitBatch`, `Answer`, `NextBatch`, `WriterEnds` and the three failures for the
thread; `Reopen` and `Crash`. `Take` with an empty channel is `try_recv`'s
`Err`, so the batch ends there or at `MaxBatch`. SQLite is external: a transaction is
committed whole or not at all, any of its statements may fail, a failed COMMIT may
leave it open, and a commit outlives the process. `PowerCut` is
no action of `Next`; `HarshSpec` adds it. The checkpoint runs as far as it can,
since whether one is due depends on the clock and the size of a file.

**ReqRing** - `order`, `records`, `highWater` and `floor` are the fields of the ring;
`asked`, `wire` and `told` are the terminal and its connection, `running` the
handlers; `ran`, `results`, `refused` and `late` are history. `admit` is four
actions, one for each answer; `Remember` is its insertion with `evict_if_full`;
`Progress` and `Finish` call `complete`. No terminal sends commands and no handler
executes them yet, so both are external: the terminal repeats a command as long as it
has no answer, a connection keeps the order of its frames, and a broken one
loses those still on it. The ring lives as long as the behaviour.

**ResumeLog** - the rings of one session, per channel, as functions of the code; an
event is its number. A channel that was never published on has no ring, and `resume`
then reports it as lost though nothing was missed; so does a channel with a ring of no
capacity that has something to replay (the code calls `STRATEGY` resumable and gives
it none).

**Heartbeat** - the record of one connection and its functions. A nonce that matches
the ping in flight clears the misses; any other changes nothing.

**Link** - both over one session. `epoch` and `rings` are the core's; `link`, `hb`,
`wire`, `pings` and `replies` belong to the connection of the moment and start afresh
with it; `knows`, `lastSeen` and `applied` are the terminal's; `brokenAt` and
`answeredAt` are history. `Publish` records an event and sends it; `Ping`, `DropDead`,
`ReceivePong` and `ReceiveTraffic` are the loop of the heartbeat's tests: it pings the
moment a ping is due and gives up when `is_dead`; `Connect` answers the resume with
the history as it stands, in front of whatever is published later. No code calls the
two modules yet, so the terminal, the connection and that loop are external: the
connection keeps its order, and may fall silent, so that only the core keeps it open.
The terminal takes what it is replayed, and the present state of a channel it is told is
lost or of a core that is not the one it knew. `Restart` gives a new epoch, as
`ResumeLog::new` demands.

**Gatekeeper**, **Devices** - `Gatekeeper` and `DeviceRegistry` as functions from tables
to tables (**Tables**). Signatures are left out: a device answers for the key it has.

**Access** - both under terminals that connect, and the audit trail. `pending`
counts the connections let in and not yet heard, so that several of one address are
under way at once; `HelloAccepted`, `EnrollAccepted`, `EnrollRefused` and `GiveUp` are
what a first message leads to; `Run` is a command with its authorisation and its
record. `Issue`, `RevokeDevice` are the operator's; `Expire` and `Tick` the timer's.
`issues`, `failedAt` and `newest` are history.

**RateLimiter** - `windows` is the limiter's; `count` and `replies` the venue's, whose
windows begin `Phase` ticks before the machine's multiples and whose answers are heard in any
order; `Other` is another user of the same address, and `foreign` how much of the venue's count
is of such users. The limiter's window begins when the limiter is made (`Window::new`) and is
moved by hints, so it may or may not fall together with the venue's (`InPhase`). `foreign`, `spent`,
`hints` and `hintEnd` are history: `spent` and `hints` say, for each number of ticks up
to a window's, what was spent and how many hints were heard in the last so many.

**Database** - the tables as sets and functions, the statements as operators; **Ledger**
the core that records, sends, reconciles and crashes, the venue, the operator's
reports and the sweep. A file is what it holds. `recover` is two actions, `MoveFile` and
`MoveLog`, one for each rename (the shared-memory file holds nothing that lasts). Between them
it may die or fail (`RecoveryCut`); then the operator runs it again (`RecoverAgain`) or a core
starts over what is left, whose new file drops the log (`Start`). `damaged` comes from outside.
A restarted core asks the venue whenever it likes (`Ask`), also while a request of its earlier
life is on its way. `strays` is history: the orders lost sight of because a request arrived
after the question and was closed out, or because the log that alone listed them was dropped.

**Candles**, **Chart**, **Charting** - the fold of prints into bars, the geometry of the
plot, and the path from print to plot: `OnPrint` is the connector's whole handler,
`PumpFolds` and `PumpSends` the pump's two steps, `SessionHandles` a reply, `HandTape` and
`HandCandles` the two halves of a handover with the pump running between them,
`Forward` the rest. `VenueReplays` sends a print again after a reconnect.

**Framing**, **Catalogue**, **Subscriptions**, **Delivery** - one core and one
terminal of the new protocol. `Subscribe`, `Announce`, `Activate`, `Unsubscribe` follow a
request; `Publish`, `Acknowledge`, `Foreign` send what passes the filter through the
batcher; `Expire` is its timer; `Receive` decodes a frame and takes its events in order.
A request is first cut down to what is tradable, and the registry gives ids to
those of it that have none, in some order, since the order of a request is left out;
`Name` resolves an id the terminal uses; `Refresh` and `AskPage` are the catalogue's;
`Reconnect`, `Close`, `Restart` end things. Each frame keeps what it was meant to say, and
`understood` what was made of it.

**Startup**, **Screen**, **Operations** - what a core and a terminal start from, what a
window says, and a core in service: `Start` and `Up` are `main` before and after the
acceptor is built from files that may have changed, `Forward` and `PumpDies` the pump,
`VenueAnswers`, `VenueDrops`, `Reconnect`, `TakeCommand`, `CommandLost`, `BookFrozen` a
connector, `Dial` to `Forget` a terminal's life, the rest the operator with the files,
the pins and the key file. An event is its kind and its instrument; `pipe.held` is the set of
those the read-model hands over, and the rest of `pipe` says how many were produced, passed on
and stranded. The specification is `ServiceSpec`. The repository ends at `PinnedVerifier` and `EncryptedFile`:
no terminal uses them yet, and here one does as their documentation asks.

In the venue of **MCBookSync** and **MCDistribution** every number rewrites one of two
levels, differently in each connection, so that a book merged from two moments shows.

## 4. Runs

| Run | Question |
|---|---|
| `BookSync` | one book over losses, late, failed and dead fetches and a reconnect: `BooksAreTrue`, `RestNotHammered`, and the refinement `ImplementsFeed` |
| `BookSyncLive` | once failures stop a book is built and kept (`BookSettles`), with fetches faster than the cooldown |
| `Distribution` | from the feed to the terminal's book: `TerminalBooksTrue`, `OnlyLaggingDesyncs`, and in the end `SubscribersConverge` |
| `Charting` | from the print to the plot: `BarsTrue`, `CandlesSettle`, `TapeComplete`, `PlotFaithful` |
| `Store` | over full channels, failures, drops and deaths of the process: `EveryWriteAnswered` in the end, and the refinement `ImplementsLog` |
| `Ledger` | over crashes, damage, migrations, reports and sweeps: `LiveIsManaged`, `TerminalStays`, `ScreenAgrees`, `SweepAsAnnounced` |
| `ReqRing` | over lost frames and answers and retries at any time: `RemembersTheLast`, `OnceInOrder` |
| `Link` | over silent and broken links, resumes and a restart of the core: `InStep`, `CaughtUp`, `DetectedInTime`, `DeadWasQuiet` |
| `Delivery` | from a request to an event understood: `IdsMeant`, `InOrder`, `WaitBounded`, `PagesTrue`; that an order fits the grids it was brought to (`OrdersFit`) is evaluated at the start |
| `Access` | who is in, and with what rights: `SessionsEntitled`, `NewestStays`, `OneDevicePerCode`, `FailuresBounded`, `TrailResolves` |
| `RateLimiter` | what a venue sees of a caller that obeys: `NothingRefused`, `WaitExact`, `HintHonoured` |
| `Operations` | a core in service: `ServesTrusted`, `LossesCounted`, `StreamsAsAsked`, `FramesHonest`, `IdentityKept` |

Each module also states its type invariant; where it is proved it is not run. A few
more properties are stated and not among the runs: those that are proved
(`ConsumersAgree`, `HeldBackInOrder`, `ReadModelNeverTorn`, `ShownMovesForward`, `AnswersTrue`,
`CallerOrderKept`, `DropFinishes`, `ServedIsFresh`, `StretchBounded`), and those of "What the
code does otherwise" below.

**Bounds.** `BookSync`: five numbers, two connections, updates of one or two
numbers, two in flight, a buffer of two, two fetches, a cooldown of one tick, a
deadline of two and fetches that live three, so that an old fetch outlives its
deadline beside a new one, the buffer overflows, a snapshot is ahead of and behind
the stream, and a live book is replaced by a late answer. `Distribution`:
six numbers over two connections, two events in the channel, a receiver of two,
so that it is overrun; a socket of two messages, so that a session waits in
the middle of a handover; two connections of a terminal, so that it comes back.
`Charting`: three prints at two instants, two kinds of bars, series of two bars and tapes of
three prints on both sides, as the code keeps 4000 on both, so that prints sent twice push others
out, a broadcast of two, two connections, and one upset (a restart, a replay or a message).
`Store`: two callers of two writes, a channel of one and a batch of two, so that
callers block and batches mix good and bad jobs of both, and two lives of the store.
`Ledger`: one order, two lives, four writes and one look (a report or a sweep), over a file
that is missing, old with rows past their horizon, or of a newer build; a sweep's batch is two.
`ReqRing`: four commands and five executions for a ring of two, so that two are
forgotten and one of them comes again, and two frames on the connection, so that
a retry is on its way when the answer comes.
`Link`: three events per channel and lifetime for a ring of two, so that a ring
overflows between two connections; a window of one tick, an interval of one and two
misses in four ticks, so that a link falls silent, is found dead and comes back within
the window and past it; two lifetimes; two messages on their way to the terminal and
one frame back, so that an answer meets later events on the wire and a pong waits
behind a frame.
`Delivery`: four operations of two sizes, batches of three or four bytes, two epochs, two
ticks, pages of one instrument, three lists of the venue.
`Access`: two devices and codes, two attempts, one session, two connections under way
and four ticks, so that a ban, a code and a window end while a connection is pending, and
an address fails as often as `FailuresBounded` allows: one failure less in its bound and
the run refutes it. With three attempts that takes more ticks than a run can have.
`RateLimiter`: four budgets of one to four in windows of two to four ticks, five instants, two
replies under way, and another user of weight one, which is the headroom. The windows fall
together at first, turn over once within the run, and no longer fall together once a hint is
heard late.
`Operations`: one terminal, one market, `MaxOps` operations from outside, of which an edit
of a file counts half; two key pairs of two certificates each; a broadcast of two.
Every run but `BookSync` and `BookSyncLive` may stop (`CHECK_DEADLOCK FALSE`): nobody need
write, ask, connect or publish again, or its clock ends.

**Reductions.** Some things that would only multiply the states are kept from happening
together. `Delivery`: the catalogue is read and paged only while nothing is under way;
time passes only while the batcher keeps something; a body compresses as well as it can
or not at all. `Operations`: files and pins are edited before a terminal dials,
those that are read only while a core starts only while none is up; connectors go on
once the core is up; other streams are asked for while no terminal is connected; a
terminal's key is stored while nothing else runs. `Charting` asks `PlotFaithful` only of a
terminal that lost its connection: the plot is of the tape alone, and any may be lost.

**Fairness.** `BookSyncLive`: the venue publishes and answers, tokio polls every
ready branch of the pump's `select!` and every spawned task, the clock runs, a
reconnect succeeds in the end; nothing is assumed of losses, failures and
disconnects, which stop when it is `calm`. `Distribution`: the pump, each session
and each terminal run when they can; nothing makes the venue publish, a
connection break or a terminal return. `Store`: the writer thread and a blocked
caller that has room go on; nothing makes a caller write or the store be dropped.
The other runs check safety only: what must happen there waits for somebody outside.

**What the code does otherwise.** Modelling met places where the code does not do what a
comment, a document or a test of it says. The first eight have a property of their own;
put it in the named configuration and TLC shows the behaviour.

* `BookSettles`, `BookSyncLive.cfg` with `Promptness = 3`: `install_snapshot`
  (`books.rs:147`) takes the held-back updates and, on a gap, returns without them, though
  its comment says they are kept. The next snapshot has nothing to replay: the stream has
  passed it, the first update is a gap, and the one after that asks again. With fetches as
  slow as the cooldown two of them alternate for ever.
* `LaggingResynced`, `Distribution.cfg`: an overrun session (`server.rs:147`) forwards a
  `Resyncing` notice and nothing else. The terminal meets the gap, drops its book and
  waits for a snapshot; the connector, whose book is fine, has no reason to publish one.
* `AnswersTrue`, `Store.cfg` with `HarshSpec`: with `synchronous=NORMAL` (`store.rs:200`) a
  commit is in the file only at the next checkpoint, so an acknowledged write is gone after
  a power cut. The comment at the setting concedes it for market data; orders go the same way.
* `AtMostOnce`, `ReqRing.cfg`: the first try of 1 is lost, 2 runs, the retry of 1 runs late. 3
  and 4 push out 2 (floor 3) and then 1, which lowers the floor to 2 (`idempotency.rs:140`): a
  duplicate of 2 still on its way runs again. Numbers that first arrive in order never do
  this (`OnceInOrder`).
* `DetectionBound`, `Link.cfg`: a miss is counted when the next ping goes out
  (`heartbeat.rs:104`); with the code's numbers a peer stays undetected for eight seconds
  against a stated six. `DetectedInTime` is the bound that holds.
* `ShortBreakReplayed`, `Link.cfg`: the window is compared with the age of the oldest event the
  ring holds (`resume.rs:120`), which the terminal may have seen long ago. In a session
  older than the window any break in which something was published loses the channel.

* `NothingEverRefused`, `RateLimiter.cfg` (as it is, or with `Phase = 1`): "nothing is sent that
  was going to be rejected" (`limits.rs:16-19`; the test at 278 counts it over one minute that
  starts with the limiter), and a limiter "must land on the venue's window boundary, not invent
  its own" (`limits.rs:49`). But `Window::new` starts a window when the limiter is made (162-170), and
  jumping whole spans keeps that offset. With windows that do not fall together a budget spent at
  the end of the limiter's window and another after it turned over fall into one window of the
  venue's, which refuses. So they do after a hint heard late, since it is counted from when it is
  heard. `NothingRefused` is what holds while the windows fall together, and `StretchBounded` what
  holds wherever they begin: two budgets, and one for each hint.
* `NoOrderUnmanaged`, `Ledger.cfg`: "record before sending, and the worst case is" a stray row,
  not an unmanaged position (`orders.rs:14-16`), and a log goes aside with its file
  (`maintenance.rs:101`). Two orders of events break it. A core dies with a request on its way, the next
  one asks the venue before the request arrives, is told nothing, and closes the order out;
  then it arrives. Nothing in `orders.rs` makes the core wait for what is under way. And `recover`
  renames the database first and its log after it (`maintenance.rs:104-110`): if it dies between,
  or the second rename fails, a start makes a new file over the old log, which SQLite drops with
  the orders only it held. `LiveIsManaged` says that nothing else loses an order; each of the two
  alone refutes the stronger property.

The rest was met while translating:

* *Books.* `set_status(Lost)` and `books.clear()` are two critical sections
  (`feed.rs:168`, `174`), so a frame may show old books beside "lost", never beside "live". A
  core's note survives a reconnect. The dedup of the log (`feed.rs:149`) never applies in a
  reconnect storm, since "connecting" and "lost" alternate.
* *Tape and bars.* "Can never disagree" (`binance/src/lib.rs:280`) holds of what is
  published; a handover puts the whole tape in front of the one kept, every reply, a Pong too,
  triggers a handover, so prints are there twice, counted twice, and no longer
  "most recent first". As the terminal keeps no more prints than the core, those sent twice push
  the oldest out: with a backlog, a terminal that joins late lacks up to half of the tape, where
  the comment at `state.rs:25` says it "needs the prints themselves". `TapeComplete` says which it
  has. Two tick bars that start in one millisecond overwrite each other. After
  a restart of the core the bar it begins in the middle replaces the fuller one a terminal
  has. The closing state of a bar an overrun swallowed is not repaired.
* *Chart.* The volume histogram spans first to last print, the marks the whole window.
* *Subscriptions.* `dropped` (`subscription.rs:33`) names an instrument that is still subscribed as
  another kind; what is pending is dropped silently on a replace; a rejected symbol
  stays subscribed. An urgent `Gap` or `SyncComplete` overtakes what the batcher holds of other
  channels. An envelope that is skipped carries no sequence, so a gap cannot be told from it. A
  body that compresses better than 64 to 1 and is larger than 1 MiB is encoded and then
  refused by the peer's `decode`; `FramingAssumption` excludes it.
* *Storage.* `record_update` has no guard on the state it leaves: the order of calls is the
  caller's (`Ledger` calls it forward). The venue's open orders do not list one that was filled
  before the restart, so reconciliation by that list alone marks it rejected. `check` calls a missing file unreadable. Five-minute bars are kept for less
  time than minute bars. A sweep counts before and after: rows written between make it
  report fewer than it deleted.
* *Limiter.* Only the last hint heard counts: a shorter one that comes later moves the window
  back, though the venue's longer one has not passed (`limits.rs:224`).
* *Operations.* Files validated at load may have changed when the acceptor reads them (it
  then refuses). Events queued when the pump ends are in no counter; `/health` says so. A
  terminal that is refused for its token never tries again. `write_private` truncates the
  key in place (`keystore.rs:204`): a crash leaves a file that is refused, and no key.

## 5. Proofs

`MarketProofs` proves, in its first part, for every venue, buffer size, cooldown, deadline and number
of fetches, all safety properties of the `BookSync` run and the refinement of
`BookFeed`. They rest on `IInv` (`Invariance`), which adds to the properties
what makes them inductive: the updates on the socket and in the buffer are
updates of this connection in increasing order, none newer than `head`; a fetched
snapshot is the venue's book at a number no newer than `head`; the buffer is
empty beside a book; a live book is what consumers were last shown, and no
snapshot that has not joined can join below that number. The lemmas say
what `apply`, the replay and each handler preserve. The replay is a recursive
function on the naturals; `LeastNat` supplies the one fact it needs, that a
set of naturals has a least element, since the library's induction theorems cannot
be instantiated by the installed provers.

Its second part proves `ChartingTypeOK`, `TapeComplete` and `CandlesSettle` of `Charting`,
for any bucketing, bounds, prints, replays and restarts that `ChartingAssumption` and the
assumptions of its parts admit. What they share is `Charted` (`ChartingInOrder`): the bars of the
read-model and of a terminal are in the order of their open times, nothing opens after the
last print (`Floor`), and the first bar of a restarted core is no older than what a terminal has
from the one before. The applying of many events is a fold over a set of places; `AppliedInOrder` shows
that it goes through them one after the other, and from then on a `Course` (the feed before,
between and after them) takes the place of an induction. Both properties are of a terminal all
events have reached, so their invariants say what is true before: what is *pending*, in the
session's backlog and in the pump's hand, is what a terminal lacks.
For the tape (`TapeInv`), the age of a pending print is the number of prints pending after it;
ages find it on the read-model's tape, counted from the end. A handover comes between the
queueing of a print and its forwarding, and so a terminal gets a print twice, and each of these may push an
older one out. `Reach` bounds how far down a print of a given age can end: that is where the two
conditions of `TapeComplete` come from, half the tape or a whole backlog besides.
For the bars (`BarInv`), those pending are never newer than the read-model's last, and the last
of them with its open time is that bar (`Stale`); the terminal's stop somewhere in the
read-model's (`Behind`); and after a handover the course of what is pending ends with the
read-model's bars (`Ends`). `Behind` is needed across connections: a handover joins bars
kept from an earlier one without a repeat or a step back.
Both except a session that was overrun (`lagged`), which has lost events for good.

`DistributionProofs` proves `TypeOK` and `TerminalBooksTrue` for any number of
terminals and any capacity, with the assumption `NumbersGoOn`: two connections
share no number. The invariant follows a book event from the channel to the
terminal: whatever is queued anywhere is a book of the venue or the exact update
between two numbers of one connection; an update applied to a true book by the
rules of `apply` yields a true book only because a number names one
connection. The assumption is needed: if numbers started again with a connection,
an update of the old one, still queued when a book of the new one is handed over,
could chain onto it and be merged into it.

The other half of the module proves `ServedIsFresh` and `OnlyLaggingDesyncs` with the
stronger assumption `NumbersRise`: the numbers go on rising from one connection to the
next, as a venue's update ids do and as they do in the run. The argument is about order. On
the connector's channel numbers rise and each update continues the event before it, the
first the read-model (`StreamInv`). The backlogs of the sessions end in what the pump holds,
which is what was folded last, and no update spans a number that was reached before it
(`FreshInv`, `WholeInv`); so nothing queued is newer than the read-model. Then, for each
terminal that was not overrun, `ChainInv` follows the number its book will bear as it reads
what is on its socket, and says that what its session will still forward goes on from
there: an update that was handed over already is older than the book and ignored, the
first that is not continues it. A handover replaces the book by one at or ahead of the
backlog, and what lies between is ignored when it comes. With that no gap can be met.

`ServiceProofs` proves, in its first part, all safety properties of the `Store` run and the refinement of
`DurableLog`, for any callers, channel, batch and set of failing jobs. `IInv` says
that database, batch and channel, in that order, hold the jobs of each caller in the
order of its calls, with a blocked caller's job behind all of them (`Lined`,
`CallsCover`); that no job in flight has been answered and no job issued is
forgotten (`Unanswered`, `Accounted`). So a job is in one place only, and the
answer it gets is the fate of its batch. Fairness plays no part in it.

Its second part proves the five properties of the `Operations` run, for any settings, keys,
certificates and passphrases, any finite number of terminals, any fanout and any bounds.
`ServiceAssumption` says that the constants are what their comments say: `None` is none of the
values it may stand for, and a configuration that names files of a certificate names the two there are.
Each property has an invariant of its own, over the part of the state it is about.
* `ServesTrusted` from `TrustInv`: a configuration file is a thing `load` can read, a certificate file
  holds a pinned certificate and its key file the key, or nothing; what `Start` loaded is
  valid, and what the acceptor took stays pinned while the core is up.
* `IdentityKept` from `KeyTypeOK`: the key file is a prefix of one sealed key, and that is the key
  the terminal goes by, so that a file that opens holds this key and no other.
* `StreamsAsAsked` from `ConnectorOK`, of each connector: replaying the commands still waiting
  over the active streams gives what was asked for; the venue of a connector that is up
  sends what is active; a command whose write failed was recorded before. What
  `apply` does to the streams and what it does to the wish are therefore the same function.
* `LossesCounted` from three. `PipeInv`: events produced are those queued, broadcast, dropped and
  stranded, and none is dropped or stranded while the pump lives. `CountInv`: a receiver's
  place is where it joined, what it was given and what it missed; what the receivers of
  this core missed is what `lagged` says; `connected` is the number of open sessions. `ServedInv`:
  only a core that is up has sessions, so that its counters start again only when nobody is
  counted.
* `FramesHonest` from `FeedInv`: a book a terminal holds came on the connection it has, and
  between the end of a session and the next subscription, or after a refusal, it holds none. The
  frame is what `render` makes of such a state.

`CallProofs` proves, in its first part, all properties of the `ReqRing` run for any number of commands and
any capacity. The invariant relates the ring to the history of executions: the ring
holds the last of them, as many as fit, and the floor is one above the last one
it dropped (`HoldsTheLast`, `FloorOK`); while commands first arrive in order the
history is rising (`Rising`), so that whatever was dropped is below the floor, and
what is not is new (`FreshIsNew`). Without the order the second half fails, as
`ExecutedTwice` shows.

Its second part proves the three properties of the `RateLimiter` run, and `StretchBounded`, for
any budgets, spans, headroom, clock of the venue, calls and other users. `NothingRefused` has
the invariant `Counted`: while the windows fall together the venue has counted no more than the
limiter's window and others have (`count <= used + foreign`). Charging, and the venue's own count
taken only upward, keep it; a rejection fills the window; a tick either leaves both windows,
or begins the venue's with nothing counted, or begins only the limiter's, and then they no
longer fall together (`RollTick`, `VenueTick`). With that, what `check` lets go fits, as it keeps the
headroom free that others use at most.
For `StretchBounded`, the limiter knows its windows and the
bound speaks of any stretch of a window's length, so the invariant (`Accounted`)
speaks of every shorter stretch too. What was spent in one that the present window has lived
through is no more than the window has counted, nor than its budget, but for one
budget more for each hint that moved the window meanwhile; after a whole window in which nothing rolled it, nothing
was spent; and a stretch that reaches further back holds at most one budget more. Rolling,
charging, raising and moving a window, and a tick, each preserve that; `StretchBounded`
is the case of the full length. `HintHonoured` needs that a window that was moved to a
hint stays full until it has passed (`WaitsForHint`): later replies only raise it. `WaitExact`
needs no history: as long as nobody spends, the longest wait is the latest end of the
windows that lack room, and the last of them to end is empty.

`LinkProofs` proves all properties of the `Link` run for any channels, ring sizes, window,
interval and misses. The two halves share only the connection. For the heartbeat,
`BeatInv` relates the record to the clock: while the link is open the last activity is at
most an interval ago (`Punctual`); a dead peer's last activity, and one interval for
each miss counted since, bound how long it has been silent (`Silence`), which gives
`DetectedInTime`; and every miss counted is an interval since the last answer
(`Quiet`), which gives `DeadWasQuiet`. For the resume, `RingInv` says a ring holds the
last events of its channel without a hole, and `WireInv` follows what the terminal will
have seen after each message on the wire: the first message begins where the terminal
is, each next one where the one before ends, and the last ends at what is published.
`InStep` and `CaughtUp` are the two ends of that course.

`AccessProofs` proves the five properties of the `Access` run for any addresses,
devices, codes, commands and limits. The invariant adds to them the types, that of two
sessions the one with the lower id was not opened later (`Ordered`), and for each role a count: the
codes outstanding and the devices that hold it are together no more than the codes
handed out (`Counted`). Every step is one of few kinds (`Steps`): it touches neither
sessions nor devices, opens one session, enrols one device, revokes one, or runs a command.
Opening closes sessions from the oldest until the limit holds again, and the one just
opened has the highest id, so it stays. `OneDevicePerCode` follows from the count.
`FailuresBounded` has an invariant of its own, `FailInv`, which relates what is recorded of
an address to when it failed: a window holds the last failures, and what was before it is
no more than two windows can leave; under a ban each failure uses up one of the connections
let in before it, so that their number and the failures of a ban's time together do not
grow. A connection let in before can fail when the window is over, and so begin the next one with
the old ban still on its record (`handshake_failed` clears the count, not the ban): once
that ban has run out, the next `admit` gives a full allowance again, whatever that window
already holds. Hence the third window in the bound: a window's failures short of a ban, a
second one's but for its first, a third that fills, and the connections under way then.

`LedgerProofs` proves the four properties of the `Ledger` run for any orders,
clients, builds, horizons and earlier files. `Typed` says that a running core has a file
and that what it remembers of an order is what that file says of it, and also what each
step of a recovery leaves: no file beside a log between the renames, and no log once it is
over. For `LiveIsManaged` the invariant adds
where an order can be (`Placed`: what was sent was recorded before, and an order the venue
has is one that was sent), that the answer a reconciling core was given stays true while
nothing new is sent (`AnswerTrue`: an order that may yet live is among those the venue named or
those on their way when it was asked), and that an order that may yet live, and is no stray, is
listed as unresolved by the file in use or by one moved aside (`Covered`). Most steps leave the orders
alone (`QuietSteps`); the others are taken one by one, and closing out what the venue does
not list is the one that could forget an order: the answer forbids it, or the order's request
was on its way and it is a stray. A step of a recovery moves what is read to what was moved aside
(`RepairLive`); a start over a log that was left behind makes strays of what that log alone
listed.
`TerminalStays` is an action property: `record_never_placed` asks for a pending row, and an
update is recorded only when it moves on what the core remembers of the order, which
by `Typed` is what the row says. For `SweepAsAnnounced` the
invariant counts: while nothing is written beside it, what a series still has beyond its
horizon and what was deleted of it are what was announced. `ScreenAgrees` rests on lemmas about
sums: a sum does not depend on the order it is taken in, so that what a report adds up per order
and what the screen adds up per day are sums over the same deals (`SumUnion`), and
the days follow one another, so that the deals up to a day are those before it and its own
(`DaysAdd`), for days in ascending order. What the screen is told is of the snapshot it reads,
whatever is written meanwhile (`ScreenTrue`), and the table's own constraint keeps a closing
time on every closed deal (`DealsLawful`).

`DeliveryProofs` proves the four properties of the `Delivery` run for any requests,
lists, sizes, batch bounds and events of a newer core. The argument is about the *stream* of
what is still to arrive, the bodies of the frames on their way and then what the batcher
keeps. Whatever the batcher decides, a step of the core changes the stream in one of three
shapes: an event is added at its end, its end is cut off into a frame, or an urgent event is
put in just before its end (`ShapeOfPush`, `ShapeOfFlush`); a step of the terminal takes its
first body (`ReceiveShifts`). That no frame is refused is part of the types (`FrameWhole`):
it needs `FramingAssumption`, that what the batcher can hold fits a frame and the floor of
the inflation budget. `WaitBounded` follows from the types: an event is no older than the
batcher's clock, and time does not pass the deadline. For `InOrder`, each of the
shapes preserves that the stream holds, of every channel, what was sent and not yet seen,
once and in order (`CarriesExtended`, `CarriesCut`, `CarriesInserted`, `CarriesShifted`); what
is put in before the end overtakes only what is not urgent, and so none of its own channel.
For `IdsMeant` the invariant is `Meaningful`: what an event names was known or is taught
before it in the stream (`Introduced`); what the terminal holds and what is on its way give
no id two meanings (`OneMeaning`), even while frames of a core that is gone arrive; on a
connection to the core there is, they are that core's ids (`Agreed`); and a subscription is
active only once its announcement is in the stream (`Told`), which is what ties the three
steps of `subscribe`, the announcement and `activate` together. For `PagesTrue` the
catalogue is a list in the order of its names (`ListedNeat`, for whatever the venue answers
and in whatever order), and two such lists of the same instruments on the same terms are one
(`SameList`), so that a revision that did not move is the list it was. Between two pages
(`Paged`), what the terminal has is in order and no further than its cursor, holds
everything up to there that was listed all the while, and, if it is all of the present revision, is the
beginning of the list. The next page begins after the cursor's name, whatever is
listed by then. Of the venue's answers it is assumed that they are lists of named
instruments (`DeliveryAssumption`).

Only model-checked: liveness (`BookSettles`, `SubscribersConverge`,
`EveryWriteAnswered`), `BarsTrue` and `PlotFaithful` of `Charting`, and
what section 4 says the code does otherwise. Why not all: liveness and `ENABLED` are out
of the prover's reach, and so is what a recursive definition or a fold computes for every
input: `BarsTrue` compares the bars kept print by print with a reference that sorts and folds
all prints at once, and `PlotFaithful` adds up marks, steps and histogram of a whole tape.
`ChartingTypeOK` is proved and no run lists it.

## 6. Not modelled

* Cryptography, TLS, WebSocket framing and MessagePack: external, by what they promise.
* Redaction of audit records and the arguments of commands: pure functions of data no
  modelled property tells apart.
* Backup, VACUUM and the integrity check of `maintenance.rs`: calls into SQLite.
* The traits of `exchange/src/lib.rs`, accounts, names, the clock's formatting, colours and
  layout: no behaviour of their own.
* `Unsubscribe`, `Ping` and a message before Hello in the session of today's terminal, which
  sends none of them (`Charting` has a ping, since its reply triggers a handover).
