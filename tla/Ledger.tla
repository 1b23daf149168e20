------------------------------- MODULE Ledger -------------------------------
(***************************************************************************)
(* The database in use: orders recorded before they are sent and           *)
(* reconciled after a crash, executions replayed, migrations, a damaged    *)
(* file moved aside, and the reports and the sweep that run meanwhile.     *)
(*                                                                         *)
(* Each write is one transaction that its caller waits for (Store).  A     *)
(* crash loses the process and keeps what is committed.  Nothing in the    *)
(* repository calls these functions yet, so the core that does, and the    *)
(* venue, are external: the core follows what their documents ask of it    *)
(* (record, then send; reconcile, then trade; only forward).               *)
(***************************************************************************)
EXTENDS Database, Sequences

CONSTANTS None,
          Client,       \* the client ids of orders
          Deals,        \* the rows of deals that are written
          Bars,         \* the bars that are written
          Core,         \* cores with deals in the file
          Days,         \* a report's days: consecutive times
          Policy, Today, BATCH,
          Builds,       \* the schema versions of the builds that run
          Left,         \* the files an earlier life may have left, None for no file
          MaxLives, MaxWrites, MaxLooks

\* A file whose orders are of these clients.
IsFile(f) == \E ids \in SUBSET Client : f \in FilesWith(ids)

ASSUME LedgerAssumption ==
    /\ ~IsFile(None) /\ None \notin Nat
    /\ \A f \in Left : f # None =>
          /\ IsFile(f)
          /\ IsFiniteSet(f.candles) /\ IsFiniteSet(f.audit) /\ IsFiniteSet(f.deals)
          /\ \A d \in f.deals : d.phase = "closed" => Null \notin {d.closedAt, d.realized}
    /\ Deals \subseteq DealRow /\ Bars \subseteq BarRow
    /\ Policy \in [minute : Nat, fiveMinute : Nat, hourly : Nat, audit : Nat]
    /\ Days \in Seq(Int) /\ Len(Days) >= 2
    /\ \A i \in 1 .. Len(Days) - 1 : Days[i] <= Days[i + 1]
    /\ Today \in Nat /\ BATCH \in Nat \ {0}
    /\ Builds \subseteq Nat
    /\ MaxLives \in Nat /\ MaxWrites \in Nat /\ MaxLooks \in Nat

VARIABLES stage,        \* of the core
          build,        \* the version it expects
          main, log,    \* the database file and its write-ahead log, None for no file
          damaged,      \* the file fails its check
          aside,        \* what recovery has moved aside
          todo,         \* the orders to reconcile
          answer,       \* what the venue answered, None before: the orders it had open, and
                        \* those on their way to it at the time (history)
          memory,       \* the core's orders: the status last recorded
          recorded,     \* orders recorded and not sent yet
          requests,     \* orders on their way to the venue
          venue,        \* what the venue holds
          said,         \* what the venue has said of each order
          executed,     \* how many executions each order has had
          screen,       \* a report being read, None for none
          sweep,        \* a sweep, None for none
          used, lives, writes, looks,  \* orders placed, lives, writes, reports and sweeps (history)
          strays        \* orders lost sight of in a way nothing here prevents (history)

core   == <<todo, answer, memory, recorded>>
files  == <<main, log, damaged, aside>>
market == <<requests, venue, said, executed>>
bounds == <<used, lives, looks, strays>>
vars   == <<stage, build, files, core, market, screen, sweep, bounds, writes>>

\* What a reader sees.
Live == IF log # None THEN log ELSE main

\* A transaction commits.
Commit(file) ==
    /\ writes < MaxWrites
    /\ writes' = writes + 1
    /\ log' = file
    /\ UNCHANGED <<main, damaged, aside>>

Init ==
    /\ stage = "down" /\ build = 0
    /\ main \in Left /\ log = None /\ damaged = FALSE /\ aside = {}
    /\ todo = {} /\ answer = None /\ memory = EmptyTable /\ recorded = {}
    /\ screen = None /\ sweep = None
    /\ requests = {}
    /\ venue = [o \in Client |-> "none"]
    /\ said = [o \in Client |-> {}]
    /\ executed = [o \in Client |-> 0]
    /\ used = {} /\ lives = 0 /\ writes = 0 /\ looks = 0 /\ strays = {}

-----------------------------------------------------------------------------
(* Starting.                                                               *)

\* maintenance::check and Store::open: a failed check stops the core; without a file a
\* new one is made, and SQLite drops a log that is left without its file (external).
Start(b) ==
    /\ stage \in {"down", "cut"} /\ lives < MaxLives
    /\ build' = b
    /\ IF damaged
       THEN stage' = "refused" /\ UNCHANGED <<files, lives>>
       ELSE /\ stage' = "migrating"
            /\ lives' = lives + 1
            /\ IF main = None THEN main' = EmptyFile /\ log' = None ELSE UNCHANGED <<main, log>>
            /\ UNCHANGED <<damaged, aside>>
    /\ strays' = IF stage = "cut"
                 THEN strays \cup (Unresolved(log) \ UNION {Unresolved(f) : f \in aside})
                 ELSE strays
    /\ UNCHANGED <<core, market, screen, sweep, used, looks, writes>>

\* maintenance::recover, which the operator runs for a core that refused to start, renames
\* the database first,
MoveFile ==
    /\ stage = "refused"
    /\ aside' = aside \cup {main}
    /\ main' = None /\ damaged' = FALSE
    /\ stage' = IF log = None THEN "down" ELSE "recovering"
    /\ UNCHANGED log

\* A mutant: the log is left where it is.
LeaveLog == UNCHANGED <<log, aside>>

\* and then its log;
TakeLog == aside' = aside \cup {log} /\ log' = None

MoveLog ==
    /\ stage = "recovering"
    /\ TakeLog
    /\ stage' = "down"
    /\ UNCHANGED <<main, damaged>>

\* between the two it may die, or the second rename may fail, which leaves the log behind.
RecoveryCut ==
    /\ stage = "recovering"
    /\ stage' = "cut"
    /\ UNCHANGED files

\* It may be run again: the file is gone, and the log is moved.
RecoverAgain ==
    /\ stage = "cut"
    /\ stage' = "recovering"
    /\ UNCHANGED files

Repair ==
    /\ MoveFile \/ MoveLog \/ RecoveryCut \/ RecoverAgain
    /\ UNCHANGED <<build, core, market, screen, sweep, bounds, writes>>

\* Migrator::migrate: a file from a newer build is refused, what is missing is applied in
\* order, and then the unresolved orders are read.
Migrate ==
    /\ stage = "migrating"
    /\ CASE Live.version > build ->
              /\ stage' = "down"
              /\ UNCHANGED <<files, core, writes>>
         [] Live.version < build ->
              /\ log' = ApplyMigration(Live, Live.version + 1)
              /\ UNCHANGED <<stage, core, main, damaged, aside, writes>>
         [] OTHER ->
              /\ stage' = "reconciling"
              /\ todo' = Unresolved(Live)
              /\ memory' = [o \in DOMAIN Live.orders |-> Live.orders[o].status]
              /\ UNCHANGED <<files, answer, recorded, writes>>
    /\ UNCHANGED <<build, market, screen, sweep, bounds>>

\* The venue is asked for its open orders (open_orders); a request of an earlier life may
\* reach it after that.
Ask ==
    /\ stage = "reconciling" /\ answer = None
    /\ answer' = [open     |-> {o \in Client : venue[o] \in {"new", "partially_filled"}},
                  underWay |-> requests]
    /\ UNCHANGED <<stage, build, files, todo, memory, recorded, market, screen, sweep, bounds, writes>>

\* One that it does not have is closed out (record_never_placed).
CloseOut(o) ==
    /\ answer # None /\ o \in todo \ answer.open
    /\ Commit(RejectPendingOrder(Live, o))
    /\ memory' = [memory EXCEPT ![o] = log'.orders[o].status]
    /\ todo' = todo \ {o}
    /\ strays' = IF o \in answer.underWay /\ Live.orders[o].status = "pending"
                 THEN strays \cup {o} ELSE strays
    /\ UNCHANGED <<stage, build, answer, recorded, market, screen, sweep, used, lives, looks>>

\* One that it has is live; what it says of it comes as an update.
Confirm(o) ==
    /\ answer # None /\ o \in todo \cap answer.open
    /\ todo' = todo \ {o}
    /\ UNCHANGED <<stage, build, files, answer, memory, recorded, market, screen, sweep, bounds, writes>>

Trade ==
    /\ stage = "reconciling" /\ answer # None /\ todo = {}
    /\ stage' = "trading"
    /\ answer' = None
    /\ UNCHANGED <<build, files, todo, memory, recorded, market, screen, sweep, bounds, writes>>

\* The process dies; a damaged file is found at the next start.
Crash ==
    /\ stage \in {"migrating", "reconciling", "trading"}
    /\ stage' = "down"
    /\ todo' = {} /\ answer' = None /\ memory' = EmptyTable /\ recorded' = {}
    /\ screen' = None /\ sweep' = None
    /\ damaged' \in BOOLEAN
    /\ UNCHANGED <<build, main, log, aside, market, bounds, writes>>

\* The log is folded back into the file (the store's checkpoint, or vacuum).
Checkpoint ==
    /\ stage = "trading" /\ log # None
    /\ main' = log /\ log' = None
    /\ UNCHANGED <<stage, build, damaged, aside, core, market, screen, sweep, bounds, writes>>

-----------------------------------------------------------------------------
(* Orders.                                                                 *)

\* record_intent: it returns when the row is committed; it fails, and nothing is sent, when
\* the file has the client id.
RecordIntent(o) ==
    /\ o \notin DOMAIN Live.orders
    /\ Commit(InsertOrder(Live, o))

Place(o) ==
    /\ stage = "trading" /\ o \notin used /\ looks = 0
    /\ RecordIntent(o)
    /\ used' = used \cup {o}
    /\ memory' = Put(memory, o, "pending")
    /\ recorded' = recorded \cup {o}
    /\ UNCHANGED <<stage, build, todo, answer, market, screen, sweep, lives, looks, strays>>

Send(o) ==
    /\ o \in recorded
    /\ recorded' = recorded \ {o}
    /\ requests' = requests \cup {o}
    /\ UNCHANGED <<stage, build, files, todo, answer, memory, venue, said, executed, screen, sweep,
                   bounds, writes>>

\* record_update, of an update that moves the order on.
Update(o, status) ==
    /\ stage \in {"reconciling", "trading"}
    /\ o \in DOMAIN memory /\ status \in said[o]
    /\ CanAdvance(memory[o], status)
    /\ Commit(UpdateOrder(Live, o, status))
    /\ memory' = [memory EXCEPT ![o] = status]
    /\ UNCHANGED <<stage, build, todo, answer, recorded, market, screen, sweep, bounds>>

\* An execution is recorded: the venue reports them again after a reconnect.
Fill(o, trade) ==
    /\ stage \in {"reconciling", "trading"} /\ trade <= executed[o]
    /\ Commit(InsertFill(Live, [client |-> o, trade |-> trade]))
    /\ UNCHANGED <<stage, build, core, market, screen, sweep, bounds>>

-----------------------------------------------------------------------------
(* The venue.                                                              *)

\* What becomes of an order at the venue.
Moves(status) ==
    CASE status = "none" -> {"new", "rejected"}
      [] status = "new" -> {"partially_filled", "filled", "canceled", "expired"}
      [] status = "partially_filled" -> {"partially_filled", "filled", "canceled"}
      [] OTHER -> {}

VenueMoves(o) ==
    /\ venue[o] = "none" => o \in requests
    /\ \E status \in Moves(venue[o]) :
         /\ venue' = [venue EXCEPT ![o] = status]
         /\ said' = [said EXCEPT ![o] = @ \cup {status}]
         /\ executed' = IF status \in {"partially_filled", "filled"}
                        THEN [executed EXCEPT ![o] = @ + 1] ELSE executed
         /\ executed'[o] <= 2
    /\ requests' = requests \ {o}
    /\ UNCHANGED <<stage, build, files, core, screen, sweep, bounds, writes>>

\* A request never arrives.
Lose(o) ==
    /\ o \in requests
    /\ requests' = requests \ {o}
    /\ UNCHANGED <<stage, build, files, core, venue, said, executed, screen, sweep, bounds, writes>>

-----------------------------------------------------------------------------
(* Reports.                                                                *)

\* The tables of orders and those of history share no row: one behaviour uses only one of
\* the two, which bounds the model.
History == stage = "trading" /\ used = {}

Look ==
    /\ looks < MaxLooks
    /\ looks' = looks + 1

\* A deal is written.
WriteDeal(deal) ==
    /\ History
    /\ Commit(InsertDeal(Live, deal))
    /\ UNCHANGED <<stage, build, core, market, screen, sweep, bounds>>

\* A screen asks for the whole period and then for each of its days, in one snapshot
\* (Reader::snapshot), which the first question fixes.
Periods == <<<<Days[1], Days[Len(Days)]>>>> \o [i \in 1 .. Len(Days) - 1 |-> <<Days[i], Days[i + 1]>>]

Open(c) ==
    /\ History /\ screen = None
    /\ Look
    /\ screen' = [core |-> c, view |-> Live.deals, answers |-> <<>>]
    /\ UNCHANGED <<stage, build, files, core, market, sweep, used, lives, strays, writes>>

\* A mutant: each question sees the database as it is.
SeenNow == Live

\* What the screen's transaction sees.
Seen == [Live EXCEPT !.deals = screen.view]

Question ==
    /\ screen # None /\ Len(screen.answers) < Len(Periods)
    /\ LET period == Periods[Len(screen.answers) + 1]
       IN  screen' = [screen EXCEPT !.answers =
                        Append(@, PeriodSummary(Seen, screen.core, period[1], period[2]))]
    /\ UNCHANGED <<stage, build, files, core, market, sweep, bounds, writes>>

CloseScreen ==
    /\ screen # None /\ Len(screen.answers) = Len(Periods)
    /\ screen' = None
    /\ UNCHANGED <<stage, build, files, core, market, sweep, bounds, writes>>

-----------------------------------------------------------------------------
(* Retention.                                                              *)

\* A row appears that a sweep under way did not count on.
Disturb == sweep' = IF sweep = None THEN None ELSE [sweep EXCEPT !.quiet = FALSE]

WriteBar(bar) ==
    /\ History
    /\ Commit(InsertCandle(Live, bar))
    /\ Disturb
    /\ UNCHANGED <<stage, build, core, market, screen, bounds>>

WriteAudit ==
    /\ History
    /\ Commit(InsertAudit(Live, Today))
    /\ Disturb
    /\ UNCHANGED <<stage, build, core, market, screen, bounds>>

\* retention::sweep starts, on every series there is and the audit trail.
SweepStart ==
    /\ History /\ sweep = None
    /\ Look
    /\ sweep' = [todo   |-> Timeframes(Live) \cup {AuditTrail},
                 before |-> None, deleted |-> FALSE, swept |-> 0,
                 doomed |-> WouldSweep(Live, Policy, Today), quiet |-> TRUE]
    /\ UNCHANGED <<stage, build, files, core, market, screen, used, lives, strays, writes>>

Sweeping == sweep # None /\ sweep.todo # {}

\* The series that is swept: they are taken in order, and the audit trail last.
Series ==
    IF sweep.todo = {AuditTrail} THEN AuditTrail ELSE Min(sweep.todo \ {AuditTrail})

\* delete_batch: the table is counted.
CountBefore ==
    /\ Sweeping /\ sweep.before = None
    /\ sweep' = [sweep EXCEPT !.before = Cardinality(TableOf(Live, Series))]
    /\ UNCHANGED <<stage, build, files, core, market, screen, bounds, writes>>

\* delete_batch: one batch goes.
DeleteBatch ==
    /\ Sweeping /\ sweep.before # None /\ ~sweep.deleted
    /\ \E rows \in Batches(Live, Policy, Series, Today, BATCH) :
         log' = DeleteRows(Live, Series, rows)
    /\ sweep' = [sweep EXCEPT !.deleted = TRUE]
    /\ UNCHANGED <<stage, build, main, damaged, aside, core, market, screen, bounds, writes>>

\* A mutant: a full batch is taken for the last.
LastOrFull(removed) == removed <= BATCH

\* The batch that ends a series.
LastBatch(removed) == removed < BATCH

\* delete_batch: the table is counted again, and the difference is what the batch removed.
CountAfter ==
    /\ Sweeping /\ sweep.deleted
    /\ LET removed == Max({sweep.before - Cardinality(TableOf(Live, Series)), 0})
       IN  sweep' = [sweep EXCEPT !.before = None, !.deleted = FALSE, !.swept = @ + removed,
                                  !.todo = IF LastBatch(removed) THEN @ \ {Series} ELSE @]
    /\ UNCHANGED <<stage, build, files, core, market, screen, bounds, writes>>

SweepEnd ==
    /\ sweep # None /\ sweep.todo = {}
    /\ sweep' = None
    /\ UNCHANGED <<stage, build, files, core, market, screen, bounds, writes>>

-----------------------------------------------------------------------------
Next ==
    \/ \E b \in Builds : Start(b)
    \/ Repair \/ Migrate \/ Ask \/ Trade \/ Crash \/ Checkpoint
    \/ \E o \in Client :
         \/ CloseOut(o) \/ Confirm(o) \/ Place(o) \/ Send(o) \/ VenueMoves(o) \/ Lose(o)
         \/ \E status \in Status : Update(o, status)
         \/ \E trade \in 1..2 : Fill(o, trade)
    \/ \E deal \in Deals : WriteDeal(deal)
    \/ \E c \in Core : Open(c)
    \/ Question \/ CloseScreen
    \/ \E bar \in Bars : WriteBar(bar)
    \/ WriteAudit \/ SweepStart \/ CountBefore \/ DeleteBatch \/ CountAfter \/ SweepEnd

Spec == Init /\ [][Next]_vars

-----------------------------------------------------------------------------
(* Properties.                                                             *)

\* The types of the variables. What a screen was told is ScreenAgrees' matter.
TypeOK ==
    /\ stage \in {"down", "refused", "recovering", "cut", "migrating", "reconciling", "trading"}
    /\ build \in Nat
    /\ \A f \in {main, log} \cup aside : f # None => IsFile(f)
    /\ damaged \in BOOLEAN /\ None \notin aside
    /\ todo \subseteq Client /\ recorded \subseteq Client
    /\ answer \in {None} \cup [open : SUBSET Client, underWay : SUBSET Client]
    /\ DOMAIN memory \subseteq Client /\ \A o \in DOMAIN memory : memory[o] \in Status
    /\ requests \subseteq Client
    /\ venue \in [Client -> {"none"} \cup (Status \ {"pending"})]
    /\ said \in [Client -> SUBSET Status]
    /\ executed \in [Client -> 0..2]
    /\ sweep \in {None} \cup
         [todo : SUBSET Nat, before : Nat \cup {None}, deleted : BOOLEAN, swept : Nat,
          doomed : SUBSET (BarRow \cup AuditRow), quiet : BOOLEAN]
    /\ used \subseteq Client /\ strays \subseteq Client
    /\ lives \in 0..MaxLives /\ writes \in 0..MaxWrites /\ looks \in 0..MaxLooks

\* Unresolved in the file, or in what was moved aside.
Managed(o) == \E f \in {Live} \cup aside : f # None /\ o \in Unresolved(f)

Outstanding(o) == o \in requests \/ venue[o] \in {"new", "partially_filled"}

\* "Record before sending" (orders.rs): an order that is on its way to the venue, or live
\* there, is one the file lists as unresolved, or what was moved aside does, whatever
\* crashes, damage and recoveries came in between. Two kinds of order are lost sight of:
\* one that reconciliation closed out because its request reached the venue after the
\* question, and one in a log that a recovery was cut off from and a start then dropped.
LiveIsManaged == \A o \in Client : Outstanding(o) /\ o \notin strays => Managed(o)

\* What the documents say, without the two: the worst case is "a stray row", and a log goes
\* with its file (orders.rs, maintenance.rs). Each of the two refutes it.
NoOrderUnmanaged == \A o \in Client : Outstanding(o) => Managed(o)

\* "State only ever moves forward" (order.rs) in the table too: an order that has ended
\* there never changes, whichever of reconciliation and a late update comes first.
TerminalStays ==
    [][\A o \in Client :
         Live # None /\ Live' # None /\ o \in DOMAIN Live.orders /\ o \in DOMAIN Live'.orders
             /\ Live.orders[o].status \in Terminal
         => Live'.orders[o] = Live.orders[o]]_vars

\* It closed, and not on one of the days.
Elsewhere(d) ==
    d.closedAt # Null /\ ~(Days[1] <= d.closedAt /\ d.closedAt < Days[Len(Days)])

\* "The total equals the sum of the days" (read.rs), for the deals, the money, the wins
\* and the losses, whatever closes while the screen is filled; and a closed deal is never
\* missing from both, unless it closed before the first day or after the last.
ScreenAgrees ==
    screen # None /\ Len(screen.answers) = Len(Periods) =>
        /\ \A column \in {"deals", "realized", "wins", "losses"} :
             screen.answers[1][column] =
               SumFunction([i \in 2..Len(Periods) |-> screen.answers[i][column]])
        /\ screen.answers[1].deals =
             Cardinality({d \in screen.view :
                            d.core = screen.core /\ d.phase = "closed" /\ ~Elsewhere(d)})

\* A sweep that nothing is written under removes what would_sweep announced, all of it,
\* however many batches it takes.
SweepAsAnnounced ==
    sweep # None /\ sweep.todo = {} /\ sweep.quiet =>
        /\ sweep.swept = Cardinality(sweep.doomed)
        /\ sweep.doomed \cap (Live.candles \cup Live.audit) = {}

=============================================================================
