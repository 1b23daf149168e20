------------------------------ MODULE Database ------------------------------
(***************************************************************************)
(* What the database holds, and the statements that change and read it     *)
(* (crates/storage/src/schema.rs, orders.rs, read.rs, retention.rs; the    *)
(* life of an order is crates/domain/src/order.rs).                        *)
(*                                                                         *)
(* A column no property tells apart is left out.  A statement that a       *)
(* constraint refuses changes nothing: its transaction is rolled back.     *)
(***************************************************************************)
EXTENDS Integers, FiniteSets, FiniteSetsExt, Tables

\* A column without a value: a number no row holds.
Null == -1000

-----------------------------------------------------------------------------
(* OrderStatus.                                                            *)

Terminal == {"filled", "canceled", "rejected", "expired"}
Status   == {"pending", "new", "partially_filled"} \cup Terminal

Rank(s) == CASE s = "pending" -> 0 [] s = "new" -> 1 [] s = "partially_filled" -> 2 [] OTHER -> 3

\* OrderStatus::can_advance_to.
CanAdvance(s, t) ==
    /\ s \notin Terminal
    /\ \/ Rank(t) > Rank(s)
       \/ Rank(t) = 2 /\ Rank(s) = 2

-----------------------------------------------------------------------------
(* Tables.                                                                 *)

\* A database no migration has run on.
EmptyFile ==
    [version |-> 0, shape |-> {}, orders |-> EmptyTable, fills |-> {}, deals |-> {},
     candles |-> {}, audit |-> {}, records |-> 0]

\* The rows of the tables.
OrderRow == [status : Status, rev : Nat]
DealRow == [id : Int, core : Int, phase : {"open", "closed"}, closedAt : Int, realized : Int]
BarRow == [tf : Nat \ {0}, openTime : Int]
AuditRow == [id : Nat, at : Int]

\* The files with the orders of these client ids; a fill is of an order that is there.
FilesWith(ids) ==
    [version : Nat, shape : SUBSET Nat,
     orders : [ids -> OrderRow], fills : SUBSET [client : ids, trade : Nat],
     deals : SUBSET DealRow, candles : SUBSET BarRow, audit : SUBSET AuditRow, records : Nat]

\* INSERT_ORDER (record_intent): the client id is the primary key.
InsertOrder(file, o) ==
    IF o \in DOMAIN file.orders THEN file
    ELSE [file EXCEPT !.orders = Put(@, o, [status |-> "pending", rev |-> 0])]

Move(row, status) == [row EXCEPT !.status = status, !.rev = @ + 1]

\* The UPDATE of record_update; an order that is not there is not updated.
UpdateOrder(file, o, status) ==
    IF o \in DOMAIN file.orders THEN [file EXCEPT !.orders[o] = Move(@, status)] ELSE file

\* A mutant: whatever its state.
RejectAnyOrder(file, o) == UpdateOrder(file, o, "rejected")

\* The UPDATE of record_never_placed: only while it is pending.
RejectPendingOrder(file, o) ==
    IF o \in DOMAIN file.orders /\ file.orders[o].status = "pending"
    THEN UpdateOrder(file, o, "rejected") ELSE file

\* unresolved_orders.
Unresolved(file) == {o \in DOMAIN file.orders : file.orders[o].status \notin Terminal}

\* INSERT_FILL: of an order that is there, and once.
InsertFill(file, fill) ==
    IF fill.client \in DOMAIN file.orders THEN [file EXCEPT !.fills = @ \cup {fill}] ELSE file

\* INSERT_DEAL: a closed deal has a closing time and a realised figure.
InsertDeal(file, deal) ==
    IF /\ \A d \in file.deals : d.id # deal.id
       /\ deal.phase = "closed" => Null \notin {deal.closedAt, deal.realized}
    THEN [file EXCEPT !.deals = @ \cup {deal}] ELSE file

\* INSERT_CANDLE: a bar is rewritten as it closes.
InsertCandle(file, bar) == [file EXCEPT !.candles = @ \cup {bar}]

\* INSERT_AUDIT: rec_id is never used again.
InsertAudit(file, at) ==
    [file EXCEPT !.audit = @ \cup {[id |-> file.records + 1, at |-> at]}, !.records = @ + 1]

-----------------------------------------------------------------------------
(* Migrations.                                                             *)

\* Migration m and its PRAGMA user_version, in one transaction.
ApplyMigration(file, m) == [file EXCEPT !.shape = @ \cup {m}, !.version = m]

-----------------------------------------------------------------------------
(* Reports.                                                                *)

\* period_summary: what one core closed from one time up to, and without, another.
PeriodSummary(file, core, from, to) ==
    LET closed == {d \in file.deals : /\ d.core = core /\ d.phase = "closed"
                                      /\ from <= d.closedAt /\ d.closedAt < to}
    IN  [deals    |-> Cardinality(closed),
         realized |-> SumFunction([d \in closed |-> d.realized]),
         wins     |-> Cardinality({d \in closed : d.realized > 0}),
         losses   |-> Cardinality({d \in closed : d.realized < 0})]

-----------------------------------------------------------------------------
(* Retention.                                                              *)

\* The audit trail, among the series that are swept; the others are named by their tf_ms.
AuditTrail == 0

\* Policy::keep_candles_from and keep_audit_from, in days: how long a series is kept.
Horizon(policy, series) ==
    IF series = AuditTrail THEN policy.audit
    ELSE CASE series <= 60000 -> policy.minute
           [] series > 60000 /\ series < 3600000 -> policy.fiveMinute
           [] series >= 3600000 -> policy.hourly

\* The table a series is in, which total_rows counts whole.
TableOf(file, series) == IF series = AuditTrail THEN file.audit ELSE file.candles

\* The rows of a series that are past its horizon.
Expired(file, policy, series, today) ==
    IF series = AuditTrail
    THEN {r \in file.audit : r.at < today - policy.audit}
    ELSE {r \in file.candles : r.tf = series /\ r.openTime < today - Horizon(policy, series)}

\* The DELETE of one batch: some of the expired rows, as many as a batch takes.
Batches(file, policy, series, today, size) ==
    LET expired == Expired(file, policy, series, today)
    IN  kSubset(Min({size, Cardinality(expired)}), expired)

DeleteRows(file, series, rows) ==
    IF series = AuditTrail THEN [file EXCEPT !.audit = @ \ rows] ELSE [file EXCEPT !.candles = @ \ rows]

\* distinct_timeframes.
Timeframes(file) == {r.tf : r \in file.candles}

\* would_sweep counts these.
WouldSweep(file, policy, today) ==
    (UNION {Expired(file, policy, s, today) : s \in Timeframes(file)})
        \cup Expired(file, policy, AuditTrail, today)
=============================================================================
