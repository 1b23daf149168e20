---------------------------- MODULE LedgerProofs ----------------------------
(***************************************************************************)
(* Proofs about Ledger, for any orders, deals, bars, files left by earlier *)
(* lives, retention policies and bounds: no order that may be live is      *)
(* forgotten (but for the two kinds LiveIsManaged names), an ended one     *)
(* never changes, a sweep removes what was announced, and a report's total *)
(* is the sum of its days.                                                 *)
(***************************************************************************)
EXTENDS Ledger, FiniteSetTheorems, WellFoundedInduction, TLAPS

-----------------------------------------------------------------------------
(* Files: what each statement keeps and changes.                           *)

\* Two files with the same bars and the same audit trail.
SameHistory(f, g) == g.candles = f.candles /\ g.audit = f.audit

\* What a file is made of.
LEMMA FileFacts ==
    ASSUME NEW f, IsFile(f)
    PROVE  /\ f # None
           /\ DOMAIN f.orders \subseteq Client
           /\ \A o \in DOMAIN f.orders : f.orders[o] \in OrderRow
           /\ f.version \in Nat
           /\ f.candles \subseteq BarRow /\ f.audit \subseteq AuditRow
BY LedgerAssumption DEF IsFile, FilesWith

\* INSERT_ORDER puts a pending order in, and touches nothing else.
LEMMA InsertOrderFile ==
    ASSUME NEW f, IsFile(f), NEW o \in Client, o \notin DOMAIN f.orders,
           NEW g, g = InsertOrder(f, o)
    PROVE  /\ IsFile(g) /\ SameHistory(f, g)
           /\ DOMAIN g.orders = DOMAIN f.orders \cup {o}
           /\ g.orders[o].status = "pending"
           /\ \A k \in DOMAIN f.orders : g.orders[k] = f.orders[k]
<1>1. PICK ids \in SUBSET Client : f \in FilesWith(ids)
    BY DEF IsFile
<1> DEFINE rows == Put(f.orders, o, [status |-> "pending", rev |-> 0])
<1>2. g = [f EXCEPT !.orders = rows]
    BY DEF InsertOrder
<1>3. rows \in [ids \cup {o} -> OrderRow]
    BY <1>1 DEF FilesWith, Put, OrderRow, Status
<1> HIDE DEF rows
<1>a. f.fills \subseteq [client : ids \cup {o}, trade : Nat]
    <2>1. f.fills \subseteq [client : ids, trade : Nat]
        BY <1>1 DEF FilesWith
    <2>2. [client : ids, trade : Nat] \subseteq [client : ids \cup {o}, trade : Nat]
        OBVIOUS
    <2>. QED BY <2>1, <2>2
<1>4. g \in FilesWith(ids \cup {o})
    BY <1>1, <1>2, <1>3, <1>a DEF FilesWith
<1>5. g.orders = rows /\ SameHistory(f, g)
    BY <1>1, <1>2 DEF FilesWith, SameHistory
<1>6. IsFile(g)
    BY <1>1, <1>4 DEF IsFile
<1>. QED BY <1>1, <1>5, <1>6 DEF Put, FilesWith, rows

\* The UPDATE of record_update moves one row.
LEMMA UpdateOrderFile ==
    ASSUME NEW f, IsFile(f), NEW o, NEW status \in Status, NEW g, g = UpdateOrder(f, o, status)
    PROVE  /\ IsFile(g) /\ SameHistory(f, g)
           /\ DOMAIN g.orders = DOMAIN f.orders
           /\ o \in DOMAIN f.orders => g.orders[o].status = status
           /\ \A k \in DOMAIN f.orders : k # o => g.orders[k] = f.orders[k]
<1>1. PICK ids \in SUBSET Client : f \in FilesWith(ids)
    BY DEF IsFile
<1>2. CASE o \notin DOMAIN f.orders
    BY <1>2 DEF UpdateOrder, SameHistory
<1>3. CASE o \in DOMAIN f.orders
    <2> DEFINE rows == [f.orders EXCEPT ![o] = Move(@, status)]
    <2>1. g = [f EXCEPT !.orders = rows]
        BY <1>3 DEF UpdateOrder
    <2>2. f.orders[o] \in OrderRow
        BY <1>3, FileFacts
    <2>3. Move(f.orders[o], status) \in OrderRow /\ Move(f.orders[o], status).status = status
        <3> DEFINE row == f.orders[o]
        <3>1. row \in [status : Status, rev : Nat] /\ row.rev \in Nat
            BY <2>2 DEF OrderRow
        <3>2. row.rev + 1 \in Nat
            BY <3>1
        <3> HIDE DEF row
        <3>3. [row EXCEPT !.status = status, !.rev = @ + 1] \in [status : Status, rev : Nat]
            BY <3>1, <3>2
        <3>4. [row EXCEPT !.status = status, !.rev = @ + 1].status = status
            BY <3>1
        <3>. QED BY <3>3, <3>4 DEF row, Move, OrderRow
    <2>4. rows \in [ids -> OrderRow]
        BY <1>1, <2>3 DEF FilesWith
    <2>5. g \in FilesWith(ids) /\ g.orders = rows /\ SameHistory(f, g)
        BY <1>1, <2>1, <2>4 DEF FilesWith, SameHistory
    <2>6. IsFile(g)
        BY <1>1, <2>5 DEF IsFile
    <2>. QED BY <1>1, <1>3, <2>3, <2>5, <2>6 DEF FilesWith
<1>. QED BY <1>2, <1>3

\* The UPDATE of record_never_placed moves it only while it is pending.
LEMMA RejectPendingFile ==
    ASSUME NEW f, IsFile(f), NEW o, NEW g, g = RejectPendingOrder(f, o)
    PROVE  /\ IsFile(g) /\ SameHistory(f, g)
           /\ DOMAIN g.orders = DOMAIN f.orders
           /\ \A k \in DOMAIN f.orders :
                k # o \/ f.orders[k].status # "pending" => g.orders[k] = f.orders[k]
<1>1. CASE o \in DOMAIN f.orders /\ f.orders[o].status = "pending"
    <2>1. g = UpdateOrder(f, o, "rejected") /\ "rejected" \in Status
        BY <1>1 DEF RejectPendingOrder, Status, Terminal
    <2>. QED BY <1>1, <2>1, UpdateOrderFile
<1>2. CASE ~(o \in DOMAIN f.orders /\ f.orders[o].status = "pending")
    BY <1>2 DEF RejectPendingOrder, SameHistory
<1>. QED BY <1>1, <1>2

\* The other statements leave the orders alone; a fill and a deal leave the bars and the
\* trail alone too.
LEMMA FillFile ==
    ASSUME NEW f, IsFile(f), NEW o \in Client, NEW trade \in Nat,
           NEW g, g = InsertFill(f, [client |-> o, trade |-> trade])
    PROVE  IsFile(g) /\ g.orders = f.orders /\ SameHistory(f, g)
<1>1. PICK ids \in SUBSET Client : f \in FilesWith(ids)
    BY DEF IsFile
<1>2. CASE o \notin DOMAIN f.orders
    BY <1>2 DEF InsertFill, SameHistory
<1>3. CASE o \in DOMAIN f.orders
    <2>1. g = [f EXCEPT !.fills = @ \cup {[client |-> o, trade |-> trade]}]
        BY <1>3 DEF InsertFill
    <2>2. [client |-> o, trade |-> trade] \in [client : ids, trade : Nat]
        BY <1>1, <1>3 DEF FilesWith
    <2>3. g \in FilesWith(ids) /\ g.orders = f.orders /\ SameHistory(f, g)
        BY <1>1, <2>1, <2>2 DEF FilesWith, SameHistory
    <2>. QED BY <1>1, <2>3 DEF IsFile
<1>. QED BY <1>2, <1>3

LEMMA DealFile ==
    ASSUME NEW f, IsFile(f), NEW deal \in Deals, NEW g, g = InsertDeal(f, deal)
    PROVE  IsFile(g) /\ g.orders = f.orders /\ SameHistory(f, g)
<1>1. PICK ids \in SUBSET Client : f \in FilesWith(ids)
    BY DEF IsFile
<1>2. g = f \/ g = [f EXCEPT !.deals = @ \cup {deal}]
    BY DEF InsertDeal
<1>3. deal \in DealRow
    BY LedgerAssumption
<1>4. g \in FilesWith(ids) /\ g.orders = f.orders /\ SameHistory(f, g)
    <2>1. CASE g = f
        BY <1>1, <2>1 DEF SameHistory
    <2>2. CASE g = [f EXCEPT !.deals = @ \cup {deal}]
        BY <1>1, <1>3, <2>2 DEF FilesWith, SameHistory
    <2>. QED BY <1>2, <2>1, <2>2
<1>. QED BY <1>1, <1>4 DEF IsFile

LEMMA BarFile ==
    ASSUME NEW f, IsFile(f), NEW bar \in Bars, NEW g, g = InsertCandle(f, bar)
    PROVE  /\ IsFile(g) /\ g.orders = f.orders
           /\ g.candles = f.candles \cup {bar} /\ g.audit = f.audit
<1>1. PICK ids \in SUBSET Client : f \in FilesWith(ids)
    BY DEF IsFile
<1>2. g \in FilesWith(ids) /\ g.orders = f.orders
      /\ g.candles = f.candles \cup {bar} /\ g.audit = f.audit
    BY <1>1, LedgerAssumption DEF FilesWith, InsertCandle
<1>. QED BY <1>1, <1>2 DEF IsFile

LEMMA AuditFile ==
    ASSUME NEW f, IsFile(f), NEW at \in Int, NEW g, g = InsertAudit(f, at)
    PROVE  /\ IsFile(g) /\ g.orders = f.orders
           /\ g.audit = f.audit \cup {[id |-> f.records + 1, at |-> at]}
           /\ g.candles = f.candles
<1>1. PICK ids \in SUBSET Client : f \in FilesWith(ids)
    BY DEF IsFile
<1>2. f.records \in Nat
    BY <1>1 DEF FilesWith
<1>3. [id |-> f.records + 1, at |-> at] \in AuditRow
    BY <1>2 DEF AuditRow
<1> DEFINE row == [id |-> f.records + 1, at |-> at]
<1>a. g = [f EXCEPT !.audit = @ \cup {row}, !.records = @ + 1]
    BY DEF InsertAudit
<1>b. row \in AuditRow /\ f.records + 1 \in Nat
    BY <1>2, <1>3
<1> HIDE DEF row
<1>4. g \in FilesWith(ids) /\ g.orders = f.orders
      /\ g.audit = f.audit \cup {row} /\ g.candles = f.candles
    BY <1>1, <1>2, <1>a, <1>b DEF FilesWith
<1>. QED BY <1>1, <1>4 DEF IsFile, row

LEMMA MigrationFile ==
    ASSUME NEW f, IsFile(f), NEW m \in Nat, NEW g, g = ApplyMigration(f, m)
    PROVE  IsFile(g) /\ g.orders = f.orders /\ SameHistory(f, g)
<1>1. PICK ids \in SUBSET Client : f \in FilesWith(ids)
    BY DEF IsFile
<1>2. g \in FilesWith(ids) /\ g.orders = f.orders /\ SameHistory(f, g)
    BY <1>1 DEF FilesWith, ApplyMigration, SameHistory
<1>. QED BY <1>1, <1>2 DEF IsFile

LEMMA DeleteFile ==
    ASSUME NEW f, IsFile(f), NEW series, NEW rows, NEW g, g = DeleteRows(f, series, rows)
    PROVE  /\ IsFile(g) /\ g.orders = f.orders
           /\ g.candles \subseteq f.candles /\ g.audit \subseteq f.audit
           /\ series = AuditTrail => g.candles = f.candles /\ g.audit = f.audit \ rows
           /\ series # AuditTrail => g.candles = f.candles \ rows /\ g.audit = f.audit
<1>1. PICK ids \in SUBSET Client : f \in FilesWith(ids)
    BY DEF IsFile
<1>2. /\ g \in FilesWith(ids) /\ g.orders = f.orders
      /\ g.candles = IF series = AuditTrail THEN f.candles ELSE f.candles \ rows
      /\ g.audit = IF series = AuditTrail THEN f.audit \ rows ELSE f.audit
    BY <1>1 DEF FilesWith, DeleteRows
<1>3. IsFile(g)
    BY <1>1, <1>2 DEF IsFile
<1>. QED BY <1>2, <1>3

LEMMA EmptyFileIs == IsFile(EmptyFile) /\ EmptyFile.orders = EmptyTable
                     /\ EmptyFile.candles = {} /\ EmptyFile.audit = {}
<1>1. EmptyFile \in FilesWith({})
    BY DEF EmptyFile, FilesWith, EmptyTable
<1>. QED BY <1>1 DEF IsFile, EmptyFile

-----------------------------------------------------------------------------
(* Numbers: the greater and the lesser of two, the first series to sweep.  *)

\* Every non-empty set of natural numbers has a least element.
LEMMA LeastNat ==
    ASSUME NEW T, T \subseteq Nat, T # {}
    PROVE  \E m \in T : \A k \in T : m <= k
<1>1. \E m \in T : \A k \in T : <<k, m>> \notin OpToRel(<, Nat)
    BY WFMin, NatLessThanWellFounded, Zenon
<1>2. \A k, m \in T : k < m => <<k, m>> \in OpToRel(<, Nat)
    BY DEF OpToRel
<1>3. \E m \in T : \A k \in T : ~(k < m)
    BY <1>1, <1>2, Zenon
<1>. QED BY <1>3

LEMMA MinOf ==
    ASSUME NEW T, T \subseteq Nat, T # {}
    PROVE  Min(T) \in T /\ \A k \in T : Min(T) <= k
<1>1. \E m \in T : \A k \in T : m <= k
    BY LeastNat
<1>. QED BY <1>1 DEF Min

LEMMA MaxZero ==
    ASSUME NEW a \in Int
    PROVE  Max({a, 0}) = IF a >= 0 THEN a ELSE 0
<1>1. \E x \in {a, 0} : \A y \in {a, 0} : x >= y
    <2>1. CASE a >= 0
        BY <2>1
    <2>2. CASE ~(a >= 0)
        BY <2>2
    <2>. QED BY <2>1, <2>2
<1>. QED BY <1>1 DEF Max

\* The series a sweep is at is one of those it still has to do (retention::sweep).
LEMMA SeriesIs ==
    ASSUME sweep.todo \subseteq Nat, sweep.todo # {}
    PROVE  Series \in sweep.todo
<1>1. CASE sweep.todo = {AuditTrail}
    BY <1>1 DEF Series
<1>2. CASE sweep.todo # {AuditTrail}
    <2>1. sweep.todo \ {AuditTrail} # {} /\ sweep.todo \ {AuditTrail} \subseteq Nat
        BY <1>2
    <2>. QED BY <1>2, <2>1, MinOf DEF Series
<1>. QED BY <1>1, <1>2

-----------------------------------------------------------------------------
(* Types, with what ties the files, the core's memory and the sweep to the *)
(* stage the core is in.                                                   *)

Running == stage \in {"migrating", "reconciling", "trading"}

FilesTyped ==
    /\ \A f \in {main, log} \cup aside : f # None => IsFile(f)
    /\ \A f \in {main, log} : f # None => IsFiniteSet(f.candles) /\ IsFiniteSet(f.audit)
    /\ damaged \in BOOLEAN /\ None \notin aside
    /\ damaged => main # None
    /\ Running => main # None
    /\ stage = "refused" => damaged
    /\ stage \in {"recovering", "cut"} <=> main = None /\ log # None

\* Once the core is reconciling, what it remembers of each order is what the file says.
MemoryTrue ==
    stage \in {"reconciling", "trading"} =>
        memory = [o \in DOMAIN Live.orders |-> Live.orders[o].status]

CoreTyped ==
    /\ todo \subseteq Client /\ recorded \subseteq Client
    /\ answer \in {None} \cup [open : SUBSET Client, underWay : SUBSET Client]
    /\ answer # None => stage = "reconciling"
    /\ DOMAIN memory \subseteq Client /\ \A o \in DOMAIN memory : memory[o] \in Status
    /\ stage # "trading" => recorded = {}

MarketTyped ==
    /\ requests \subseteq Client
    /\ venue \in [Client -> {"none"} \cup (Status \ {"pending"})]
    /\ said \in [Client -> SUBSET Status]
    /\ executed \in [Client -> 0..2]

Sweeps ==
    [todo : SUBSET Nat, before : Nat \cup {None}, deleted : BOOLEAN, swept : Nat,
     doomed : SUBSET (BarRow \cup AuditRow), quiet : BOOLEAN]

SweepTyped ==
    sweep # None =>
        /\ sweep \in Sweeps
        /\ stage = "trading"
        /\ sweep.deleted => sweep.before # None
        /\ sweep.before # None => sweep.todo # {}

BoundsTyped ==
    /\ stage \in {"down", "refused", "recovering", "cut", "migrating", "reconciling", "trading"}
    /\ build \in Nat
    /\ used \subseteq Client /\ strays \subseteq Client
    /\ lives \in 0..MaxLives /\ writes \in 0..MaxWrites /\ looks \in 0..MaxLooks

Typed == FilesTyped /\ CoreTyped /\ MemoryTrue /\ MarketTyped /\ SweepTyped /\ BoundsTyped

LEMMA TypedTypes == Typed => TypeOK
BY DEF Typed, FilesTyped, CoreTyped, MarketTyped, SweepTyped, Sweeps, BoundsTyped, TypeOK

\* A running core has a file.
LEMMA LiveFile ==
    ASSUME FilesTyped, Running
    PROVE  /\ Live # None /\ IsFile(Live)
           /\ IsFiniteSet(Live.candles) /\ IsFiniteSet(Live.audit)
BY DEF FilesTyped, Live

LEMMA InitTyped == Init => Typed
<1> SUFFICES ASSUME Init PROVE Typed
    OBVIOUS
<1>1. FilesTyped
    BY LedgerAssumption DEF Init, FilesTyped, Running
<1>2. CoreTyped
    BY DEF Init, CoreTyped, EmptyTable
<1>4. MemoryTrue /\ SweepTyped
    BY DEF Init, MemoryTrue, SweepTyped
<1>5. MarketTyped
    BY DEF Init, MarketTyped
<1>3. BoundsTyped
    BY LedgerAssumption DEF Init, BoundsTyped
<1>. QED BY <1>1, <1>2, <1>3, <1>4, <1>5 DEF Typed

\* After a commit a reader sees the new file.
LEMMA CommitLive ==
    ASSUME FilesTyped, Running, BoundsTyped, NEW g, Commit(g), IsFile(g),
           IsFiniteSet(g.candles), IsFiniteSet(g.audit), stage' = stage
    PROVE  Live' = g /\ FilesTyped' /\ writes' \in 0..MaxWrites
<1>1. g # None
    BY FileFacts
<1>2. log' = g /\ UNCHANGED <<main, damaged, aside>> /\ writes < MaxWrites /\ writes' = writes + 1
    BY DEF Commit
<1>3. Live' = g
    BY <1>1, <1>2 DEF Live
<1>4. FilesTyped'
    BY <1>2 DEF FilesTyped, Running
<1>5. writes' \in 0..MaxWrites
    BY <1>2, LedgerAssumption DEF BoundsTyped
<1>. QED BY <1>3, <1>4, <1>5

\* What a step leaves alone stays as it was.
LEMMA Kept ==
    ASSUME Typed
    PROVE  /\ UNCHANGED <<files, stage>> => FilesTyped' /\ Live' = Live
           /\ UNCHANGED <<core, stage>> => CoreTyped'
           /\ UNCHANGED <<memory, stage>> /\ Live'.orders = Live.orders => MemoryTrue'
           /\ UNCHANGED market => MarketTyped'
           /\ UNCHANGED <<sweep, stage>> => SweepTyped'
           /\ UNCHANGED <<stage, build, bounds, writes>> => BoundsTyped'
<1>1. UNCHANGED <<files, stage>> => FilesTyped' /\ Live' = Live
    BY DEF Typed, FilesTyped, files, Running, Live
<1>2. UNCHANGED <<core, stage>> => CoreTyped'
    BY DEF Typed, CoreTyped, core
<1>3. UNCHANGED <<memory, stage>> /\ Live'.orders = Live.orders => MemoryTrue'
    BY DEF Typed, MemoryTrue
<1>4. UNCHANGED market => MarketTyped'
    BY DEF Typed, MarketTyped, market
<1>5. UNCHANGED <<sweep, stage>> => SweepTyped'
    BY DEF Typed, SweepTyped
<1>6. UNCHANGED <<stage, build, bounds, writes>> => BoundsTyped'
    BY DEF Typed, BoundsTyped, bounds
<1>. QED BY <1>1, <1>2, <1>3, <1>4, <1>5, <1>6

(* Starting.                                                               *)

LEMMA StartTyped ==
    ASSUME Typed, NEW b \in Builds, Start(b)
    PROVE  Typed'
<1>1. FilesTyped'
    <2>1. CASE damaged
        BY <2>1 DEF Start, Typed, FilesTyped, Running, files
    <2>2. CASE ~damaged /\ main = None
        <3>1. IsFile(EmptyFile) /\ IsFiniteSet(EmptyFile.candles) /\ IsFiniteSet(EmptyFile.audit)
            BY EmptyFileIs, FS_EmptySet
        <3>2. EmptyFile # None
            BY <3>1, FileFacts
        <3>. QED BY <2>2, <3>1, <3>2 DEF Start, Typed, FilesTyped, Running
    <2>3. CASE ~damaged /\ main # None
        BY <2>3 DEF Start, Typed, FilesTyped, Running
    <2>. QED BY <2>1, <2>2, <2>3
<1>2. CoreTyped'
    BY DEF Start, Typed, CoreTyped, core
<1>3. MemoryTrue'
    BY DEF Start, MemoryTrue
<1>4. MarketTyped'
    BY Kept DEF Start
<1>5. SweepTyped'
    BY DEF Start, Typed, SweepTyped
<1>6. BoundsTyped'
    <2>1. Unresolved(log) \subseteq Client \/ stage # "cut"
        BY FileFacts DEF Typed, FilesTyped, Unresolved
    <2>2. strays' \subseteq Client
        <3> DEFINE kept == UNION {Unresolved(f) : f \in aside}
        <3>1. strays' = strays \/ (stage = "cut" /\ strays' = strays \cup (Unresolved(log) \ kept))
            BY DEF Start
        <3> HIDE DEF kept
        <3>. QED BY <2>1, <3>1 DEF Typed, BoundsTyped
    <2>3. /\ stage' \in {"refused", "migrating"} /\ build' = b /\ UNCHANGED <<used, looks, writes>>
          /\ lives < MaxLives /\ lives' \in {lives, lives + 1}
        BY DEF Start
    <2>. QED BY <2>2, <2>3, LedgerAssumption DEF Typed, BoundsTyped
<1>. QED BY <1>1, <1>2, <1>3, <1>4, <1>5, <1>6 DEF Typed

LEMMA RepairTyped ==
    ASSUME Typed, Repair
    PROVE  Typed'
<1>1. FilesTyped'
    <2>1. CASE MoveFile
        BY <2>1 DEF MoveFile, Typed, FilesTyped, Running
    <2>2. CASE MoveLog
        BY <2>2 DEF MoveLog, TakeLog, Typed, FilesTyped, Running
    <2>3. CASE RecoveryCut \/ RecoverAgain
        BY <2>3 DEF RecoveryCut, RecoverAgain, Typed, FilesTyped, Running, files
    <2>. QED BY <2>1, <2>2, <2>3 DEF Repair
<1>a. /\ stage \in {"refused", "recovering", "cut"}
      /\ stage' \in {"down", "recovering", "cut"}
    BY DEF Repair, MoveFile, MoveLog, RecoveryCut, RecoverAgain
<1>2. CoreTyped'
    BY <1>a DEF Repair, Typed, CoreTyped, core
<1>3. MemoryTrue' /\ SweepTyped'
    BY <1>a DEF Repair, MemoryTrue, Typed, SweepTyped
<1>4. MarketTyped'
    BY Kept DEF Repair
<1>5. BoundsTyped'
    BY <1>a DEF Repair, Typed, BoundsTyped, bounds
<1>. QED BY <1>1, <1>2, <1>3, <1>4, <1>5 DEF Typed

LEMMA MigrateTyped ==
    ASSUME Typed, Migrate
    PROVE  Typed'
<1>1. Running /\ stage = "migrating" /\ FilesTyped
    BY DEF Migrate, Running, Typed
<1>2. IsFile(Live) /\ Live.version \in Nat /\ build \in Nat
    BY <1>1, LiveFile, FileFacts DEF Typed, BoundsTyped
<1>3. MarketTyped'
    BY Kept DEF Migrate
<1>4. SweepTyped'
    BY DEF Migrate, Typed, SweepTyped
<1>5. CASE Live.version > build
    <2>1. stage' = "down" /\ UNCHANGED <<files, core, writes>>
        BY <1>2, <1>5 DEF Migrate
    <2>2. FilesTyped'
        BY <1>1, <2>1 DEF FilesTyped, Running, files
    <2>3. CoreTyped' /\ MemoryTrue'
        BY <1>1, <2>1 DEF Typed, CoreTyped, MemoryTrue, core
    <2>4. BoundsTyped'
        BY <2>1 DEF Migrate, Typed, BoundsTyped, bounds
    <2>. QED BY <1>3, <1>4, <2>2, <2>3, <2>4 DEF Typed
<1>6. CASE Live.version < build
    <2> DEFINE g == ApplyMigration(Live, Live.version + 1)
    <2>1. log' = g /\ UNCHANGED <<stage, core, main, damaged, aside, writes>>
        BY <1>2, <1>6 DEF Migrate
    <2>2. IsFile(g) /\ SameHistory(Live, g)
        BY <1>2, MigrationFile
    <2>3. IsFiniteSet(g.candles) /\ IsFiniteSet(g.audit)
        BY <1>1, <2>2, LiveFile DEF SameHistory
    <2> HIDE DEF g
    <2>4. FilesTyped'
        BY <1>1, <2>1, <2>2, <2>3 DEF FilesTyped, Running
    <2>5. CoreTyped' /\ MemoryTrue'
        BY <1>1, <2>1 DEF Typed, CoreTyped, MemoryTrue, core
    <2>6. BoundsTyped'
        BY <2>1, Kept DEF Migrate
    <2>. QED BY <1>3, <1>4, <2>4, <2>5, <2>6 DEF Typed
<1>7. CASE ~(Live.version > build) /\ ~(Live.version < build)
    <2>1. /\ stage' = "reconciling" /\ todo' = Unresolved(Live)
          /\ memory' = [o \in DOMAIN Live.orders |-> Live.orders[o].status]
          /\ UNCHANGED <<files, answer, recorded, writes>>
        BY <1>7 DEF Migrate
    <2>2. FilesTyped' /\ Live' = Live
        BY <1>1, <2>1 DEF FilesTyped, Running, files, Live
    <2>3. DOMAIN Live.orders \subseteq Client
          /\ \A o \in DOMAIN Live.orders : Live.orders[o].status \in Status
        BY <1>2, FileFacts DEF OrderRow
    <2>4. CoreTyped'
        BY <1>1, <2>1, <2>3 DEF Typed, CoreTyped, Unresolved
    <2>5. MemoryTrue'
        BY <2>1, <2>2 DEF MemoryTrue
    <2>6. BoundsTyped'
        BY <2>1 DEF Migrate, Typed, BoundsTyped, bounds
    <2>. QED BY <1>3, <1>4, <2>2, <2>4, <2>5, <2>6 DEF Typed
<1>. QED BY <1>5, <1>6, <1>7

LEMMA ReconcileTyped ==
    ASSUME Typed, Ask \/ Trade \/ \E o \in Client : Confirm(o)
    PROVE  Typed'
<1>1. MarketTyped' /\ UNCHANGED <<files, memory, sweep>>
    BY Kept DEF Ask, Trade, Confirm, market
<1>2. stage = "reconciling" /\ stage' \in {"reconciling", "trading"}
    BY DEF Ask, Trade, Confirm, Typed, CoreTyped
<1>3. FilesTyped' /\ Live' = Live
    BY <1>1, <1>2 DEF Typed, FilesTyped, files, Live, Running
<1>4. CoreTyped'
    <2>1. CASE Ask
        <3>1. answer' \in [open : SUBSET Client, underWay : SUBSET Client]
            BY <2>1 DEF Ask, Typed, MarketTyped
        <3>. QED BY <1>2, <2>1, <3>1 DEF Ask, Typed, CoreTyped
    <2>2. CASE Trade \/ \E o \in Client : Confirm(o)
        BY <1>2, <2>2 DEF Trade, Confirm, Typed, CoreTyped
    <2>. QED BY <2>1, <2>2
<1>5. MemoryTrue'
    BY <1>1, <1>2, <1>3 DEF Typed, MemoryTrue
<1>6. SweepTyped'
    BY <1>1, <1>2 DEF Typed, SweepTyped
<1>7. BoundsTyped'
    BY <1>2 DEF Ask, Trade, Confirm, Typed, BoundsTyped, bounds
<1>. QED BY <1>1, <1>3, <1>4, <1>5, <1>6, <1>7 DEF Typed

LEMMA CloseOutTyped ==
    ASSUME Typed, NEW o \in Client, CloseOut(o)
    PROVE  Typed'
<1> DEFINE g == RejectPendingOrder(Live, o)
<1>1. /\ stage = "reconciling" /\ Running /\ FilesTyped
      /\ Commit(g) /\ memory' = [memory EXCEPT ![o] = log'.orders[o].status]
      /\ todo' = todo \ {o} /\ strays' \subseteq strays \cup {o}
      /\ UNCHANGED <<stage, build, answer, recorded, market, screen, sweep, used, lives, looks>>
    BY DEF CloseOut, Typed, CoreTyped, Running
<1>2. IsFile(Live) /\ IsFiniteSet(Live.candles) /\ IsFiniteSet(Live.audit)
    BY <1>1, LiveFile
<1>3. /\ IsFile(g) /\ SameHistory(Live, g) /\ DOMAIN g.orders = DOMAIN Live.orders
      /\ \A k \in DOMAIN Live.orders : k # o => g.orders[k] = Live.orders[k]
    BY <1>2, RejectPendingFile
<1> HIDE DEF g
<1>4. Live' = g /\ log' = g /\ FilesTyped' /\ writes' \in 0..MaxWrites
    BY <1>1, <1>2, <1>3, CommitLive DEF Typed, SameHistory, Commit
<1>5. memory = [k \in DOMAIN Live.orders |-> Live.orders[k].status]
    BY <1>1 DEF Typed, MemoryTrue
<1>6. memory' = [k \in DOMAIN g.orders |-> g.orders[k].status]
    BY <1>1, <1>3, <1>4, <1>5
<1>7. MemoryTrue'
    BY <1>4, <1>6 DEF MemoryTrue
<1>8. DOMAIN memory' \subseteq Client /\ \A k \in DOMAIN memory' : memory'[k] \in Status
    BY <1>3, <1>6, FileFacts DEF OrderRow
<1>9. CoreTyped'
    BY <1>1, <1>8 DEF Typed, CoreTyped
<1>10. MarketTyped' /\ SweepTyped'
    BY <1>1, Kept
<1>11. BoundsTyped'
    BY <1>1, <1>4 DEF Typed, BoundsTyped
<1>. QED BY <1>4, <1>7, <1>9, <1>10, <1>11 DEF Typed

LEMMA CrashTyped ==
    ASSUME Typed, Crash
    PROVE  Typed'
<1>1. FilesTyped'
    BY DEF Crash, Typed, FilesTyped, Running
<1>2. CoreTyped'
    BY DEF Crash, CoreTyped, EmptyTable
<1>3. MemoryTrue' /\ SweepTyped'
    BY DEF Crash, MemoryTrue, SweepTyped
<1>4. MarketTyped'
    BY Kept DEF Crash
<1>5. BoundsTyped'
    BY DEF Crash, Typed, BoundsTyped, bounds
<1>. QED BY <1>1, <1>2, <1>3, <1>4, <1>5 DEF Typed

LEMMA CheckpointTyped ==
    ASSUME Typed, Checkpoint
    PROVE  Typed' /\ Live' = Live
<1>1. FilesTyped' /\ Live' = Live
    BY DEF Checkpoint, Typed, FilesTyped, Running, Live
<1>2. CoreTyped' /\ MemoryTrue' /\ MarketTyped' /\ SweepTyped'
    BY <1>1, Kept DEF Checkpoint, core
<1>3. BoundsTyped'
    BY Kept DEF Checkpoint
<1>. QED BY <1>1, <1>2, <1>3 DEF Typed

(* Orders.                                                                 *)

LEMMA PlaceTyped ==
    ASSUME Typed, NEW o \in Client, Place(o)
    PROVE  Typed'
<1> DEFINE g == InsertOrder(Live, o)
<1>1. /\ stage = "trading" /\ Running /\ FilesTyped
      /\ o \notin DOMAIN Live.orders /\ Commit(g)
      /\ memory' = Put(memory, o, "pending") /\ recorded' = recorded \cup {o}
      /\ used' = used \cup {o}
      /\ UNCHANGED <<stage, build, todo, answer, market, screen, sweep, lives, looks, strays>>
    BY DEF Place, RecordIntent, Typed, Running
<1>2. IsFile(Live) /\ IsFiniteSet(Live.candles) /\ IsFiniteSet(Live.audit)
    BY <1>1, LiveFile
<1>3. /\ IsFile(g) /\ SameHistory(Live, g) /\ DOMAIN g.orders = DOMAIN Live.orders \cup {o}
      /\ g.orders[o].status = "pending"
      /\ \A k \in DOMAIN Live.orders : g.orders[k] = Live.orders[k]
    BY <1>1, <1>2, InsertOrderFile
<1> HIDE DEF g
<1>4. Live' = g /\ FilesTyped' /\ writes' \in 0..MaxWrites
    BY <1>1, <1>2, <1>3, CommitLive DEF Typed, SameHistory
<1>5. memory = [k \in DOMAIN Live.orders |-> Live.orders[k].status]
    BY <1>1 DEF Typed, MemoryTrue
<1>6. memory' = [k \in DOMAIN g.orders |-> g.orders[k].status]
    BY <1>1, <1>3, <1>5 DEF Put
<1>7. MemoryTrue'
    BY <1>4, <1>6 DEF MemoryTrue
<1>8. DOMAIN memory' \subseteq Client /\ \A k \in DOMAIN memory' : memory'[k] \in Status
    BY <1>3, <1>6, FileFacts DEF OrderRow
<1>9. CoreTyped'
    BY <1>1, <1>8 DEF Typed, CoreTyped
<1>10. MarketTyped' /\ SweepTyped'
    BY <1>1, Kept
<1>11. BoundsTyped'
    BY <1>1, <1>4 DEF Typed, BoundsTyped
<1>. QED BY <1>4, <1>7, <1>9, <1>10, <1>11 DEF Typed

LEMMA SendTyped ==
    ASSUME Typed, NEW o \in Client, Send(o)
    PROVE  Typed'
<1>1. FilesTyped' /\ Live' = Live /\ SweepTyped' /\ BoundsTyped'
    BY Kept DEF Send
<1>2. CoreTyped'
    BY DEF Send, Typed, CoreTyped
<1>3. MemoryTrue'
    BY <1>1, Kept DEF Send
<1>4. MarketTyped'
    BY DEF Send, Typed, MarketTyped
<1>. QED BY <1>1, <1>2, <1>3, <1>4 DEF Typed

LEMMA UpdateTyped ==
    ASSUME Typed, NEW o \in Client, NEW status \in Status, Update(o, status)
    PROVE  Typed'
<1> DEFINE g == UpdateOrder(Live, o, status)
<1>1. /\ stage \in {"reconciling", "trading"} /\ Running /\ FilesTyped
      /\ o \in DOMAIN memory /\ Commit(g)
      /\ memory' = [memory EXCEPT ![o] = status]
      /\ UNCHANGED <<stage, build, todo, answer, recorded, market, screen, sweep, bounds>>
    BY DEF Update, Typed, Running
<1>2. IsFile(Live) /\ IsFiniteSet(Live.candles) /\ IsFiniteSet(Live.audit)
    BY <1>1, LiveFile
<1>3. /\ IsFile(g) /\ SameHistory(Live, g) /\ DOMAIN g.orders = DOMAIN Live.orders
      /\ o \in DOMAIN Live.orders => g.orders[o].status = status
      /\ \A k \in DOMAIN Live.orders : k # o => g.orders[k] = Live.orders[k]
    BY <1>2, UpdateOrderFile
<1> HIDE DEF g
<1>4. Live' = g /\ FilesTyped' /\ writes' \in 0..MaxWrites
    BY <1>1, <1>2, <1>3, CommitLive DEF Typed, SameHistory
<1>5. memory = [k \in DOMAIN Live.orders |-> Live.orders[k].status]
    BY <1>1 DEF Typed, MemoryTrue
<1>6. memory' = [k \in DOMAIN g.orders |-> g.orders[k].status]
    BY <1>1, <1>3, <1>5
<1>7. MemoryTrue'
    BY <1>4, <1>6 DEF MemoryTrue
<1>8. DOMAIN memory' \subseteq Client /\ \A k \in DOMAIN memory' : memory'[k] \in Status
    BY <1>3, <1>6, FileFacts DEF OrderRow
<1>9. CoreTyped'
    BY <1>1, <1>8 DEF Typed, CoreTyped
<1>10. MarketTyped' /\ SweepTyped'
    BY <1>1, Kept
<1>11. BoundsTyped'
    BY <1>1, <1>4 DEF Typed, BoundsTyped, bounds
<1>. QED BY <1>4, <1>7, <1>9, <1>10, <1>11 DEF Typed

\* A step that commits a file with the same orders, and changes besides it at most the sweep.
LEMMA CommitTyped ==
    ASSUME Typed, Running, NEW g, Commit(g), IsFile(g), g.orders = Live.orders,
           IsFiniteSet(g.candles), IsFiniteSet(g.audit),
           UNCHANGED <<stage, build, core, market, bounds>>, SweepTyped'
    PROVE  Typed' /\ Live' = g
<1>1. Live' = g /\ FilesTyped' /\ writes' \in 0..MaxWrites
    BY CommitLive DEF Typed
<1>2. CoreTyped' /\ MarketTyped'
    BY Kept
<1>3. MemoryTrue'
    BY <1>1, Kept DEF core
<1>4. BoundsTyped'
    BY <1>1 DEF Typed, BoundsTyped, bounds
<1>. QED BY <1>1, <1>2, <1>3, <1>4 DEF Typed

LEMMA FillTyped ==
    ASSUME Typed, NEW o \in Client, NEW trade \in 1..2, Fill(o, trade)
    PROVE  Typed' /\ Live'.orders = Live.orders
<1> DEFINE g == InsertFill(Live, [client |-> o, trade |-> trade])
<1>1. Running /\ FilesTyped /\ Commit(g) /\ UNCHANGED <<stage, build, core, market, screen, sweep, bounds>>
    BY DEF Fill, Running, Typed
<1>2. IsFile(Live) /\ IsFiniteSet(Live.candles) /\ IsFiniteSet(Live.audit)
    BY <1>1, LiveFile
<1>3. trade \in Nat
    OBVIOUS
<1>4. IsFile(g) /\ g.orders = Live.orders /\ SameHistory(Live, g)
    BY <1>2, <1>3, FillFile
<1> HIDE DEF g
<1>. QED BY <1>1, <1>2, <1>4, Kept, CommitTyped DEF SameHistory

(* The venue.                                                              *)

LEMMA MovesType ==
    ASSUME NEW status
    PROVE  Moves(status) \subseteq Status \ {"pending"}
BY DEF Moves, Status, Terminal

LEMMA VenueMovesTyped ==
    ASSUME Typed, NEW o \in Client, VenueMoves(o)
    PROVE  Typed'
<1>1. FilesTyped' /\ Live' = Live /\ CoreTyped' /\ SweepTyped' /\ BoundsTyped'
    BY Kept DEF VenueMoves
<1>2. MemoryTrue'
    BY <1>1, Kept DEF VenueMoves, core
<1>3. PICK status \in Moves(venue[o]) :
        /\ venue' = [venue EXCEPT ![o] = status]
        /\ said' = [said EXCEPT ![o] = @ \cup {status}]
        /\ executed' = IF status \in {"partially_filled", "filled"}
                       THEN [executed EXCEPT ![o] = @ + 1] ELSE executed
        /\ executed'[o] <= 2
    BY DEF VenueMoves
<1>4. status \in Status \ {"pending"}
    BY MovesType
<1>5. venue' \in [Client -> {"none"} \cup (Status \ {"pending"})] /\ said' \in [Client -> SUBSET Status]
    BY <1>3, <1>4 DEF Typed, MarketTyped
<1>6. executed' \in [Client -> 0..2]
    BY <1>3 DEF Typed, MarketTyped
<1>7. requests' \subseteq Client
    BY DEF VenueMoves, Typed, MarketTyped
<1>. QED BY <1>1, <1>2, <1>5, <1>6, <1>7 DEF Typed, MarketTyped

LEMMA LoseTyped ==
    ASSUME Typed, NEW o \in Client, Lose(o)
    PROVE  Typed'
<1>1. FilesTyped' /\ Live' = Live /\ CoreTyped' /\ SweepTyped' /\ BoundsTyped'
    BY Kept DEF Lose
<1>2. MemoryTrue'
    BY <1>1, Kept DEF Lose, core
<1>3. MarketTyped'
    BY DEF Lose, Typed, MarketTyped
<1>. QED BY <1>1, <1>2, <1>3 DEF Typed

(* Reports.                                                                *)

LEMMA WriteDealTyped ==
    ASSUME Typed, NEW deal \in Deals, WriteDeal(deal)
    PROVE  Typed' /\ Live'.orders = Live.orders /\ SameHistory(Live, Live')
<1> DEFINE g == InsertDeal(Live, deal)
<1>1. Running /\ FilesTyped /\ Commit(g) /\ UNCHANGED <<stage, build, core, market, screen, sweep, bounds>>
    BY DEF WriteDeal, History, Running, Typed
<1>2. IsFile(Live) /\ IsFiniteSet(Live.candles) /\ IsFiniteSet(Live.audit)
    BY <1>1, LiveFile
<1>3. IsFile(g) /\ g.orders = Live.orders /\ SameHistory(Live, g)
    BY <1>2, DealFile
<1> HIDE DEF g
<1>. QED BY <1>1, <1>2, <1>3, Kept, CommitTyped DEF SameHistory

LEMMA ScreenTyped ==
    ASSUME Typed, (\E c \in Core : Open(c)) \/ Question \/ CloseScreen
    PROVE  Typed' /\ Live' = Live
<1>1. UNCHANGED <<stage, build, files, core, market, sweep, used, lives, strays, writes>>
    BY DEF Open, Question, CloseScreen, bounds
<1>2. FilesTyped' /\ Live' = Live /\ CoreTyped' /\ SweepTyped' /\ MarketTyped'
    BY <1>1, Kept
<1>3. MemoryTrue'
    BY <1>1, <1>2, Kept DEF core
<1>4. looks' \in 0..MaxLooks
    <2>1. looks \in 0..MaxLooks /\ MaxLooks \in Nat
        BY LedgerAssumption DEF Typed, BoundsTyped
    <2>2. looks' = looks \/ (looks < MaxLooks /\ looks' = looks + 1)
        BY DEF Open, Question, CloseScreen, Look, bounds
    <2>. QED BY ONLY <2>1, <2>2
<1>5. BoundsTyped'
    BY <1>1, <1>4 DEF Typed, BoundsTyped
<1>. QED BY <1>2, <1>3, <1>5 DEF Typed

(* Retention.                                                              *)

LEMMA DisturbTyped ==
    ASSUME Typed, Disturb, stage' = stage
    PROVE  SweepTyped'
<1>1. CASE sweep = None
    BY <1>1 DEF Disturb, SweepTyped
<1>2. CASE sweep # None
    BY <1>2 DEF Disturb, Typed, SweepTyped, Sweeps
<1>. QED BY <1>1, <1>2

LEMMA WriteBarTyped ==
    ASSUME Typed, NEW bar \in Bars, WriteBar(bar)
    PROVE  Typed' /\ Live'.orders = Live.orders
<1> DEFINE g == InsertCandle(Live, bar)
<1>1. /\ Running /\ FilesTyped /\ Commit(g) /\ Disturb
      /\ UNCHANGED <<stage, build, core, market, screen, bounds>>
    BY DEF WriteBar, History, Running, Typed
<1>2. IsFile(Live) /\ IsFiniteSet(Live.candles) /\ IsFiniteSet(Live.audit)
    BY <1>1, LiveFile
<1>3. /\ IsFile(g) /\ g.orders = Live.orders
      /\ g.candles = Live.candles \cup {bar} /\ g.audit = Live.audit
    BY <1>2, BarFile
<1>4. IsFiniteSet(g.candles)
    BY <1>2, <1>3, FS_AddElement
<1> HIDE DEF g
<1>. QED BY <1>1, <1>2, <1>3, <1>4, DisturbTyped, CommitTyped

LEMMA WriteAuditTyped ==
    ASSUME Typed, WriteAudit
    PROVE  Typed' /\ Live'.orders = Live.orders
<1> DEFINE g == InsertAudit(Live, Today)
<1>1. /\ Running /\ FilesTyped /\ Commit(g) /\ Disturb
      /\ UNCHANGED <<stage, build, core, market, screen, bounds>>
    BY DEF WriteAudit, History, Running, Typed
<1>2. IsFile(Live) /\ IsFiniteSet(Live.candles) /\ IsFiniteSet(Live.audit) /\ Today \in Int
    BY <1>1, LiveFile, LedgerAssumption
<1>3. /\ IsFile(g) /\ g.orders = Live.orders /\ g.candles = Live.candles
      /\ g.audit = Live.audit \cup {[id |-> Live.records + 1, at |-> Today]}
    BY <1>2, AuditFile
<1>4. IsFiniteSet(g.audit)
    BY <1>2, <1>3, FS_AddElement
<1> HIDE DEF g
<1>. QED BY <1>1, <1>2, <1>3, <1>4, DisturbTyped, CommitTyped

\* A step that changes the sweep alone.
LEMMA SweepAlone ==
    ASSUME Typed, UNCHANGED <<stage, build, files, core, market, used, lives, strays, writes>>,
           looks' \in 0..MaxLooks, SweepTyped'
    PROVE  Typed' /\ Live' = Live
<1>1. FilesTyped' /\ Live' = Live /\ CoreTyped' /\ MarketTyped'
    BY Kept
<1>2. MemoryTrue'
    BY <1>1, Kept DEF core
<1>3. BoundsTyped'
    BY DEF Typed, BoundsTyped
<1>. QED BY <1>1, <1>2, <1>3 DEF Typed

\* would_sweep announces what is past its horizon in the series a sweep goes through.
LEMMA WouldSweepIs ==
    ASSUME NEW f, NEW policy, NEW today, NEW r
    PROVE  r \in WouldSweep(f, policy, today)
             <=> \E s \in Timeframes(f) \cup {AuditTrail} : r \in Expired(f, policy, s, today)
<1> DEFINE Past(s) == Expired(f, policy, s, today)
           bars == {Past(s) : s \in Timeframes(f)}
<1>1. r \in WouldSweep(f, policy, today) <=> r \in UNION bars \/ r \in Past(AuditTrail)
    BY DEF WouldSweep
<1>2. r \in UNION bars <=> \E s \in Timeframes(f) : r \in Past(s)
    OBVIOUS
<1> HIDE DEF Past, bars
<1>. QED BY <1>1, <1>2 DEF Past

\* They are rows of the two tables.
LEMMA ExpiredRows ==
    ASSUME NEW f, NEW policy, NEW s, NEW today
    PROVE  Expired(f, policy, s, today) \subseteq f.candles \cup f.audit
BY DEF Expired

LEMMA SweepStartTyped ==
    ASSUME Typed, SweepStart
    PROVE  Typed' /\ Live' = Live
<1>1. /\ stage = "trading" /\ Running /\ FilesTyped
      /\ UNCHANGED <<stage, build, files, core, market, screen, used, lives, strays, writes>>
    BY DEF SweepStart, History, Running, Typed
<1>2. Live.candles \subseteq BarRow /\ Live.audit \subseteq AuditRow
    BY <1>1, LiveFile, FileFacts
<1>3. Timeframes(Live) \cup {AuditTrail} \in SUBSET Nat
    BY <1>2 DEF Timeframes, BarRow, AuditTrail
<1>4. WouldSweep(Live, Policy, Today) \in SUBSET (BarRow \cup AuditRow)
    BY <1>2, WouldSweepIs, ExpiredRows
<1>5. SweepTyped'
    <2> DEFINE td == Timeframes(Live) \cup {AuditTrail}
               dm == WouldSweep(Live, Policy, Today)
    <2>1. sweep' = [todo |-> td, before |-> None, deleted |-> FALSE, swept |-> 0,
                    doomed |-> dm, quiet |-> TRUE]
        BY DEF SweepStart
    <2>2. td \in SUBSET Nat /\ dm \in SUBSET (BarRow \cup AuditRow)
        BY <1>3, <1>4
    <2> HIDE DEF td, dm
    <2>. QED BY <1>1, <2>1, <2>2 DEF SweepTyped, Sweeps
<1>6. looks' \in 0..MaxLooks
    BY LedgerAssumption DEF SweepStart, Look, Typed, BoundsTyped
<1>. QED BY <1>1, <1>5, <1>6, SweepAlone

\* A table that is counted is finite.
LEMMA TableCount ==
    ASSUME Typed, sweep # None, NEW s
    PROVE  /\ Running /\ IsFile(Live) /\ IsFiniteSet(TableOf(Live, s))
           /\ Cardinality(TableOf(Live, s)) \in Nat
<1>1. Running /\ FilesTyped
    BY DEF Typed, SweepTyped, Running
<1>2. IsFile(Live) /\ IsFiniteSet(TableOf(Live, s))
    BY <1>1, LiveFile DEF TableOf
<1>. QED BY <1>1, <1>2, FS_CardinalityType

LEMMA CountBeforeTyped ==
    ASSUME Typed, CountBefore
    PROVE  Typed' /\ Live' = Live
<1>1. /\ sweep # None /\ sweep.todo # {} /\ sweep.before = None
      /\ sweep' = [sweep EXCEPT !.before = Cardinality(TableOf(Live, Series))]
      /\ UNCHANGED <<stage, build, files, core, market, screen, bounds, writes>>
    BY DEF CountBefore, Sweeping
<1>2. Cardinality(TableOf(Live, Series)) \in Nat
    BY <1>1, TableCount
<1>3. SweepTyped'
    BY <1>1, <1>2 DEF Typed, SweepTyped, Sweeps
<1>4. looks' \in 0..MaxLooks
    BY <1>1 DEF Typed, BoundsTyped, bounds
<1>. QED BY <1>1, <1>3, <1>4, SweepAlone DEF bounds

LEMMA DeleteBatchTyped ==
    ASSUME Typed, DeleteBatch
    PROVE  /\ Typed' /\ Live'.orders = Live.orders
           /\ \E rows \in Batches(Live, Policy, Series, Today, BATCH) :
                Live' = DeleteRows(Live, Series, rows)
<1>1. PICK rows \in Batches(Live, Policy, Series, Today, BATCH) :
        log' = DeleteRows(Live, Series, rows)
    BY DEF DeleteBatch
<1> DEFINE g == DeleteRows(Live, Series, rows)
<1>2. /\ sweep # None /\ sweep.before # None /\ log' = g
      /\ sweep' = [sweep EXCEPT !.deleted = TRUE]
      /\ UNCHANGED <<stage, build, main, damaged, aside, core, market, screen, bounds, writes>>
    BY <1>1 DEF DeleteBatch, Sweeping
<1>3. /\ Running /\ FilesTyped /\ IsFile(Live)
      /\ IsFiniteSet(Live.candles) /\ IsFiniteSet(Live.audit)
    BY <1>2, TableCount, LiveFile DEF Typed
<1>4. /\ IsFile(g) /\ g.orders = Live.orders
      /\ g.candles \subseteq Live.candles /\ g.audit \subseteq Live.audit
    BY <1>3, DeleteFile
<1>5. IsFiniteSet(g.candles) /\ IsFiniteSet(g.audit) /\ g # None
    BY <1>3, <1>4, FS_Subset, FileFacts
<1> HIDE DEF g
<1>6. Live' = g /\ FilesTyped'
    BY <1>2, <1>3, <1>4, <1>5 DEF FilesTyped, Live, Running
<1>7. CoreTyped' /\ MemoryTrue' /\ MarketTyped'
    BY <1>2, <1>4, <1>6, Kept DEF core
<1>8. SweepTyped'
    BY <1>2 DEF Typed, SweepTyped, Sweeps
<1>9. BoundsTyped'
    BY <1>2, Kept
<1>. QED BY <1>1, <1>4, <1>6, <1>7, <1>8, <1>9 DEF Typed, g

LEMMA CountAfterTyped ==
    ASSUME Typed, CountAfter
    PROVE  Typed' /\ Live' = Live
<1> DEFINE left == Cardinality(TableOf(Live, Series))
           removed == Max({sweep.before - left, 0})
           rest == IF LastBatch(removed) THEN sweep.todo \ {Series} ELSE sweep.todo
<1>1. /\ sweep # None /\ sweep.deleted
      /\ sweep' = [sweep EXCEPT !.before = None, !.deleted = FALSE, !.swept = @ + removed,
                                !.todo = rest]
      /\ UNCHANGED <<stage, build, files, core, market, screen, bounds, writes>>
    BY DEF CountAfter, Sweeping
<1>2. sweep \in Sweeps /\ stage = "trading" /\ sweep.before # None
    BY <1>1 DEF Typed, SweepTyped
<1>3. sweep.before \in Nat
    BY <1>2 DEF Sweeps
<1>4. left \in Nat
    BY <1>1, TableCount
<1>5. removed \in Nat
    <2>1. sweep.before - left \in Int
        BY <1>3, <1>4
    <2> HIDE DEF left
    <2>. QED BY <2>1, MaxZero
<1>6. rest \in SUBSET Nat
    BY <1>2 DEF Sweeps
<1> HIDE DEF rest, removed
<1>7. SweepTyped'
    <2>1. sweep.swept + removed \in Nat
        BY <1>2, <1>5 DEF Sweeps
    <2>2. sweep' \in Sweeps
        BY <1>1, <1>2, <1>6, <2>1 DEF Sweeps
    <2>3. sweep'.before = None /\ sweep'.deleted = FALSE
        BY <1>1, <1>2 DEF Sweeps
    <2>. QED BY <1>1, <1>2, <2>2, <2>3 DEF SweepTyped
<1>8. looks' \in 0..MaxLooks
    BY <1>1 DEF Typed, BoundsTyped, bounds
<1>. QED BY <1>1, <1>7, <1>8, SweepAlone DEF bounds

LEMMA SweepEndTyped ==
    ASSUME Typed, SweepEnd
    PROVE  Typed' /\ Live' = Live
<1>1. SweepTyped'
    BY DEF SweepEnd, SweepTyped
<1>2. looks' \in 0..MaxLooks
    BY DEF SweepEnd, Typed, BoundsTyped, bounds
<1>. QED BY <1>1, <1>2, SweepAlone DEF SweepEnd, bounds

LEMMA StutterTyped ==
    ASSUME Typed, UNCHANGED vars
    PROVE  Typed' /\ Live' = Live
<1>1. FilesTyped' /\ Live' = Live /\ CoreTyped' /\ MarketTyped' /\ SweepTyped' /\ BoundsTyped'
    BY Kept DEF vars
<1>2. MemoryTrue'
    BY <1>1, Kept DEF vars, core
<1>. QED BY <1>1, <1>2 DEF Typed

LEMMA NextTyped ==
    ASSUME Typed, [Next]_vars
    PROVE  Typed'
<1>1. CASE \E b \in Builds : Start(b)
    BY <1>1, StartTyped
<1>2. CASE Repair \/ Migrate \/ Crash \/ Checkpoint
    BY <1>2, RepairTyped, MigrateTyped, CrashTyped, CheckpointTyped
<1>3. CASE Ask \/ Trade \/ \E o \in Client : Confirm(o)
    BY <1>3, ReconcileTyped
<1>4. ASSUME NEW o \in Client, CloseOut(o) \/ Place(o) \/ Send(o) \/ VenueMoves(o) \/ Lose(o)
      PROVE  Typed'
    BY <1>4, CloseOutTyped, PlaceTyped, SendTyped, VenueMovesTyped, LoseTyped
<1>5. ASSUME NEW o \in Client, NEW status \in Status, Update(o, status)
      PROVE  Typed'
    BY <1>5, UpdateTyped
<1>6. ASSUME NEW o \in Client, NEW trade \in 1..2, Fill(o, trade)
      PROVE  Typed'
    BY <1>6, FillTyped
<1>7. ASSUME NEW deal \in Deals, WriteDeal(deal)
      PROVE  Typed'
    BY <1>7, WriteDealTyped
<1>8. CASE (\E c \in Core : Open(c)) \/ Question \/ CloseScreen
    BY <1>8, ScreenTyped
<1>9. ASSUME NEW bar \in Bars, WriteBar(bar)
      PROVE  Typed'
    BY <1>9, WriteBarTyped
<1>10. CASE WriteAudit \/ SweepStart \/ CountBefore \/ DeleteBatch \/ CountAfter \/ SweepEnd
    BY <1>10, WriteAuditTyped, SweepStartTyped, CountBeforeTyped, DeleteBatchTyped,
       CountAfterTyped, SweepEndTyped
<1>11. CASE UNCHANGED vars
    BY <1>11, StutterTyped
<1>. QED BY <1>1, <1>2, <1>3, <1>4, <1>5, <1>6, <1>7, <1>8, <1>9, <1>10, <1>11 DEF Next

\* Typed is an invariant: whatever crashes, is damaged and is recovered, a running core has a
\* file, and what it remembers of each order is what that file says.
THEOREM AlwaysTyped == Spec => []Typed
<1>1. Init => Typed
    BY InitTyped
<1>2. Typed /\ [Next]_vars => Typed'
    BY NextTyped
<1>. QED BY <1>1, <1>2, PTL DEF Spec

\* Every variable keeps its type (the files are those of schema.rs, a sweep counts what is there).
THEOREM LedgerTyped == Spec => []TypeOK
BY AlwaysTyped, TypedTypes, PTL

-----------------------------------------------------------------------------
(* Orders: none that may be live is forgotten, and an ended one stays.     *)

OpenAtVenue(o) == venue[o] \in {"new", "partially_filled"}

\* Where an order is, and what can have been said of it.
Placed ==
    \A o \in Client :
        /\ o \in recorded \cup requests => o \in used /\ venue[o] = "none"
        /\ o \in recorded => o \notin requests
        /\ venue[o] = "none" => said[o] = {}
        /\ o \notin used => venue[o] = "none"
        /\ said[o] \cap Terminal # {} => venue[o] \in Terminal

\* What is live at the venue while the core reconciles was open when the venue was asked, or
\* on its way to it; and what is on its way now was then.
AnswerTrue ==
    answer # None =>
        /\ requests \subseteq answer.underWay
        /\ \A o \in Client : OpenAtVenue(o) => o \in answer.open \cup answer.underWay

\* An order that is live at the venue, or may come to be.
Unsettled(o) == o \in recorded \cup requests \/ OpenAtVenue(o)

Covered == \A o \in Client : Unsettled(o) /\ o \notin strays => Managed(o)

\* A step that leaves the orders alone, in the files and at the venue.
Quiet ==
    /\ UNCHANGED <<aside, recorded, answer, requests, venue, said, used, strays>>
    /\ Live'.orders = Live.orders
    /\ Live # None => Live' # None

\* A running core has a file after a step too.
LEMMA LiveNext ==
    ASSUME FilesTyped', Running'
    PROVE  Live' # None
BY DEF FilesTyped, Running, Live

LEMMA QuietSteps ==
    ASSUME Typed,
           \/ Checkpoint \/ (\E c \in Core : Open(c)) \/ Question \/ CloseScreen
           \/ (\E o \in Client : Confirm(o) \/ \E trade \in 1..2 : Fill(o, trade))
           \/ (\E deal \in Deals : WriteDeal(deal)) \/ (\E bar \in Bars : WriteBar(bar))
           \/ WriteAudit \/ SweepStart \/ CountBefore \/ DeleteBatch \/ CountAfter \/ SweepEnd
           \/ UNCHANGED vars
    PROVE  Quiet
<1>1. CASE Checkpoint
    BY <1>1, CheckpointTyped DEF Quiet, Checkpoint, core, market, bounds
<1>2. CASE (\E c \in Core : Open(c)) \/ Question \/ CloseScreen
    <2>1. Live' = Live
        BY <1>2, ScreenTyped
    <2>. QED BY <1>2, <2>1 DEF Quiet, Open, Question, CloseScreen, core, market, bounds, files
<1>3. ASSUME NEW o \in Client, Confirm(o)
      PROVE  Quiet
    <2>1. Live' = Live
        BY <1>3 DEF Confirm, files, Live
    <2>. QED BY <1>3, <2>1 DEF Quiet, Confirm, market, bounds, files
<1>4. ASSUME NEW o \in Client, NEW trade \in 1..2, Fill(o, trade)
      PROVE  Quiet
    <2>1. Typed' /\ Live'.orders = Live.orders
        BY <1>4, FillTyped
    <2>2. Live' # None
        BY <1>4, <2>1, LiveNext DEF Typed, Fill, Running
    <2>. QED BY <1>4, <2>1, <2>2 DEF Quiet, Fill, Commit, core, market, bounds
<1>5. ASSUME NEW deal \in Deals, WriteDeal(deal)
      PROVE  Quiet
    <2>1. Typed' /\ Live'.orders = Live.orders
        BY <1>5, WriteDealTyped
    <2>2. Live' # None
        BY <1>5, <2>1, LiveNext DEF Typed, WriteDeal, History, Running
    <2>. QED BY <1>5, <2>1, <2>2 DEF Quiet, WriteDeal, Commit, core, market, bounds
<1>6. ASSUME NEW bar \in Bars, WriteBar(bar)
      PROVE  Quiet
    <2>1. Typed' /\ Live'.orders = Live.orders
        BY <1>6, WriteBarTyped
    <2>2. Live' # None
        BY <1>6, <2>1, LiveNext DEF Typed, WriteBar, History, Running
    <2>. QED BY <1>6, <2>1, <2>2 DEF Quiet, WriteBar, Commit, core, market, bounds
<1>7. CASE WriteAudit
    <2>1. Typed' /\ Live'.orders = Live.orders
        BY <1>7, WriteAuditTyped
    <2>2. Live' # None
        BY <1>7, <2>1, LiveNext DEF Typed, WriteAudit, History, Running
    <2>. QED BY <1>7, <2>1, <2>2 DEF Quiet, WriteAudit, Commit, core, market, bounds
<1>8. CASE SweepStart \/ CountBefore \/ CountAfter \/ SweepEnd
    <2>1. Live' = Live
        BY <1>8, SweepStartTyped, CountBeforeTyped, CountAfterTyped, SweepEndTyped
    <2>. QED BY <1>8, <2>1
            DEF Quiet, SweepStart, CountBefore, CountAfter, SweepEnd, core, market, bounds, files
<1>9. CASE DeleteBatch
    <2>1. Typed' /\ Live'.orders = Live.orders /\ Running
        BY <1>9, DeleteBatchTyped, TableCount DEF DeleteBatch, Sweeping
    <2>2. Live' # None
        BY <1>9, <2>1, LiveNext DEF Typed, DeleteBatch, Running
    <2>. QED BY <1>9, <2>1, <2>2 DEF Quiet, DeleteBatch, core, market, bounds
<1>10. CASE UNCHANGED vars
    BY <1>10 DEF Quiet, vars, files, core, market, bounds, Live
<1>. QED BY <1>1, <1>2, <1>3, <1>4, <1>5, <1>6, <1>7, <1>8, <1>9, <1>10

\* Every other step.
OrderSteps ==
    \/ (\E b \in Builds : Start(b)) \/ Repair \/ Migrate \/ Ask \/ Trade \/ Crash
    \/ \E o \in Client :
         \/ CloseOut(o) \/ Place(o) \/ Send(o) \/ VenueMoves(o) \/ Lose(o)
         \/ \E status \in Status : Update(o, status)

LEMMA StepsSplit ==
    ASSUME Typed, [Next]_vars
    PROVE  Quiet \/ OrderSteps
BY QuietSteps DEF Next, OrderSteps

LEMMA PlacedNext ==
    ASSUME Typed, Placed, [Next]_vars
    PROVE  Placed'
<1>1. CASE Quiet
    BY <1>1 DEF Quiet, Placed
<1>2. CASE (\E b \in Builds : Start(b)) \/ Repair \/ Migrate \/ Ask \/ Trade
    <2>1. UNCHANGED <<recorded, requests, venue, said, used>>
        BY <1>2 DEF Start, Repair, Migrate, Ask, Trade, core, market, bounds
    <2>. QED BY <2>1 DEF Placed
<1>3. CASE Crash
    BY <1>3 DEF Crash, Placed, market, bounds
<1>4. ASSUME NEW o \in Client, CloseOut(o) \/ \E status \in Status : Update(o, status)
      PROVE  Placed'
    <2>1. UNCHANGED <<recorded, requests, venue, said, used>>
        BY <1>4 DEF CloseOut, Update, market, bounds
    <2>. QED BY <2>1 DEF Placed
<1>5. ASSUME NEW o \in Client, Place(o)
      PROVE  Placed'
    BY <1>5 DEF Place, Placed, market
<1>6. ASSUME NEW o \in Client, Send(o)
      PROVE  Placed'
    BY <1>6 DEF Send, Placed, bounds
<1>7. ASSUME NEW o \in Client, VenueMoves(o)
      PROVE  Placed'
    <2>1. PICK status \in Moves(venue[o]) :
            venue' = [venue EXCEPT ![o] = status] /\ said' = [said EXCEPT ![o] = @ \cup {status}]
        BY <1>7 DEF VenueMoves
    <2>2. /\ venue[o] = "none" => o \in requests
          /\ requests' = requests \ {o} /\ UNCHANGED <<recorded, used>>
        BY <1>7 DEF VenueMoves, core, bounds
    <2>3. venue \in [Client -> {"none"} \cup (Status \ {"pending"})] /\ said \in [Client -> SUBSET Status]
        BY DEF Typed, MarketTyped
    <2>4. venue[o] \notin Terminal /\ status # "none"
        BY <2>1 DEF Moves, Terminal
    <2>5. said[o] \cap Terminal = {}
        BY <2>4 DEF Placed
    <2>6. o \notin recorded /\ o \in used
        BY <2>2, <2>4 DEF Placed
    <2>7. \A k \in Client : k # o => venue'[k] = venue[k] /\ said'[k] = said[k]
        BY <2>1, <2>3
    <2>8. venue'[o] = status /\ said'[o] = said[o] \cup {status}
        BY <2>1, <2>3
    <2>. QED BY <2>2, <2>4, <2>5, <2>6, <2>7, <2>8 DEF Placed
<1>8. ASSUME NEW o \in Client, Lose(o)
      PROVE  Placed'
    BY <1>8 DEF Lose, Placed, core, bounds
<1>. QED BY <1>1, <1>2, <1>3, <1>4, <1>5, <1>6, <1>7, <1>8, StepsSplit DEF OrderSteps

LEMMA AnswerNext ==
    ASSUME Typed, Placed, AnswerTrue, [Next]_vars
    PROVE  AnswerTrue'
<1>1. CASE Quiet
    BY <1>1 DEF Quiet, AnswerTrue, OpenAtVenue
<1>2. CASE (\E b \in Builds : Start(b)) \/ Repair \/ Migrate
    <2>1. UNCHANGED <<answer, requests, venue>>
        BY <1>2 DEF Start, Repair, Migrate, core, market
    <2>. QED BY <2>1 DEF AnswerTrue, OpenAtVenue
<1>3. CASE Ask
    <2>1. answer' = [open |-> {o \in Client : OpenAtVenue(o)}, underWay |-> requests]
        BY <1>3 DEF Ask, OpenAtVenue
    <2>2. UNCHANGED <<requests, venue>>
        BY <1>3 DEF Ask, market
    <2>. QED BY <2>1, <2>2 DEF AnswerTrue, OpenAtVenue
<1>4. CASE Trade \/ Crash
    BY <1>4 DEF Trade, Crash, AnswerTrue
<1>5. ASSUME NEW o \in Client, CloseOut(o) \/ Place(o) \/ \E status \in Status : Update(o, status)
      PROVE  AnswerTrue'
    <2>1. UNCHANGED <<answer, requests, venue>>
        BY <1>5 DEF CloseOut, Place, Update, market
    <2>. QED BY <2>1 DEF AnswerTrue, OpenAtVenue
<1>6. ASSUME NEW o \in Client, Send(o)
      PROVE  AnswerTrue'
    \* Only a trading core has recorded orders to send, and it has no answer.
    BY <1>6 DEF Send, AnswerTrue, Typed, CoreTyped
<1>7. ASSUME NEW o \in Client, VenueMoves(o)
      PROVE  AnswerTrue'
    <2>1. PICK status \in Moves(venue[o]) : venue' = [venue EXCEPT ![o] = status]
        BY <1>7 DEF VenueMoves
    <2>2. (venue[o] = "none" => o \in requests) /\ requests' = requests \ {o} /\ answer' = answer
        BY <1>7 DEF VenueMoves, core
    <2>3. venue \in [Client -> {"none"} \cup (Status \ {"pending"})]
        BY DEF Typed, MarketTyped
    <2>4. venue[o] \in {"none", "new", "partially_filled"}
        BY <2>1 DEF Moves
    <2>5. \A k \in Client : OpenAtVenue(k)' => OpenAtVenue(k) \/ k \in requests
        BY <2>1, <2>2, <2>3, <2>4 DEF OpenAtVenue
    <2>. QED BY <2>2, <2>5 DEF AnswerTrue
<1>8. ASSUME NEW o \in Client, Lose(o)
      PROVE  AnswerTrue'
    BY <1>8 DEF Lose, AnswerTrue, OpenAtVenue, core
<1>. QED BY <1>1, <1>2, <1>3, <1>4, <1>5, <1>6, <1>7, <1>8, StepsSplit DEF OrderSteps

\* An order stays managed when the file in use goes on listing it, and none moved aside is lost.
LEMMA StillManaged ==
    ASSUME NEW o \in Client, Managed(o), aside \subseteq aside',
           Live # None /\ o \in Unresolved(Live) => Live' # None /\ o \in Unresolved(Live')
    PROVE  Managed(o)'
BY DEF Managed

LEMMA SameOrders ==
    ASSUME NEW f, NEW g, g.orders = f.orders
    PROVE  Unresolved(g) = Unresolved(f)
BY DEF Unresolved

\* What the steps that write orders do to the orders' table.
LEMMA CloseOutOrders ==
    ASSUME Typed, NEW o \in Client, CloseOut(o)
    PROVE  /\ Live # None /\ Live' # None
           /\ DOMAIN Live'.orders = DOMAIN Live.orders
           /\ \A k \in DOMAIN Live.orders :
                k # o \/ Live.orders[k].status # "pending" => Live'.orders[k] = Live.orders[k]
<1>1. stage = "reconciling" /\ Running /\ Running' /\ Commit(RejectPendingOrder(Live, o))
    BY DEF CloseOut, Typed, CoreTyped, Running
<1>2. Live # None /\ IsFile(Live)
    BY <1>1, LiveFile DEF Typed
<1>3. Live' # None
    BY <1>1, CloseOutTyped, LiveNext DEF Typed
<1>4. Live' = RejectPendingOrder(Live, o)
    <2>1. log' = RejectPendingOrder(Live, o)
        BY <1>1 DEF Commit
    <2>2. IsFile(RejectPendingOrder(Live, o))
        BY <1>2, RejectPendingFile
    <2>. QED BY <2>1, <2>2, FileFacts DEF Live
<1>. QED BY <1>2, <1>3, <1>4, RejectPendingFile

LEMMA PlaceOrders ==
    ASSUME Typed, NEW o \in Client, Place(o)
    PROVE  /\ Live # None /\ Live' # None
           /\ o \in Unresolved(Live')
           /\ \A k \in DOMAIN Live.orders :
                k \in DOMAIN Live'.orders /\ Live'.orders[k] = Live.orders[k]
<1>1. Running /\ o \notin DOMAIN Live.orders /\ Commit(InsertOrder(Live, o))
    BY DEF Place, RecordIntent, Running
<1>2. Live # None /\ IsFile(Live)
    BY <1>1, LiveFile DEF Typed
<1> DEFINE g == InsertOrder(Live, o)
<1>3. /\ IsFile(g) /\ DOMAIN g.orders = DOMAIN Live.orders \cup {o}
      /\ g.orders[o].status = "pending"
      /\ \A k \in DOMAIN Live.orders : g.orders[k] = Live.orders[k]
    BY <1>1, <1>2, InsertOrderFile
<1>4. log' = g
    BY <1>1 DEF Commit
<1> HIDE DEF g
<1>5. Live' = g /\ g # None
    BY <1>3, <1>4, FileFacts DEF Live
<1>. QED BY <1>2, <1>3, <1>5 DEF Unresolved, Terminal

LEMMA UpdateOrders ==
    ASSUME Typed, NEW o \in Client, NEW status \in Status, Update(o, status)
    PROVE  /\ Live # None /\ Live' # None
           /\ DOMAIN Live'.orders = DOMAIN Live.orders /\ o \in DOMAIN Live.orders
           /\ Live.orders[o].status \notin Terminal /\ Live'.orders[o].status = status
           /\ \A k \in DOMAIN Live.orders : k # o => Live'.orders[k] = Live.orders[k]
<1>1. /\ stage \in {"reconciling", "trading"} /\ Running
      /\ o \in DOMAIN memory /\ memory[o] \notin Terminal
      /\ Commit(UpdateOrder(Live, o, status))
    BY DEF Update, CanAdvance, Running
<1>2. Live # None /\ IsFile(Live)
    BY <1>1, LiveFile DEF Typed
<1> DEFINE g == UpdateOrder(Live, o, status)
<1>3. /\ IsFile(g) /\ DOMAIN g.orders = DOMAIN Live.orders
      /\ o \in DOMAIN Live.orders => g.orders[o].status = status
      /\ \A k \in DOMAIN Live.orders : k # o => g.orders[k] = Live.orders[k]
    BY <1>2, UpdateOrderFile
<1>4. log' = g
    BY <1>1 DEF Commit
<1> HIDE DEF g
<1>5. Live' = g /\ g # None
    BY <1>3, <1>4, FileFacts DEF Live
<1>6. memory = [k \in DOMAIN Live.orders |-> Live.orders[k].status]
    BY <1>1 DEF Typed, MemoryTrue
<1>. QED BY <1>1, <1>2, <1>3, <1>5, <1>6

LEMMA MigrateOrders ==
    ASSUME Typed, Migrate
    PROVE  /\ Live # None /\ Live' # None
           /\ Live'.orders = Live.orders /\ aside' = aside
<1>1. Running /\ FilesTyped
    BY DEF Migrate, Running, Typed
<1>2. IsFile(Live) /\ Live # None /\ Live.version \in Nat
    BY <1>1, LiveFile, FileFacts
<1> DEFINE m == Live.version + 1
           g == ApplyMigration(Live, m)
<1>3. m \in Nat
    BY <1>2
<1> HIDE DEF m
<1>4. IsFile(g) /\ g.orders = Live.orders
    BY <1>2, <1>3, MigrationFile
<1>5. aside' = aside /\ (UNCHANGED files \/ log' = g)
    BY DEF Migrate, files, m
<1> HIDE DEF g
<1>6. g # None
    BY <1>4, FileFacts
<1>. QED BY <1>2, <1>4, <1>5, <1>6 DEF Live, files

\* What was lost sight of stays so.
LEMMA StraysStay ==
    ASSUME [Next]_vars
    PROVE  strays \subseteq strays'
<1>1. CASE UNCHANGED bounds
    BY <1>1 DEF bounds
<1>2. CASE UNCHANGED vars
    BY <1>2 DEF vars, bounds
<1>3. CASE (\E b \in Builds : Start(b)) \/ (\E o \in Client : CloseOut(o) \/ Place(o))
           \/ (\E c \in Core : Open(c)) \/ SweepStart
    BY <1>3 DEF Start, CloseOut, Place, Open, SweepStart
<1>4. CASE Next
    BY <1>1, <1>3, <1>4
       DEF Next, Repair, Migrate, Ask, Trade, Crash, Checkpoint, Confirm, Send, VenueMoves, Lose,
           Update, Fill, WriteDeal, Question, CloseScreen, WriteBar, WriteAudit, CountBefore,
           DeleteBatch, CountAfter, SweepEnd
<1>. QED BY <1>2, <1>4

\* A start leaves the file that is read, unless a recovery was cut off before it.
LEMMA StartLive ==
    ASSUME Typed, NEW b \in Builds, Start(b), stage # "cut", Live # None
    PROVE  Live' = Live
BY DEF Start, Typed, FilesTyped, Live, files

\* After a step of a recovery what was read is still read, or has been moved aside.
LEMMA RepairLive ==
    ASSUME Typed, Repair, Live # None
    PROVE  Live' = Live \/ (Live' = None /\ Live \in aside')
<1>1. CASE MoveFile
    BY <1>1 DEF MoveFile, Live
<1>2. CASE MoveLog
    BY <1>2 DEF MoveLog, TakeLog, Live, Typed, FilesTyped
<1>3. CASE RecoveryCut \/ RecoverAgain
    BY <1>3 DEF RecoveryCut, RecoverAgain, Live, files
<1>. QED BY <1>1, <1>2, <1>3 DEF Repair

LEMMA CoveredNext ==
    ASSUME Typed, Placed, AnswerTrue, Covered, [Next]_vars
    PROVE  Covered'
<1> SUFFICES ASSUME NEW k \in Client, Unsettled(k)', k \notin strays'
             PROVE  Managed(k)'
    BY DEF Covered
<1>a. k \notin strays
    BY StraysStay
<1>1. CASE Quiet
    <2>1. Unsettled(k)
        BY <1>1 DEF Quiet, Unsettled, OpenAtVenue
    <2>2. Managed(k)
        BY <1>a, <2>1 DEF Covered
    <2>3. aside' = aside /\ (Live # None => Live' # None) /\ Unresolved(Live') = Unresolved(Live)
        BY <1>1, SameOrders DEF Quiet
    <2>. QED BY <2>2, <2>3, StillManaged
<1>2. ASSUME NEW b \in Builds, Start(b)
      PROVE  Managed(k)'
    <2>1. Unsettled(k)
        BY <1>2 DEF Start, Unsettled, OpenAtVenue, core, market
    <2>2. Managed(k)
        BY <1>a, <2>1 DEF Covered
    <2>3. CASE stage = "cut"
        \* The log is dropped: what it alone listed is a stray now.
        <3>1. Live = log /\ log # None /\ aside' = aside /\ None \notin aside
              /\ (k \in Unresolved(log) => k \in UNION {Unresolved(f) : f \in aside})
            BY <1>2, <2>3 DEF Start, Typed, FilesTyped, Live, files
        <3>2. PICK f \in aside : k \in Unresolved(f)
            BY <2>2, <3>1 DEF Managed
        <3>. QED BY <3>1, <3>2 DEF Managed
    <2>4. CASE stage # "cut"
        <3>1. aside' = aside /\ (Live # None => Live' = Live)
            BY <1>2, <2>4, StartLive DEF Start, files
        <3>. QED BY <2>2, <3>1, StillManaged
    <2>. QED BY <2>3, <2>4
<1>3. CASE Repair
    <2>1. Unsettled(k)
        BY <1>3 DEF Repair, Unsettled, OpenAtVenue, core, market
    <2>2. PICK f \in {Live} \cup aside : f # None /\ k \in Unresolved(f)
        BY <1>a, <2>1 DEF Covered, Managed
    <2>3. f \in {Live'} \cup aside'
        <3>1. CASE f = Live
            BY <1>3, <2>2, <3>1, RepairLive
        <3>2. CASE f \in aside
            BY <1>3, <3>2 DEF Repair, MoveFile, MoveLog, TakeLog, RecoveryCut, RecoverAgain, files
        <3>. QED BY <2>2, <3>1, <3>2
    <2>. QED BY <2>2, <2>3 DEF Managed
<1>4. CASE Migrate
    <2>1. Unsettled(k)
        BY <1>4 DEF Migrate, Unsettled, OpenAtVenue, core, market
    <2>2. Managed(k)
        BY <1>a, <2>1 DEF Covered
    <2>3. aside' = aside /\ Live' # None /\ Unresolved(Live') = Unresolved(Live)
        BY <1>4, MigrateOrders, SameOrders
    <2>. QED BY <2>2, <2>3, StillManaged
<1>5. CASE Ask \/ Trade \/ Crash
    <2>1. Unsettled(k)
        BY <1>5 DEF Ask, Trade, Crash, Unsettled, OpenAtVenue, market
    <2>2. Managed(k)
        BY <1>a, <2>1 DEF Covered
    <2>3. aside' = aside /\ Live' = Live
        BY <1>5 DEF Ask, Trade, Crash, files, Live
    <2>. QED BY <2>2, <2>3, StillManaged
<1>6. ASSUME NEW o \in Client, CloseOut(o)
      PROVE  Managed(k)'
    <2>1. Unsettled(k)
        BY <1>6 DEF CloseOut, Unsettled, OpenAtVenue, market
    <2>2. Managed(k) /\ aside' = aside
        BY <1>a, <1>6, <2>1 DEF Covered, CloseOut, Commit
    \* An order that is not among those the venue answered with, and is not ended there, was on
    \* its way when it was asked: its row is one the close-out left alone, or it is a stray.
    <2>3. k # o \/ Live.orders[o].status # "pending"
        <3>1. answer # None /\ stage = "reconciling" /\ recorded = {}
              /\ answer.open \cap {o} = {}
            BY <1>6 DEF CloseOut, Typed, CoreTyped
        <3>2. k = o => k \in answer.underWay
            BY <2>1, <3>1 DEF AnswerTrue, Unsettled
        <3>3. o \in answer.underWay /\ Live.orders[o].status = "pending" => o \in strays'
            BY <1>6 DEF CloseOut
        <3>. QED BY <3>2, <3>3
    <2>4. Live' # None /\ (k \in Unresolved(Live) => k \in Unresolved(Live'))
        BY <1>6, <2>3, CloseOutOrders DEF Unresolved
    <2>. QED BY <2>2, <2>4, StillManaged
<1>7. ASSUME NEW o \in Client, Place(o)
      PROVE  Managed(k)'
    <2>1. Live' # None /\ o \in Unresolved(Live')
          /\ (k \in Unresolved(Live) => k \in Unresolved(Live'))
        BY <1>7, PlaceOrders DEF Unresolved
    <2>2. CASE k = o
        BY <2>1, <2>2 DEF Managed
    <2>3. CASE k # o
        <3>1. Unsettled(k) /\ aside' = aside
            BY <1>7, <2>3 DEF Place, RecordIntent, Commit, Unsettled, OpenAtVenue, market
        <3>. QED BY <2>1, <3>1, StillManaged, <1>a DEF Covered
    <2>. QED BY <2>2, <2>3
<1>8. ASSUME NEW o \in Client, Send(o) \/ Lose(o)
      PROVE  Managed(k)'
    <2>1. Unsettled(k)
        BY <1>8 DEF Send, Lose, Unsettled, OpenAtVenue, core
    <2>2. aside' = aside /\ Live' = Live
        BY <1>8 DEF Send, Lose, files, Live
    <2>. QED BY <2>1, <2>2, StillManaged, <1>a DEF Covered
<1>9. ASSUME NEW o \in Client, VenueMoves(o)
      PROVE  Managed(k)'
    <2>1. PICK status \in Moves(venue[o]) : venue' = [venue EXCEPT ![o] = status]
        BY <1>9 DEF VenueMoves
    <2>2. /\ venue[o] = "none" => o \in requests
          /\ requests' = requests \ {o} /\ UNCHANGED <<recorded, files>>
        BY <1>9 DEF VenueMoves, core
    <2>3. venue \in [Client -> {"none"} \cup (Status \ {"pending"})]
        BY DEF Typed, MarketTyped
    <2>4. venue[o] \in {"none", "new", "partially_filled"}
        BY <2>1 DEF Moves
    \* What moves was on its way, or live.
    <2>5. Unsettled(k)
        BY <2>1, <2>2, <2>3, <2>4 DEF Unsettled, OpenAtVenue
    <2>6. aside' = aside /\ Live' = Live
        BY <2>2 DEF files, Live
    <2>. QED BY <2>5, <2>6, StillManaged, <1>a DEF Covered
<1>10. ASSUME NEW o \in Client, NEW status \in Status, Update(o, status)
       PROVE  Managed(k)'
    <2>1. Unsettled(k) /\ aside' = aside /\ status \in said[o]
        BY <1>10 DEF Update, Commit, Unsettled, OpenAtVenue, market
    <2>2. /\ Live' # None
          /\ DOMAIN Live'.orders = DOMAIN Live.orders
          /\ Live'.orders[o].status = status
          /\ \A c \in DOMAIN Live.orders : c # o => Live'.orders[c] = Live.orders[c]
        BY <1>10, UpdateOrders
    \* What the venue has ended is neither live nor on its way.
    <2>3. k = o => status \notin Terminal
        BY <2>1 DEF Placed, Unsettled, OpenAtVenue, Terminal
    <2>4. k \in Unresolved(Live) => k \in Unresolved(Live')
        BY <2>2, <2>3 DEF Unresolved
    <2>. QED BY <2>1, <2>2, <2>4, StillManaged, <1>a DEF Covered
<1>. QED BY <1>1, <1>2, <1>3, <1>4, <1>5, <1>6, <1>7, <1>8, <1>9, <1>10, StepsSplit DEF OrderSteps

OrdersInv == Typed /\ Placed /\ AnswerTrue /\ Covered

LEMMA OrdersInitially == Init => OrdersInv
<1> SUFFICES ASSUME Init PROVE OrdersInv
    OBVIOUS
<1>1. Placed /\ AnswerTrue
    BY DEF Init, Placed, AnswerTrue, Terminal
<1>2. Covered
    BY DEF Init, Covered, Unsettled, OpenAtVenue
<1>. QED BY <1>1, <1>2, InitTyped DEF OrdersInv

LEMMA OrdersNext ==
    ASSUME OrdersInv, [Next]_vars
    PROVE  OrdersInv'
BY NextTyped, PlacedNext, AnswerNext, CoveredNext DEF OrdersInv

\* No order is forgotten (record_intent before the order is sent, unresolved_orders after a
\* crash, maintenance::recover keeping what it moves aside): one that is on its way to the
\* venue or live there is unresolved in the file in use or in what was moved aside, unless
\* reconciliation closed it out while its request was still under way, or it was in a log
\* that a recovery cut off between its two renames left to be dropped.
THEOREM NoOrderForgotten == Spec => []LiveIsManaged
<1>1. OrdersInv => LiveIsManaged
    BY DEF OrdersInv, Covered, Unsettled, OpenAtVenue, Outstanding, LiveIsManaged
<1>2. OrdersInv /\ [Next]_vars => OrdersInv'
    BY OrdersNext
<1>. QED BY <1>1, <1>2, OrdersInitially, PTL DEF Spec

\* A step of the process or of the venue leaves an ended order's row as it is.
LEMMA EndedRowStays ==
    ASSUME Typed, [Next]_vars, NEW k \in Client,
           Live # None, Live' # None, k \in DOMAIN Live.orders, k \in DOMAIN Live'.orders,
           Live.orders[k].status \in Terminal
    PROVE  Live'.orders[k] = Live.orders[k]
<1>1. CASE Quiet
    BY <1>1 DEF Quiet
<1>2. ASSUME NEW b \in Builds, Start(b)
      PROVE  Live' = Live
    \* After a recovery that was cut off the file is new, and has no rows.
    <2>1. stage # "cut"
        BY <1>2, EmptyFileIs DEF Start, Typed, FilesTyped, Live, files, EmptyTable
    <2>. QED BY <1>2, <2>1, StartLive
<1>3. CASE Repair
    BY <1>3, RepairLive
<1>4. CASE Migrate
    BY <1>4, MigrateOrders
<1>5. CASE Ask \/ Trade \/ Crash
    BY <1>5 DEF Ask, Trade, Crash, files, Live
<1>6. ASSUME NEW o \in Client, CloseOut(o)
      PROVE  Live'.orders[k] = Live.orders[k]
    BY <1>6, CloseOutOrders DEF Terminal
<1>7. ASSUME NEW o \in Client, Place(o)
      PROVE  Live'.orders[k] = Live.orders[k]
    BY <1>7, PlaceOrders
<1>8. ASSUME NEW o \in Client, Send(o) \/ Lose(o) \/ VenueMoves(o)
      PROVE  Live' = Live
    BY <1>8 DEF Send, Lose, VenueMoves, files, Live
<1>9. ASSUME NEW o \in Client, NEW status \in Status, Update(o, status)
      PROVE  Live'.orders[k] = Live.orders[k]
    BY <1>9, UpdateOrders
<1>. QED BY <1>1, <1>2, <1>3, <1>4, <1>5, <1>6, <1>7, <1>8, <1>9, StepsSplit DEF OrderSteps

\* "State only ever moves forward" (order.rs) in the table: the row of an order that has ended
\* never changes while its file is in use, whichever of record_never_placed and a late
\* record_update comes first.
THEOREM EndedStays == Spec => TerminalStays
<1>1. ASSUME Typed, [Next]_vars
      PROVE  [\A o \in Client :
                Live # None /\ Live' # None /\ o \in DOMAIN Live.orders /\ o \in DOMAIN Live'.orders
                    /\ Live.orders[o].status \in Terminal
                => Live'.orders[o] = Live.orders[o]]_vars
    BY <1>1, EndedRowStays
<1>2. Typed /\ [Next]_vars =>
        [\A o \in Client :
           Live # None /\ Live' # None /\ o \in DOMAIN Live.orders /\ o \in DOMAIN Live'.orders
               /\ Live.orders[o].status \in Terminal
           => Live'.orders[o] = Live.orders[o]]_vars
    BY <1>1
<1>. QED BY <1>2, AlwaysTyped, PTL DEF Spec, TerminalStays

-----------------------------------------------------------------------------
(* The sweep: every row it announced, and no other, however many batches.  *)

\* The rows past their horizon in the series still to sweep.
Remaining ==
    {r \in Live.candles \cup Live.audit :
       \E s \in sweep.todo : r \in Expired(Live, Policy, s, Today)}

Rows == TableOf(Live, Series)

\* What a batch has taken out and the sweep has not counted yet.
Pending == IF sweep.deleted THEN sweep.before - Cardinality(Rows) ELSE 0

\* While nothing is written under it: what is left to take is what was announced and is still
\* there; what was taken makes up the rest; and a batch that was not full was the last.
SweepTrue ==
    sweep # None /\ sweep.quiet =>
        /\ IsFiniteSet(sweep.doomed)
        /\ Remaining = sweep.doomed \cap (Live.candles \cup Live.audit)
        /\ sweep.swept + Pending + Cardinality(Remaining) = Cardinality(sweep.doomed)
        /\ sweep.before # None /\ ~sweep.deleted => sweep.before = Cardinality(Rows)
        /\ sweep.deleted => /\ Pending \in 0..BATCH
                            /\ Pending < BATCH => Expired(Live, Policy, Series, Today) = {}

\* A bar is not a record of the audit trail.
LEMMA RowsApart == BarRow \cap AuditRow = {}
<1> SUFFICES ASSUME NEW r \in BarRow, r \in AuditRow PROVE FALSE
    OBVIOUS
<1>1. "tf" \in DOMAIN r /\ DOMAIN r = {"id", "at"}
    BY DEF BarRow, AuditRow
<1>. QED BY <1>1

\* Two files with the same bars and audit trail have the same rows to sweep.
LEMMA SameRows ==
    ASSUME NEW f, NEW g, SameHistory(f, g)
    PROVE  /\ \A s : Expired(g, Policy, s, Today) = Expired(f, Policy, s, Today)
           /\ \A s : TableOf(g, s) = TableOf(f, s)
BY DEF SameHistory, Expired, TableOf

LEMMA SweepUntouched ==
    ASSUME SweepTrue, sweep' = sweep, SameHistory(Live, Live')
    PROVE  SweepTrue'
<1>1. /\ \A s : Expired(Live', Policy, s, Today) = Expired(Live, Policy, s, Today)
      /\ \A s : TableOf(Live', s) = TableOf(Live, s)
    BY SameRows
<1>2. Live'.candles = Live.candles /\ Live'.audit = Live.audit
    BY DEF SameHistory
<1>3. Series' = Series
    BY DEF Series
<1>4. Rows' = Rows
    BY <1>1, <1>3 DEF Rows
<1>5. Remaining' = Remaining
    BY <1>1, <1>2 DEF Remaining
<1>6. Pending' = Pending
    BY <1>4 DEF Pending
<1>. QED BY <1>1, <1>2, <1>3, <1>4, <1>5, <1>6 DEF SweepTrue

\* A step of the rest of the core leaves a sweep and the rows it counts on alone.
LEMMA BesideSweep ==
    ASSUME Typed, sweep # None,
           \/ Checkpoint \/ (\E c \in Core : Open(c)) \/ Question \/ CloseScreen
           \/ \E o \in Client :
                \/ Place(o) \/ Send(o) \/ VenueMoves(o) \/ Lose(o)
                \/ \E status \in Status : Update(o, status)
                \/ \E trade \in 1..2 : Fill(o, trade)
           \/ (\E deal \in Deals : WriteDeal(deal))
           \/ UNCHANGED vars
    PROVE  sweep' = sweep /\ SameHistory(Live, Live')
<1>1. Running /\ FilesTyped /\ IsFile(Live)
    BY TableCount DEF Typed
<1>2. ASSUME NEW g, Commit(g), IsFile(g)
      PROVE  Live' = g
    BY <1>2, FileFacts DEF Commit, Live
<1>3. CASE Checkpoint \/ (\E c \in Core : Open(c)) \/ Question \/ CloseScreen \/ UNCHANGED vars
    <2>1. Live' = Live
        BY <1>3, CheckpointTyped, ScreenTyped, StutterTyped
    <2>2. sweep' = sweep
        BY <1>3 DEF Checkpoint, Open, Question, CloseScreen, vars
    <2>. QED BY <2>1, <2>2 DEF SameHistory
<1>4. ASSUME NEW o \in Client, Place(o)
      PROVE  sweep' = sweep /\ SameHistory(Live, Live')
    <2>1. sweep' = sweep /\ o \notin DOMAIN Live.orders /\ Commit(InsertOrder(Live, o))
        BY <1>4 DEF Place, RecordIntent
    <2> DEFINE g == InsertOrder(Live, o)
    <2>2. IsFile(g) /\ SameHistory(Live, g)
        BY <1>1, <2>1, InsertOrderFile
    <2> HIDE DEF g
    <2>. QED BY <1>2, <2>1, <2>2 DEF g
<1>5. ASSUME NEW o \in Client, Send(o) \/ VenueMoves(o) \/ Lose(o)
      PROVE  sweep' = sweep /\ SameHistory(Live, Live')
    <2>1. sweep' = sweep /\ Live' = Live
        BY <1>5 DEF Send, VenueMoves, Lose, files, Live
    <2>. QED BY <2>1 DEF SameHistory
<1>6. ASSUME NEW o \in Client, NEW status \in Status, Update(o, status)
      PROVE  sweep' = sweep /\ SameHistory(Live, Live')
    <2>1. sweep' = sweep /\ Commit(UpdateOrder(Live, o, status))
        BY <1>6 DEF Update
    <2> DEFINE g == UpdateOrder(Live, o, status)
    <2>2. IsFile(g) /\ SameHistory(Live, g)
        BY <1>1, UpdateOrderFile
    <2> HIDE DEF g
    <2>. QED BY <1>2, <2>1, <2>2 DEF g
<1>7. ASSUME NEW o \in Client, NEW trade \in 1..2, Fill(o, trade)
      PROVE  sweep' = sweep /\ SameHistory(Live, Live')
    <2> DEFINE g == InsertFill(Live, [client |-> o, trade |-> trade])
    <2>1. sweep' = sweep /\ Commit(g)
        BY <1>7 DEF Fill
    <2>2. trade \in Nat
        OBVIOUS
    <2>3. IsFile(g) /\ SameHistory(Live, g)
        BY <1>1, <2>2, FillFile
    <2> HIDE DEF g
    <2>. QED BY <1>2, <2>1, <2>3
<1>8. ASSUME NEW deal \in Deals, WriteDeal(deal)
      PROVE  sweep' = sweep /\ SameHistory(Live, Live')
    <2>1. sweep' = sweep
        BY <1>8 DEF WriteDeal
    <2>. QED BY <1>8, <2>1, WriteDealTyped
<1>. QED BY <1>3, <1>4, <1>5, <1>6, <1>7, <1>8

\* The steps under which no sweep goes on.
LEMMA NoSweep ==
    ASSUME Typed,
           \/ (\E b \in Builds : Start(b)) \/ Repair \/ Migrate \/ Ask \/ Trade \/ Crash
           \/ \E o \in Client : CloseOut(o) \/ Confirm(o)
    PROVE  sweep' = None
<1>1. CASE Crash
    BY <1>1 DEF Crash
<1>2. CASE \/ (\E b \in Builds : Start(b)) \/ Repair \/ Migrate \/ Ask \/ Trade
           \/ \E o \in Client : CloseOut(o) \/ Confirm(o)
    <2>1. sweep' = sweep
        BY <1>2 DEF Start, Repair, Migrate, Ask, Trade, CloseOut, Confirm
    <2>2. stage # "trading"
        BY <1>2 DEF Start, Repair, MoveFile, MoveLog, RecoveryCut, RecoverAgain, Migrate, Ask,
           Trade, CloseOut, Confirm, Typed, CoreTyped
    <2>. QED BY <2>1, <2>2 DEF Typed, SweepTyped
<1>. QED BY <1>1, <1>2

\* The steps of a sweep.

LEMMA DisturbTrue ==
    ASSUME Typed, Disturb
    PROVE  SweepTrue'
<1>1. CASE sweep = None
    BY <1>1 DEF Disturb, SweepTrue
<1>2. CASE sweep # None
    <2>1. sweep' = [sweep EXCEPT !.quiet = FALSE] /\ sweep \in Sweeps
        BY <1>2 DEF Disturb, Typed, SweepTyped
    <2>2. sweep'.quiet = FALSE
        BY <2>1 DEF Sweeps
    <2>. QED BY <2>2 DEF SweepTrue
<1>. QED BY <1>1, <1>2

\* The rows of a sweep under way: finite, and of the file in use.
LEMMA SweepFile ==
    ASSUME Typed, sweep # None
    PROVE  /\ sweep \in Sweeps
           /\ IsFiniteSet(Live.candles \cup Live.audit)
           /\ Live.candles \subseteq BarRow /\ Live.audit \subseteq AuditRow
           /\ IsFiniteSet(Remaining) /\ Cardinality(Remaining) \in Nat
<1>1. sweep \in Sweeps /\ FilesTyped /\ Running /\ IsFile(Live)
    BY TableCount DEF Typed, SweepTyped
<1>2. IsFiniteSet(Live.candles) /\ IsFiniteSet(Live.audit)
    BY <1>1, LiveFile
<1>3. IsFiniteSet(Live.candles \cup Live.audit)
    BY <1>2, FS_Union
<1>4. Remaining \subseteq Live.candles \cup Live.audit
    BY DEF Remaining
<1>5. IsFiniteSet(Remaining)
    BY <1>3, <1>4, FS_Subset
<1>. QED BY <1>1, <1>3, <1>5, FileFacts, FS_CardinalityType

LEMMA SweepStartTrue ==
    ASSUME Typed, SweepStart
    PROVE  SweepTrue'
<1>1. Typed' /\ Live' = Live
    BY SweepStartTyped
<1> DEFINE dm == WouldSweep(Live, Policy, Today)
           td == Timeframes(Live) \cup {AuditTrail}
<1>2. sweep' = [todo |-> td, before |-> None, deleted |-> FALSE, swept |-> 0,
                doomed |-> dm, quiet |-> TRUE]
    BY DEF SweepStart
<1>3. \A r : r \in dm <=> \E s \in td : r \in Expired(Live, Policy, s, Today)
    BY WouldSweepIs
<1>4. dm \subseteq Live.candles \cup Live.audit
    BY <1>3, ExpiredRows
<1> HIDE DEF dm, td
<1>5. Running /\ FilesTyped
    BY DEF SweepStart, History, Running, Typed
<1>6. IsFiniteSet(dm) /\ Cardinality(dm) \in Nat
    <2>1. IsFiniteSet(Live.candles \cup Live.audit)
        BY <1>5, LiveFile, FS_Union
    <2>. QED BY <1>4, <2>1, FS_Subset, FS_CardinalityType
<1>7. /\ sweep'.todo = td /\ sweep'.before = None /\ sweep'.deleted = FALSE
      /\ sweep'.swept = 0 /\ sweep'.doomed = dm
    BY <1>2
<1>8. Remaining' = dm
    BY <1>1, <1>3, <1>4, <1>7 DEF Remaining
<1>9. Pending' = 0
    BY <1>7 DEF Pending
<1>10. dm = dm \cap (Live.candles \cup Live.audit)
    BY <1>4
<1>. QED BY <1>1, <1>6, <1>7, <1>8, <1>9, <1>10 DEF SweepTrue

LEMMA CountBeforeTrue ==
    ASSUME Typed, SweepTrue, CountBefore
    PROVE  SweepTrue'
<1> SUFFICES ASSUME sweep'.quiet PROVE SweepTrue'
    BY DEF SweepTrue
<1>1. Live' = Live
    BY CountBeforeTyped
<1>2. /\ sweep # None /\ sweep.before = None /\ sweep \in Sweeps
      /\ sweep' = [sweep EXCEPT !.before = Cardinality(Rows)]
      /\ ~sweep.deleted
    BY DEF CountBefore, Sweeping, Rows, Typed, SweepTyped
<1>3. /\ sweep'.todo = sweep.todo /\ sweep'.before = Cardinality(Rows)
      /\ sweep'.deleted = sweep.deleted /\ sweep'.swept = sweep.swept
      /\ sweep'.doomed = sweep.doomed /\ sweep'.quiet = sweep.quiet
    BY <1>2 DEF Sweeps
<1>4. Series' = Series
    BY <1>3 DEF Series
<1>5. Rows' = Rows
    BY <1>1, <1>4 DEF Rows
<1>6. Remaining' = Remaining
    BY <1>1, <1>3 DEF Remaining
<1>7. Pending = 0 /\ Pending' = 0
    BY <1>2, <1>3 DEF Pending
<1>. QED BY <1>1, <1>2, <1>3, <1>5, <1>6, <1>7 DEF SweepTrue

\* What a batch is: expired rows of the series, all of them when they are fewer than a batch.
LEMMA BatchIs ==
    ASSUME NEW f, NEW s, IsFiniteSet(Expired(f, Policy, s, Today)),
           NEW rows \in Batches(f, Policy, s, Today, BATCH)
    PROVE  /\ rows \subseteq Expired(f, Policy, s, Today)
           /\ Cardinality(rows) \in 0..BATCH
           /\ Cardinality(rows) < BATCH => rows = Expired(f, Policy, s, Today)
<1> DEFINE E == Expired(f, Policy, s, Today)
<1>1. rows \subseteq E /\ Cardinality(rows) = Min({BATCH, Cardinality(E)})
    BY DEF Batches, kSubset
<1>2. Cardinality(E) \in Nat /\ BATCH \in Nat
    BY FS_CardinalityType, LedgerAssumption
<1> HIDE DEF E
<1>3. {BATCH, Cardinality(E)} \subseteq Nat /\ {BATCH, Cardinality(E)} # {}
    BY <1>2
<1>4. /\ Min({BATCH, Cardinality(E)}) \in {BATCH, Cardinality(E)}
      /\ Min({BATCH, Cardinality(E)}) <= BATCH
    BY <1>3, MinOf
<1>5. Cardinality(rows) \in 0..BATCH
    BY <1>1, <1>2, <1>4
<1>6. ASSUME Cardinality(rows) < BATCH
      PROVE  rows = E
    <2>1. Cardinality(rows) = Cardinality(E)
        BY <1>1, <1>2, <1>4, <1>6
    <2>. QED BY <1>1, <2>1, FS_Subset DEF E
<1>. QED BY <1>1, <1>5, <1>6 DEF E

\* A batch takes nothing from the other series.
LEMMA OtherSeries ==
    ASSUME NEW f, IsFile(f), NEW s \in Nat, NEW rows,
           rows \subseteq Expired(f, Policy, s, Today), NEW g, g = DeleteRows(f, s, rows)
    PROVE  /\ rows \subseteq TableOf(f, s) /\ TableOf(g, s) = TableOf(f, s) \ rows
           /\ g.candles \cup g.audit = (f.candles \cup f.audit) \ rows
           /\ \A k \in Nat : Expired(g, Policy, k, Today) = Expired(f, Policy, k, Today) \ rows
<1>1. f.candles \subseteq BarRow /\ f.audit \subseteq AuditRow
    BY FileFacts
<1>2. f.candles \cap f.audit = {}
    BY <1>1, RowsApart
<1>3. /\ g.candles \subseteq f.candles /\ g.audit \subseteq f.audit
      /\ s = AuditTrail => g.candles = f.candles /\ g.audit = f.audit \ rows
      /\ s # AuditTrail => g.candles = f.candles \ rows /\ g.audit = f.audit
    BY DeleteFile
<1>4. CASE s = AuditTrail
    <2>1. rows \subseteq f.audit /\ g.candles = f.candles /\ g.audit = f.audit \ rows
        BY <1>3, <1>4 DEF Expired
    <2>2. \A r \in rows : r \notin f.candles
        BY <1>2, <2>1
    <2>3. \A k \in Nat : Expired(g, Policy, k, Today) = Expired(f, Policy, k, Today) \ rows
        BY <2>1, <2>2 DEF Expired
    <2>. QED BY <1>4, <2>1, <2>2, <2>3 DEF TableOf
<1>5. CASE s # AuditTrail
    <2>1. rows \subseteq f.candles /\ g.candles = f.candles \ rows /\ g.audit = f.audit
        BY <1>3, <1>5 DEF Expired
    <2>2. \A r \in rows : r \notin f.audit
        BY <1>2, <2>1
    <2>3. \A k \in Nat : Expired(g, Policy, k, Today) = Expired(f, Policy, k, Today) \ rows
        BY <2>1, <2>2 DEF Expired
    <2>. QED BY <1>5, <2>1, <2>2, <2>3 DEF TableOf
<1>. QED BY <1>4, <1>5

LEMMA DeleteBatchTrue ==
    ASSUME Typed, SweepTrue, DeleteBatch
    PROVE  SweepTrue'
<1> SUFFICES ASSUME sweep'.quiet PROVE SweepTrue'
    BY DEF SweepTrue
<1>1. PICK rows \in Batches(Live, Policy, Series, Today, BATCH) :
        Live' = DeleteRows(Live, Series, rows)
    BY DeleteBatchTyped
<1>2. /\ sweep # None /\ sweep.todo # {} /\ sweep.before # None /\ ~sweep.deleted
      /\ sweep' = [sweep EXCEPT !.deleted = TRUE]
    BY DEF DeleteBatch, Sweeping
<1>3. /\ sweep \in Sweeps /\ IsFile(Live) /\ IsFiniteSet(Live.candles \cup Live.audit)
      /\ IsFiniteSet(Remaining) /\ Cardinality(Remaining) \in Nat
      /\ IsFiniteSet(Rows) /\ Cardinality(Rows) \in Nat
    BY <1>2, SweepFile, TableCount DEF Rows
<1>4. /\ sweep'.todo = sweep.todo /\ sweep'.before = sweep.before /\ sweep'.deleted
      /\ sweep'.swept = sweep.swept /\ sweep'.doomed = sweep.doomed
      /\ sweep'.quiet = sweep.quiet
    BY <1>2, <1>3 DEF Sweeps
<1>5. /\ IsFiniteSet(sweep.doomed)
      /\ Remaining = sweep.doomed \cap (Live.candles \cup Live.audit)
      /\ sweep.swept + Cardinality(Remaining) = Cardinality(sweep.doomed)
      /\ sweep.before = Cardinality(Rows)
    <2>1. Pending = 0 /\ sweep.swept \in Nat
        BY <1>2, <1>3 DEF Pending, Sweeps
    <2>. QED BY <1>2, <1>3, <1>4, <2>1 DEF SweepTrue
<1>6. Series \in sweep.todo /\ sweep.todo \subseteq Nat /\ Series' = Series
    <2>1. sweep.todo \subseteq Nat
        BY <1>3 DEF Sweeps
    <2>. QED BY <1>2, <1>4, <2>1, SeriesIs DEF Series
<1> DEFINE expired == Expired(Live, Policy, Series, Today)
<1>7. IsFiniteSet(expired)
    BY <1>3, ExpiredRows, FS_Subset
<1>8. /\ rows \subseteq expired /\ Cardinality(rows) \in 0..BATCH
      /\ Cardinality(rows) < BATCH => rows = expired
    BY <1>7, BatchIs
<1>9. /\ rows \subseteq Rows /\ Rows' = Rows \ rows
      /\ Live'.candles \cup Live'.audit = (Live.candles \cup Live.audit) \ rows
      /\ \A k \in Nat :
           Expired(Live', Policy, k, Today) = Expired(Live, Policy, k, Today) \ rows
    <2>1. Series \in Nat
        BY <1>6
    <2> DEFINE s == Series
               f == Live
               g == Live'
    <2>2. s \in Nat /\ IsFile(f) /\ g = DeleteRows(f, s, rows)
          /\ rows \subseteq Expired(f, Policy, s, Today)
        BY <1>1, <1>3, <1>8, <2>1
    <2> HIDE DEF s, f, g
    <2>3. /\ rows \subseteq TableOf(f, s) /\ TableOf(g, s) = TableOf(f, s) \ rows
          /\ g.candles \cup g.audit = (f.candles \cup f.audit) \ rows
          /\ \A k \in Nat : Expired(g, Policy, k, Today) = Expired(f, Policy, k, Today) \ rows
        BY <2>2, OtherSeries
    <2>. QED BY <1>6, <2>3 DEF s, f, g, Rows
<1>10. rows \subseteq Remaining
    BY <1>6, <1>8, ExpiredRows DEF Remaining
<1>11. Remaining' = Remaining \ rows
    BY <1>4, <1>6, <1>9, ExpiredRows DEF Remaining
<1>12. Remaining' = sweep.doomed \cap (Live'.candles \cup Live'.audit)
    BY <1>5, <1>9, <1>11
<1>13. Cardinality(Remaining') = Cardinality(Remaining) - Cardinality(rows)
    <2>1. Remaining \cap rows = rows
        BY <1>10
    <2>2. Cardinality(Remaining \ rows) = Cardinality(Remaining) - Cardinality(Remaining \cap rows)
        BY <1>3, FS_Difference
    <2>. QED BY <1>11, <2>1, <2>2
<1>14. Pending' = Cardinality(rows)
    <2>1. Rows \cap rows = rows
        BY <1>9
    <2>2. Cardinality(Rows \ rows) = Cardinality(Rows) - Cardinality(Rows \cap rows)
        BY <1>3, FS_Difference
    <2>3. Pending' = sweep.before - Cardinality(Rows') /\ sweep.before = Cardinality(Rows)
        BY <1>4, <1>5 DEF Pending
    <2>4. Cardinality(rows) \in Nat /\ Cardinality(Rows) \in Nat
        BY <1>3, <1>8, LedgerAssumption
    <2>5. Cardinality(Rows \cap rows) = Cardinality(rows) /\ Rows' = Rows \ rows
        BY <1>9, <2>1
    <2>. QED BY ONLY <2>2, <2>3, <2>4, <2>5
<1>15. sweep'.swept + Pending' + Cardinality(Remaining') = Cardinality(sweep'.doomed)
    <2>1. Cardinality(rows) \in Nat /\ sweep.swept \in Nat
        BY <1>3, <1>8, LedgerAssumption DEF Sweeps
    <2>. QED BY <1>3, <1>4, <1>5, <1>13, <1>14, <2>1
<1>16. Cardinality(rows) < BATCH => Expired(Live', Policy, Series, Today) = {}
    BY <1>6, <1>8, <1>9
<1>. QED BY <1>4, <1>5, <1>6, <1>8, <1>12, <1>14, <1>15, <1>16 DEF SweepTrue

LEMMA CountAfterTrue ==
    ASSUME Typed, SweepTrue, CountAfter
    PROVE  SweepTrue'
<1> SUFFICES ASSUME sweep'.quiet PROVE SweepTrue'
    BY DEF SweepTrue
<1> DEFINE removed == Max({sweep.before - Cardinality(Rows), 0})
           rest == IF LastBatch(removed) THEN sweep.todo \ {Series} ELSE sweep.todo
<1>1. Live' = Live
    BY CountAfterTyped
<1>2. /\ sweep # None /\ sweep.todo # {} /\ sweep.deleted
      /\ sweep' = [sweep EXCEPT !.before = None, !.deleted = FALSE, !.swept = @ + removed,
                                !.todo = rest]
    BY DEF CountAfter, Sweeping, Rows
<1>3. /\ sweep \in Sweeps /\ sweep.before \in Nat
      /\ IsFiniteSet(Remaining) /\ Cardinality(Remaining) \in Nat
      /\ Cardinality(Rows) \in Nat
    <2>1. sweep.before # None
        BY <1>2 DEF Typed, SweepTyped
    <2>. QED BY <1>2, <2>1, SweepFile, TableCount DEF Rows, Sweeps
<1>4. Pending = sweep.before - Cardinality(Rows)
    BY <1>2 DEF Pending
<1>5. /\ sweep'.todo = rest /\ sweep'.before = None /\ sweep'.deleted = FALSE
      /\ sweep'.swept = sweep.swept + removed
      /\ sweep'.doomed = sweep.doomed /\ sweep'.quiet = sweep.quiet
    BY <1>2, <1>3 DEF Sweeps
<1>6. /\ IsFiniteSet(sweep.doomed)
      /\ Remaining = sweep.doomed \cap (Live.candles \cup Live.audit)
      /\ sweep.swept + Pending + Cardinality(Remaining) = Cardinality(sweep.doomed)
      /\ Pending \in 0..BATCH
      /\ Pending < BATCH => Expired(Live, Policy, Series, Today) = {}
    BY <1>2, <1>5 DEF SweepTrue
<1>7. removed = Pending
    <2>1. sweep.before - Cardinality(Rows) \in Int
        BY <1>3
    <2>2. Pending >= 0
        BY <1>6, LedgerAssumption
    <2>. QED BY <1>4, <2>1, <2>2, MaxZero
<1> HIDE DEF removed
\* The series that is left had nothing more to take.
<1>8. Remaining' = Remaining
    <2>1. CASE LastBatch(removed)
        <3>1. Expired(Live, Policy, Series, Today) = {}
            BY <1>6, <1>7, <2>1 DEF LastBatch
        <3>2. sweep'.todo = sweep.todo \ {Series}
            BY <1>5, <2>1
        <3>. QED BY <1>1, <3>1, <3>2 DEF Remaining
    <2>2. CASE ~LastBatch(removed)
        BY <1>1, <1>5, <2>2 DEF Remaining
    <2>. QED BY <2>1, <2>2
<1>9. Pending' = 0
    BY <1>5 DEF Pending
<1>10. sweep'.swept + Pending' + Cardinality(Remaining') = Cardinality(sweep'.doomed)
    <2>1. sweep.swept \in Nat /\ Pending \in Nat
        BY <1>3, <1>6, LedgerAssumption DEF Sweeps
    <2>. QED BY <1>3, <1>5, <1>6, <1>7, <1>8, <1>9, <2>1
<1>. QED BY <1>1, <1>5, <1>6, <1>8, <1>10 DEF SweepTrue

LEMMA SweepNext ==
    ASSUME Typed, SweepTrue, [Next]_vars
    PROVE  SweepTrue'
<1>1. CASE \/ (\E b \in Builds : Start(b)) \/ Repair \/ Migrate \/ Ask \/ Trade \/ Crash
           \/ \E o \in Client : CloseOut(o) \/ Confirm(o)
    BY <1>1, NoSweep DEF SweepTrue
<1>2. CASE \/ Checkpoint \/ (\E c \in Core : Open(c)) \/ Question \/ CloseScreen
           \/ \E o \in Client :
                \/ Place(o) \/ Send(o) \/ VenueMoves(o) \/ Lose(o)
                \/ \E status \in Status : Update(o, status)
                \/ \E trade \in 1..2 : Fill(o, trade)
           \/ (\E deal \in Deals : WriteDeal(deal))
           \/ UNCHANGED vars
    <2>1. CASE sweep = None
        <3>1. sweep' = None
            BY <1>2, <2>1 DEF Checkpoint, Open, Question, CloseScreen, Place, Send, VenueMoves,
               Lose, Update, Fill, WriteDeal, vars
        <3>. QED BY <3>1 DEF SweepTrue
    <2>2. CASE sweep # None
        BY <1>2, <2>2, BesideSweep, SweepUntouched
    <2>. QED BY <2>1, <2>2
<1>3. CASE (\E bar \in Bars : WriteBar(bar)) \/ WriteAudit
    BY <1>3, DisturbTrue DEF WriteBar, WriteAudit
<1>4. CASE SweepStart \/ CountBefore \/ DeleteBatch \/ CountAfter
    BY <1>4, SweepStartTrue, CountBeforeTrue, DeleteBatchTrue, CountAfterTrue
<1>5. CASE SweepEnd
    BY <1>5 DEF SweepEnd, SweepTrue
<1>. QED BY <1>1, <1>2, <1>3, <1>4, <1>5 DEF Next

\* A sweep that nothing is written under removes what would_sweep announced, all of it and
\* counted once, whatever the size of a batch and however many it takes (delete_batch counts
\* the table before and after, and a batch that is not full is a series' last).
THEOREM SweepRemovesAnnounced == Spec => []SweepAsAnnounced
<1>1. Init => SweepTrue
    BY DEF Init, SweepTrue
<1>2. Typed /\ SweepTrue => SweepAsAnnounced
    <2> SUFFICES ASSUME Typed, SweepTrue, sweep # None, sweep.todo = {}, sweep.quiet
                 PROVE  /\ sweep.swept = Cardinality(sweep.doomed)
                        /\ sweep.doomed \cap (Live.candles \cup Live.audit) = {}
        BY DEF SweepAsAnnounced
    <2>1. ~sweep.deleted /\ sweep \in Sweeps
        BY DEF Typed, SweepTyped
    <2>2. Pending = 0 /\ sweep.swept \in Nat
        BY <2>1 DEF Pending, Sweeps
    <2>3. Remaining = {}
        BY DEF Remaining
    <2>. QED BY <2>2, <2>3, FS_EmptySet DEF SweepTrue
<1>3. Typed /\ SweepTrue /\ Typed' /\ [Next]_vars => SweepTrue'
    BY SweepNext
<1>. QED BY <1>1, <1>2, <1>3, AlwaysTyped, PTL DEF Spec

-----------------------------------------------------------------------------
(* Sums: SumFunctionOnSet takes the elements one by one, each as it is      *)
(* chosen; these lemmas say that a sum does not depend on the choices.     *)

Chosen(s) == CHOOSE x \in s : TRUE
Summed(f, g, s) == IF s = {} THEN 0 ELSE f[Chosen(s)] + g[s \ {Chosen(s)}]

\* g is the sum of f over the subsets of S with no more than n elements.
SumsUpTo(f, S, g, n) ==
    /\ g = [s \in SUBSET S |-> g[s]]
    /\ \A s \in SUBSET S : Cardinality(s) <= n => g[s] = Summed(f, g, s)

LEMMA ChosenFacts ==
    ASSUME NEW s, IsFiniteSet(s), s # {}
    PROVE  /\ Chosen(s) \in s /\ IsFiniteSet(s \ {Chosen(s)})
           /\ Cardinality(s) \in Nat /\ Cardinality(s \ {Chosen(s)}) = Cardinality(s) - 1
<1>1. Chosen(s) \in s
    BY DEF Chosen
<1> QED BY <1>1, FS_RemoveElement, FS_CardinalityType

LEMMA SumsGoOn ==
    ASSUME NEW f, NEW S, IsFiniteSet(S), NEW n \in Nat, NEW g, SumsUpTo(f, S, g, n)
    PROVE  \E h : SumsUpTo(f, S, h, n + 1)
<1> DEFINE h == [s \in SUBSET S |-> Summed(f, g, s)]
<1>1. ASSUME NEW s \in SUBSET S, Cardinality(s) <= n + 1
      PROVE  h[s] = Summed(f, h, s)
    <2>1. CASE s = {}
        BY <2>1 DEF Summed
    <2>2. CASE s # {}
        <3> DEFINE r == s \ {Chosen(s)}
        <3>0. IsFiniteSet(s)
            BY FS_Subset
        <3>1. Cardinality(s) \in Nat /\ Cardinality(r) = Cardinality(s) - 1 /\ r \in SUBSET S
            BY <2>2, <3>0, ChosenFacts
        <3>2. Cardinality(r) <= n
            BY <1>1, <3>1
        <3>3. g[r] = Summed(f, g, r)
            BY <3>1, <3>2 DEF SumsUpTo
        <3>4. h[r] = g[r]
            BY <3>1, <3>3
        <3>5. h[s] = Summed(f, g, s)
            OBVIOUS
        <3> HIDE DEF h
        <3> QED BY <2>2, <3>4, <3>5 DEF Summed
    <2> QED BY <2>1, <2>2
<1>2. h = [s \in SUBSET S |-> h[s]]
    OBVIOUS
<1> HIDE DEF h
<1> QED BY <1>1, <1>2 DEF SumsUpTo

LEMMA SumsExist ==
    ASSUME NEW f, NEW S, IsFiniteSet(S)
    PROVE  \E g : g = [s \in SUBSET S |-> Summed(f, g, s)]
<1> DEFINE T == {n \in Nat : ~ \E g : SumsUpTo(f, S, g, n)}
<1>1. T = {}
    <2>1. SUFFICES ASSUME T # {} PROVE FALSE
        OBVIOUS
    <2>2. PICK m \in T : \A k \in T : m <= k
        BY <2>1, LeastNat
    <2>3. m # 0
        <3> DEFINE g == [s \in SUBSET S |-> 0]
        <3>1. ASSUME NEW s \in SUBSET S, Cardinality(s) <= 0 PROVE s = {}
            <4>1. IsFiniteSet(s)
                BY FS_Subset
            <4>2. Cardinality(s) \in Nat
                BY <4>1, FS_CardinalityType
            <4>3. Cardinality(s) = 0
                BY <3>1, <4>2
            <4> QED BY <4>1, <4>3, FS_EmptySet
        <3>2. SumsUpTo(f, S, g, 0)
            BY <3>1 DEF SumsUpTo, Summed
        <3> QED BY <3>2
    <2>4. m - 1 \in Nat /\ m - 1 \notin T
        BY <2>2, <2>3
    <2>5. PICK g : SumsUpTo(f, S, g, m - 1)
        BY <2>4
    <2>6. \E h : SumsUpTo(f, S, h, (m - 1) + 1)
        BY <2>4, <2>5, SumsGoOn
    <2>7. (m - 1) + 1 = m
        BY <2>4
    <2> QED BY <2>2, <2>6, <2>7
<1>2. Cardinality(S) \in Nat
    BY FS_CardinalityType
<1>3. PICK g : SumsUpTo(f, S, g, Cardinality(S))
    BY <1>1, <1>2
<1>4. \A s \in SUBSET S : g[s] = Summed(f, g, s)
    <2>1. \A s \in SUBSET S : Cardinality(s) <= Cardinality(S)
        BY FS_Subset
    <2> QED BY <1>3, <2>1 DEF SumsUpTo
<1>5. g = [s \in SUBSET S |-> Summed(f, g, s)]
    <2>1. g = [s \in SUBSET S |-> g[s]]
        BY <1>3 DEF SumsUpTo
    <2> QED BY <1>4, <2>1
<1> QED BY <1>5

\* The sums over the subsets of S, of whole numbers.
Sums(f, S, g) == \A s \in SUBSET S : g[s] = Summed(f, g, s)
Numbers(f, S) == \A x \in S : f[x] \in Int

\* What the definition of SumFunctionOnSet comes to.
SumBy(f, S, g) == SumFunctionOnSet(f, S) = g[S] /\ Sums(f, S, g)

LEMMA SumIs ==
    ASSUME NEW f, NEW S, IsFiniteSet(S)
    PROVE  \E g : SumBy(f, S, g)
<1> DEFINE g == CHOOSE g : g = [s \in SUBSET S |-> Summed(f, g, s)]
<1>1. g = [s \in SUBSET S |-> Summed(f, g, s)]
    BY SumsExist
<1>2. SumFunctionOnSet(f, S) = g[S]
    BY DEF SumFunctionOnSet, FoldFunctionOnSet, MapThenFoldSet, Summed, Chosen
<1>3. \A s \in SUBSET S : g[s] = Summed(f, g, s)
    <2> HIDE DEF g
    <2> QED BY <1>1
<1> QED BY <1>2, <1>3 DEF SumBy, Sums

\* Two such functions agree where what they sum does.
Alike(e, f, R) == \A x \in R : e[x] = f[x]
AgreeOn(g, h, R) == \A s \in SUBSET R : g[s] = h[s] /\ g[s] \in Int

LEMMA SumsAgree ==
    ASSUME NEW f, NEW S, IsFiniteSet(S), Numbers(f, S), NEW R, R \subseteq S,
           NEW e, Alike(e, f, R),
           NEW g, Sums(f, S, g), NEW h, Sums(e, R, h)
    PROVE  AgreeOn(g, h, R)
<1> DEFINE Bad(s) == ~(g[s] = h[s] /\ g[s] \in Int)
           T == {n \in Nat : \E s \in SUBSET R : Cardinality(s) = n /\ Bad(s)}
<1>1. T = {}
    <2>1. SUFFICES ASSUME T # {} PROVE FALSE
        OBVIOUS
    <2>2. PICK m \in T : \A k \in T : m <= k
        BY <2>1, LeastNat
    <2>3. PICK s \in SUBSET R : Cardinality(s) = m /\ Bad(s)
        BY <2>2
    <2> DEFINE r == s \ {Chosen(s)}
    <2>4. g[s] = Summed(f, g, s) /\ h[s] = Summed(e, h, s)
        BY DEF Sums
    <2>5. s # {}
        BY <2>3, <2>4 DEF Summed
    <2>6. IsFiniteSet(s)
        BY FS_Subset
    <2>7. r \in SUBSET R /\ Cardinality(r) = m - 1 /\ m - 1 \in Nat /\ Chosen(s) \in R /\ IsFiniteSet(r)
        BY <2>3, <2>5, <2>6, ChosenFacts, FS_CardinalityType
    <2>8. ~Bad(r)
        <3>1. m - 1 \notin T
            BY <2>2, <2>7
        <3> QED BY <2>7, <3>1
    <2>9. g[s] = f[Chosen(s)] + g[r] /\ h[s] = e[Chosen(s)] + h[r]
        BY <2>4, <2>5 DEF Summed
    <2>10. f[Chosen(s)] \in Int /\ e[Chosen(s)] = f[Chosen(s)]
        BY <2>7 DEF Numbers, Alike
    <2> HIDE DEF r
    <2>11. g[s] = h[s] /\ g[s] \in Int
        BY <2>8, <2>9, <2>10
    <2> QED BY <2>3, <2>11
<1>2. ASSUME NEW s \in SUBSET R PROVE ~Bad(s)
    <2>1. IsFiniteSet(s)
        BY FS_Subset
    <2>2. Cardinality(s) \in Nat
        BY <2>1, FS_CardinalityType
    <2> HIDE DEF Bad
    <2> QED BY <1>1, <2>2
<1> QED BY <1>2 DEF AgreeOn

\* A sum is what is chosen and the sum of the rest.
LEMMA SumUnfolds ==
    ASSUME NEW f, NEW S, IsFiniteSet(S), Numbers(f, S)
    PROVE  /\ SumFunctionOnSet(f, S) \in Int
           /\ S = {} => SumFunctionOnSet(f, S) = 0
           /\ S # {} => SumFunctionOnSet(f, S) =
                          f[Chosen(S)] + SumFunctionOnSet(f, S \ {Chosen(S)})
<1>1. PICK g : SumBy(f, S, g)
    BY SumIs
<1>2. Sums(f, S, g) /\ g[S] = Summed(f, g, S) /\ SumFunctionOnSet(f, S) = g[S]
    BY <1>1 DEF SumBy, Sums
<1>3. ASSUME NEW R, R \subseteq S
      PROVE  SumFunctionOnSet(f, R) = g[R] /\ g[R] \in Int
    <2>1. IsFiniteSet(R)
        BY <1>3, FS_Subset
    <2>2. PICK h : SumBy(f, R, h)
        BY <2>1, SumIs
    <2>3. PICK e : e = f
        OBVIOUS
    <2>4. Sums(e, R, h) /\ \A x \in R : e[x] = f[x]
        BY <2>2, <2>3 DEF SumBy
    <2>5. Alike(e, f, R) /\ Sums(f, S, g) /\ Sums(e, R, h)
        BY <1>2, <2>4 DEF Alike
    <2>6. AgreeOn(g, h, R)
        BY ONLY IsFiniteSet(S), Numbers(f, S), <1>3, <2>5, SumsAgree
    <2>7. g[R] = h[R] /\ g[R] \in Int
        BY <2>6 DEF AgreeOn
    <2> QED BY <2>2, <2>7 DEF SumBy
<1>4. S = {} => g[S] = 0
    BY <1>2 DEF Summed
<1>5. S # {} => g[S] = f[Chosen(S)] + g[S \ {Chosen(S)}]
    BY <1>2 DEF Summed
<1>6. S \ {Chosen(S)} \subseteq S
    OBVIOUS
<1> QED BY <1>2, <1>3, <1>4, <1>5, <1>6

\* One element more, whichever it is.
LEMMA SumAdds ==
    ASSUME NEW f, NEW U, IsFiniteSet(U), Numbers(f, U)
    PROVE  \A S \in SUBSET U : \A x \in U \ S :
              SumFunctionOnSet(f, S \cup {x}) = f[x] + SumFunctionOnSet(f, S)
<1>0. \A S \in SUBSET U : Numbers(f, S)
    BY DEF Numbers
<1> DEFINE Good(S, x) == SumFunctionOnSet(f, S \cup {x}) = f[x] + SumFunctionOnSet(f, S)
           T == {n \in Nat : \E R \in SUBSET U : \E z \in U : z \notin R /\ Cardinality(R) = n /\ ~Good(R, z)}
<1>1. T = {}
    <2>1. SUFFICES ASSUME T # {} PROVE FALSE
        OBVIOUS
    <2>2. PICK m \in T : \A k \in T : m <= k
        BY <2>1, LeastNat
    <2>3. PICK S \in SUBSET U, x \in U : x \notin S /\ Cardinality(S) = m /\ ~Good(S, x)
        BY <2>2
    <2> DEFINE V == S \cup {x}
               y == Chosen(V)
               R == S \ {y}
    <2>4. V # {} /\ V \in SUBSET U /\ IsFiniteSet(V) /\ IsFiniteSet(S) /\ IsFiniteSet(R) /\ V \ {y} \in SUBSET U
          /\ IsFiniteSet(V \ {y})
        BY FS_Subset
    <2>5. y \in V
        BY DEF Chosen
    <2>6. SumFunctionOnSet(f, V) = f[y] + SumFunctionOnSet(f, V \ {y})
        BY <1>0, <2>4, SumUnfolds
    <2> HIDE DEF y
    <2>7. y # x
        <3>1. SUFFICES ASSUME y = x PROVE FALSE
            OBVIOUS
        <3>2. V \ {y} = S
            BY <2>3, <3>1
        <3> QED BY <2>3, <2>6, <3>1, <3>2
    <2>8. y \in S /\ y \in U /\ y \notin R /\ x \in U \ R /\ R \in SUBSET U /\ S = R \cup {y} /\ V \ {y} = R \cup {x}
        BY <2>3, <2>5, <2>7
    <2>9. Cardinality(R) = m - 1 /\ m - 1 \in Nat
        <3>1. Cardinality(S) \in Nat /\ Cardinality(R) = Cardinality(S) - 1 /\ Cardinality(R) \in Nat
            BY <2>4, <2>8, FS_RemoveElement, FS_CardinalityType
        <3> QED BY <2>3, <3>1
    <2>10. m - 1 \notin T
        <3> HIDE DEF T
        <3>1. m \in Nat
            BY DEF T
        <3> QED BY <2>2, <2>9, <3>1
    <2>11. Good(R, x) 
        BY <2>8, <2>9, <2>10
    <2>12. Good(R, y)
        <3>1. y \in U \ R
            BY <2>8
        <3> QED BY <2>8, <2>9, <2>10, <3>1
    <2>13. /\ SumFunctionOnSet(f, V \ {y}) = f[x] + SumFunctionOnSet(f, R)
           /\ SumFunctionOnSet(f, S) = f[y] + SumFunctionOnSet(f, R)
        <3> HIDE DEF R, V
        <3> QED BY <2>3, <2>8, <2>11, <2>12
    <2>14. f[x] \in Int /\ f[y] \in Int /\ SumFunctionOnSet(f, R) \in Int
        BY <1>0, <2>4, <2>8, SumUnfolds DEF Numbers
    <2>15. SumFunctionOnSet(f, V) = f[x] + SumFunctionOnSet(f, S)
        <3> HIDE DEF R, V, y
        <3> QED BY <2>6, <2>13, <2>14
    <2> QED BY <2>3, <2>15
<1>2. ASSUME NEW S \in SUBSET U, NEW x \in U \ S PROVE Good(S, x)
    <2>1. IsFiniteSet(S)
        BY FS_Subset
    <2>2. Cardinality(S) \in Nat
        BY <2>1, FS_CardinalityType
    <2> HIDE DEF Good
    <2> QED BY <1>1, <2>2
<1> QED BY <1>2
\* A sum is of the values.
LEMMA SumSame ==
    ASSUME NEW f, NEW S, IsFiniteSet(S), Numbers(f, S),
           NEW e, \A x \in S : e[x] = f[x]
    PROVE  SumFunctionOnSet(e, S) = SumFunctionOnSet(f, S)
<1>1. PICK g : SumBy(f, S, g)
    BY SumIs
<1>2. PICK h : SumBy(e, S, h)
    BY SumIs
<1>3. S \in SUBSET S
    OBVIOUS
<1>4. AgreeOn(g, h, S)
    <2>1. Alike(e, f, S) /\ Sums(f, S, g) /\ Sums(e, S, h) /\ S \subseteq S
        BY <1>1, <1>2 DEF Alike, SumBy
    <2> QED BY ONLY IsFiniteSet(S), Numbers(f, S), <2>1, SumsAgree
<1> QED BY <1>1, <1>2, <1>3, <1>4 DEF SumBy, AgreeOn

\* The sum over two sets that share nothing.
LEMMA SumUnion ==
    ASSUME NEW f, NEW U, IsFiniteSet(U), Numbers(f, U), NEW R \in SUBSET U
    PROVE  \A S \in SUBSET U : R \cap S = {} =>
              SumFunctionOnSet(f, R \cup S) = SumFunctionOnSet(f, R) + SumFunctionOnSet(f, S)
<1>0. \A S \in SUBSET U : Numbers(f, S)
    BY DEF Numbers
<1> DEFINE Good(S) == SumFunctionOnSet(f, R \cup S) = SumFunctionOnSet(f, R) + SumFunctionOnSet(f, S)
           T == {n \in Nat : \E s \in SUBSET U : R \cap s = {} /\ Cardinality(s) = n /\ ~Good(s)}
<1>1. T = {}
    <2>1. SUFFICES ASSUME T # {} PROVE FALSE
        OBVIOUS
    <2>2. PICK m \in T : \A k \in T : m <= k
        BY <2>1, LeastNat
    <2>3. PICK S \in SUBSET U : R \cap S = {} /\ Cardinality(S) = m /\ ~Good(S)
        BY <2>2
    <2>4. IsFiniteSet(S) /\ IsFiniteSet(R)
        BY FS_Subset
    <2>5. SumFunctionOnSet(f, R) \in Int
        BY <1>0, <2>4, SumUnfolds
    <2>6. S # {}
        <3>1. SumFunctionOnSet(f, {}) = 0
            BY <1>0, FS_EmptySet, SumUnfolds
        <3>2. SUFFICES ASSUME S = {} PROVE FALSE
            OBVIOUS
        <3>3. R \cup S = R
            BY <3>2
        <3> QED BY <2>3, <2>5, <3>1, <3>2, <3>3
    <2>7. PICK x : x \in S
        BY <2>6
    <2> DEFINE V == S \ {x}
    <2>8. /\ V \in SUBSET U /\ x \in U /\ x \notin V /\ S = V \cup {x} /\ R \cap V = {}
          /\ R \cup V \in SUBSET U /\ x \notin R \cup V /\ R \cup S = (R \cup V) \cup {x}
        BY <2>3, <2>7
    <2>9. Cardinality(V) = m - 1 /\ m - 1 \in Nat /\ IsFiniteSet(V)
        <3>1. /\ Cardinality(S) \in Nat /\ Cardinality(V) = Cardinality(S) - 1
              /\ Cardinality(V) \in Nat /\ IsFiniteSet(V)
            BY <2>4, <2>7, FS_RemoveElement, FS_CardinalityType
        <3> QED BY <2>3, <3>1
    <2>10. m - 1 \notin T
        <3> HIDE DEF T
        <3>1. m \in Nat
            BY DEF T
        <3> QED BY <2>2, <2>9, <3>1
    <2>11. Good(V)
        <3> HIDE DEF Good, V
        <3> QED BY <2>8, <2>9, <2>10
    <2>12. SumFunctionOnSet(f, S) = f[x] + SumFunctionOnSet(f, V)
        <3> HIDE DEF V
        <3>1. x \in U \ V
            BY <2>8
        <3> QED BY <2>8, <3>1, SumAdds
    <2>13. SumFunctionOnSet(f, R \cup S) = f[x] + SumFunctionOnSet(f, R \cup V)
        <3> HIDE DEF V
        <3>1. x \in U \ (R \cup V)
            BY <2>8
        <3> QED BY <2>8, <3>1, SumAdds
    <2>14. f[x] \in Int /\ SumFunctionOnSet(f, V) \in Int
        BY <1>0, <2>8, <2>9, SumUnfolds DEF Numbers
    <2>15. Good(S)
        <3> HIDE DEF V
        <3> QED BY <2>5, <2>11, <2>12, <2>13, <2>14
    <2> QED BY <2>3, <2>15
<1>2. ASSUME NEW S \in SUBSET U, R \cap S = {} PROVE Good(S)
    <2>1. IsFiniteSet(S)
        BY FS_Subset
    <2>2. Cardinality(S) \in Nat
        BY <2>1, FS_CardinalityType
    <2> HIDE DEF Good
    <2> QED BY <1>1, <1>2, <2>2
<1> QED BY <1>2

-----------------------------------------------------------------------------
(* Reports: the total a screen shows is the sum of its days.               *)

\* What the constraints of the table make sure of.
Lawful(deals) ==
    /\ IsFiniteSet(deals) /\ deals \subseteq DealRow
    /\ \A d \in deals : d.phase = "closed" => d.closedAt # Null

\* What one core closed between two times.
ClosedIn(deals, c, from, to) ==
    {d \in deals : d.core = c /\ d.phase = "closed" /\ from <= d.closedAt /\ d.closedAt < to}

Columns == {"deals", "realized", "wins", "losses"}

\* A column of period_summary, of the deals closed in the period.
Column(deals, column) ==
    CASE column = "deals"    -> Cardinality(deals)
      [] column = "realized" -> SumFunctionOnSet([d \in deals |-> d.realized], deals)
      [] column = "wins"     -> Cardinality({d \in deals : d.realized > 0})
      [] column = "losses"   -> Cardinality({d \in deals : d.realized < 0})

LEMMA SummaryColumns ==
    ASSUME NEW file, NEW c, NEW from, NEW to, NEW column \in Columns
    PROVE  PeriodSummary(file, c, from, to)[column] =
             Column(ClosedIn(file.deals, c, from, to), column)
BY DEF PeriodSummary, ClosedIn, Column, Columns, SumFunction

\* Two sets of deals that share none add up.
LEMMA ColumnsAdd ==
    ASSUME NEW D, IsFiniteSet(D), D \subseteq DealRow, NEW R \in SUBSET D, NEW S \in SUBSET D,
           R \cap S = {}, NEW column \in Columns
    PROVE  /\ Column(R, column) \in Int
           /\ Column(R \cup S, column) = Column(R, column) + Column(S, column)
<1>1. \A X \in SUBSET D : IsFiniteSet(X) /\ Cardinality(X) \in Nat
    BY FS_Subset, FS_CardinalityType
<1>2. ASSUME NEW X \in SUBSET D, NEW Y \in SUBSET D, X \cap Y = {}
      PROVE  Cardinality(X \cup Y) = Cardinality(X) + Cardinality(Y)
    <2>1. /\ IsFiniteSet(X) /\ IsFiniteSet(Y) /\ IsFiniteSet(X \cap Y)
          /\ Cardinality(X) \in Nat /\ Cardinality(Y) \in Nat
        BY <1>1
    <2>2. Cardinality(X \cup Y) = Cardinality(X) + Cardinality(Y) - Cardinality(X \cap Y)
        BY <2>1, FS_Union
    <2>3. Cardinality(X \cap Y) = 0
        BY <1>2, FS_EmptySet
    <2> QED BY <2>1, <2>2, <2>3
<1>3. CASE column = "deals"
    BY <1>1, <1>2, <1>3 DEF Column
<1>4. CASE column = "wins"
    <2> DEFINE W(X) == {d \in X : d.realized > 0}
    <2>1. W(R \cup S) = W(R) \cup W(S) /\ W(R) \cap W(S) = {} /\ W(R) \in SUBSET D /\ W(S) \in SUBSET D
        OBVIOUS
    <2>2. \A X : Column(X, column) = Cardinality(W(X))
        BY <1>4 DEF Column
    <2> HIDE DEF W
    <2>3. Cardinality(W(R \cup S)) = Cardinality(W(R)) + Cardinality(W(S))
        BY <1>2, <2>1
    <2>4. Cardinality(W(R)) \in Int
        BY <1>1, <2>1
    <2>5. Column(R, column) = Cardinality(W(R)) /\ Column(S, column) = Cardinality(W(S))
        BY <2>2
    <2>6. Column(R \cup S, column) = Cardinality(W(R \cup S))
        BY <2>2
    <2> QED BY ONLY <2>3, <2>4, <2>5, <2>6
<1>5. CASE column = "losses"
    <2> DEFINE W(X) == {d \in X : d.realized < 0}
    <2>1. W(R \cup S) = W(R) \cup W(S) /\ W(R) \cap W(S) = {} /\ W(R) \in SUBSET D /\ W(S) \in SUBSET D
        OBVIOUS
    <2>2. \A X : Column(X, column) = Cardinality(W(X))
        BY <1>5 DEF Column
    <2> HIDE DEF W
    <2>3. Cardinality(W(R \cup S)) = Cardinality(W(R)) + Cardinality(W(S))
        BY <1>2, <2>1
    <2>4. Cardinality(W(R)) \in Int
        BY <1>1, <2>1
    <2>5. Column(R, column) = Cardinality(W(R)) /\ Column(S, column) = Cardinality(W(S))
        BY <2>2
    <2>6. Column(R \cup S, column) = Cardinality(W(R \cup S))
        BY <2>2
    <2> QED BY ONLY <2>3, <2>4, <2>5, <2>6
<1>6. CASE column = "realized"
    <2> DEFINE f == [d \in D |-> d.realized]
    <2>1. Numbers(f, D)
        BY DEF Numbers, DealRow
    <2>2. ASSUME NEW X \in SUBSET D
          PROVE  Column(X, column) = SumFunctionOnSet(f, X) /\ SumFunctionOnSet(f, X) \in Int
        <3> DEFINE e == [d \in X |-> d.realized]
        <3>1. IsFiniteSet(X) /\ Numbers(f, X)
            BY <1>1, <2>1 DEF Numbers
        <3>2. \A d \in X : e[d] = f[d]
            OBVIOUS
        <3>3. Column(X, column) = SumFunctionOnSet(e, X)
            BY <1>6 DEF Column
        <3> HIDE DEF e, f
        <3>4. SumFunctionOnSet(e, X) = SumFunctionOnSet(f, X)
            BY <3>1, <3>2, SumSame
        <3> QED BY <3>1, <3>3, <3>4, SumUnfolds
    <2> HIDE DEF f
    <2>3. SumFunctionOnSet(f, R \cup S) = SumFunctionOnSet(f, R) + SumFunctionOnSet(f, S)
        BY <2>1, SumUnion
    <2>4. R \cup S \in SUBSET D
        OBVIOUS
    <2> QED BY <2>2, <2>3, <2>4
<1> QED BY <1>3, <1>4, <1>5, <1>6 DEF Columns

\* A sequence behind one element.
LEMMA Behind ==
    ASSUME NEW S, NEW a \in S, NEW t \in Seq(S)
    PROVE  /\ Len(<<a>> \o t) = Len(t) + 1
           /\ (<<a>> \o t)[1] = a
           /\ \A i \in 2 .. Len(t) + 1 : (<<a>> \o t)[i] = t[i - 1]
OBVIOUS

\* The periods of a screen: the whole, and then each of its days.
LEMMA PeriodsAre ==
    /\ Len(Days) \in Nat /\ Len(Days) >= 2 /\ Len(Periods) = Len(Days)
    /\ \A i \in 1 .. Len(Days) : Days[i] \in Int
    /\ Periods[1][1] = Days[1] /\ Periods[1][2] = Days[Len(Days)]
    /\ \A i \in 2 .. Len(Days) : Periods[i][1] = Days[i - 1] /\ Periods[i][2] = Days[i]
<1>1. Len(Days) \in Nat /\ Len(Days) >= 2 /\ Days \in Seq(Int)
    BY LedgerAssumption
<1> DEFINE n == Len(Days)
           day(i) == <<Days[i], Days[i + 1]>>
           days == [i \in 1 .. n - 1 |-> day(i)]
           whole == <<Days[1], Days[n]>>
<1>2. \A i \in 1 .. n : Days[i] \in Int
    BY <1>1
<1>3. days \in Seq(Int \X Int) /\ Len(days) = n - 1 /\ n \in Nat /\ n >= 2
    BY <1>1, <1>2
<1>4. whole \in Int \X Int
    BY <1>1, <1>2
<1>5. \A i \in 2 .. n : days[i - 1] = <<Days[i - 1], Days[i]>>
    BY <1>1
<1>6. Periods = <<whole>> \o days
    BY DEF Periods
<1>7. whole[1] = Days[1] /\ whole[2] = Days[n]
    OBVIOUS
<1> HIDE DEF whole, days, n
<1>8. /\ Len(Periods) = Len(days) + 1 /\ Periods[1] = whole
      /\ \A i \in 2 .. Len(days) + 1 : Periods[i] = days[i - 1]
    BY <1>3, <1>4, <1>6, Behind
<1>9. Len(days) + 1 = n
    BY <1>3
<1>10. \A i \in 2 .. n : Periods[i][1] = Days[i - 1] /\ Periods[i][2] = Days[i]
    <2>1. TAKE i \in 2 .. n
    <2>2. Periods[i] = <<Days[i - 1], Days[i]>>
        BY <1>5, <1>8, <1>9
    <2> QED BY <2>2
<1> QED BY <1>1, <1>2, <1>7, <1>8, <1>9, <1>10 DEF n

\* The deals closed from the first day up to the k-th.
Until(deals, c, k) == ClosedIn(deals, c, Days[1], Days[k])
Daily(deals, c, i) == ClosedIn(deals, c, Periods[i][1], Periods[i][2])

\* One day after the other.
LEMMA DaysAdd ==
    ASSUME NEW deals, Lawful(deals), NEW c, NEW column \in Columns, NEW g,
           \A i \in 2 .. Len(Days) : g[i] = Column(Daily(deals, c, i), column)
    PROVE  SumFunctionOnSet(g, 2 .. Len(Days)) = Column(Until(deals, c, Len(Days)), column)
<1> DEFINE n == Len(Days)
           Good(k) == /\ Days[1] <= Days[k]
                      /\ SumFunctionOnSet(g, 2 .. k) = Column(Until(deals, c, k), column)
           T == {k \in Nat : k \in 1 .. n /\ ~Good(k)}
<1>0. n \in Nat /\ n >= 2 /\ \A i \in 1 .. n : Days[i] \in Int
    BY PeriodsAre
<1>1. IsFiniteSet(deals) /\ deals \subseteq DealRow
    BY DEF Lawful
<1>2. \A k : Until(deals, c, k) \in SUBSET deals
    BY DEF Until, ClosedIn
<1>3. \A i : Daily(deals, c, i) \in SUBSET deals
    BY DEF Daily, ClosedIn
<1>4. IsFiniteSet(2 .. n)
    BY <1>0, FS_Interval
<1>5. Numbers(g, 2 .. n)
    <2>1. ASSUME NEW i \in 2 .. n PROVE Column(Daily(deals, c, i), column) \in Int
        <3>1. Daily(deals, c, i) \in SUBSET deals /\ {} \in SUBSET deals /\ Daily(deals, c, i) \cap {} = {}
            BY <1>3
        <3> QED BY <1>1, <3>1, ColumnsAdd
    <2> QED BY <2>1 DEF Numbers
<1>6. T = {}
    <2>1. SUFFICES ASSUME T # {} PROVE FALSE
        OBVIOUS
    <2>2. PICK m \in T : \A k \in T : m <= k
        BY <2>1, LeastNat
    <2>3. m \in 1 .. n /\ ~Good(m)
        OBVIOUS
    <2>4. m # 1
        <3>1. SUFFICES ASSUME m = 1 PROVE FALSE
            OBVIOUS
        <3>2. Until(deals, c, 1) = {}
            <4>1. ASSUME NEW d \in DealRow PROVE ~(Days[1] <= d.closedAt /\ d.closedAt < Days[1])
                <5>1. Days[1] \in Int /\ d.closedAt \in Int
                    BY <1>0 DEF DealRow
                <5> QED BY <5>1
            <4> QED BY <1>1, <4>1 DEF Until, ClosedIn
        <3>3. Column({}, column) = 0
            <4>1. Column({}, column) \in Int /\ Column({} \cup {}, column) = Column({}, column) + Column({}, column)
                BY <1>1, ColumnsAdd
            <4>2. {} \cup {} = {}
                OBVIOUS
            <4> QED BY <4>1, <4>2
        <3>4. SumFunctionOnSet(g, 2 .. 1) = 0
            <4>1. 2 .. 1 = {} /\ Numbers(g, {})
                BY DEF Numbers
            <4> QED BY <4>1, FS_EmptySet, SumUnfolds
        <3>5. Days[1] <= Days[1]
            BY <1>0
        <3> QED BY <2>3, <3>1, <3>2, <3>3, <3>4, <3>5
    <2> DEFINE k == m - 1
    <2>5. k \in 1 .. n /\ k \in Nat /\ k + 1 = m /\ m \in 2 .. n /\ k \notin T
        BY <1>0, <2>2, <2>3, <2>4
    <2>6. Good(k)
        BY <2>5
    <2> HIDE DEF T, k
    <2>7. Days[1] <= Days[k] /\ Days[k] <= Days[m]
        <3>1. k \in 1 .. Len(Days) - 1
            BY <1>0, <2>5
        <3>2. Days[k] <= Days[k + 1]
            BY <3>1, LedgerAssumption
        <3> QED BY <2>5, <2>6, <3>2
    <2>8. Days[1] \in Int /\ Days[k] \in Int /\ Days[m] \in Int
        BY <1>0, <2>3, <2>5
    <2>9. Daily(deals, c, m) = ClosedIn(deals, c, Days[k], Days[m])
        <3>1. Periods[m][1] = Days[m - 1] /\ Periods[m][2] = Days[m]
            BY <2>5, PeriodsAre
        <3>2. m - 1 = k
            BY <2>5
        <3> QED BY <3>1, <3>2 DEF Daily
    <2>10. /\ Until(deals, c, m) = Until(deals, c, k) \cup Daily(deals, c, m)
           /\ Until(deals, c, k) \cap Daily(deals, c, m) = {}
        <3>1. ASSUME NEW d \in deals
              PROVE  /\ (Days[1] <= d.closedAt /\ d.closedAt < Days[m]) <=>
                          \/ Days[1] <= d.closedAt /\ d.closedAt < Days[k]
                          \/ Days[k] <= d.closedAt /\ d.closedAt < Days[m]
                     /\ ~(d.closedAt < Days[k] /\ Days[k] <= d.closedAt)
            <4>1. d.closedAt \in Int
                BY <1>1 DEF DealRow
            <4> QED BY <2>7, <2>8, <4>1
        <3> QED BY <2>9, <3>1 DEF Until, ClosedIn
    <2>11. Column(Until(deals, c, m), column) =
             Column(Until(deals, c, k), column) + Column(Daily(deals, c, m), column)
        BY <1>1, <1>2, <1>3, <2>10, ColumnsAdd
    <2>12. SumFunctionOnSet(g, 2 .. m) = g[m] + SumFunctionOnSet(g, 2 .. k)
        <3>1. 2 .. m = (2 .. k) \cup {m} /\ 2 .. k \in SUBSET (2 .. n) /\ m \in (2 .. n) \ (2 .. k)
            BY <1>0, <2>5
        <3>2. \A S \in SUBSET (2 .. n) : \A x \in (2 .. n) \ S :
                SumFunctionOnSet(g, S \cup {x}) = g[x] + SumFunctionOnSet(g, S)
            BY ONLY <1>4, <1>5, SumAdds
        <3>3. SumFunctionOnSet(g, (2 .. k) \cup {m}) = g[m] + SumFunctionOnSet(g, 2 .. k)
            BY ONLY <3>1, <3>2, Zenon
        <3> QED BY ONLY <3>1, <3>3, Zenon
    <2>13. g[m] = Column(Daily(deals, c, m), column)
        BY <2>5
    <2>14. Column(Until(deals, c, k), column) \in Int /\ Column(Daily(deals, c, m), column) \in Int
        <3>1. Column(Until(deals, c, k), column) \in Int
            BY <1>1, <1>2, <1>3, <2>10, ColumnsAdd
        <3>2. Daily(deals, c, m) \cap {} = {} /\ {} \in SUBSET deals
            OBVIOUS
        <3> QED BY <1>1, <1>3, <3>1, <3>2, ColumnsAdd
    <2>15. Good(m)
        <3>1. Days[1] <= Days[m]
            BY <2>7, <2>8
        <3>2. SumFunctionOnSet(g, 2 .. k) = Column(Until(deals, c, k), column)
            BY <2>6
        <3>3. SumFunctionOnSet(g, 2 .. m) = Column(Until(deals, c, m), column)
            BY <2>11, <2>12, <2>13, <2>14, <3>2
        <3> QED BY <3>1, <3>3
    <2> QED BY <2>3, <2>15
<1>7. n \in 1 .. n /\ n \in Nat
    BY <1>0
<1> QED BY <1>6, <1>7

(* What a screen under way has been told.                                  *)

\* The statements that are not about deals leave them alone.
LEMMA DealsKept ==
    ASSUME NEW f, IsFile(f)
    PROVE  /\ \A o : InsertOrder(f, o).deals = f.deals
           /\ \A o, status : UpdateOrder(f, o, status).deals = f.deals
           /\ \A o : RejectPendingOrder(f, o).deals = f.deals
           /\ \A fill : InsertFill(f, fill).deals = f.deals
           /\ \A bar : InsertCandle(f, bar).deals = f.deals
           /\ \A at : InsertAudit(f, at).deals = f.deals
           /\ \A m : ApplyMigration(f, m).deals = f.deals
           /\ \A series, rows : DeleteRows(f, series, rows).deals = f.deals
<1>1. PICK ids \in SUBSET Client : f \in FilesWith(ids)
    BY DEF IsFile
<1>2. \A o, status : UpdateOrder(f, o, status).deals = f.deals
    BY <1>1 DEF FilesWith, UpdateOrder
<1>3. \A o : InsertOrder(f, o).deals = f.deals
    BY <1>1 DEF FilesWith, InsertOrder
<1>4. \A fill : InsertFill(f, fill).deals = f.deals
    BY <1>1 DEF FilesWith, InsertFill
<1>5. /\ \A bar : InsertCandle(f, bar).deals = f.deals
      /\ \A at : InsertAudit(f, at).deals = f.deals
      /\ \A m : ApplyMigration(f, m).deals = f.deals
    BY <1>1 DEF FilesWith, InsertCandle, InsertAudit, ApplyMigration
<1>6. \A series, rows : DeleteRows(f, series, rows).deals = f.deals
    BY <1>1 DEF FilesWith, DeleteRows
<1> QED BY <1>2, <1>3, <1>4, <1>5, <1>6 DEF RejectPendingOrder

\* INSERT_DEAL keeps the table within its constraints.
LEMMA DealLawful ==
    ASSUME NEW f, IsFile(f), Lawful(f.deals), NEW deal \in Deals
    PROVE  Lawful(InsertDeal(f, deal).deals)
<1>1. PICK ids \in SUBSET Client : f \in FilesWith(ids)
    BY DEF IsFile
<1>2. deal \in DealRow
    BY LedgerAssumption
<1>3. \/ InsertDeal(f, deal).deals = f.deals
      \/ /\ InsertDeal(f, deal).deals = f.deals \cup {deal}
         /\ deal.phase = "closed" => deal.closedAt # Null
    BY <1>1 DEF FilesWith, InsertDeal
<1>4. IsFiniteSet(f.deals \cup {deal})
    BY FS_AddElement DEF Lawful
<1> QED BY <1>2, <1>3, <1>4 DEF Lawful

DealsLawful == \A f \in {main, log} : f # None => Lawful(f.deals)

\* The answer to a screen's i-th question.
Answer(c, view, i) == PeriodSummary([deals |-> view], c, Periods[i][1], Periods[i][2])

\* It has been told, of the deals it saw first, the periods asked so far.
Told(s, n) == s.answers = [i \in 1 .. n |-> Answer(s.core, s.view, i)]

ScreenTrue ==
    screen # None =>
        /\ stage = "trading"
        /\ screen = [core |-> screen.core, view |-> screen.view, answers |-> screen.answers]
        /\ Lawful(screen.view)
        /\ \E n \in 0 .. Len(Periods) : Told(screen, n)

LEMMA LiveDeals ==
    ASSUME Typed, DealsLawful, Running
    PROVE  IsFile(Live) /\ Lawful(Live.deals)
<1>1. IsFile(Live) /\ Live # None
    BY LiveFile DEF Typed
<1> QED BY <1>1 DEF DealsLawful, Live

LEMMA LogDeals ==
    ASSUME DealsLawful, UNCHANGED main, Lawful(log'.deals)
    PROVE  DealsLawful'
BY DEF DealsLawful

LEMMA DealsNext ==
    ASSUME Typed, DealsLawful, [Next]_vars
    PROVE  DealsLawful'
<1>1. ASSUME NEW b \in Builds, Start(b) PROVE DealsLawful'
    <2>1. Lawful(EmptyFile.deals)
        BY FS_EmptySet DEF Lawful, EmptyFile
    <2> QED BY <1>1, <2>1 DEF Start, DealsLawful, files
<1>2. CASE Repair
    BY <1>2 DEF Repair, MoveFile, MoveLog, TakeLog, RecoveryCut, RecoverAgain, DealsLawful, files
<1>3. CASE Migrate
    <2>1. Running
        BY <1>3 DEF Migrate, Running
    <2>2. IsFile(Live) /\ Lawful(Live.deals)
        BY <2>1, LiveDeals
    <2>3. UNCHANGED <<main, log>> \/ (log' = ApplyMigration(Live, Live.version + 1) /\ UNCHANGED main)
        BY <1>3 DEF Migrate, files
    <2>4. CASE UNCHANGED <<main, log>>
        BY <2>4 DEF DealsLawful
    <2>5. CASE log' = ApplyMigration(Live, Live.version + 1) /\ UNCHANGED main
        <3>1. log'.deals = Live.deals
            BY <2>2, <2>5, DealsKept
        <3> QED BY <2>2, <2>5, <3>1, LogDeals
    <2> QED BY <2>3, <2>4, <2>5
<1>4. CASE Ask \/ Trade \/ Crash \/ (\E c \in Core : Open(c)) \/ Question \/ CloseScreen
           \/ SweepStart \/ CountBefore \/ CountAfter \/ SweepEnd \/ UNCHANGED vars
           \/ \E o \in Client : Confirm(o) \/ Send(o) \/ VenueMoves(o) \/ Lose(o)
    <2>1. UNCHANGED <<main, log>>
        BY <1>4 DEF Ask, Trade, Crash, Open, Question, CloseScreen, SweepStart, CountBefore,
           CountAfter, SweepEnd, vars, Confirm, Send, VenueMoves, Lose, files
    <2> QED BY <2>1 DEF DealsLawful
<1>5. CASE Checkpoint
    BY <1>5 DEF Checkpoint, DealsLawful
\* A commit of a file with the same deals, or one more.
<1>6. ASSUME Running, NEW g, Commit(g),
             \/ g.deals = Live.deals
             \/ \E deal \in Deals : g = InsertDeal(Live, deal)
      PROVE  DealsLawful'
    <2>1. IsFile(Live) /\ Lawful(Live.deals)
        BY <1>6, LiveDeals
    <2>2. Lawful(g.deals)
        BY <1>6, <2>1, DealLawful
    <2>3. log' = g /\ UNCHANGED main
        BY <1>6 DEF Commit
    <2> QED BY <2>2, <2>3, LogDeals
<1>7. ASSUME NEW o \in Client, CloseOut(o) PROVE DealsLawful'
    <2>1. Running /\ Commit(RejectPendingOrder(Live, o))
        BY <1>7 DEF CloseOut, Running, Typed, CoreTyped
    <2>2. IsFile(Live)
        BY <2>1, LiveDeals
    <2>3. RejectPendingOrder(Live, o).deals = Live.deals
        BY <2>2, DealsKept
    <2> QED BY <1>6, <2>1, <2>3
<1>8. ASSUME NEW o \in Client, Place(o) PROVE DealsLawful'
    <2>1. Running /\ Commit(InsertOrder(Live, o))
        BY <1>8 DEF Place, RecordIntent, Running
    <2>2. IsFile(Live)
        BY <2>1, LiveDeals
    <2>3. InsertOrder(Live, o).deals = Live.deals
        BY <2>2, DealsKept
    <2> QED BY <1>6, <2>1, <2>3
<1>9. ASSUME NEW o \in Client, NEW status \in Status, Update(o, status) PROVE DealsLawful'
    <2>1. Running /\ Commit(UpdateOrder(Live, o, status))
        BY <1>9 DEF Update, Running
    <2>2. IsFile(Live)
        BY <2>1, LiveDeals
    <2>3. UpdateOrder(Live, o, status).deals = Live.deals
        BY <2>2, DealsKept
    <2> QED BY <1>6, <2>1, <2>3
<1>10. ASSUME NEW o \in Client, NEW trade \in 1..2, Fill(o, trade) PROVE DealsLawful'
    <2> DEFINE fill == [client |-> o, trade |-> trade]
    <2>1. Running /\ Commit(InsertFill(Live, fill))
        BY <1>10 DEF Fill, Running
    <2> HIDE DEF fill
    <2>2. IsFile(Live)
        BY <2>1, LiveDeals
    <2>3. InsertFill(Live, fill).deals = Live.deals
        BY <2>2, DealsKept
    <2> QED BY <1>6, <2>1, <2>3
<1>11. ASSUME NEW deal \in Deals, WriteDeal(deal) PROVE DealsLawful'
    <2>1. Running /\ Commit(InsertDeal(Live, deal))
        BY <1>11 DEF WriteDeal, History, Running
    <2> QED BY <1>6, <2>1
<1>12. ASSUME NEW bar \in Bars, WriteBar(bar) PROVE DealsLawful'
    <2>1. Running /\ Commit(InsertCandle(Live, bar))
        BY <1>12 DEF WriteBar, History, Running
    <2>2. IsFile(Live)
        BY <2>1, LiveDeals
    <2>3. InsertCandle(Live, bar).deals = Live.deals
        BY <2>2, DealsKept
    <2> QED BY <1>6, <2>1, <2>3
<1>13. CASE WriteAudit
    <2>1. Running /\ Commit(InsertAudit(Live, Today))
        BY <1>13 DEF WriteAudit, History, Running
    <2>2. IsFile(Live)
        BY <2>1, LiveDeals
    <2>3. InsertAudit(Live, Today).deals = Live.deals
        BY <2>2, DealsKept
    <2> QED BY <1>6, <2>1, <2>3
<1>14. CASE DeleteBatch
    <2>1. Running
        BY <1>14 DEF DeleteBatch, Sweeping, Running, Typed, SweepTyped
    <2>2. IsFile(Live) /\ Lawful(Live.deals)
        BY <2>1, LiveDeals
    <2>3. UNCHANGED main /\ \E rows : log' = DeleteRows(Live, Series, rows)
        BY <1>14 DEF DeleteBatch
    <2>4. log'.deals = Live.deals
        BY <2>2, <2>3, DealsKept
    <2> QED BY <2>2, <2>3, <2>4, LogDeals
<1> QED
    BY <1>1, <1>2, <1>3, <1>4, <1>5, <1>7, <1>8, <1>9, <1>10, <1>11, <1>12, <1>13, <1>14 DEF Next

\* One more answer.
LEMMA OneMore ==
    ASSUME NEW F, NEW n \in Nat
    PROVE  Append([i \in 1 .. n |-> F[i]], F[n + 1]) = [i \in 1 .. n + 1 |-> F[i]]
<1> DEFINE s == [i \in 1 .. n |-> F[i]]
           S == {F[i] : i \in 1 .. n + 1}
<1>1. s \in Seq(S) /\ F[n + 1] \in S /\ Len(s) = n
    OBVIOUS
<1>2. \A i \in 1 .. n : s[i] = F[i]
    OBVIOUS
<1> HIDE DEF s, S
<1>3. /\ Append(s, F[n + 1]) \in Seq(S) /\ Len(Append(s, F[n + 1])) = n + 1
      /\ \A i \in 1 .. n : Append(s, F[n + 1])[i] = s[i]
      /\ Append(s, F[n + 1])[n + 1] = F[n + 1]
    BY <1>1
<1>4. Append(s, F[n + 1]) = [i \in 1 .. n + 1 |-> F[i]]
    BY <1>2, <1>3
<1> QED BY <1>4 DEF s

LEMMA QuestionTold ==
    ASSUME Typed, ScreenTrue, Question
    PROVE  ScreenTrue'
<1>1. /\ screen # None /\ stage = "trading" /\ stage' = stage
      /\ screen = [core |-> screen.core, view |-> screen.view, answers |-> screen.answers]
      /\ Lawful(screen.view) /\ Len(screen.answers) < Len(Periods)
    BY DEF Question, ScreenTrue
<1>2. PICK n \in 0 .. Len(Periods) : Told(screen, n)
    BY <1>1 DEF ScreenTrue
<1> DEFINE c == screen.core
           view == screen.view
           F == [i \in 1 .. Len(Periods) |-> Answer(c, view, i)]
<1>3. Len(Periods) \in Nat /\ n \in Nat
    BY <1>2, PeriodsAre
<1>4. screen.answers = [i \in 1 .. n |-> F[i]]
    <2>1. 1 .. n \subseteq 1 .. Len(Periods)
        BY <1>2, <1>3
    <2> QED BY <1>2, <2>1 DEF Told
<1>5. Len(screen.answers) = n /\ n + 1 \in 1 .. Len(Periods)
    <2>1. Len([i \in 1 .. n |-> F[i]]) = n
        BY <1>3
    <2> HIDE DEF F
    <2> QED BY <1>1, <1>3, <1>4, <2>1
<1>6. IsFile(Live)
    BY <1>1, LiveFile DEF Typed, Running
<1>7. Seen.deals = screen.view
    BY <1>6 DEF Seen, IsFile, FilesWith
<1>8. PeriodSummary(Seen, c, Periods[n + 1][1], Periods[n + 1][2]) = F[n + 1]
    BY <1>5, <1>7 DEF PeriodSummary, Answer
<1>9. screen' = [screen EXCEPT !.answers = Append(@, F[n + 1])]
    BY <1>5, <1>8 DEF Question
<1> HIDE DEF F
<1>10. screen' = [core |-> c, view |-> view, answers |-> Append([i \in 1 .. n |-> F[i]], F[n + 1])]
    BY <1>1, <1>4, <1>9
<1>11. screen' = [core |-> c, view |-> view, answers |-> [i \in 1 .. n + 1 |-> F[i]]]
    BY <1>3, <1>10, OneMore
<1>12. screen'.core = c /\ screen'.view = view /\ screen'.answers = [i \in 1 .. n + 1 |-> F[i]]
    BY <1>11
<1>13. Told(screen', n + 1)
    <2>1. \A i \in 1 .. n + 1 : F[i] = Answer(c, view, i)
        <3>1. 1 .. n + 1 \subseteq 1 .. Len(Periods)
            BY <1>3, <1>5
        <3> QED BY <3>1 DEF F
    <2>2. screen'.answers = [i \in 1 .. n + 1 |-> Answer(c, view, i)]
        BY <1>12, <2>1
    <2> QED BY <1>12, <2>2 DEF Told
<1>14. Len(Periods)' = Len(Periods)
    BY DEF Periods
<1>15. n + 1 \in 0 .. Len(Periods)
    BY <1>3, <1>5
<1> HIDE DEF c, view
<1>16. screen' = [core |-> screen'.core, view |-> screen'.view, answers |-> screen'.answers]
    BY <1>11, <1>12
<1>17. \E k \in 0 .. Len(Periods) : Told(screen', k)
    BY <1>13, <1>15
<1> QED BY <1>1, <1>12, <1>14, <1>16, <1>17 DEF ScreenTrue, Told, Answer, view, Periods, PeriodSummary

LEMMA ScreenNext ==
    ASSUME Typed, DealsLawful, ScreenTrue, [Next]_vars
    PROVE  ScreenTrue'
<1>1. CASE UNCHANGED screen
    <2>1. CASE screen = None
        BY <1>1, <2>1 DEF ScreenTrue
    <2>2. CASE screen # None
        <3>1. stage = "trading" /\ ~Crash
            BY <1>1, <2>2 DEF ScreenTrue, Crash
        <3>2. stage' = "trading"
            BY <3>1 DEF Next, Start, Repair, MoveFile, MoveLog, RecoveryCut, RecoverAgain,
               Migrate, Ask, Trade, Checkpoint, CloseOut,
               Confirm, Place, Send, VenueMoves, Lose, Update, Fill, WriteDeal, Open, Question,
               CloseScreen, WriteBar, WriteAudit, SweepStart, CountBefore, DeleteBatch,
               CountAfter, SweepEnd, vars
        <3>3. \A c, view, i : Answer(c, view, i)' = Answer(c, view, i)
            BY DEF Answer
        <3>4. (\E n \in 0 .. Len(Periods) : Told(screen, n))'
            BY <1>1, <2>2, <3>3 DEF ScreenTrue, Told, Periods
        <3> QED BY <1>1, <2>2, <3>2, <3>4 DEF ScreenTrue, Lawful
    <2> QED BY <2>1, <2>2
<1>2. CASE Question
    BY <1>2, QuestionTold
<1>3. ASSUME NEW c \in Core, Open(c) PROVE ScreenTrue'
    <2>1. Running /\ stage' = "trading" /\ screen' = [core |-> c, view |-> Live.deals, answers |-> <<>>]
        BY <1>3 DEF Open, History, Running
    <2>2. Lawful(Live.deals)
        BY <2>1, LiveDeals
    <2>3. Told(screen', 0)
        BY <2>1 DEF Told
    <2>4. 0 \in 0 .. Len(Periods)
        BY PeriodsAre
    <2>5. /\ screen' = [core |-> screen'.core, view |-> screen'.view, answers |-> screen'.answers]
          /\ Lawful(screen'.view)
        BY <2>1, <2>2
    <2> QED BY <2>1, <2>3, <2>4, <2>5 DEF ScreenTrue, Told, Answer, Periods, PeriodSummary
<1>4. CASE screen' = None
    BY <1>4 DEF ScreenTrue
<1>5. \/ UNCHANGED screen \/ Question \/ (\E c \in Core : Open(c)) \/ screen' = None
    BY DEF Next, Start, Repair, Migrate, Ask, Trade, Crash, Checkpoint, CloseOut, Confirm,
        Place, Send, VenueMoves, Lose, Update, Fill, WriteDeal, CloseScreen,
        WriteBar, WriteAudit, SweepStart, CountBefore, DeleteBatch, CountAfter, SweepEnd, vars
<1> QED BY <1>1, <1>2, <1>3, <1>4, <1>5

\* "The total equals the sum of the days" (read.rs), for any days and any deals, whatever
\* is written while the screen is filled; and a closed deal of those days is in both.
THEOREM ScreensAgree == Spec => []ScreenAgrees
<1>1. Init => DealsLawful /\ ScreenTrue
    <2> SUFFICES ASSUME Init PROVE DealsLawful /\ ScreenTrue
        OBVIOUS
    <2>1. ASSUME NEW f \in Left, f # None PROVE Lawful(f.deals)
        <3>1. PICK ids \in SUBSET Client : f \in FilesWith(ids)
            BY <2>1, LedgerAssumption DEF IsFile
        <3>2. IsFiniteSet(f.deals) /\ \A d \in f.deals : d.phase = "closed" => d.closedAt # Null
            BY <2>1, LedgerAssumption
        <3> QED BY <3>1, <3>2 DEF Lawful, FilesWith
    <2> QED BY <2>1 DEF Init, DealsLawful, ScreenTrue
<1>2. ScreenTrue => ScreenAgrees
    <2> SUFFICES ASSUME ScreenTrue, screen # None, Len(screen.answers) = Len(Periods)
                 PROVE  ScreenAgrees
        BY DEF ScreenAgrees
    <2> DEFINE c == screen.core
               view == screen.view
               last == Len(Days)
    <2>1. Lawful(view)
        BY DEF ScreenTrue
    <2>2. PICK n \in 0 .. Len(Periods) : screen.answers = [i \in 1 .. n |-> Answer(c, view, i)]
        BY DEF ScreenTrue, Told
    <2>3. /\ last \in Nat /\ last >= 2 /\ Len(Periods) = last
          /\ Periods[1][1] = Days[1] /\ Periods[1][2] = Days[last]
        BY PeriodsAre
    <2>4. n = last
        <3>1. Len([i \in 1 .. n |-> Answer(c, view, i)]) = n
            BY <2>2, <2>3
        <3> QED BY <2>2, <2>3, <3>1
    <2>5. \A i \in 1 .. last : screen.answers[i] = Answer(c, view, i)
        BY <2>2, <2>4
    <2> HIDE DEF c, view, last
    <2>6. \A i : \A column \in Columns : Answer(c, view, i)[column] = Column(Daily(view, c, i), column)
        <3>1. TAKE i
        <3>2. TAKE column \in Columns
        <3>3. [deals |-> view].deals = view
            OBVIOUS
        <3> QED BY <3>3, SummaryColumns DEF Answer, Daily
    <2>7. Daily(view, c, 1) = Until(view, c, last)
        BY <2>3 DEF Daily, Until, last
    <2>8. ASSUME NEW column \in Columns
          PROVE  screen.answers[1][column] = SumFunction([i \in 2 .. Len(Periods) |-> screen.answers[i][column]])
        <3> DEFINE g == [i \in 2 .. last |-> screen.answers[i][column]]
        <3>1. \A i \in 2 .. last : g[i] = Column(Daily(view, c, i), column)
            BY <2>3, <2>5, <2>6
        <3>2. DOMAIN g = 2 .. last /\ g = [i \in 2 .. Len(Periods) |-> screen.answers[i][column]]
            BY <2>3
        <3>3. screen.answers[1][column] = Column(Until(view, c, last), column)
            <4>1. 1 \in 1 .. last
                BY <2>3
            <4> QED BY <2>5, <2>6, <2>7, <4>1
        <3> HIDE DEF g
        <3>4. SumFunctionOnSet(g, 2 .. last) = Column(Until(view, c, last), column)
            BY <2>1, <3>1, DaysAdd DEF last
        <3> QED BY <3>2, <3>3, <3>4 DEF SumFunction
    <2>9. screen.answers[1].deals = Cardinality(Until(view, c, last))
        <3>1. 1 \in 1 .. last /\ "deals" \in Columns
            BY <2>3 DEF Columns
        <3>2. screen.answers[1]["deals"] = Column(Until(view, c, last), "deals")
            BY <2>5, <2>6, <2>7, <3>1
        <3> QED BY <3>2 DEF Column
    <2>10. Until(view, c, last) = {d \in view : d.core = c /\ d.phase = "closed" /\ ~Elsewhere(d)}
        BY <2>1 DEF Until, ClosedIn, Lawful, Elsewhere, last
    <2> QED BY <2>8, <2>9, <2>10 DEF ScreenAgrees, Columns, c, view
<1>3. Typed /\ DealsLawful /\ ScreenTrue /\ [Next]_vars => DealsLawful' /\ ScreenTrue'
    BY DealsNext, ScreenNext
<1> QED BY <1>1, <1>2, <1>3, AlwaysTyped, PTL DEF Spec

=============================================================================
