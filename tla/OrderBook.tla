----------------------------- MODULE OrderBook -----------------------------
(***************************************************************************)
(* The local order book and the update that moves it: OrderBook::apply of  *)
(* crates/domain/src/market.rs, shared by the connector (BookSet), the     *)
(* core's read-model (MarketState) and the terminal's feed; with what a    *)
(* consumer does with a book's events, and what the venue sends of one.    *)
(*                                                                         *)
(* A price level of either side is one element of Level; a level that is   *)
(* not in the book has the quantity Absent.  The order of the two vectors  *)
(* of levels, timestamps and the symbol are left out.                      *)
(***************************************************************************)
EXTENDS Naturals

CONSTANTS Level,    \* price levels, of both sides
          Qty,      \* quantities a level can hold, Absent among them
          Absent,   \* the zero quantity: "drop this level"
          NoBook,   \* None where the code has Option<OrderBook>
          VenueBook(_, _)    \* the levels of the venue's book at each number of each connection

Book == [levels : [Level -> Qty], last : Nat, synced : BOOLEAN]

Delta == [prev : Nat, last : Nat, changes : UNION {[S -> Qty] : S \in SUBSET Level}]

ASSUME NoBookAssumption == NoBook \notin Book
ASSUME AbsentAssumption == Absent \in Qty

\* apply_side: absolute quantities replace what the book holds (an Absent one
\* drops the level), levels the update does not name keep theirs.
Merge(levels, changes) ==
    [l \in DOMAIN levels |-> IF l \in DOMAIN changes THEN changes[l] ELSE levels[l]]

\* A mutant: an update that ends at the book's own number is not taken for stale.
IsStaleBefore(book, delta) == delta.last < book.last

IsStale(book, delta) == delta.last <= book.last

\* Mutants: a snapshot that has not joined the stream accepts any newer update; it accepts
\* only the update that names its id, as a chained book does.
ContinuesAnywhere(book, delta) == book.synced => delta.prev = book.last

ContinuesExactly(book, delta) == delta.prev = book.last

\* A chained book accepts only the update that names its id; a snapshot that has
\* not joined the stream yet accepts the update that spans its id.
Continues(book, delta) ==
    IF book.synced THEN delta.prev = book.last ELSE delta.prev <= book.last

ApplyOutcome(book, delta) ==
    IF IsStale(book, delta) THEN "Stale"
    ELSE IF Continues(book, delta) THEN "Applied"
    ELSE "Gap"

\* The book after apply(delta); a stale or gapped update leaves it alone.
ApplyDelta(book, delta) ==
    IF ApplyOutcome(book, delta) = "Applied"
    THEN [levels |-> Merge(book.levels, delta.changes), last |-> delta.last, synced |-> TRUE]
    ELSE book

-----------------------------------------------------------------------------
(* How a consumer of book events keeps its copy of one book: the core's    *)
(* read-model (MarketState::apply, crates/core/src/state.rs) and, with the *)
(* same rules, the terminal's feed (apply, crates/terminal/src/feed.rs).   *)
(* An event carries either a whole book or one update.                     *)

SnapshotEvent(book) == [kind |-> "BookSnapshot", book |-> book]
DeltaEvent(delta)   == [kind |-> "BookDelta", delta |-> delta]

\* A mutant: an update is applied without asking whether it chains.
FoldBookBlindly(held, event) ==
    IF event.kind = "BookSnapshot" THEN event.book
    ELSE IF held = NoBook \/ IsStale(held, event.delta) THEN held
    ELSE [levels |-> Merge(held.levels, event.delta.changes),
          last |-> event.delta.last, synced |-> TRUE]

\* The copy held after one more event. An update to a book that is not held is
\* ignored, and one that does not chain drops the copy.
FoldBook(held, event) ==
    IF event.kind = "BookSnapshot" THEN event.book
    ELSE IF held = NoBook \/ ApplyOutcome(held, event.delta) = "Gap" THEN NoBook
    ELSE ApplyDelta(held, event.delta)

-----------------------------------------------------------------------------
(* The venue as the connector sees it.  The venue is outside the           *)
(* repository; crates/binance/src/wire.rs turns what it sends into the     *)
(* books and updates built here.                                           *)

\* The levels that did not keep one quantity from number p to number q.
Touched(e, p, q) ==
    {l \in Level : \E m, n \in p..q : VenueBook(e, m)[l] # VenueBook(e, n)[l]}

\* The update that takes connection e from number p to number q.
VenueDelta(e, p, q) ==
    [prev |-> p, last |-> q, changes |-> [l \in Touched(e, p, q) |-> VenueBook(e, q)[l]]]

\* The book of a REST answer, which has still to join the stream.
VenueSnapshot(e, n) == [levels |-> VenueBook(e, n), last |-> n, synced |-> FALSE]
=============================================================================
