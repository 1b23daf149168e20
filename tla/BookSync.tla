------------------------------ MODULE BookSync ------------------------------
(***************************************************************************)
(* The connector keeping one order book correct: the venue, its lossy      *)
(* stream of updates and its REST snapshots, the socket task that          *)
(* reconnects, the pump that feeds a BookSet, and the snapshot fetches     *)
(* that run on tasks of their own (crates/binance/src/lib.rs with          *)
(* crates/marketdata/src/books.rs).  What the pump publishes is folded     *)
(* into `shown`, the copy of a consumer that misses nothing.               *)
(*                                                                         *)
(* The venue numbers the states of its book; VenueBook(e, n) is the book   *)
(* it has at number n of connection e.  Numbers start again at every       *)
(* connection: "sequence numbers do not survive a reconnect".              *)
(***************************************************************************)
EXTENDS BookSet

CONSTANTS MaxEpoch,          \* connections in one behaviour
          FirstId,           \* the venue's number when a connection starts
          MaxId,             \* the last number of a connection
          MaxStep,           \* most numbers one update spans
          MaxStream,         \* updates in flight on the socket
          RestLag,           \* how far a REST answer may be behind the venue
          MaxFetches,        \* snapshot fetches running at once
          FetchLife          \* ticks within which a fetch has reported or died

ASSUME BookSyncAssumption ==
    /\ \A e \in 1..MaxEpoch, n \in 0..MaxId : VenueBook(e, n) \in [Level -> Qty]
    /\ MaxEpoch \in Nat \ {0} /\ MaxId \in Nat /\ FirstId \in 0..MaxId /\ MaxStep \in Nat /\ MaxStream \in Nat
    /\ RestLag \in Nat /\ MaxFetches \in Nat /\ FetchLife \in Nat

VARIABLES epoch,     \* which connection this is, or the last one was
          up,        \* the pump is running
          head,      \* the venue's current number
          stream,    \* updates on the socket, oldest first
          entry,     \* the BookSet entry of the symbol
          fetches,   \* the snapshot fetches of this connection
          shown,     \* the book a consumer holds
          shownIn,   \* the connection the consumer last heard of a book on
          rested     \* ticks since a fetch was spawned on this connection, up to Cooldown

vars == <<epoch, up, head, stream, entry, fetches, shown, shownIn, rested>>

Slot == 1..MaxFetches

\* A running fetch has no book until the venue has answered it.
Fetch == [busy : BOOLEAN, age : 0..FetchLife, snap : Book \cup {NoBook}]

Idle    == [busy |-> FALSE, age |-> 0, snap |-> NoBook]
Started == [busy |-> TRUE, age |-> 0, snap |-> NoBook]

Init ==
    /\ epoch = 1
    /\ up = TRUE
    /\ head = FirstId
    /\ stream = <<>>
    /\ entry = FreshEntry
    /\ fetches = [i \in Slot |-> Idle]
    /\ shown = NoBook
    /\ shownIn = 0
    /\ rested = Cooldown

-----------------------------------------------------------------------------
(* The venue, which is outside the repository.                             *)

\* The venue's book moves on. The update reaches the socket, or it is lost: a frame
\* that fails to decode is skipped in silence.
VenueUpdate(step, lost) ==
    /\ up
    /\ head + step <= MaxId
    /\ Len(stream) < MaxStream
    /\ head' = head + step
    /\ stream' = IF lost THEN stream ELSE Append(stream, VenueDelta(epoch, head, head + step))
    /\ UNCHANGED <<epoch, up, entry, fetches, shown, shownIn, rested>>

\* The venue answers a REST request with a book of at most RestLag numbers ago.
RestAnswers(i, n) ==
    /\ fetches[i].busy
    /\ fetches[i].snap = NoBook
    /\ n + RestLag >= head
    /\ fetches' = [fetches EXCEPT ![i].snap = VenueSnapshot(epoch, n)]
    /\ UNCHANGED <<epoch, up, head, stream, entry, shown, shownIn, rested>>

-----------------------------------------------------------------------------
(* The pump.                                                               *)

Publish(event) ==
    /\ shown' = FoldBook(shown, event)
    /\ shownIn' = epoch

\* tokio::spawn of a fetch. MaxFetches bounds how many the model runs at once.
SpawnFetch ==
    \E i \in Slot :
        /\ ~fetches[i].busy
        /\ \A j \in Slot : j < i => fetches[j].busy
        /\ fetches' = [fetches EXCEPT ![i] = Started]
        /\ rested' = 0

\* on_delta of lib.rs: absorb the update, publish what is safe to, fetch if needed.
DeltaArrives ==
    /\ stream # <<>>
    /\ stream' = Tail(stream)
    /\ LET delta   == Head(stream)
           outcome == OnDelta(entry, delta)
       IN  /\ entry' = outcome.entry
           /\ IF outcome.attached THEN Publish(SnapshotEvent(outcome.entry.book))
              ELSE IF outcome.forward THEN Publish(DeltaEvent(delta))
              ELSE UNCHANGED <<shown, shownIn>>
           /\ IF outcome.need THEN SpawnFetch ELSE UNCHANGED <<fetches, rested>>
    /\ UNCHANGED <<epoch, up, head>>

\* SnapshotResult::Fetched reaches the pump.
SnapshotArrives(i) ==
    /\ fetches[i].snap # NoBook
    /\ fetches' = [fetches EXCEPT ![i] = Idle]
    /\ LET installed == InstallSnapshot(entry, fetches[i].snap)
       IN  /\ entry' = installed.entry
           /\ IF installed.attached THEN Publish(SnapshotEvent(installed.entry.book))
              ELSE UNCHANGED <<shown, shownIn>>
    /\ UNCHANGED <<epoch, up, head, stream, rested>>

\* SnapshotResult::Failed reaches the pump: refused, rate limited, timed out.
FetchFails(i) ==
    /\ fetches[i].busy
    /\ fetches' = [fetches EXCEPT ![i] = Idle]
    /\ entry' = SnapshotFailed(entry)
    /\ UNCHANGED <<epoch, up, head, stream, shown, shownIn, rested>>

\* A fetch that never reports back: its task died.
FetchDies(i) ==
    /\ fetches[i].busy
    /\ fetches' = [fetches EXCEPT ![i] = Idle]
    /\ UNCHANGED <<epoch, up, head, stream, entry, shown, shownIn, rested>>

\* A mutant: books.reset() is forgotten.
DisconnectKeepingBooks ==
    /\ up
    /\ up' = FALSE
    /\ stream' = <<>>
    /\ fetches' = [i \in Slot |-> Idle]
    /\ rested' = Cooldown
    /\ UNCHANGED <<epoch, head, entry, shown, shownIn>>

\* The pump returns Exit::Reconnect. What was on the socket is lost, books.reset()
\* forgets the entry, and the fetches still running report to a closed channel.
Disconnect ==
    /\ up
    /\ up' = FALSE
    /\ stream' = <<>>
    /\ entry' = FreshEntry
    /\ fetches' = [i \in Slot |-> Idle]
    /\ rested' = Cooldown
    /\ UNCHANGED <<epoch, head, shown, shownIn>>

\* connect_async succeeds and the pump subscribes again.
Connect ==
    /\ ~up
    /\ epoch < MaxEpoch
    /\ up' = TRUE
    /\ epoch' = epoch + 1
    /\ head' = FirstId
    /\ UNCHANGED <<stream, entry, fetches, shown, shownIn, rested>>

\* Time passes. The HTTP client's timeout ends every fetch within FetchLife.
Tick ==
    /\ \A i \in Slot : fetches[i].age < FetchLife
    /\ entry' = Aged(entry)
    /\ fetches' = [i \in Slot |->
                      IF fetches[i].busy THEN [fetches[i] EXCEPT !.age = @ + 1] ELSE fetches[i]]
    /\ rested' = IF rested < Cooldown THEN rested + 1 ELSE rested
    /\ UNCHANGED <<epoch, up, head, stream, shown, shownIn>>

Next ==
    \/ \E step \in 1..MaxStep, lost \in BOOLEAN : VenueUpdate(step, lost)
    \/ \E i \in Slot, n \in 0..head : RestAnswers(i, n)
    \/ DeltaArrives
    \/ \E i \in Slot : SnapshotArrives(i)
    \/ \E i \in Slot : FetchFails(i)
    \/ \E i \in Slot : FetchDies(i)
    \/ Disconnect
    \/ Connect
    \/ Tick

Spec == Init /\ [][Next]_vars

-----------------------------------------------------------------------------
(* Properties.                                                             *)

\* Every variable has its type, and the updates held back stay within MAX_BUFFERED.
TypeOK ==
    /\ epoch \in 1..MaxEpoch
    /\ up \in BOOLEAN
    /\ head \in 0..MaxId
    /\ stream \in Seq(Delta)
    /\ entry \in Entry /\ Len(entry.buffered) <= MaxBuffered
    /\ fetches \in [Slot -> Fetch]
    /\ shown \in Book \cup {NoBook}
    /\ shownIn \in 0..epoch
    /\ rested \in 0..Cooldown

HasBook == entry.book # NoBook
Live    == HasBook /\ entry.book.synced

\* A book the connector or a consumer holds is exactly the venue's book at the number it
\* bears: no interleaving of snapshots, replays, late fetches, losses and reconnects merges
\* two moments into one book (OrderBook::apply, on_delta, install_snapshot, reset).
BooksAreTrue ==
    /\ HasBook => entry.book.levels = VenueBook(epoch, entry.book.last)
    /\ shown # NoBook => shown.levels = VenueBook(shownIn, shown.last)

\* While the connector has a live book, a consumer of everything it published holds the same
\* book: `forward` and `attached` never leave one of the two ahead.
ConsumersAgree == Live => shown = entry.book /\ shownIn = epoch

\* "The connector only forwards updates that chain, so a gap here would mean the core
\* disagrees with itself": the read-model's gap branch is never taken.
ReadModelNeverTorn == [][shown # NoBook => shown' # NoBook]_vars

\* What consumers are shown never goes back in the venue's numbering while one connection
\* lasts, however late a snapshot is installed (install_snapshot overwrites a live book).
ShownMovesForward ==
    [][shownIn = shownIn' /\ shown # shown' => shown'.last > shown.last]_vars

\* The updates held back are newer and newer, and none is held while there is a book
\* to apply it to (Entry::buffer; the replay relies on the order of arrival).
HeldBackInOrder ==
    /\ HasBook => entry.buffered = <<>>
    /\ \A i, j \in DOMAIN entry.buffered :
          i < j => entry.buffered[i].last <= entry.buffered[j].prev

\* "Without this a gap storm turns into a REST hammer": short of a full buffer, which
\* forgets the request, two fetches of a connection are spawned a cooldown apart, whatever
\* was lost, refused, or answered late in between.
RestNotHammered ==
    [][\A i \in Slot :
          fetches'[i] = Started /\ fetches[i] # Started /\ Len(entry.buffered) < MaxBuffered =>
             rested = Cooldown]_vars

\* The promise the rest of the system builds on (see BookFeed): what is published of a
\* connection starts with a whole book, chains from there, and never goes back.
Feed == INSTANCE BookFeed WITH
    MaxFeedId <- MaxId,
    session   <- epoch,
    live      <- Live,
    position  <- IF shownIn = epoch THEN shown.last ELSE 0

ImplementsFeed == Feed!FeedSpec
=============================================================================
