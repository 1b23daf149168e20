------------------------------ MODULE BookSet ------------------------------
(***************************************************************************)
(* One entry of the connector's BookSet (crates/marketdata/src/books.rs):  *)
(* the book of one symbol, the updates held back while it is being built,  *)
(* and the bookkeeping that decides when another REST snapshot may be      *)
(* asked for.  Entries of different symbols share nothing but reset().     *)
(*                                                                         *)
(* A handler is an operator from an entry to its result.  Time is kept as  *)
(* the age of the last request, which Deadline caps: the code compares it  *)
(* with the cooldown and the deadline only, so ages past both are one.     *)
(***************************************************************************)
EXTENDS OrderBook, Sequences

CONSTANTS MaxBuffered,   \* MAX_BUFFERED
          Cooldown,      \* DEFAULT_RESYNC_COOLDOWN_MS, in ticks
          Deadline,      \* REQUEST_DEADLINE_MS, in ticks
          Never          \* requested_at = None

ASSUME BookSetAssumption ==
    /\ MaxBuffered \in Nat \ {0}
    /\ Cooldown \in Nat
    /\ Deadline \in Nat
    /\ Cooldown <= Deadline
    /\ Never \notin Nat

Entry == [book     : Book \cup {NoBook},
          buffered : Seq(Delta),
          awaiting : BOOLEAN,
          asked    : 0..Deadline \cup {Never}]

\* What the first update of a symbol inserts, and what reset() goes back to.
FreshEntry == [book |-> NoBook, buffered |-> <<>>, awaiting |-> FALSE, asked |-> Never]

\* Entry::buffer. A full buffer is dropped, and with it the request it waited for.
Buffer(entry, delta) ==
    IF Len(entry.buffered) >= MaxBuffered
    THEN [entry EXCEPT !.buffered = <<delta>>, !.awaiting = FALSE, !.asked = Never]
    ELSE [entry EXCEPT !.buffered = Append(@, delta)]

\* A mutant: a failed request may be repeated at once.
BlockedByOutstanding(entry) ==
    entry.asked # Never /\ entry.awaiting /\ entry.asked < Deadline

\* Entry::request_snapshot returns Nothing: an outstanding request blocks until the
\* deadline, a finished one until the cooldown.
Blocked(entry) ==
    /\ entry.asked # Never
    /\ entry.asked < (IF entry.awaiting THEN Deadline ELSE Cooldown)

\* The book is missing: hold the update, and ask for a snapshot if that is allowed.
HoldBack(entry, delta) ==
    LET held == Buffer([entry EXCEPT !.book = NoBook], delta)
    IN  [entry    |-> IF Blocked(held) THEN held
                      ELSE [held EXCEPT !.awaiting = TRUE, !.asked = 0],
         need     |-> ~Blocked(held),
         forward  |-> FALSE,
         attached |-> FALSE]

\* BookSet::on_delta
OnDelta(entry, delta) ==
    IF entry.book = NoBook \/ ApplyOutcome(entry.book, delta) = "Gap"
    THEN HoldBack(entry, delta)
    ELSE LET applied == ApplyOutcome(entry.book, delta) = "Applied"
         IN  [entry    |-> [entry EXCEPT !.book = ApplyDelta(@, delta)],
              need     |-> FALSE,
              forward  |-> applied /\ entry.book.synced,
              attached |-> applied /\ ~entry.book.synced]

\* One round of the replay loop of install_snapshot; NoBook once a gap has been met.
ReplayStep(book, delta) ==
    IF book = NoBook \/ ApplyOutcome(book, delta) = "Gap" THEN NoBook
    ELSE ApplyDelta(book, delta)

\* The books the replay of a sequence of updates onto a snapshot goes through.
Replayed(snapshot, deltas) ==
    LET after[i \in 0..Len(deltas)] ==
            IF i = 0 THEN snapshot ELSE ReplayStep(after[i - 1], deltas[i])
    IN  after

Replay(snapshot, deltas) == Replayed(snapshot, deltas)[Len(deltas)]

\* BookSet::install_snapshot. The fetched book replaces whatever the entry holds; it
\* is published only if the replay has joined it to the stream.
InstallSnapshot(entry, snapshot) ==
    LET book == Replay(snapshot, entry.buffered)
    IN  [entry    |-> [entry EXCEPT !.book = book, !.buffered = <<>>, !.awaiting = FALSE],
         attached |-> book # NoBook /\ book.synced]

\* BookSet::snapshot_failed. The cooldown still runs.
SnapshotFailed(entry) == [entry EXCEPT !.awaiting = FALSE]

\* One tick of the clock the request's age is measured with.
Older(age) == IF age < Deadline THEN age + 1 ELSE age

Aged(entry) == IF entry.asked = Never THEN entry ELSE [entry EXCEPT !.asked = Older(@)]
=============================================================================
