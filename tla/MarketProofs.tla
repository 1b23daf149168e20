------------------------------ MODULE MarketProofs ------------------------------
(***************************************************************************)
(* Proofs about what the core makes of the market, for every value of the  *)
(* bounds: the books of BookSync, kept level with a venue (first part),    *)
(* and the tape and the bars of Charting, kept by the core and followed by *)
(* a terminal (second part).                                               *)
(***************************************************************************)
EXTENDS BookSync, Charting, WellFoundedInduction, SequenceTheorems, TLAPS

-----------------------------------------------------------------------------
(* A set of natural numbers that is not empty has a least element: it      *)
(* stands in for induction where a function is defined by recursion on a   *)
(* number.                                                                 *)

\* Every non-empty set of natural numbers has a least element; the proofs about replaying
\* held-back updates (install_snapshot) take the least length at which a claim fails.
LEMMA LeastNat ==
    ASSUME NEW T, T \subseteq Nat, T # {}
    PROVE  \E m \in T : \A k \in T : m <= k
<1>1. \E m \in T : \A k \in T : <<k, m>> \notin OpToRel(<, Nat)
    BY WFMin, NatLessThanWellFounded, Zenon
<1>2. \A k, m \in T : k < m => <<k, m>> \in OpToRel(<, Nat)
    BY DEF OpToRel
<1>3. \E m \in T : \A k \in T : ~(k < m)
    BY <1>1, <1>2, Zenon
<1>. QED BY <1>3

-----------------------------------------------------------------------------
(* The operators: one update, and the replay of many.                      *)

\* A book that is the venue's at the number it bears.
TrueBook(e, book) ==
    /\ book \in Book
    /\ book.last \in 0..MaxId
    /\ book.levels = VenueBook(e, book.last)

\* An update the venue of connection e can have published.
TrueDelta(e, delta) ==
    \E p, q \in 0..MaxId : p < q /\ delta = VenueDelta(e, p, q)

\* OrderBook::apply keeps the type of a book.
LEMMA ApplyType ==
    ASSUME NEW book \in Book, NEW delta \in Delta
    PROVE  ApplyDelta(book, delta) \in Book
<1>1. PICK S \in SUBSET Level : delta.changes \in [S -> Qty]
    BY DEF Delta
<1>2. Merge(book.levels, delta.changes) \in [Level -> Qty]
    BY <1>1 DEF Book, Merge
<1>. QED BY <1>2 DEF ApplyDelta, Book, Delta

\* The updates the venue publishes have the type of an update.
LEMMA VenueDeltaType ==
    ASSUME NEW e \in 1..MaxEpoch, NEW p \in 0..MaxId, NEW q \in 0..MaxId, p < q
    PROVE  VenueDelta(e, p, q) \in Delta
<1>1. VenueBook(e, q) \in [Level -> Qty]
    BY BookSyncAssumption
<1>2. Touched(e, p, q) \in SUBSET Level
    BY DEF Touched
<1>3. [l \in Touched(e, p, q) |-> VenueBook(e, q)[l]] \in [Touched(e, p, q) -> Qty]
    BY <1>1, <1>2
<1>. QED BY <1>2, <1>3 DEF VenueDelta, Delta

\* Applying an update of the venue to a true book gives a true book: the overlap of an
\* update with a snapshot taken inside its span is harmless, since levels are absolute.
LEMMA ApplyTrue ==
    ASSUME NEW e \in 1..MaxEpoch, NEW book, TrueBook(e, book),
           NEW delta, TrueDelta(e, delta)
    PROVE  TrueBook(e, ApplyDelta(book, delta))
<1>1. PICK p \in 0..MaxId, q \in 0..MaxId : p < q /\ delta = VenueDelta(e, p, q)
    BY DEF TrueDelta
<1>2. delta \in Delta
    BY <1>1, VenueDeltaType
<1>3. ApplyDelta(book, delta) \in Book
    BY <1>2, ApplyType DEF TrueBook
<1>4. CASE ApplyOutcome(book, delta) # "Applied"
    BY <1>4 DEF ApplyDelta
<1>5. CASE ApplyOutcome(book, delta) = "Applied"
    <2> DEFINE k == book.last
    <2>1. k \in p..q /\ q \in p..q
        BY <1>1, <1>2, <1>5 DEF ApplyOutcome, IsStale, Continues, TrueBook, VenueDelta, Book
    <2>2. VenueBook(e, k) \in [Level -> Qty] /\ VenueBook(e, q) \in [Level -> Qty]
        BY BookSyncAssumption DEF TrueBook
    <2>3. ASSUME NEW l \in Level
          PROVE  Merge(VenueBook(e, k), delta.changes)[l] = VenueBook(e, q)[l]
        <3>1. CASE l \in Touched(e, p, q)
            BY <1>1, <2>2, <3>1 DEF Merge, VenueDelta
        <3>2. CASE l \notin Touched(e, p, q)
            <4>1. VenueBook(e, k)[l] = VenueBook(e, q)[l]
                BY <2>1, <3>2 DEF Touched
            <4>. QED BY <1>1, <2>2, <3>2, <4>1 DEF Merge, VenueDelta
        <3>. QED BY <3>1, <3>2
    <2>4. Merge(book.levels, delta.changes) = VenueBook(e, q)
        BY <2>2, <2>3 DEF Merge, TrueBook
    <2>. QED BY <1>1, <1>3, <1>5, <2>4 DEF ApplyDelta, TrueBook, VenueDelta
<1>. QED BY <1>4, <1>5

\* f lists the books the replay of the first n updates goes through.
ReplayRun(snapshot, deltas, n, f) ==
    f = [i \in 0..n |-> IF i = 0 THEN snapshot ELSE ReplayStep(f[i - 1], deltas[i])]

\* A replay of any length goes through some sequence of books.
LEMMA ReplayRunExists ==
    ASSUME NEW snapshot, NEW deltas, NEW n \in Nat
    PROVE  \E f : ReplayRun(snapshot, deltas, n, f)
<1> DEFINE T == {k \in Nat : ~ \E f : ReplayRun(snapshot, deltas, k, f)}
<1>1. SUFFICES ASSUME T # {} PROVE FALSE
    OBVIOUS
<1>2. PICK m \in T : \A k \in T : m <= k
    BY <1>1, LeastNat
<1>3. m # 0
    <2>1. ReplayRun(snapshot, deltas, 0, [i \in 0..0 |-> snapshot])
        BY DEF ReplayRun
    <2>. QED BY <2>1
<1>4. m - 1 \in Nat /\ m - 1 \notin T
    BY <1>2, <1>3
<1>5. PICK f : ReplayRun(snapshot, deltas, m - 1, f)
    BY <1>4
<1>6. ReplayRun(snapshot, deltas, m,
                [i \in 0..m |-> IF i = m THEN ReplayStep(f[m - 1], deltas[m]) ELSE f[i]])
    BY <1>3, <1>4, <1>5 DEF ReplayRun
<1>. QED BY <1>6

\* The replay is the recursion it is defined by.
LEMMA ReplayedIsRun ==
    ASSUME NEW snapshot, NEW deltas, Len(deltas) \in Nat
    PROVE  ReplayRun(snapshot, deltas, Len(deltas), Replayed(snapshot, deltas))
BY ReplayRunExists DEF ReplayRun, Replayed

\* What holds of the snapshot and is kept by every round of the replay holds of the result.
LEMMA ReplayTrue ==
    ASSUME NEW e \in 1..MaxEpoch, NEW snapshot, TrueBook(e, snapshot),
           NEW deltas \in Seq(Delta), \A i \in DOMAIN deltas : TrueDelta(e, deltas[i]),
           Replay(snapshot, deltas) # NoBook
    PROVE  TrueBook(e, Replay(snapshot, deltas))
<1> DEFINE f == Replayed(snapshot, deltas)
           n == Len(deltas)
           T == {k \in 0..n : f[k] # NoBook /\ ~TrueBook(e, f[k])}
<1>1. n \in Nat /\ DOMAIN deltas = 1..n
    OBVIOUS
<1>2. \A i \in 0..n : f[i] = IF i = 0 THEN snapshot ELSE ReplayStep(f[i - 1], deltas[i])
    BY <1>1, ReplayedIsRun DEF ReplayRun
<1>3. SUFFICES ASSUME T # {} PROVE FALSE
    BY <1>1 DEF Replay
<1>4. PICK m \in T : \A k \in T : m <= k
    <2>1. T \subseteq Nat
        BY <1>1
    <2> HIDE DEF T
    <2>. QED BY <1>3, <2>1, LeastNat
<1>5. m \in 1..n /\ f[m] = ReplayStep(f[m - 1], deltas[m])
    BY <1>1, <1>2, <1>4
<1>6. f[m - 1] # NoBook /\ f[m] = ApplyDelta(f[m - 1], deltas[m])
    BY <1>4, <1>5 DEF ReplayStep
<1>7. TrueBook(e, f[m - 1])
    BY <1>1, <1>4, <1>5, <1>6
<1>8. TrueBook(e, ApplyDelta(f[m - 1], deltas[m]))
    BY <1>1, <1>5, <1>7, ApplyTrue
<1>. QED BY <1>4, <1>6, <1>8

\* A snapshot becomes live only by an update of the replay, whose number it then bears.
LEMMA ReplayJoins ==
    ASSUME NEW snapshot \in Book, ~snapshot.synced,
           NEW deltas \in Seq(Delta),
           Replay(snapshot, deltas) # NoBook, Replay(snapshot, deltas).synced
    PROVE  \E i \in DOMAIN deltas : Replay(snapshot, deltas).last = deltas[i].last
<1> DEFINE f == Replayed(snapshot, deltas)
           n == Len(deltas)
           T == {k \in 0..n : /\ f[k] # NoBook
                              /\ f[k].synced
                              /\ \A i \in 1..n : f[k].last # deltas[i].last}
<1>1. n \in Nat /\ DOMAIN deltas = 1..n
    OBVIOUS
<1>2. \A i \in 0..n : f[i] = IF i = 0 THEN snapshot ELSE ReplayStep(f[i - 1], deltas[i])
    BY <1>1, ReplayedIsRun DEF ReplayRun
<1>3. SUFFICES ASSUME T # {} PROVE FALSE
    BY <1>1 DEF Replay
<1>4. PICK m \in T : \A k \in T : m <= k
    <2>1. T \subseteq Nat
        BY <1>1
    <2> HIDE DEF T
    <2>. QED BY <1>3, <2>1, LeastNat
<1>5. m \in 1..n /\ f[m] = ReplayStep(f[m - 1], deltas[m])
    BY <1>1, <1>2, <1>4
<1>6. f[m - 1] # NoBook /\ f[m] = ApplyDelta(f[m - 1], deltas[m])
    BY <1>4, <1>5 DEF ReplayStep
<1>7. CASE ApplyOutcome(f[m - 1], deltas[m]) = "Applied"
    BY <1>4, <1>5, <1>6, <1>7 DEF ApplyDelta
<1>8. CASE ApplyOutcome(f[m - 1], deltas[m]) # "Applied"
    <2>1. f[m] = f[m - 1]
        BY <1>6, <1>8 DEF ApplyDelta
    <2>2. m - 1 \in T
        BY <1>1, <1>4, <1>5, <1>6, <2>1
    <2>. QED BY <1>4, <1>5, <2>2
<1>. QED BY <1>7, <1>8

\* With nothing held back the replay is the snapshot itself.
LEMMA ReplayNothing ==
    ASSUME NEW snapshot PROVE Replay(snapshot, <<>>) = snapshot
BY ReplayedIsRun DEF Replay, ReplayRun

-----------------------------------------------------------------------------
(* The inductive invariant.                                                *)

\* The updates of a sequence are the venue's, none is newer than number n, and each
\* starts where an earlier one ended or later.
TrueDeltas(e, n, deltas) ==
    /\ deltas \in Seq(Delta)
    /\ \A i \in DOMAIN deltas : TrueDelta(e, deltas[i]) /\ deltas[i].last <= n
    /\ \A i, j \in DOMAIN deltas : i < j => deltas[i].last <= deltas[j].prev

UpdatesTrue ==
    /\ TrueDeltas(epoch, head, stream)
    /\ TrueDeltas(epoch, head, entry.buffered)
    /\ \A i \in DOMAIN entry.buffered, j \in DOMAIN stream :
          entry.buffered[i].last <= stream[j].prev

SnapshotsTrue ==
    \A i \in Slot : fetches[i].snap # NoBook =>
        TrueBook(epoch, fetches[i].snap) /\ ~fetches[i].snap.synced

HeldTrue ==
    /\ HasBook => TrueBook(epoch, entry.book) /\ entry.buffered = <<>>
    /\ shown # NoBook => shownIn \in 1..epoch /\ TrueBook(shownIn, shown)

\* What is shown of this connection is older than every update still to be applied.
ShownBehind ==
    shownIn = epoch =>
        /\ shown # NoBook
        /\ shown.last <= head
        /\ \A i \in DOMAIN stream : shown.last <= stream[i].prev
        /\ \A i \in DOMAIN entry.buffered : shown.last <= entry.buffered[i].prev

DownIsEmpty ==
    ~up => stream = <<>> /\ entry = FreshEntry /\ fetches = [i \in Slot |-> Idle]

IInv ==
    /\ TypeOK
    /\ UpdatesTrue
    /\ SnapshotsTrue
    /\ HeldTrue
    /\ ConsumersAgree
    /\ ShownBehind
    /\ DownIsEmpty

\* Asking for a snapshot keeps the type of an entry.
LEMMA AskedType ==
    ASSUME NEW b \in Entry
    PROVE  [b EXCEPT !.awaiting = TRUE, !.asked = 0] \in Entry
<1>1. 0 \in 0..Deadline
    BY BookSetAssumption
<1>2. 0 \in 0..Deadline \cup {Never}
    BY <1>1
<1>. QED BY <1>2 DEF Entry

\* Entry::buffer and request_snapshot: the book is gone, the update is held back as the
\* newest one, and nothing is published.
LEMMA HoldBackEffect ==
    ASSUME NEW e \in Entry, NEW d \in Delta
    PROVE  LET back == HoldBack(e, d) IN
           /\ back.entry \in Entry
           /\ back.entry.book = NoBook
           /\ back.entry.buffered = <<d>> \/ back.entry.buffered = Append(e.buffered, d)
           /\ Len(back.entry.buffered) <= MaxBuffered
           /\ ~back.forward /\ ~back.attached
<1> DEFINE g == [e EXCEPT !.book = NoBook]
           b == Buffer(g, d)
<1>a. g \in Entry /\ g.book = NoBook /\ g.buffered = e.buffered
    BY DEF Entry
<1>1. /\ b \in Entry
      /\ b.book = NoBook
      /\ b.buffered = <<d>> \/ b.buffered = Append(e.buffered, d)
      /\ Len(b.buffered) <= MaxBuffered
    <2> HIDE DEF g
    <2>1. /\ <<d>> \in Seq(Delta) /\ Append(g.buffered, d) \in Seq(Delta)
          /\ Len(<<d>>) = 1 /\ Len(Append(g.buffered, d)) = Len(g.buffered) + 1
          /\ Len(g.buffered) \in Nat
        BY <1>a DEF Entry
    <2>2. CASE Len(g.buffered) >= MaxBuffered
        <3>1. b = [g EXCEPT !.buffered = <<d>>, !.awaiting = FALSE, !.asked = Never]
            BY <2>2 DEF Buffer
        <3>2. b \in Entry /\ b.book = NoBook /\ b.buffered = <<d>>
            BY <1>a, <2>1, <3>1 DEF Entry
        <3>. QED BY <2>1, <3>2, BookSetAssumption
    <2>3. CASE ~(Len(g.buffered) >= MaxBuffered)
        <3>1. b = [g EXCEPT !.buffered = Append(g.buffered, d)]
            BY <2>3 DEF Buffer
        <3>2. b \in Entry /\ b.book = NoBook /\ b.buffered = Append(e.buffered, d)
            BY <1>a, <2>1, <3>1 DEF Entry
        <3>. QED BY <1>a, <2>1, <2>3, <3>2, BookSetAssumption
    <2>. QED BY <2>2, <2>3
<1>2. [b EXCEPT !.awaiting = TRUE, !.asked = 0] \in Entry
    BY <1>1, AskedType
<1> HIDE DEF b
<1>3. HoldBack(e, d).entry = b \/ HoldBack(e, d).entry = [b EXCEPT !.awaiting = TRUE, !.asked = 0]
    BY DEF HoldBack, b
<1>. QED BY <1>1, <1>2, <1>3 DEF HoldBack, Entry

\* The three outcomes of on_delta.
LEMMA OnDeltaEffect ==
    ASSUME NEW e \in Entry, NEW d \in Delta
    PROVE  LET outcome == OnDelta(e, d) IN
           \/ outcome = HoldBack(e, d)
           \/ /\ e.book # NoBook
              /\ outcome.entry = e
              /\ ~outcome.need /\ ~outcome.forward /\ ~outcome.attached
           \/ /\ e.book # NoBook
              /\ ApplyOutcome(e.book, d) = "Applied"
              /\ outcome.entry = [e EXCEPT !.book = ApplyDelta(e.book, d)]
              /\ ~outcome.need
              /\ outcome.forward = e.book.synced
              /\ outcome.attached = ~e.book.synced
<1>1. CASE e.book = NoBook \/ ApplyOutcome(e.book, d) = "Gap"
    BY <1>1 DEF OnDelta
<1>2. CASE e.book # NoBook /\ ApplyOutcome(e.book, d) = "Applied"
    BY <1>2 DEF OnDelta, Entry, Book
<1>3. CASE e.book # NoBook /\ ApplyOutcome(e.book, d) = "Stale"
    <2>1. [e EXCEPT !.book = ApplyDelta(@, d)] = e
        BY <1>3 DEF ApplyDelta, Entry
    <2>. QED BY <1>3, <2>1 DEF OnDelta
<1>. QED BY <1>1, <1>2, <1>3 DEF ApplyOutcome

\* Taking the oldest update off, or holding a newer one back, keeps a sequence true.
LEMMA TrueDeltasTail ==
    ASSUME NEW e, NEW n, NEW deltas, TrueDeltas(e, n, deltas), deltas # <<>>
    PROVE  /\ TrueDeltas(e, n, Tail(deltas))
           /\ TrueDelta(e, Head(deltas)) /\ Head(deltas) \in Delta /\ Head(deltas).last <= n
           /\ \A i \in DOMAIN Tail(deltas) : /\ i + 1 \in DOMAIN deltas
                                             /\ Tail(deltas)[i] = deltas[i + 1]
                                             /\ Head(deltas).last <= Tail(deltas)[i].prev
<1>1. deltas \in Seq(Delta) /\ Len(deltas) \in Nat \ {0} /\ DOMAIN deltas = 1..Len(deltas)
    BY DEF TrueDeltas
<1>2. /\ Tail(deltas) \in Seq(Delta)
      /\ DOMAIN Tail(deltas) = 1..(Len(deltas) - 1)
      /\ \A i \in 1..(Len(deltas) - 1) : Tail(deltas)[i] = deltas[i + 1]
      /\ Head(deltas) = deltas[1]
    BY <1>1
<1>. QED BY <1>1, <1>2 DEF TrueDeltas

\* One more of the venue's updates after those that are held back, or on its own.
LEMMA TrueDeltasAppend ==
    ASSUME NEW e, NEW n, NEW deltas, TrueDeltas(e, n, deltas),
           NEW d \in Delta, TrueDelta(e, d), d.last <= n,
           \A i \in DOMAIN deltas : deltas[i].last <= d.prev
    PROVE  TrueDeltas(e, n, Append(deltas, d)) /\ TrueDeltas(e, n, <<d>>)
<1>1. deltas \in Seq(Delta) /\ Len(deltas) \in Nat /\ DOMAIN deltas = 1..Len(deltas)
    BY DEF TrueDeltas
<1>2. /\ Append(deltas, d) \in Seq(Delta)
      /\ DOMAIN Append(deltas, d) = 1..(Len(deltas) + 1)
      /\ \A i \in 1..Len(deltas) : Append(deltas, d)[i] = deltas[i]
      /\ Append(deltas, d)[Len(deltas) + 1] = d
    BY <1>1
<1>3. TrueDeltas(e, n, Append(deltas, d))
    BY <1>1, <1>2 DEF TrueDeltas
<1>4. TrueDeltas(e, n, <<d>>)
    BY DEF TrueDeltas
<1>. QED BY <1>3, <1>4

-----------------------------------------------------------------------------
(* Every step keeps the invariant.                                         *)

\* Nothing has been seen of the first connection yet.
LEMMA InitInv == Init => IInv
<1> SUFFICES ASSUME Init PROVE IInv
    OBVIOUS
<1>1. /\ FreshEntry \in Entry
      /\ FreshEntry.book = NoBook
      /\ FreshEntry.buffered = <<>>
    BY DEF FreshEntry, Entry
<1>2. fetches \in [Slot -> Fetch] /\ \A i \in Slot : fetches[i].snap = NoBook
    BY BookSyncAssumption DEF Init, Idle, Fetch
<1>3. TypeOK
    BY <1>1, <1>2, BookSyncAssumption, BookSetAssumption DEF Init, TypeOK
<1>4. UpdatesTrue
    BY <1>1 DEF Init, UpdatesTrue, TrueDeltas
<1>. QED
    BY <1>1, <1>2, <1>3, <1>4
    DEF Init, IInv, SnapshotsTrue, HeldTrue, ConsumersAgree, ShownBehind, DownIsEmpty,
        HasBook, Live

\* The venue's next update is newer than everything before it.
LEMMA VenueUpdateInv ==
    ASSUME IInv, NEW step \in 1..MaxStep, NEW lost \in BOOLEAN, VenueUpdate(step, lost)
    PROVE  IInv'
<1> USE DEF IInv
<1> DEFINE d == VenueDelta(epoch, head, head + step)
<1>1. /\ head \in Nat /\ step \in Nat \ {0} /\ epoch \in 1..MaxEpoch
      /\ head' = head + step /\ head' \in 0..MaxId /\ head < head'
    BY BookSyncAssumption DEF TypeOK, VenueUpdate
<1>2. /\ d \in Delta
      /\ TrueDelta(epoch, d)
      /\ d.prev = head
      /\ d.last = head'
    <2>1. d \in Delta
        BY <1>1, VenueDeltaType DEF TypeOK
    <2>2. TrueDelta(epoch, d)
        BY <1>1 DEF TypeOK, TrueDelta
    <2>. QED BY <1>1, <2>1, <2>2 DEF VenueDelta
<1> HIDE DEF d
<1>3. stream' = stream \/ stream' = Append(stream, d)
    BY DEF VenueUpdate, d
<1>4. \A deltas : TrueDeltas(epoch, head, deltas) =>
          TrueDeltas(epoch, head', deltas) /\ \A i \in DOMAIN deltas : deltas[i].last <= d.prev
    <2> SUFFICES ASSUME NEW deltas, TrueDeltas(epoch, head, deltas)
                 PROVE  /\ TrueDeltas(epoch, head', deltas)
                        /\ \A i \in DOMAIN deltas : deltas[i].last <= d.prev
        OBVIOUS
    <2>1. \A i \in DOMAIN deltas : deltas[i] \in Delta /\ deltas[i].last <= head
        BY DEF TrueDeltas
    <2>2. \A i \in DOMAIN deltas : deltas[i].last \in Nat
        BY <2>1 DEF Delta
    <2>3. \A i \in DOMAIN deltas : deltas[i].last <= head'
        BY <1>1, <2>1, <2>2
    <2>. QED BY <1>2, <2>1, <2>3 DEF TrueDeltas
<1>5. TrueDeltas(epoch, head', stream')
    <2>1. TrueDeltas(epoch, head, stream)
        BY DEF UpdatesTrue
    <2>2. TrueDeltas(epoch, head', stream) /\ \A i \in DOMAIN stream : stream[i].last <= d.prev
        BY <1>4, <2>1
    <2>3. d.last <= head'
        BY <1>1, <1>2
    <2>4. TrueDeltas(epoch, head', Append(stream, d))
        BY <1>2, <2>2, <2>3, TrueDeltasAppend
    <2>. QED BY <1>3, <2>2, <2>4
<1>6. \A j \in DOMAIN stream' :
          \/ j \in DOMAIN stream /\ stream'[j] = stream[j]
          \/ stream'[j] = d
    <2>1. stream \in Seq(Delta)
        BY DEF TypeOK
    <2>. QED BY <1>3, <2>1
<1>7. /\ UNCHANGED <<epoch, entry, fetches, shown, shownIn, rested>>
      /\ up /\ up'
    BY DEF VenueUpdate
<1>8. TypeOK'
    BY <1>1, <1>5, <1>7 DEF TypeOK, TrueDeltas
<1>9. UpdatesTrue'
    BY <1>4, <1>5, <1>6, <1>7 DEF UpdatesTrue
<1>10. ShownBehind'
    BY <1>1, <1>2, <1>6, <1>7 DEF ShownBehind, TypeOK, Book
<1>. QED
    BY <1>7, <1>8, <1>9, <1>10
    DEF SnapshotsTrue, HeldTrue, ConsumersAgree, DownIsEmpty, HasBook, Live

\* The venue answers with a book it had on this connection.
LEMMA RestAnswersInv ==
    ASSUME IInv, NEW i \in Slot, NEW n \in 0..head, RestAnswers(i, n)
    PROVE  IInv'
<1> USE DEF IInv
<1> DEFINE s == VenueSnapshot(epoch, n)
<1>1. n \in 0..MaxId /\ epoch \in 1..MaxEpoch
    BY BookSyncAssumption DEF TypeOK
<1>2. VenueBook(epoch, n) \in [Level -> Qty]
    BY <1>1, BookSyncAssumption
<1>3. TrueBook(epoch, s) /\ ~s.synced
    BY <1>1, <1>2 DEF TrueBook, VenueSnapshot, Book
<1> HIDE DEF s
<1>4. fetches' = [fetches EXCEPT ![i].snap = s]
    BY DEF RestAnswers, s
<1>5. fetches' \in [Slot -> Fetch]
    BY <1>3, <1>4 DEF TypeOK, Fetch, TrueBook
<1>6. \A j \in Slot : fetches'[j].snap = fetches[j].snap \/ fetches'[j].snap = s
    BY <1>4 DEF TypeOK, Fetch
<1>7. UNCHANGED <<epoch, up, head, stream, entry, shown, shownIn, rested>>
    BY DEF RestAnswers
<1>8. SnapshotsTrue'
    BY <1>3, <1>6, <1>7 DEF SnapshotsTrue
<1>9. up
    BY DEF RestAnswers, DownIsEmpty, Idle
<1>. QED
    BY <1>5, <1>7, <1>8, <1>9
    DEF TypeOK, UpdatesTrue, HeldTrue, ConsumersAgree, ShownBehind, DownIsEmpty, HasBook, Live

\* Starting a fetch leaves every fetch that has a book as it was.
LEMMA SpawnEffect ==
    ASSUME TypeOK, SpawnFetch \/ UNCHANGED <<fetches, rested>>
    PROVE  /\ fetches' \in [Slot -> Fetch]
           /\ rested' \in 0..Cooldown
           /\ \A j \in Slot : fetches'[j].snap # NoBook => fetches'[j] = fetches[j]
<1>1. Started \in Fetch /\ Started.snap = NoBook
    BY BookSyncAssumption DEF Started, Fetch
<1>. QED BY <1>1, BookSetAssumption DEF SpawnFetch, TypeOK

\* An update arrives and is held back, ignored, published, or completes a book.
LEMMA DeltaArrivesInv ==
    ASSUME IInv, DeltaArrives
    PROVE  IInv'
<1> USE DEF IInv
<1> DEFINE d == Head(stream)
           out == OnDelta(entry, d)
<1>1. /\ stream # <<>> /\ stream' = Tail(stream)
      /\ entry' = out.entry
      /\ IF out.attached THEN Publish(SnapshotEvent(out.entry.book))
         ELSE IF out.forward THEN Publish(DeltaEvent(d))
         ELSE UNCHANGED <<shown, shownIn>>
      /\ SpawnFetch \/ UNCHANGED <<fetches, rested>>
      /\ UNCHANGED <<epoch, up, head>>
    BY DEF DeltaArrives
<1>2. /\ TrueDeltas(epoch, head, stream')
      /\ TrueDelta(epoch, d) /\ d \in Delta /\ d.last <= head
      /\ \A i \in DOMAIN stream' : /\ i + 1 \in DOMAIN stream
                                   /\ stream'[i] = stream[i + 1]
                                   /\ d.last <= stream'[i].prev
    BY <1>1, TrueDeltasTail DEF UpdatesTrue
<1>3. /\ 1 \in DOMAIN stream /\ d = stream[1]
      /\ d.prev < d.last
      /\ epoch \in 1..MaxEpoch
    <2>1. stream \in Seq(Delta) /\ epoch \in 1..MaxEpoch
        BY DEF TypeOK
    <2>2. d.prev < d.last
        BY <1>2 DEF TrueDelta, VenueDelta
    <2>. QED BY <1>1, <2>1, <2>2
<1>4. /\ \A i \in DOMAIN entry.buffered : entry.buffered[i].last <= d.prev
      /\ shownIn = epoch => shown.last <= d.prev
    BY <1>3 DEF UpdatesTrue, ShownBehind
<1> HIDE DEF d
<1>5. /\ fetches' \in [Slot -> Fetch] /\ rested' \in 0..Cooldown
      /\ SnapshotsTrue'
    BY <1>1, SpawnEffect DEF SnapshotsTrue
<1>6. up /\ up'
    BY <1>1 DEF DownIsEmpty
<1>7. entry \in Entry /\ head \in Nat /\ stream' \in Seq(Delta)
    BY <1>2, BookSyncAssumption DEF TypeOK, TrueDeltas
<1>8. CASE out = HoldBack(entry, d)
    <2>1. /\ entry' \in Entry
          /\ entry'.book = NoBook
          /\ entry'.buffered = <<d>> \/ entry'.buffered = Append(entry.buffered, d)
          /\ Len(entry'.buffered) <= MaxBuffered
          /\ UNCHANGED <<shown, shownIn>>
        BY <1>1, <1>2, <1>7, <1>8, HoldBackEffect
    <2>2. TrueDeltas(epoch, head, entry'.buffered)
        BY <1>2, <1>4, <2>1, TrueDeltasAppend DEF UpdatesTrue
    <2>3. \A i \in DOMAIN entry'.buffered :
             \/ entry'.buffered[i] = d
             \/ i \in DOMAIN entry.buffered /\ entry'.buffered[i] = entry.buffered[i]
        BY SMTT(20), <1>7, <2>1 DEF Entry
    <2>4. \A j \in DOMAIN stream' : d.last <= stream'[j].prev /\ stream'[j] \in Delta
        BY <1>2, <1>7
    <2>5. UpdatesTrue'
        <3> SUFFICES ASSUME NEW i \in DOMAIN entry'.buffered, NEW j \in DOMAIN stream'
                     PROVE  entry'.buffered[i].last <= stream'[j].prev
            BY <1>1, <1>2, <2>2 DEF UpdatesTrue
        <3>1. CASE entry'.buffered[i] = d
            BY <2>4, <3>1
        <3>2. CASE i \in DOMAIN entry.buffered /\ entry'.buffered[i] = entry.buffered[i]
            BY <1>2, <3>2 DEF UpdatesTrue
        <3>. QED BY <2>3, <3>1, <3>2
    <2>6. ShownBehind'
        BY <1>1, <1>2, <1>4, <2>1, <2>3 DEF ShownBehind
    <2>7. TypeOK'
        BY <1>1, <1>5, <1>7, <2>1 DEF TypeOK
    <2>. QED
        BY <1>1, <1>5, <1>6, <2>1, <2>5, <2>6, <2>7
        DEF HeldTrue, ConsumersAgree, DownIsEmpty, HasBook, Live
<1>9. CASE out.entry = entry /\ ~out.forward /\ ~out.attached
    <2>1. entry' = entry /\ UNCHANGED <<shown, shownIn>>
        BY <1>1, <1>9
    <2>2. UpdatesTrue'
        BY <1>1, <1>2, <2>1 DEF UpdatesTrue
    <2>3. ShownBehind'
        BY <1>1, <1>2, <2>1 DEF ShownBehind
    <2>4. TypeOK'
        BY <1>1, <1>5, <1>7, <2>1 DEF TypeOK
    <2>. QED
        BY <1>1, <1>5, <1>6, <2>1, <2>2, <2>3, <2>4
        DEF HeldTrue, ConsumersAgree, DownIsEmpty, HasBook, Live
<1>10. CASE /\ HasBook
            /\ ApplyOutcome(entry.book, d) = "Applied"
            /\ out.entry = [entry EXCEPT !.book = ApplyDelta(entry.book, d)]
            /\ out.forward = entry.book.synced
            /\ out.attached = ~entry.book.synced
    <2> DEFINE book == ApplyDelta(entry.book, d)
    <2>1. TrueBook(epoch, entry.book) /\ entry.buffered = <<>>
        BY <1>10 DEF HeldTrue
    <2>2. /\ TrueBook(epoch, book)
          /\ book.last = d.last
          /\ book.synced
          /\ book # NoBook
        BY <1>2, <1>3, <1>10, <2>1, ApplyTrue, NoBookAssumption DEF ApplyDelta, TrueBook
    <2>3. entry.book.synced \in BOOLEAN
        BY <2>1 DEF TrueBook, Book
    <2>4. shown' = book /\ shownIn' = epoch
        <3>1. CASE entry.book.synced
            <4>1. Publish(DeltaEvent(d)) /\ shown = entry.book /\ shown # NoBook
                BY <1>1, <1>10, <3>1 DEF ConsumersAgree, HasBook, Live
            <4>. QED BY <1>10, <4>1 DEF Publish, DeltaEvent, FoldBook
        <3>2. CASE ~entry.book.synced
            BY <1>1, <1>7, <1>10, <3>2 DEF Publish, SnapshotEvent, FoldBook, Entry
        <3>. QED BY <2>3, <3>1, <3>2
    <2> HIDE DEF book
    <2>5. entry' \in Entry /\ entry'.book = book /\ entry'.buffered = <<>>
        BY <1>1, <1>7, <1>10, <2>1, <2>2 DEF Entry, TrueBook, book
    <2>6. TypeOK'
        BY <1>1, <1>3, <1>5, <1>7, <2>2, <2>4, <2>5, BookSetAssumption DEF TypeOK, TrueBook
    <2>7. UpdatesTrue'
        BY <1>1, <1>2, <2>5 DEF UpdatesTrue, TrueDeltas
    <2>8. ShownBehind'
        BY <1>1, <1>2, <2>2, <2>4, <2>5 DEF ShownBehind
    <2>9. HeldTrue' /\ ConsumersAgree'
        BY <1>1, <1>3, <2>2, <2>4, <2>5 DEF HeldTrue, ConsumersAgree, HasBook, Live
    <2>. QED BY <1>5, <1>6, <2>6, <2>7, <2>8, <2>9 DEF DownIsEmpty
<1>. QED BY <1>2, <1>7, <1>8, <1>9, <1>10, OnDeltaEffect DEF HasBook

\* What install_snapshot makes of an entry: no book, a book that has still to join the
\* stream, or one joined by the last of the updates held back.
LEMMA InstallEffect ==
    ASSUME IInv, NEW i \in Slot, fetches[i].snap # NoBook
    PROVE  LET installed == InstallSnapshot(entry, fetches[i].snap) IN
           /\ installed.entry \in Entry
           /\ installed.entry.buffered = <<>>
           /\ installed.entry.book # NoBook => TrueBook(epoch, installed.entry.book)
           /\ installed.attached <=> installed.entry.book # NoBook /\ installed.entry.book.synced
           /\ installed.attached =>
                 /\ ~HasBook
                 /\ \E k \in DOMAIN entry.buffered : installed.entry.book.last = entry.buffered[k].last
<1> USE DEF IInv
<1> DEFINE snap == fetches[i].snap
           book == Replay(snap, entry.buffered)
           installed == InstallSnapshot(entry, snap)
<1>1. /\ snap \in Book /\ ~snap.synced
      /\ TrueBook(epoch, snap)
      /\ epoch \in 1..MaxEpoch
      /\ entry \in Entry
    BY DEF SnapshotsTrue, TrueBook, TypeOK
<1>2. book # NoBook => TrueBook(epoch, book)
    BY <1>1, ReplayTrue DEF UpdatesTrue, TrueDeltas
<1>3. book # NoBook /\ book.synced =>
          /\ ~HasBook
          /\ \E k \in DOMAIN entry.buffered : book.last = entry.buffered[k].last
    <2>1. entry.buffered = <<>> => book = snap
        BY ReplayNothing
    <2>2. entry.buffered \in Seq(Delta)
        BY <1>1 DEF Entry
    <2>. QED BY <1>1, <2>1, <2>2, ReplayJoins DEF HeldTrue
<1>4. /\ installed.entry = [entry EXCEPT !.book = book, !.buffered = <<>>, !.awaiting = FALSE]
      /\ installed.attached <=> book # NoBook /\ book.synced
    BY DEF InstallSnapshot
<1> HIDE DEF book
<1>5. /\ installed.entry \in Entry
      /\ installed.entry.book = book
      /\ installed.entry.buffered = <<>>
    <2>1. book \in Book \cup {NoBook}
        BY <1>2 DEF TrueBook
    <2>2. <<>> \in Seq(Delta)
        OBVIOUS
    <2>. QED BY <1>1, <1>4, <2>1, <2>2 DEF Entry
<1>. QED BY <1>2, <1>3, <1>4, <1>5

\* A snapshot arrives: late, early, or just in time.
LEMMA SnapshotArrivesInv ==
    ASSUME IInv, NEW i \in Slot, SnapshotArrives(i)
    PROVE  IInv'
<1> USE DEF IInv
<1> DEFINE installed == InstallSnapshot(entry, fetches[i].snap)
<1>1. /\ fetches[i].snap # NoBook
      /\ fetches' = [fetches EXCEPT ![i] = Idle]
      /\ entry' = installed.entry
      /\ IF installed.attached THEN Publish(SnapshotEvent(installed.entry.book))
         ELSE UNCHANGED <<shown, shownIn>>
      /\ UNCHANGED <<epoch, up, head, stream, rested>>
    BY DEF SnapshotArrives
<1>2. /\ entry' \in Entry
      /\ entry'.buffered = <<>>
      /\ entry'.book # NoBook => TrueBook(epoch, entry'.book)
      /\ installed.attached <=> entry'.book # NoBook /\ entry'.book.synced
      /\ installed.attached =>
            \E k \in DOMAIN entry.buffered : entry'.book.last = entry.buffered[k].last
    BY <1>1, InstallEffect
<1> HIDE DEF installed
<1>3. /\ Idle \in Fetch /\ Idle.snap = NoBook
      /\ epoch \in 1..MaxEpoch
      /\ stream \in Seq(Delta)
    BY BookSyncAssumption DEF Idle, Fetch, TypeOK
<1>4. /\ fetches' \in [Slot -> Fetch]
      /\ \A j \in Slot : fetches'[j].snap # NoBook => fetches'[j] = fetches[j]
    BY <1>1, <1>3 DEF TypeOK
<1>5. UpdatesTrue'
    BY <1>1, <1>2 DEF UpdatesTrue, TrueDeltas
<1>6. SnapshotsTrue'
    BY <1>1, <1>4 DEF SnapshotsTrue
<1>7. up /\ up'
    BY <1>1 DEF DownIsEmpty, Idle
<1>8. CASE installed.attached
    <2>1. /\ shown' = entry'.book /\ shownIn' = epoch
          /\ entry'.book \in Book /\ entry'.book # NoBook
        BY <1>1, <1>2, <1>8 DEF Publish, SnapshotEvent, FoldBook, TrueBook
    <2>2. PICK k \in DOMAIN entry.buffered : entry'.book.last = entry.buffered[k].last
        BY <1>2, <1>8
    <2>3. ShownBehind'
        BY <1>1, <1>2, <2>1, <2>2 DEF ShownBehind, UpdatesTrue, TrueDeltas
    <2>4. TypeOK'
        BY <1>1, <1>2, <1>3, <1>4, <2>1, BookSetAssumption DEF TypeOK
    <2>5. HeldTrue' /\ ConsumersAgree'
        BY <1>1, <1>2, <1>3, <2>1 DEF HeldTrue, ConsumersAgree, HasBook, Live
    <2>. QED BY <1>5, <1>6, <1>7, <2>3, <2>4, <2>5 DEF DownIsEmpty
<1>9. CASE ~installed.attached
    <2>1. UNCHANGED <<shown, shownIn>> /\ ~Live'
        BY <1>1, <1>2, <1>9 DEF Live, HasBook
    <2>2. TypeOK'
        BY <1>1, <1>2, <1>4, <2>1, BookSetAssumption DEF TypeOK
    <2>3. HeldTrue'
        BY <1>1, <1>2, <2>1 DEF HeldTrue, HasBook
    <2>4. ShownBehind'
        BY <1>1, <1>2, <2>1 DEF ShownBehind
    <2>. QED BY <1>5, <1>6, <1>7, <2>1, <2>2, <2>3, <2>4 DEF ConsumersAgree, DownIsEmpty
<1>. QED BY <1>8, <1>9

\* A fetch ends without a book: reported, or in silence.
LEMMA FetchEndsInv ==
    ASSUME IInv, NEW i \in Slot, FetchFails(i) \/ FetchDies(i)
    PROVE  IInv'
<1> USE DEF IInv
<1>1. /\ entry' = entry \/ entry' = [entry EXCEPT !.awaiting = FALSE]
      /\ fetches[i].busy
      /\ fetches' = [fetches EXCEPT ![i] = Idle]
      /\ UNCHANGED <<epoch, up, head, stream, shown, shownIn, rested>>
    BY DEF FetchFails, FetchDies, SnapshotFailed
<1>2. entry' \in Entry /\ entry'.book = entry.book /\ entry'.buffered = entry.buffered
    BY <1>1 DEF TypeOK, Entry
<1>3. Idle \in Fetch /\ Idle.snap = NoBook
    BY BookSyncAssumption DEF Idle, Fetch
<1>4. /\ fetches' \in [Slot -> Fetch]
      /\ \A j \in Slot : fetches'[j].snap # NoBook => fetches'[j] = fetches[j]
    BY <1>1, <1>3 DEF TypeOK
<1>5. up /\ up'
    BY <1>1 DEF DownIsEmpty, Idle
<1>6. TypeOK' /\ UpdatesTrue' /\ SnapshotsTrue'
    BY <1>1, <1>2, <1>4 DEF TypeOK, UpdatesTrue, SnapshotsTrue
<1>. QED
    BY <1>1, <1>2, <1>5, <1>6
    DEF HeldTrue, ConsumersAgree, ShownBehind, DownIsEmpty, HasBook, Live

\* A connection ends, and with it everything that was on its way.
LEMMA DisconnectInv ==
    ASSUME IInv, Disconnect
    PROVE  IInv'
<1> USE DEF IInv
<1>1. /\ stream' = <<>> /\ entry' = FreshEntry /\ fetches' = [i \in Slot |-> Idle]
      /\ UNCHANGED <<epoch, head, shown, shownIn>> /\ up' = FALSE /\ rested' = Cooldown
    BY DEF Disconnect
<1>2. /\ FreshEntry \in Entry
      /\ FreshEntry.book = NoBook
      /\ FreshEntry.buffered = <<>>
    BY DEF FreshEntry, Entry
<1>3. fetches' \in [Slot -> Fetch] /\ \A i \in Slot : fetches'[i].snap = NoBook
    BY <1>1, BookSyncAssumption DEF Idle, Fetch
<1>4. TypeOK'
    <2>1. stream' \in Seq(Delta)
        BY <1>1
    <2>2. up' \in BOOLEAN
        BY <1>1
    <2>. QED BY <1>1, <1>2, <1>3, <2>1, <2>2, BookSetAssumption DEF TypeOK
<1>5. UpdatesTrue'
    BY <1>1, <1>2 DEF UpdatesTrue, TrueDeltas
<1>. QED
    BY <1>1, <1>2, <1>3, <1>4, <1>5
    DEF SnapshotsTrue, HeldTrue, ConsumersAgree, ShownBehind, DownIsEmpty, HasBook, Live

\* The next connection starts from nothing, whatever the consumer still shows.
LEMMA ConnectInv ==
    ASSUME IInv, Connect
    PROVE  IInv'
<1> USE DEF IInv
<1>1. /\ stream' = <<>> /\ entry' = FreshEntry /\ fetches' = [i \in Slot |-> Idle]
      /\ epoch' = epoch + 1 /\ epoch' \in 1..MaxEpoch /\ epoch \in 1..MaxEpoch
      /\ head' = FirstId /\ up' = TRUE
      /\ shown' = shown /\ shownIn' = shownIn /\ shownIn \in 0..epoch /\ rested' = rested
    BY BookSyncAssumption DEF Connect, DownIsEmpty, TypeOK
<1>2. /\ FreshEntry \in Entry
      /\ FreshEntry.book = NoBook
      /\ FreshEntry.buffered = <<>>
    BY DEF FreshEntry, Entry
<1>3. fetches' \in [Slot -> Fetch] /\ \A i \in Slot : fetches'[i].snap = NoBook
    BY <1>1, BookSyncAssumption DEF Idle, Fetch
<1>4. TypeOK'
    BY <1>1, <1>2, <1>3, BookSyncAssumption, BookSetAssumption DEF TypeOK
<1>5. UpdatesTrue'
    BY <1>1, <1>2 DEF UpdatesTrue, TrueDeltas
<1>6. ShownBehind'
    BY <1>1 DEF ShownBehind
<1>7. HeldTrue'
    BY <1>1, <1>2 DEF HeldTrue, HasBook
<1>. QED
    BY <1>1, <1>2, <1>3, <1>4, <1>5, <1>6, <1>7
    DEF SnapshotsTrue, ConsumersAgree, DownIsEmpty, HasBook, Live

\* Time touches the ages only.
LEMMA TickInv ==
    ASSUME IInv, Tick
    PROVE  IInv'
<1> USE DEF IInv
<1>1. /\ \A i \in Slot : fetches[i].age < FetchLife
      /\ entry' = Aged(entry)
      /\ fetches' = [i \in Slot |->
                        IF fetches[i].busy THEN [fetches[i] EXCEPT !.age = @ + 1] ELSE fetches[i]]
      /\ UNCHANGED <<epoch, up, head, stream, shown, shownIn>>
      /\ rested' \in 0..Cooldown
    BY BookSetAssumption DEF Tick, TypeOK
<1>2. /\ entry' \in Entry
      /\ entry'.book = entry.book
      /\ entry'.buffered = entry.buffered
    <2>1. entry \in Entry
        BY DEF TypeOK
    <2>2. entry.asked # Never => Older(entry.asked) \in 0..Deadline \cup {Never}
        BY <2>1, BookSetAssumption DEF Entry, Older
    <2>. QED BY <1>1, <2>1, <2>2 DEF Aged, Entry
<1>3. /\ fetches' \in [Slot -> Fetch]
      /\ \A i \in Slot : fetches'[i].snap = fetches[i].snap
    <2>1. \A i \in Slot : fetches[i].age + 1 \in 0..FetchLife
        BY SMTT(20), <1>1, BookSyncAssumption DEF TypeOK, Fetch
    <2>. QED BY <1>1, <2>1 DEF TypeOK, Fetch
<1>4. DownIsEmpty'
    <2>1. Aged(FreshEntry) = FreshEntry
        BY DEF Aged, FreshEntry
    <2>2. fetches = [i \in Slot |-> Idle] => fetches' = fetches
        BY <1>1 DEF Idle
    <2>. QED BY <1>1, <2>1, <2>2 DEF DownIsEmpty
<1>. QED
    BY <1>1, <1>2, <1>3, <1>4
    DEF TypeOK, UpdatesTrue, SnapshotsTrue, HeldTrue, ConsumersAgree, ShownBehind, HasBook, Live

\* The invariant is inductive.
LEMMA NextInv == IInv /\ [Next]_vars => IInv'
<1> SUFFICES ASSUME IInv, [Next]_vars PROVE IInv'
    OBVIOUS
<1>1. ASSUME NEW step \in 1..MaxStep, NEW lost \in BOOLEAN, VenueUpdate(step, lost) PROVE IInv'
    BY <1>1, VenueUpdateInv
<1>2. ASSUME NEW i \in Slot, NEW n \in 0..head, RestAnswers(i, n) PROVE IInv'
    BY <1>2, RestAnswersInv
<1>3. CASE DeltaArrives
    BY <1>3, DeltaArrivesInv
<1>4. ASSUME NEW i \in Slot, SnapshotArrives(i) PROVE IInv'
    BY <1>4, SnapshotArrivesInv
<1>5. ASSUME NEW i \in Slot, FetchFails(i) \/ FetchDies(i) PROVE IInv'
    BY <1>5, FetchEndsInv
<1>6. CASE Disconnect
    BY <1>6, DisconnectInv
<1>7. CASE Connect
    BY <1>7, ConnectInv
<1>8. CASE Tick
    BY <1>8, TickInv
<1>9. CASE UNCHANGED vars
    BY <1>9
    DEF vars, IInv, TypeOK, UpdatesTrue, TrueDeltas, SnapshotsTrue, HeldTrue, ConsumersAgree,
        ShownBehind, DownIsEmpty, HasBook, Live
<1>. QED BY <1>1, <1>2, <1>3, <1>4, <1>5, <1>6, <1>7, <1>8, <1>9 DEF Next

-----------------------------------------------------------------------------
(* The theorems.                                                           *)

\* The inductive invariant holds of every behaviour.
THEOREM Invariance == Spec => []IInv
BY InitInv, NextInv, PTL DEF Spec

\* The variables of the connector and of the venue's model keep their types.
THEOREM TypeCorrect == Spec => []TypeOK
<1>1. IInv => TypeOK
    BY DEF IInv
<1>. QED BY <1>1, Invariance, PTL

\* Every book held anywhere is the venue's at the number it bears.
THEOREM BooksTrue == Spec => []BooksAreTrue
<1>1. IInv => BooksAreTrue
    BY DEF IInv, HeldTrue, BooksAreTrue, TrueBook
<1>. QED BY <1>1, Invariance, PTL

\* A consumer that misses nothing holds the connector's live book.
THEOREM Agreement == Spec => []ConsumersAgree
<1>1. IInv => ConsumersAgree
    BY DEF IInv
<1>. QED BY <1>1, Invariance, PTL

\* What is held back for the replay is in the venue's order, and only while there is no book.
THEOREM HeldBackOrdered == Spec => []HeldBackInOrder
<1>1. IInv => HeldBackInOrder
    BY DEF IInv, HeldTrue, UpdatesTrue, TrueDeltas, HeldBackInOrder
<1>. QED BY <1>1, Invariance, PTL

-----------------------------------------------------------------------------
(* What a step publishes, and the promise of BookFeed.                     *)

\* Nothing is published, and no book becomes live.
Quiet ==
    /\ UNCHANGED <<epoch, shown, shownIn>>
    /\ Live' => Live

\* Something is published, the connector is live, and the number shown has grown.
Told ==
    /\ epoch' = epoch
    /\ shownIn' = epoch
    /\ Live'
    /\ shown'.last \in 1..MaxId
    /\ shownIn = epoch => shown.last < shown'.last

\* An update is published only on top of older numbers.
LEMMA DeltaArrivesTells ==
    ASSUME IInv, IInv', DeltaArrives
    PROVE  Quiet \/ Told
<1> USE DEF IInv
<1> DEFINE d == Head(stream)
           out == OnDelta(entry, d)
<1>1. /\ stream # <<>>
      /\ entry' = out.entry
      /\ IF out.attached THEN Publish(SnapshotEvent(out.entry.book))
         ELSE IF out.forward THEN Publish(DeltaEvent(d))
         ELSE UNCHANGED <<shown, shownIn>>
      /\ epoch' = epoch
    BY DEF DeltaArrives
<1>2. TrueDelta(epoch, d) /\ d \in Delta /\ d.last <= head
    BY <1>1, TrueDeltasTail DEF UpdatesTrue
<1>3. shownIn = epoch => shown.last <= d.prev
    <2>1. stream \in Seq(Delta)
        BY DEF TypeOK
    <2>2. 1 \in DOMAIN stream /\ d = stream[1]
        BY <1>1, <2>1
    <2>. QED BY <2>2 DEF ShownBehind
<1>4. d.prev \in Nat /\ d.prev < d.last /\ d.last \in 1..MaxId
    BY <1>2, BookSyncAssumption DEF TrueDelta, VenueDelta
<1>5. entry \in Entry
    BY DEF TypeOK
<1> HIDE DEF d
<1>6. CASE out = HoldBack(entry, d)
    <2>1. entry'.book = NoBook /\ UNCHANGED <<shown, shownIn>>
        BY <1>1, <1>2, <1>5, <1>6, HoldBackEffect
    <2>. QED BY <1>1, <2>1 DEF Quiet, Live, HasBook
<1>7. CASE out.entry = entry /\ ~out.forward /\ ~out.attached
    BY <1>1, <1>7 DEF Quiet, Live, HasBook
<1>8. CASE /\ HasBook
           /\ ApplyOutcome(entry.book, d) = "Applied"
           /\ out.entry = [entry EXCEPT !.book = ApplyDelta(entry.book, d)]
           /\ out.forward = entry.book.synced
           /\ out.attached = ~entry.book.synced
    <2>1. /\ entry'.book = ApplyDelta(entry.book, d)
          /\ entry'.book.last = d.last
          /\ entry'.book.synced
        BY <1>1, <1>5, <1>8 DEF ApplyDelta, Entry
    <2>2. entry'.book # NoBook
        <3>1. entry.book \in Book
            BY <1>8 DEF HeldTrue, TrueBook
        <3>. QED BY <1>2, <2>1, <3>1, ApplyType, NoBookAssumption
    <2>3. Live' /\ shown' = entry'.book /\ shownIn' = epoch
        BY <1>1, <2>1, <2>2 DEF Live, HasBook, ConsumersAgree
    <2>4. shownIn = epoch => shown.last \in Nat
        BY DEF ShownBehind, TypeOK, Book
    <2>. QED BY <1>1, <1>3, <1>4, <2>1, <2>3, <2>4 DEF Told
<1>. QED BY <1>2, <1>5, <1>6, <1>7, <1>8, OnDeltaEffect DEF HasBook

\* A whole book is published only when the replay has carried it past what was shown.
LEMMA SnapshotArrivesTells ==
    ASSUME IInv, IInv', NEW i \in Slot, SnapshotArrives(i)
    PROVE  Quiet \/ Told
<1> USE DEF IInv
<1> DEFINE installed == InstallSnapshot(entry, fetches[i].snap)
<1>1. /\ entry' = installed.entry
      /\ IF installed.attached THEN Publish(SnapshotEvent(installed.entry.book))
         ELSE UNCHANGED <<shown, shownIn>>
      /\ epoch' = epoch
      /\ fetches[i].snap # NoBook
    BY DEF SnapshotArrives
<1>2. /\ installed.attached <=> Live'
      /\ installed.attached =>
            \E k \in DOMAIN entry.buffered : entry'.book.last = entry.buffered[k].last
    BY <1>1, InstallEffect DEF Live, HasBook
<1> HIDE DEF installed
<1>3. CASE ~installed.attached
    BY <1>1, <1>2, <1>3 DEF Quiet
<1>4. CASE installed.attached
    <2>1. Live' /\ shown' = entry'.book /\ shownIn' = epoch
        BY <1>1, <1>2, <1>4 DEF ConsumersAgree
    <2>2. PICK k \in DOMAIN entry.buffered : entry'.book.last = entry.buffered[k].last
        BY <1>2, <1>4
    <2>3. TrueDelta(epoch, entry.buffered[k])
        BY DEF UpdatesTrue, TrueDeltas
    <2>4. /\ entry.buffered[k].prev \in Nat
          /\ entry.buffered[k].prev < entry.buffered[k].last
          /\ entry.buffered[k].last \in 1..MaxId
        BY <2>3, BookSyncAssumption DEF TrueDelta, VenueDelta
    <2>5. shownIn = epoch => shown.last \in Nat /\ shown.last <= entry.buffered[k].prev
        BY DEF ShownBehind, TypeOK, Book
    <2>. QED BY <1>1, <2>1, <2>2, <2>4, <2>5 DEF Told
<1>. QED BY <1>3, <1>4

\* Every step is quiet, tells something newer, or starts a connection.
LEMMA StepTells ==
    ASSUME IInv, IInv', [Next]_vars
    PROVE  Quiet \/ Told \/ Connect
<1>1. ASSUME NEW step \in 1..MaxStep, NEW lost \in BOOLEAN, VenueUpdate(step, lost) PROVE Quiet
    BY <1>1 DEF VenueUpdate, Quiet, Live, HasBook
<1>2. ASSUME NEW i \in Slot, NEW n \in 0..head, RestAnswers(i, n) PROVE Quiet
    BY <1>2 DEF RestAnswers, Quiet, Live, HasBook
<1>3. CASE DeltaArrives
    BY <1>3, DeltaArrivesTells
<1>4. ASSUME NEW i \in Slot, SnapshotArrives(i) PROVE Quiet \/ Told
    BY <1>4, SnapshotArrivesTells
<1>5. ASSUME NEW i \in Slot, FetchFails(i) \/ FetchDies(i) PROVE Quiet
    <2>1. entry'.book = entry.book
        BY <1>5 DEF FetchFails, FetchDies, SnapshotFailed, IInv, TypeOK, Entry
    <2>. QED BY <1>5, <2>1 DEF FetchFails, FetchDies, Quiet, Live, HasBook
<1>6. CASE Disconnect
    BY <1>6 DEF Disconnect, FreshEntry, Quiet, Live, HasBook
<1>7. CASE Tick
    <2>1. entry'.book = entry.book
        BY <1>7 DEF Tick, Aged, IInv, TypeOK, Entry
    <2>. QED BY <1>7, <2>1 DEF Tick, Quiet, Live, HasBook
<1>8. CASE UNCHANGED vars
    BY <1>8 DEF vars, Quiet, Live, HasBook
<1>. QED BY <1>1, <1>2, <1>3, <1>4, <1>5, <1>6, <1>7, <1>8 DEF Next

\* A consumer's copy, once held, is never dropped by an update that does not chain.
THEOREM NeverTorn == Spec => ReadModelNeverTorn
<1>1. IInv /\ IInv' /\ [Next]_vars => [shown # NoBook => shown' # NoBook]_vars
    <2> SUFFICES ASSUME IInv, IInv', [Next]_vars, shown # NoBook PROVE shown' # NoBook
        OBVIOUS
    <2>1. CASE Quiet \/ Connect
        BY <2>1 DEF Quiet, Connect
    <2>2. CASE Told
        BY <2>2 DEF Told, IInv, ConsumersAgree, Live, HasBook
    <2>. QED BY <2>1, <2>2, StepTells
<1>. QED BY <1>1, Invariance, PTL DEF Spec, ReadModelNeverTorn

\* What is shown of one connection only moves forward.
THEOREM MovesForward == Spec => ShownMovesForward
<1>1. IInv /\ IInv' /\ [Next]_vars =>
          [shownIn = shownIn' /\ shown # shown' => shown'.last > shown.last]_vars
    <2> SUFFICES ASSUME IInv, IInv', [Next]_vars, shownIn = shownIn', shown # shown'
                 PROVE  shown'.last > shown.last
        OBVIOUS
    <2>1. Told
        BY StepTells DEF Quiet, Connect
    <2>2. shown.last \in Nat
        BY <2>1 DEF Told, IInv, ShownBehind, TypeOK, Book
    <2>. QED BY <2>1, <2>2, BookSyncAssumption DEF Told
<1>. QED BY <1>1, Invariance, PTL DEF Spec, ShownMovesForward

\* The connector keeps the promise of BookFeed, step by step.
THEOREM KeepsPromise == Spec => ImplementsFeed
<1> DEFINE position == IF shownIn = epoch THEN shown.last ELSE 0
<1>1. Init => Feed!FeedInit
    BY DEF Init, Feed!FeedInit, Feed!Nowhere, Live, HasBook, FreshEntry
<1>2. IInv /\ IInv' /\ [Next]_vars => [Feed!FeedNext]_(Feed!feedVars)
    <2> SUFFICES ASSUME IInv, IInv', [Next]_vars PROVE [Feed!FeedNext]_(Feed!feedVars)
        OBVIOUS
    <2>1. CASE Quiet
        <3>1. epoch' = epoch /\ position' = position
            BY <2>1 DEF Quiet
        <3>2. CASE Live /\ ~Live'
            <4>1. Live' = FALSE
                BY <3>2
            <4>. QED BY <3>1, <3>2, <4>1 DEF Feed!FeedNext, Feed!LoseSync
        <3>3. CASE ~(Live /\ ~Live')
            <4>1. Live' = Live
                BY <2>1, <3>3 DEF Quiet, Live
            <4>. QED BY <3>1, <4>1 DEF Feed!feedVars
        <3>. QED BY <3>2, <3>3
    <2>2. CASE Told
        <3>1. /\ epoch' = epoch
              /\ position' = shown'.last /\ position' \in 1..MaxId
              /\ position < position'
            BY <2>2 DEF Told
        <3>2. Live' = TRUE
            BY <2>2 DEF Told, Live
        <3>3. CASE Live
            BY <3>1, <3>2, <3>3 DEF Feed!FeedNext, Feed!PublishDelta
        <3>4. CASE ~Live
            BY <3>1, <3>2, <3>4 DEF Feed!FeedNext, Feed!PublishBook
        <3>. QED BY <3>3, <3>4
    <2>3. CASE Connect
        <3>1. ~Live /\ ~Live'
            BY <2>3 DEF IInv, DownIsEmpty, Connect, FreshEntry, Live, HasBook
        <3>2. epoch' = epoch + 1 /\ shownIn' # epoch'
            BY <2>3 DEF IInv, TypeOK, Connect
        <3>. QED BY <3>1, <3>2 DEF Feed!FeedNext, Feed!Renew, Feed!Nowhere, Live
    <2>. QED BY <2>1, <2>2, <2>3, StepTells
<1>. QED BY <1>1, <1>2, Invariance, PTL DEF Spec, ImplementsFeed, Feed!FeedSpec


-----------------------------------------------------------------------------
(* The requests for snapshots.                                             *)

\* The age the entry gives its last request is the time since the last fetch was spawned,
\* as far as the cooldown can tell.
RequestDated ==
    IF entry.asked = Never THEN rested = Cooldown
    ELSE rested = IF entry.asked < Cooldown THEN entry.asked ELSE Cooldown

\* An update that makes the connector ask starts the clock again; any other leaves it.
LEMMA OnDeltaAsks ==
    ASSUME NEW e \in Entry, NEW d \in Delta
    PROVE  LET out == OnDelta(e, d) IN
           /\ out.need => out.entry.asked = 0
           /\ ~out.need => out.entry.asked = e.asked
           /\ out.need /\ Len(e.buffered) < MaxBuffered =>
                 e.asked = Never \/ e.asked >= Cooldown
<1> DEFINE g == [e EXCEPT !.book = NoBook]
           b == Buffer(g, d)
<1>1. /\ g.asked = e.asked /\ g.awaiting = e.awaiting /\ g.buffered = e.buffered
      /\ g \in Entry
    BY DEF Entry
<1>2. /\ b \in Entry
      /\ Len(e.buffered) < MaxBuffered => b.asked = e.asked /\ b.awaiting = e.awaiting
      /\ b.asked = e.asked \/ b.asked = Never
    <2> HIDE DEF g
    <2>0. Append(g.buffered, d) \in Seq(Delta) /\ <<d>> \in Seq(Delta)
        BY <1>1 DEF Entry
    <2>1. CASE Len(g.buffered) >= MaxBuffered
        <3>1. b = [g EXCEPT !.buffered = <<d>>, !.awaiting = FALSE, !.asked = Never]
            BY <2>1 DEF Buffer
        <3>2. Len(e.buffered) \in Nat
            BY DEF Entry
        <3>3. b.asked = Never
            BY <1>1, <3>1 DEF Entry
        <3>4. b \in Entry
            BY <1>1, <2>0, <3>1 DEF Entry
        <3>. QED BY <1>1, <2>1, <3>2, <3>3, <3>4, BookSetAssumption
    <2>2. CASE ~(Len(g.buffered) >= MaxBuffered)
        <3>1. b = [g EXCEPT !.buffered = Append(g.buffered, d)]
            BY <2>2 DEF Buffer
        <3>. QED BY <1>1, <2>0, <2>2, <3>1 DEF Entry
    <2>. QED BY <2>1, <2>2
<1> HIDE DEF g
<1>3. CASE e.book = NoBook \/ ApplyOutcome(e.book, d) = "Gap"
    <2>1. OnDelta(e, d) = HoldBack(e, d)
        BY <1>3 DEF OnDelta
    <2> HIDE DEF b
    <2>2. /\ HoldBack(e, d).need = ~Blocked(b)
          /\ HoldBack(e, d).entry = IF Blocked(b) THEN b ELSE [b EXCEPT !.awaiting = TRUE, !.asked = 0]
        BY DEF HoldBack, b, g
    <2>3. Blocked(b) => b.asked # Never
        BY DEF Blocked
    <2>4. ~Blocked(b) => b.asked = Never \/ b.asked >= Cooldown
        BY <1>2, BookSetAssumption DEF Blocked, Entry
    <2>5. ~Blocked(b) => HoldBack(e, d).entry.asked = 0
        BY <1>2, <2>2 DEF Entry
    <2>. QED BY <1>2, <2>1, <2>2, <2>3, <2>4, <2>5
<1>4. CASE ~(e.book = NoBook \/ ApplyOutcome(e.book, d) = "Gap")
    BY <1>4 DEF OnDelta, Entry
<1>. QED BY <1>3, <1>4

\* Every step keeps the two clocks together.
LEMMA RequestDatedNext ==
    ASSUME TypeOK, RequestDated, [Next]_vars
    PROVE  RequestDated'
<1> USE DEF RequestDated
<1>1. CASE DeltaArrives
    <2> DEFINE out == OnDelta(entry, Head(stream))
    <2>1. Head(stream) \in Delta /\ entry \in Entry
        BY <1>1 DEF DeltaArrives, TypeOK
    <2>2. /\ entry' = out.entry
          /\ out.need => rested' = 0
          /\ ~out.need => rested' = rested
        BY <1>1 DEF DeltaArrives, SpawnFetch
    <2>3. /\ out.need => entry'.asked = 0
          /\ ~out.need => entry'.asked = entry.asked
        BY <2>1, <2>2, OnDeltaAsks
    <2> HIDE DEF out
    <2>. QED BY <2>2, <2>3, BookSetAssumption
<1>2. CASE Tick
    <2>1. entry \in Entry /\ entry' = Aged(entry)
          /\ rested' = IF rested < Cooldown THEN rested + 1 ELSE rested
        BY <1>2 DEF Tick, TypeOK
    <2>2. CASE entry.asked = Never
        BY <2>1, <2>2, BookSetAssumption DEF Aged
    <2>3. CASE entry.asked # Never
        <3>1. entry'.asked = Older(entry.asked) /\ entry.asked \in 0..Deadline
            BY <2>1, <2>3 DEF Aged, Entry
        <3>2. Older(entry.asked) \in Nat
            BY <3>1, BookSetAssumption DEF Older
        <3>. QED BY <2>1, <2>3, <3>1, <3>2, BookSetAssumption DEF Older
    <2>. QED BY <2>2, <2>3
<1>3. ASSUME NEW i \in Slot, FetchFails(i) \/ FetchDies(i) \/ SnapshotArrives(i)
      PROVE  RequestDated'
    <2>1. entry'.asked = entry.asked
        BY <1>3 DEF FetchFails, FetchDies, SnapshotArrives, SnapshotFailed, InstallSnapshot, TypeOK, Entry
    <2>2. rested' = rested
        BY <1>3 DEF FetchFails, FetchDies, SnapshotArrives
    <2>. QED BY <2>1, <2>2
<1>4. ASSUME NEW i \in Slot, NEW n \in 0..head, RestAnswers(i, n) PROVE RequestDated'
    BY <1>4 DEF RestAnswers
<1>5. CASE Disconnect
    BY <1>5 DEF Disconnect, FreshEntry
<1>6. ASSUME NEW step \in 1..MaxStep, NEW lost \in BOOLEAN, VenueUpdate(step, lost) PROVE RequestDated'
    BY <1>6 DEF VenueUpdate
<1>7. CASE Connect \/ UNCHANGED vars
    BY <1>7 DEF Connect, vars
<1>. QED BY <1>1, <1>2, <1>3, <1>4, <1>5, <1>6, <1>7 DEF Next

\* A storm of gaps asks for no more than one snapshot per cooldown.
THEOREM NotHammered == Spec => RestNotHammered
<1> DEFINE Paced(i) == fetches'[i] = Started /\ fetches[i] # Started /\ Len(entry.buffered) < MaxBuffered =>
                          rested = Cooldown
<1>1. Init => RequestDated
    BY DEF Init, FreshEntry, RequestDated
<1>2. TypeOK /\ RequestDated /\ [Next]_vars => RequestDated'
    BY RequestDatedNext
<1>3. TypeOK /\ RequestDated /\ [Next]_vars => [\A i \in Slot : Paced(i)]_vars
    <2> SUFFICES ASSUME TypeOK, RequestDated, Next, NEW i \in Slot,
                        fetches'[i] = Started, fetches[i] # Started,
                        Len(entry.buffered) < MaxBuffered
                 PROVE  rested = Cooldown
        OBVIOUS
    <2>1. Started # Idle /\ Started.snap = NoBook /\ Started.age = 0 /\ Started.busy
        BY DEF Started, Idle
    <2>2. fetches[i].age \in Nat /\ fetches[i] \in Fetch
        BY BookSyncAssumption DEF TypeOK, Fetch
    <2>3. CASE DeltaArrives
        <3>1. Head(stream) \in Delta /\ entry \in Entry
            BY <2>3 DEF DeltaArrives, TypeOK
        <3>2. OnDelta(entry, Head(stream)).need
            BY <2>3 DEF DeltaArrives
        <3>3. entry.asked = Never \/ entry.asked >= Cooldown
            BY <3>1, <3>2, OnDeltaAsks
        <3>4. entry.asked # Never => entry.asked \in Nat
            BY <3>1, BookSetAssumption DEF Entry
        <3>. QED BY <3>3, <3>4, BookSetAssumption DEF RequestDated
    <2>4. CASE Tick
        <3>1. CASE fetches[i].busy
            <4>1. fetches'[i].age = fetches[i].age + 1
                BY <2>2, <2>4, <3>1 DEF Tick, Fetch
            <4>. QED BY <2>1, <2>2, <4>1
        <3>2. CASE ~fetches[i].busy
            BY <2>4, <3>2 DEF Tick
        <3>. QED BY <3>1, <3>2
    <2>5. ASSUME NEW k \in Slot, FetchFails(k) \/ FetchDies(k) \/ SnapshotArrives(k) PROVE FALSE
        BY <2>1, <2>5 DEF FetchFails, FetchDies, SnapshotArrives, TypeOK
    <2>6. ASSUME NEW k \in Slot, NEW n \in 0..head, RestAnswers(k, n) PROVE FALSE
        <3>1. fetches' = [fetches EXCEPT ![k].snap = VenueSnapshot(epoch, n)]
            BY <2>6 DEF RestAnswers
        <3>2. VenueSnapshot(epoch, n) # NoBook
            <4>1. VenueBook(epoch, n) \in [Level -> Qty] /\ n \in Nat
                BY BookSyncAssumption DEF TypeOK
            <4>2. VenueSnapshot(epoch, n) \in Book
                BY <4>1 DEF VenueSnapshot, Book
            <4>. QED BY <4>2, NoBookAssumption
        <3>. QED BY <2>1, <2>2, <3>1, <3>2 DEF TypeOK, Fetch
    <2>7. CASE Disconnect
        BY <2>1, <2>7 DEF Disconnect
    <2>8. ASSUME NEW step \in 1..MaxStep, NEW lost \in BOOLEAN, VenueUpdate(step, lost) PROVE FALSE
        BY <2>8 DEF VenueUpdate
    <2>9. CASE Connect
        BY <2>9 DEF Connect
    <2>. QED BY <2>3, <2>4, <2>5, <2>6, <2>7, <2>8, <2>9 DEF Next
<1>. QED BY <1>1, <1>2, <1>3, TypeCorrect, PTL DEF Spec, RestNotHammered

-----------------------------------------------------------------------------
(* Second part: the tape and the bars.  First what a fold of events comes  *)
(* to, one event at a time.                                                *)

\* A set of places that is not empty has a greatest one.
LEMMA GreatestOf ==
    ASSUME NEW n \in Nat, NEW S, S \subseteq 1 .. n, S # {}
    PROVE  Max(S) \in S /\ \A x \in S : x <= Max(S)
<1> DEFINE T == {k \in Nat : n - k \in S}
<1>1. T # {}
    <2>1. PICK x \in S : TRUE
        OBVIOUS
    <2>2. n - x \in Nat /\ n - (n - x) = x
        BY <2>1
    <2> QED BY <2>1, <2>2
<1>2. PICK k \in T : \A j \in T : k <= j
    BY <1>1, LeastNat
<1>3. \A x \in S : x <= n - k
    <2>1. TAKE x \in S
    <2>2. n - x \in T
        OBVIOUS
    <2> QED BY <1>2, <2>2
<1>4. \E m \in S : \A x \in S : m >= x
    BY <1>2, <1>3
<1> QED BY <1>4 DEF Max

\* The greater and the lesser of two numbers.
LEMMA TwoOf ==
    ASSUME NEW a \in Int, NEW b \in Int
    PROVE  /\ Max({a, b}) = IF a >= b THEN a ELSE b
           /\ Min({a, b}) = IF a <= b THEN a ELSE b
<1>1. \E m \in {a, b} : \A x \in {a, b} : m >= x
    BY \A x \in {a, b} : x = a \/ x = b
<1>2. \E m \in {a, b} : \A x \in {a, b} : m <= x
    BY \A x \in {a, b} : x = a \/ x = b
<1>3. Max({a, b}) \in {a, b} /\ \A x \in {a, b} : Max({a, b}) >= x
    BY <1>1 DEF Max
<1>4. Min({a, b}) \in {a, b} /\ \A x \in {a, b} : Min({a, b}) <= x
    BY <1>2 DEF Min
<1> QED BY <1>3, <1>4

\* What the fold of the events at the places of S comes to, for the places of it that are no
\* further than m.
OneMore(f, s, it, S) == IF S = {} THEN f ELSE Applied(it[S \ {Max(S)}], s[Max(S)])
FoldsUpTo(f, s, it, m) ==
    /\ it = [S \in SUBSET (1 .. Len(s)) |-> it[S]]
    /\ \A S \in SUBSET (1 .. Len(s)) : S \subseteq 1 .. m => it[S] = OneMore(f, s, it, S)

\* A fold that is right up to a place is right one place further.
LEMMA FoldsGoOn ==
    ASSUME NEW f, NEW s \in Seq(Event), NEW m \in Nat, NEW it, FoldsUpTo(f, s, it, m)
    PROVE  \E more : FoldsUpTo(f, s, more, m + 1)
<1> DEFINE more == [S \in SUBSET (1 .. Len(s)) |-> OneMore(f, s, it, S)]
<1>1. ASSUME NEW S \in SUBSET (1 .. Len(s)), S \subseteq 1 .. m + 1
      PROVE  more[S] = OneMore(f, s, more, S)
    <2>1. CASE S = {}
        BY <2>1 DEF OneMore
    <2>2. CASE S # {}
        <3> DEFINE R == S \ {Max(S)}
        <3>1. m + 1 \in Nat
            OBVIOUS
        <3>2. Max(S) \in S /\ \A x \in S : x <= Max(S)
            BY ONLY <3>1, <1>1, <2>2, GreatestOf
        <3>3. R \subseteq 1 .. m /\ R \in SUBSET (1 .. Len(s))
            <4>1. ASSUME NEW x \in S, x # Max(S) PROVE x \in 1 .. m
                <5>1. x \in 1 .. m + 1 /\ Max(S) \in 1 .. m + 1 /\ x <= Max(S)
                    BY <3>2, <1>1
                <5> QED BY ONLY <4>1, <5>1, m \in Nat
            <4> QED BY <4>1
        <3>4. it[R] = OneMore(f, s, it, R)
            BY <3>3 DEF FoldsUpTo
        <3>5. more[R] = it[R]
            BY <3>3, <3>4
        <3>6. more[S] = OneMore(f, s, it, S)
            OBVIOUS
        <3> HIDE DEF more
        <3> QED BY <2>2, <3>5, <3>6 DEF OneMore
    <2> QED BY <2>1, <2>2
<1>2. more = [S \in SUBSET (1 .. Len(s)) |-> more[S]]
    OBVIOUS
<1> HIDE DEF more
<1> QED BY <1>1, <1>2 DEF FoldsUpTo

\* There is a fold of any sequence of events: it is taken in at the places in order.
LEMMA FoldsExist ==
    ASSUME NEW f, NEW s \in Seq(Event)
    PROVE  \E it : it = [S \in SUBSET (1 .. Len(s)) |-> OneMore(f, s, it, S)]
<1> DEFINE T == {m \in Nat : ~ \E it : FoldsUpTo(f, s, it, m)}
<1>1. T = {}
    <2>1. SUFFICES ASSUME T # {} PROVE FALSE
        OBVIOUS
    <2>2. PICK m \in T : \A k \in T : m <= k
        BY <2>1, LeastNat
    <2>3. m # 0
        <3> DEFINE it == [S \in SUBSET (1 .. Len(s)) |-> f]
        <3>1. \A S \in SUBSET (1 .. Len(s)) : S \subseteq 1 .. 0 => S = {}
            OBVIOUS
        <3>2. FoldsUpTo(f, s, it, 0)
            BY <3>1 DEF FoldsUpTo, OneMore
        <3> QED BY <3>2
    <2>4. m - 1 \in Nat /\ m - 1 \notin T
        BY <2>2, <2>3
    <2>5. PICK it : FoldsUpTo(f, s, it, m - 1)
        BY <2>4
    <2>6. \E more : FoldsUpTo(f, s, more, (m - 1) + 1)
        BY ONLY s \in Seq(Event), <2>4, <2>5, FoldsGoOn
    <2>7. (m - 1) + 1 = m
        BY <2>4
    <2> QED BY <2>2, <2>6, <2>7
<1>2. Len(s) \in Nat
    OBVIOUS
<1>3. PICK it : FoldsUpTo(f, s, it, Len(s))
    BY <1>1, <1>2
<1> QED BY <1>3 DEF FoldsUpTo

\* y is what f becomes with the events of s, one after the other.
Course(y, f, s) == y[0] = f /\ \A i \in 1 .. Len(s) : y[i] = Applied(y[i - 1], s[i])

\* Applying a sequence of events is applying them one after the other.
LEMMA AppliedInOrder ==
    ASSUME NEW f, NEW s \in Seq(Event)
    PROVE  \E y : Course(y, f, s) /\ AppliedAll(f, s) = y[Len(s)]
<1> DEFINE it == CHOOSE it : it = [S \in SUBSET (1 .. Len(s)) |-> OneMore(f, s, it, S)]
           y  == [i \in 0 .. Len(s) |-> it[1 .. i]]
<1>1. it = [S \in SUBSET (1 .. Len(s)) |-> OneMore(f, s, it, S)]
    BY FoldsExist
<1>2. AppliedAll(f, s) = it[1 .. Len(s)]
    <2>1. DOMAIN s = 1 .. Len(s)
        OBVIOUS
    <2> QED BY <2>1 DEF AppliedAll, FoldLeft, MapThenFoldSet, OneMore
<1> HIDE DEF it
<1>3. y[0] = f
    <2>1. 1 .. 0 = {}
        OBVIOUS
    <2> QED BY <1>1, <2>1 DEF OneMore
<1>4. ASSUME NEW i \in 1 .. Len(s) PROVE y[i] = Applied(y[i - 1], s[i])
    <2>1. 1 .. i # {} /\ 1 .. i \subseteq 1 .. i /\ i \in Nat
        <3>1. 1 \in 1 .. i /\ i \in Nat
            OBVIOUS
        <3>2. 1 .. i # {}
            BY <3>1, Zenon
        <3> QED BY <3>1, <3>2, Zenon
    <2>2. Max(1 .. i) \in 1 .. i /\ \A x \in 1 .. i : x <= Max(1 .. i)
        BY ONLY <2>1, GreatestOf
    <2>3. Max(1 .. i) = i
        BY <2>2
    <2>4. (1 .. i) \ {i} = 1 .. i - 1 /\ 1 .. i \in SUBSET (1 .. Len(s)) /\ i - 1 \in 0 .. Len(s)
        OBVIOUS
    <2>5. it[1 .. i] = Applied(it[1 .. i - 1], s[i])
        BY <1>1, <2>1, <2>3, <2>4 DEF OneMore
    <2> QED BY <2>4, <2>5
<1>5. y[Len(s)] = it[1 .. Len(s)]
    OBVIOUS
<1> QED BY <1>2, <1>3, <1>4, <1>5 DEF Course

-----------------------------------------------------------------------------
(* Keeping, folding and applying, each by what it leaves.                  *)

\* Keep drops the oldest beyond the bound, and leaves the others where they were, counted
\* from the end (the drain of a ring that is over its length).
LEMMA KeepFacts ==
    ASSUME NEW T, NEW s \in Seq(T), NEW c \in Nat \ {0}
    PROVE  /\ Keep(s, c) \in Seq(T)
           /\ Len(Keep(s, c)) = IF Len(s) <= c THEN Len(s) ELSE c
           /\ \A j \in 0 .. Len(Keep(s, c)) - 1 : Keep(s, c)[Len(Keep(s, c)) - j] = s[Len(s) - j]
<1> DEFINE n == Len(s)
           m == Max({1, n - c + 1})
<1>1. n \in Nat /\ n - c + 1 \in Int
    OBVIOUS
<1>2. m = IF 1 >= n - c + 1 THEN 1 ELSE n - c + 1
    BY ONLY <1>1, 1 \in Int, TwoOf
<1>3. Keep(s, c) = SubSeq(s, m, n)
    BY DEF Keep
<1>4. m \in Nat \ {0} /\ n - m + 1 = (IF n <= c THEN n ELSE c) /\ m <= n + 1
    BY ONLY <1>1, <1>2, c \in Nat \ {0}
<1> HIDE DEF m
<1>5. \A i \in m .. n : s[i] \in T
    BY <1>4
<1>6. /\ SubSeq(s, m, n) \in Seq(T)
      /\ Len(SubSeq(s, m, n)) = IF m <= n THEN n - m + 1 ELSE 0
      /\ \A i \in 1 .. n - m + 1 : SubSeq(s, m, n)[i] = s[m + i - 1]
    BY <1>1, <1>4, <1>5, SubSeqProperties
<1>7. Len(SubSeq(s, m, n)) = n - m + 1
    BY <1>4, <1>6
<1>8. ASSUME NEW j \in 0 .. n - m PROVE SubSeq(s, m, n)[n - m + 1 - j] = s[n - j]
    <2>1. n - m + 1 - j \in 1 .. n - m + 1 /\ m + (n - m + 1 - j) - 1 = n - j
        BY <1>1, <1>4
    <2> QED BY <1>6, <2>1
<1> QED BY <1>1, <1>3, <1>4, <1>6, <1>7, <1>8

\* A bar that is newer is added, and so the oldest may go; one of the last one's time takes
\* its place; an older one is ignored.
Newer(s, bar) == s = <<>> \/ Last(s).openTime < bar.openTime
Anew(s, bar)  == s # <<>> /\ Last(s).openTime = bar.openTime

Grown(r, s, bar, d) ==
    /\ r \in Seq(Bar)
    /\ Len(r) = IF Len(s) + 1 <= d THEN Len(s) + 1 ELSE d
    /\ Len(r) >= 1 /\ r[Len(r)] = bar
    /\ \A j \in 1 .. Len(r) - 1 : r[Len(r) - j] = s[Len(s) + 1 - j]

\* fold_candle adds a bar that is newer than the last.
LEMMA NewerBar ==
    ASSUME NEW s \in Seq(Bar), NEW bar \in Bar, NEW d \in Nat \ {0}, Newer(s, bar), NEW r,
           r = FoldCandle(s, bar, d)
    PROVE  Grown(r, s, bar, d)
<1> DEFINE t == Append(s, bar)
<1>1. r = Keep(t, d)
    <2>1. CASE s = <<>>
        BY <2>1 DEF FoldCandle
    <2>2. CASE s # <<>>
        <3>1. Last(s) \in Bar
            BY <2>2 DEF Last
        <3>2. Last(s).openTime \in Int /\ bar.openTime \in Int /\ Last(s).openTime < bar.openTime
            BY <2>2, <3>1 DEF Bar, Newer
        <3>3. ~(Last(s).openTime = bar.openTime)
            BY <3>2
        <3> QED BY <2>2, <3>2, <3>3 DEF FoldCandle
    <2> QED BY <2>1, <2>2
<1>2. t \in Seq(Bar) /\ Len(t) = Len(s) + 1 /\ t[Len(s) + 1] = bar /\ \A i \in 1 .. Len(s) : t[i] = s[i]
    OBVIOUS
<1> HIDE DEF t
<1>3. /\ r \in Seq(Bar)
      /\ Len(r) = IF Len(t) <= d THEN Len(t) ELSE d
      /\ \A j \in 0 .. Len(r) - 1 : r[Len(r) - j] = t[Len(t) - j]
    <2>1. t \in Seq(Bar)
        BY <1>2
    <2> QED BY ONLY <1>1, <2>1, d \in Nat \ {0}, KeepFacts
<1>4. Len(r) \in Nat /\ Len(r) >= 1 /\ Len(r) <= Len(s) + 1 /\ Len(s) \in Nat
    BY <1>2, <1>3
<1>5. r[Len(r)] = bar
    <2>1. 0 \in 0 .. Len(r) - 1 /\ Len(r) - 0 = Len(r) /\ Len(t) - 0 = Len(s) + 1
        BY <1>2, <1>4
    <2> QED BY <1>2, <1>3, <2>1
<1>6. ASSUME NEW j \in 1 .. Len(r) - 1 PROVE r[Len(r) - j] = s[Len(s) + 1 - j]
    <2>1. j \in 0 .. Len(r) - 1 /\ Len(s) + 1 - j \in 1 .. Len(s)
        BY <1>4
    <2> QED BY <1>2, <1>3, <2>1
<1> QED BY <1>2, <1>3, <1>4, <1>5, <1>6 DEF Grown

\* All but the last of a sequence.
LEMMA FrontFacts ==
    ASSUME NEW T, NEW s \in Seq(T), s # <<>>
    PROVE  /\ Front(s) \in Seq(T) /\ Len(Front(s)) = Len(s) - 1 /\ Len(s) >= 1
           /\ \A i \in 1 .. Len(s) - 1 : Front(s)[i] = s[i]
<1>0. PICK n \in Nat : n = Len(s)
    OBVIOUS
<1>1. n >= 1 /\ n - 1 \in Int /\ n - 1 \in Nat
    BY <1>0
<1>2. \A i \in 1 .. n - 1 : s[i] \in T
    BY <1>0
<1>3. /\ SubSeq(s, 1, n - 1) \in Seq(T)
      /\ Len(SubSeq(s, 1, n - 1)) = IF 1 <= n - 1 THEN (n - 1) - 1 + 1 ELSE 0
      /\ \A i \in 1 .. (n - 1) - 1 + 1 : SubSeq(s, 1, n - 1)[i] = s[1 + i - 1]
    BY ONLY <1>1, <1>2, 1 \in Int, SubSeqProperties
<1>4. Front(s) = SubSeq(s, 1, n - 1)
    BY <1>0 DEF Front
<1>5. ASSUME NEW i \in 1 .. n - 1 PROVE Front(s)[i] = s[i]
    <2>1. i \in 1 .. (n - 1) - 1 + 1 /\ 1 + i - 1 = i
        BY <1>1
    <2> QED BY <1>3, <1>4, <2>1
<1>6. Len(Front(s)) = n - 1
    BY <1>1, <1>3, <1>4
<1>7. Front(s) \in Seq(T)
    BY <1>3, <1>4
<1> QED BY <1>0, <1>1, <1>5, <1>6, <1>7

\* Another last one.
OtherLast(r, s, x) == r = Front(s) \o <<x>>

\* A sequence with another last one has the others where they were.
LEMMA LastChanged ==
    ASSUME NEW T, NEW s \in Seq(T), NEW x \in T, s # <<>>, NEW r, OtherLast(r, s, x)
    PROVE  /\ r \in Seq(T) /\ Len(r) = Len(s) /\ Len(r) >= 1 /\ r[Len(r)] = x
           /\ \A i \in 1 .. Len(s) - 1 : r[i] = s[i]
<1>1. /\ Front(s) \in Seq(T) /\ Len(Front(s)) = Len(s) - 1 /\ Len(s) >= 1
      /\ \A i \in 1 .. Len(s) - 1 : Front(s)[i] = s[i]
    BY FrontFacts
<1>2. <<x>> \in Seq(T) /\ Len(<<x>>) = 1 /\ <<x>>[1] = x
    OBVIOUS
<1>3. /\ r \in Seq(T) /\ Len(r) = Len(Front(s)) + 1
      /\ \A i \in 1 .. Len(Front(s)) + 1 :
           r[i] = IF i <= Len(Front(s)) THEN Front(s)[i] ELSE <<x>>[i - Len(Front(s))]
    BY <1>1, <1>2, ConcatProperties DEF OtherLast
<1>4. Len(r) = Len(s) /\ Len(s) \in Nat
    BY <1>1, <1>3
<1>5. r[Len(r)] = x
    <2>1. Len(r) \in 1 .. Len(Front(s)) + 1 /\ ~(Len(r) <= Len(Front(s))) /\ Len(r) - Len(Front(s)) = 1
        BY <1>1, <1>4
    <2> QED BY <1>2, <1>3, <2>1
<1>6. ASSUME NEW i \in 1 .. Len(s) - 1 PROVE r[i] = s[i]
    <2>1. i \in 1 .. Len(Front(s)) + 1 /\ i <= Len(Front(s))
        BY <1>1
    <2> QED BY <1>1, <1>3, <2>1
<1> QED BY <1>1, <1>3, <1>4, <1>5, <1>6

\* fold_candle puts a bar of the last one's open time in its place.
LEMMA BarAnew ==
    ASSUME NEW s \in Seq(Bar), NEW bar \in Bar, NEW d \in Nat \ {0}, Anew(s, bar), NEW r,
           r = FoldCandle(s, bar, d)
    PROVE  /\ r \in Seq(Bar) /\ Len(r) = Len(s) /\ Len(r) >= 1 /\ r[Len(r)] = bar
           /\ \A i \in 1 .. Len(s) - 1 : r[i] = s[i]
<1>1. Last(s) \in Bar
    BY DEF Anew, Last
<1>2. Last(s).openTime \in Int /\ bar.openTime \in Int
    BY <1>1 DEF Bar
<1>3. OtherLast(r, s, bar)
    BY <1>2 DEF FoldCandle, Anew, OtherLast
<1>4. s # <<>>
    BY DEF Anew
<1> QED BY ONLY s \in Seq(Bar), bar \in Bar, <1>4, <1>3, LastChanged

\* fold_candle ignores a bar that is older than the last.
LEMMA OlderBar ==
    ASSUME NEW s, NEW bar, NEW d, ~Newer(s, bar), ~Anew(s, bar)
    PROVE  FoldCandle(s, bar, d) = s /\ s # <<>>
BY DEF FoldCandle, Newer, Anew

\* fold_candle keeps the type and the bound of the bars.
LEMMA FoldCandleType ==
    ASSUME NEW s \in Seq(Bar), NEW bar \in Bar, NEW d \in Nat \ {0}, Len(s) <= d
    PROVE  /\ FoldCandle(s, bar, d) \in Seq(Bar) /\ Len(FoldCandle(s, bar, d)) <= d
           /\ FoldCandle(s, bar, d) # <<>>
<1> DEFINE r == FoldCandle(s, bar, d)
<1>0. r = FoldCandle(s, bar, d)
    OBVIOUS
<1> HIDE DEF r
<1>1. CASE Newer(s, bar)
    <2>1. r \in Seq(Bar) /\ Len(r) >= 1 /\ Len(r) = IF Len(s) + 1 <= d THEN Len(s) + 1 ELSE d
        BY <1>0, <1>1, NewerBar DEF Grown
    <2>2. Len(r) <= d /\ r # <<>>
        BY <2>1
    <2> QED BY <1>0, <2>1, <2>2
<1>2. CASE Anew(s, bar)
    <2>1. r \in Seq(Bar) /\ Len(r) = Len(s) /\ Len(r) >= 1
        BY <1>0, <1>2, BarAnew
    <2>2. r # <<>>
        BY <2>1
    <2> QED BY <1>0, <2>1, <2>2
<1>3. CASE ~Newer(s, bar) /\ ~Anew(s, bar)
    BY <1>3, OlderBar
<1> QED BY <1>1, <1>2, <1>3

\* The bounds of what is kept, as the assumptions on the constants have them.
LEMMA Depths ==
    /\ CAPACITY \in Nat \ {0} /\ HISTORY \in Nat \ {0} /\ TAPE_HISTORY \in Nat \ {0}
    /\ CANDLE_DEPTH \in Nat \ {0} /\ TAPE_DEPTH \in Nat \ {0} /\ FANOUT_CAPACITY \in Nat \ {0}
    /\ HISTORY <= CANDLE_DEPTH /\ None \notin Event
BY ChartingAssumption

\* An event is a print or a bar.
LEMMA EventKinds ==
    ASSUME NEW e \in Event
    PROVE  \/ e.kind = "Trade" /\ e.print \in PublicTrade /\ e = Trade(e.print)
           \/ e.kind = "Candle" /\ e.bar \in Bar /\ e = Candle(e.bar)
<1>1. CASE e \in [kind : {"Trade"}, print : PublicTrade]
    BY <1>1 DEF Trade
<1>2. CASE e \in [kind : {"Candle"}, bar : Bar]
    BY <1>2 DEF Candle
<1> QED BY <1>1, <1>2 DEF Event

\* What the terminal keeps, within its bounds.
FeedOK(f) == f \in FeedState /\ Len(f.bars) <= CANDLE_DEPTH /\ Len(f.tape) <= TAPE_DEPTH

\* A bar that reaches the terminal is folded into its bars and changes nothing else.
LEMMA AppliedCandle ==
    ASSUME NEW f, FeedOK(f), NEW e \in Event, e.kind = "Candle"
    PROVE  /\ FeedOK(Applied(f, e)) /\ Applied(f, e).tape = f.tape /\ Applied(f, e).status = f.status
           /\ Applied(f, e).bars = FoldCandle(f.bars, e.bar, CANDLE_DEPTH)
<1>1. e.bar \in Bar
    BY EventKinds
<1>2. f \in FeedState /\ f.bars \in Seq(Bar) /\ Len(f.bars) <= CANDLE_DEPTH
    BY DEF FeedOK, FeedState
<1>3. PICK b : b = FoldCandle(f.bars, e.bar, CANDLE_DEPTH)
    OBVIOUS
<1>4. b \in Seq(Bar) /\ Len(b) <= CANDLE_DEPTH
    BY <1>1, <1>2, <1>3, FoldCandleType, Depths
<1>5. Applied(f, e) = [f EXCEPT !.bars = b]
    BY <1>3 DEF Applied
<1> QED BY <1>2, <1>3, <1>4, <1>5 DEF FeedOK, FeedState

\* A print that reaches the terminal goes to the front of its tape, whose oldest may go, and
\* changes nothing else.
LEMMA AppliedTrade ==
    ASSUME NEW f, FeedOK(f), NEW e \in Event, e.kind = "Trade"
    PROVE  /\ FeedOK(Applied(f, e)) /\ Applied(f, e).bars = f.bars /\ Applied(f, e).status = f.status
           /\ Applied(f, e).tape[1] = e.print
           /\ Len(Applied(f, e).tape) = IF Len(f.tape) + 1 <= TAPE_DEPTH THEN Len(f.tape) + 1 ELSE TAPE_DEPTH
           /\ \A q \in 2 .. Len(Applied(f, e).tape) : Applied(f, e).tape[q] = f.tape[q - 1]
<1>1. e.print \in PublicTrade
    BY EventKinds
<1>2. f \in FeedState /\ f.tape \in Seq(PublicTrade) /\ Len(f.tape) <= TAPE_DEPTH /\ f.trades \in Nat
    BY DEF FeedOK, FeedState
<1>3. PICK n \in Nat : n = Len(f.tape)
    BY <1>2
<1> DEFINE t == <<e.print>> \o f.tape
           m == Min({n + 1, TAPE_DEPTH})
<1>4. m = IF n + 1 <= TAPE_DEPTH THEN n + 1 ELSE TAPE_DEPTH
    <2>1. n + 1 \in Int /\ TAPE_DEPTH \in Int
        BY Depths
    <2> QED BY ONLY <2>1, TwoOf
<1>5. m \in Nat /\ m >= 1 /\ m <= n + 1 /\ m <= TAPE_DEPTH
    BY <1>3, <1>4, Depths
<1>6. <<e.print>> \in Seq(PublicTrade) /\ Len(<<e.print>>) = 1 /\ <<e.print>>[1] = e.print
    BY <1>1
<1>7. /\ t \in Seq(PublicTrade) /\ Len(t) = 1 + n
      /\ \A i \in 1 .. 1 + n : t[i] = IF i <= 1 THEN <<e.print>>[i] ELSE f.tape[i - 1]
    BY <1>2, <1>3, <1>6, ConcatProperties
<1>8. Applied(f, e) = [f EXCEPT !.trades = f.trades + 1, !.tape = SubSeq(t, 1, m)]
    BY <1>3 DEF Applied
<1> HIDE DEF m, t
<1>9. \A i \in 1 .. m : t[i] \in PublicTrade
    BY <1>5, <1>7
<1>10. PICK s : s = SubSeq(t, 1, m)
    OBVIOUS
<1>11. /\ s \in Seq(PublicTrade)
       /\ Len(s) = IF 1 <= m THEN m - 1 + 1 ELSE 0
       /\ \A i \in 1 .. m - 1 + 1 : s[i] = t[1 + i - 1]
    BY ONLY <1>5, <1>9, <1>10, 1 \in Int, m \in Int, SubSeqProperties
<1>12. Len(s) = m
    BY <1>5, <1>11
<1>13. \A i \in 1 .. m : s[i] = t[i]
    BY <1>5, <1>11
<1>14. s[1] = e.print /\ \A q \in 2 .. m : s[q] = f.tape[q - 1]
    BY <1>5, <1>6, <1>7, <1>13
<1>15. Applied(f, e) = [f EXCEPT !.trades = f.trades + 1, !.tape = s]
    BY <1>8, <1>10
<1>16. Applied(f, e).tape = s /\ Applied(f, e).bars = f.bars /\ Applied(f, e).status = f.status
    BY <1>2, <1>15 DEF FeedState
<1>17. FeedOK(Applied(f, e))
    <2>1. Applied(f, e) = [status |-> f.status, bars |-> f.bars, tape |-> s, trades |-> f.trades + 1]
        BY <1>2, <1>15 DEF FeedState
    <2>2. Applied(f, e) \in FeedState
        BY <1>2, <1>11, <2>1 DEF FeedState
    <2>3. Len(f.bars) <= CANDLE_DEPTH
        BY DEF FeedOK
    <2>4. Len(s) <= TAPE_DEPTH
        BY <1>5, <1>12
    <2> QED BY <1>16, <2>2, <2>3, <2>4 DEF FeedOK
<1> QED BY <1>3, <1>4, <1>12, <1>14, <1>16, <1>17

\* An event keeps what the terminal has within its types and bounds, and its status.
LEMMA AppliedOK ==
    ASSUME NEW f, FeedOK(f), NEW e \in Event
    PROVE  FeedOK(Applied(f, e)) /\ Applied(f, e).status = f.status
<1>1. e.kind = "Trade" \/ e.kind = "Candle"
    BY EventKinds
<1> QED BY <1>1, AppliedTrade, AppliedCandle

\* On the way, the feed is what it is meant to be.
LEMMA CourseOK ==
    ASSUME NEW f, FeedOK(f), NEW s \in Seq(Event), NEW y, Course(y, f, s)
    PROVE  \A i \in 0 .. Len(s) : FeedOK(y[i]) /\ y[i].status = f.status
<1> DEFINE P(i) == FeedOK(y[i]) /\ y[i].status = f.status
           T    == {i \in 0 .. Len(s) : ~P(i)}
<1>1. SUFFICES ASSUME T # {} PROVE FALSE
    OBVIOUS
<1>2. PICK m \in T : \A k \in T : m <= k
    <2>1. T \subseteq Nat
        OBVIOUS
    <2> HIDE DEF T
    <2> QED BY <1>1, <2>1, LeastNat
<1>3. m # 0
    BY <1>2 DEF Course
<1>4. m \in 1 .. Len(s) /\ m - 1 \in 0 .. Len(s) /\ m - 1 \notin T
    BY <1>2, <1>3
<1>5. P(m - 1) /\ y[m] = Applied(y[m - 1], s[m]) /\ s[m] \in Event
    BY <1>4 DEF Course
<1>6. P(m)
    BY <1>5, AppliedOK
<1> QED BY <1>2, <1>6

-----------------------------------------------------------------------------
(* What the connector's fold of a print yields.                            *)

IsBucketing(b) == b \in [kind : {"Time", "Ticks"}, size : Nat \ {0}]
UpTo(s, t) == \A i \in 1 .. Len(s) : s[i].openTime <= t

\* When a bar opens that begins at an instant.
OpensAt(at, b) == IF b.kind = "Time" THEN at - (at % b.size) ELSE at

\* The bar of a later instant opens no earlier.
LEMMA OpensLater ==
    ASSUME NEW a \in Nat, NEW c \in Nat, a <= c, NEW b, IsBucketing(b)
    PROVE  OpensAt(a, b) <= OpensAt(c, b) /\ OpensAt(a, b) \in Int /\ OpensAt(c, b) \in Int
<1> DEFINE n == b.size
<1>1. n \in Nat \ {0} /\ b.kind \in {"Time", "Ticks"}
    BY DEF IsBucketing
<1> HIDE DEF n
<1>2. a % n \in 0 .. n - 1 /\ c % n \in 0 .. n - 1 /\ a \div n \in Int /\ c \div n \in Int
    BY <1>1
<1>3. a = n * (a \div n) + (a % n) /\ c = n * (c \div n) + (c % n)
    BY <1>1
<1>4. PICK i \in Int, j \in Int, x \in 0 .. n - 1, y \in 0 .. n - 1 :
         i = a \div n /\ j = c \div n /\ x = a % n /\ y = c % n
    BY <1>2
<1>5. a = n * i + x /\ c = n * j + y
    BY <1>3, <1>4
<1>6. n * i <= n * j
    <2>1. CASE i <= j
        BY ONLY <1>1, <2>1, i \in Int, j \in Int
    <2>2. CASE ~(i <= j)
        <3>1. i >= j + 1
            BY <2>2
        <3>2. n * i >= n * (j + 1)
            BY ONLY <1>1, <3>1, i \in Int, j \in Int
        <3>3. n * (j + 1) = n * j + n /\ n * i \in Int /\ n * j \in Int
            BY ONLY <1>1, i \in Int, j \in Int
        <3>4. PICK u \in Int, v \in Int : u = n * i /\ v = n * j
            BY <3>3
        <3>5. u >= v + n /\ a = u + x /\ c = v + y
            BY <1>5, <3>2, <3>3, <3>4
        <3>6. FALSE
            BY ONLY <3>5, <1>1, a <= c, x \in 0 .. n - 1, y \in 0 .. n - 1, u \in Int, v \in Int,
                    a \in Nat, c \in Nat
        <3> QED BY <3>6
    <2> QED BY <2>1, <2>2
<1>7. a - (a % n) = n * i /\ c - (c % n) = n * j
    <2>1. n * i \in Int /\ n * j \in Int
        BY ONLY <1>1, i \in Int, j \in Int
    <2>2. PICK u \in Int, v \in Int : u = n * i /\ v = n * j
        BY <2>1
    <2>3. a = u + x /\ c = v + y
        BY <1>5, <2>2
    <2>4. a - x = u /\ c - y = v
        BY ONLY <2>3, a \in Nat, c \in Nat, x \in 0 .. n - 1, y \in 0 .. n - 1, u \in Int, v \in Int, <1>1
    <2> QED BY <1>4, <2>2, <2>4
<1>8. n * i \in Int /\ n * j \in Int
    BY ONLY <1>1, i \in Int, j \in Int
<1>9. CASE b.kind = "Time"
    <2>1. OpensAt(a, b) = n * i /\ OpensAt(c, b) = n * j
        BY <1>7, <1>9 DEF OpensAt, n
    <2> QED BY <1>6, <1>8, <2>1
<1>10. CASE b.kind = "Ticks"
    <2>1. OpensAt(a, b) = a /\ OpensAt(c, b) = c
        BY <1>10 DEF OpensAt
    <2> QED BY <2>1
<1> QED BY <1>1, <1>9, <1>10

\* A bar opened by a print is a bar of the time it is opened at.
LEMMA OpenedBar ==
    ASSUME NEW p \in PublicTrade, NEW at \in Int, NEW b, IsBucketing(b)
    PROVE  Opened(p, at, b) \in Bar /\ Opened(p, at, b).openTime = at
BY DEF Opened, Bar, PublicTrade, IsBucketing

\* A bar extended by a print is a bar of the same open time.
LEMMA ExtendedBar ==
    ASSUME NEW bar \in Bar, NEW p \in PublicTrade
    PROVE  Extend(bar, p) \in Bar /\ Extend(bar, p).openTime = bar.openTime
<1>1. bar.high \in Int /\ bar.low \in Int /\ p.price \in Int /\ p.qty \in Int
    BY DEF Bar, PublicTrade
<1>2. Max({bar.high, p.price}) = (IF bar.high >= p.price THEN bar.high ELSE p.price)
      /\ Min({bar.low, p.price}) = (IF bar.low <= p.price THEN bar.low ELSE p.price)
    BY ONLY <1>1, TwoOf
<1>3. Max({bar.high, p.price}) \in Int /\ Min({bar.low, p.price}) \in Int
    BY <1>1, <1>2
<1>4. PICK h \in Int, l \in Int : h = Max({bar.high, p.price}) /\ l = Min({bar.low, p.price})
    BY <1>3
<1>5. Extend(bar, p) = [bar EXCEPT !.high = h, !.low = l, !.close = p.price,
                                   !.volume = bar.volume + p.qty, !.trades = bar.trades + 1]
    BY <1>4 DEF Extend
<1>6. PICK v \in Int, n \in Int : v = bar.volume + p.qty /\ n = bar.trades + 1
    BY <1>1 DEF Bar
<1>7. Extend(bar, p) = [bar EXCEPT !.high = h, !.low = l, !.close = p.price, !.volume = v, !.trades = n]
    BY <1>5, <1>6
<1> QED BY <1>1, <1>7 DEF Bar

\* A bar closed is a bar of the same open time.
LEMMA ClosedBar ==
    ASSUME NEW bar \in Bar, NEW c \in BOOLEAN
    PROVE  [bar EXCEPT !.closed = c] \in Bar /\ [bar EXCEPT !.closed = c].openTime = bar.openTime
BY DEF Bar

\* The fold keeps its types and bounds, and what it sends is no newer than either.
Fold(r, t) ==
    /\ r.series \in Seq(Bar) /\ Len(r.series) <= CAPACITY /\ UpTo(r.series, t)
    /\ r.redraw \in Seq(Bar) /\ UpTo(r.redraw, t)

\* The bar that forms is put in place of the last one, within types, bounds and time.
LEMMA FormedFacts ==
    ASSUME NEW s \in Seq(Bar), s # <<>>, Len(s) <= CAPACITY, NEW t \in Int, UpTo(s, t),
           NEW bar \in Bar, bar.openTime <= t
    PROVE  Fold(Formed(s, bar), t)
<1> DEFINE q == Front(s) \o <<bar>>
<1>1. OtherLast(q, s, bar)
    BY DEF OtherLast
<1>2. Formed(s, bar) = [series |-> q, redraw |-> <<bar>>]
    BY DEF Formed, Folded
<1> HIDE DEF q
<1>3. q \in Seq(Bar) /\ Len(q) = Len(s) /\ q[Len(q)] = bar /\ \A i \in 1 .. Len(s) - 1 : q[i] = s[i]
    BY <1>1, LastChanged
<1>4. UpTo(q, t)
    <2>1. ASSUME NEW i \in 1 .. Len(q) PROVE q[i].openTime <= t
        <3>1. CASE i = Len(q)
            BY <1>3, <3>1
        <3>2. CASE i # Len(q)
            <4>1. i \in 1 .. Len(s) - 1 /\ i \in 1 .. Len(s)
                BY <1>3, <3>2
            <4> QED BY <1>3, <4>1 DEF UpTo
        <3> QED BY <3>1, <3>2
    <2> QED BY <2>1 DEF UpTo
<1>5. <<bar>> \in Seq(Bar) /\ UpTo(<<bar>>, t)
    BY DEF UpTo
<1> QED BY <1>2, <1>3, <1>4, <1>5 DEF Fold

\* CandleSet rolls to a new bar within types, bounds and time, and sends it alone if it is
\* the first.
LEMMA RollFacts ==
    ASSUME NEW s \in Seq(Bar), Len(s) <= CAPACITY, NEW t \in Int, UpTo(s, t),
           NEW p \in PublicTrade, NEW at \in Int, at <= t, NEW b, IsBucketing(b)
    PROVE  /\ Fold(Roll(s, p, at, b, CAPACITY), t)
           /\ s = <<>> => Roll(s, p, at, b, CAPACITY).redraw = <<Opened(p, at, b)>>
<1>1. PICK o \in Bar : o = Opened(p, at, b) /\ o.openTime = at
    BY OpenedBar
<1>2. CASE s = <<>>
    <2>1. Roll(s, p, at, b, CAPACITY) = [series |-> <<o>>, redraw |-> <<o>>]
        BY <1>1, <1>2 DEF Roll, Folded
    <2>2. <<o>> \in Seq(Bar) /\ Len(<<o>>) = 1 /\ UpTo(<<o>>, t)
        BY <1>1 DEF UpTo
    <2> QED BY <1>1, <2>1, <2>2, Depths DEF Fold
<1>3. CASE s # <<>>
    <2>1. Last(s) \in Bar /\ Last(s).openTime <= t
        BY <1>3 DEF Last, UpTo
    <2>2. PICK c \in Bar : c = [Last(s) EXCEPT !.closed = TRUE] /\ c.openTime <= t
        BY <2>1, ClosedBar
    <2> DEFINE q == Front(s) \o <<c, o>>
    <2>3. Roll(s, p, at, b, CAPACITY) = [series |-> Keep(q, CAPACITY), redraw |-> <<c, o>>]
        BY <1>1, <1>3, <2>2 DEF Roll, Folded
    <2>4. /\ Front(s) \in Seq(Bar) /\ Len(Front(s)) = Len(s) - 1 /\ Len(s) >= 1
          /\ \A i \in 1 .. Len(s) - 1 : Front(s)[i] = s[i]
        BY <1>3, FrontFacts
    <2>5. <<c, o>> \in Seq(Bar) /\ Len(<<c, o>>) = 2 /\ <<c, o>>[1] = c /\ <<c, o>>[2] = o
        OBVIOUS
    <2>6. /\ q \in Seq(Bar) /\ Len(q) = Len(Front(s)) + 2
          /\ \A i \in 1 .. Len(Front(s)) + 2 :
               q[i] = IF i <= Len(Front(s)) THEN Front(s)[i] ELSE <<c, o>>[i - Len(Front(s))]
        BY <2>4, <2>5, ConcatProperties
    <2> HIDE DEF q
    <2>7. PICK n \in Nat : n = Len(s) /\ n >= 1 /\ Len(q) = n + 1
        BY <2>4, <2>6
    <2>8. ASSUME NEW i \in 1 .. Len(q) PROVE q[i].openTime <= t
        <3>1. CASE i <= n - 1
            <4>1. q[i] = s[i] /\ i \in 1 .. Len(s)
                BY <2>4, <2>6, <2>7, <3>1
            <4> QED BY <4>1 DEF UpTo
        <3>2. CASE i = n
            <4>1. q[i] = <<c, o>>[1]
                BY <2>4, <2>6, <2>7, <3>2
            <4> QED BY <2>2, <2>5, <4>1
        <3>3. CASE i = n + 1
            <4>1. q[i] = <<c, o>>[2]
                BY <2>4, <2>6, <2>7, <3>3
            <4> QED BY <1>1, <2>5, <4>1
        <3> QED BY <2>7, <3>1, <3>2, <3>3
    <2>9. PICK k : k = Keep(q, CAPACITY)
        OBVIOUS
    <2>10. /\ k \in Seq(Bar)
           /\ Len(k) = IF Len(q) <= CAPACITY THEN Len(q) ELSE CAPACITY
           /\ \A j \in 0 .. Len(k) - 1 : k[Len(k) - j] = q[Len(q) - j]
        <3>1. q \in Seq(Bar) /\ CAPACITY \in Nat \ {0}
            BY <2>6, Depths
        <3> QED BY ONLY <2>9, <3>1, KeepFacts
    <2>11. Len(k) <= CAPACITY /\ Len(k) <= Len(q) /\ Len(k) \in Nat /\ Len(q) \in Nat
        BY <2>6, <2>10, Depths
    <2>12. UpTo(k, t)
        <3>1. ASSUME NEW i \in 1 .. Len(k) PROVE k[i].openTime <= t
            <4>1. PICK j \in Nat : j = Len(k) - i
                <5>1. Len(k) - i \in Nat
                    BY <2>11
                <5> QED BY <5>1
            <4>2. j \in 0 .. Len(k) - 1 /\ Len(k) - j = i /\ Len(q) - j \in 1 .. Len(q)
                BY <2>11, <4>1
            <4> QED BY <2>8, <2>10, <4>2
        <3> QED BY <3>1 DEF UpTo
    <2>13. UpTo(<<c, o>>, t)
        <3>1. \A i \in 1 .. Len(<<c, o>>) : i = 1 \/ i = 2
            BY <2>5
        <3> QED BY <1>1, <2>2, <2>5, <3>1 DEF UpTo
    <2> QED BY <1>3, <2>3, <2>5, <2>9, <2>10, <2>11, <2>12, <2>13 DEF Fold
<1> QED BY <1>2, <1>3

\* So does the whole fold of a print, whichever the bucketing.
LEMMA OnTradeFacts ==
    ASSUME NEW s \in Seq(Bar), Len(s) <= CAPACITY, NEW t \in Int, UpTo(s, t),
           NEW p \in PublicTrade, NEW b, IsBucketing(b), OpensAt(p.at, b) <= t
    PROVE  /\ Fold(OnTrade(s, p, b, CAPACITY), t)
           /\ s = <<>> => \E bar \in Bar : /\ OnTrade(s, p, b, CAPACITY).redraw = <<bar>>
                                          /\ bar.openTime = OpensAt(p.at, b)
<1>1. p.at \in Nat /\ OpensAt(p.at, b) \in Int
    <2>1. p.at \in Nat
        BY DEF PublicTrade
    <2> QED BY <2>1, OpensLater
<1>2. s # <<>> => Last(s) \in Bar /\ Last(s).openTime <= t /\ Last(s).openTime \in Int
    <2>1. s # <<>> => Len(s) \in 1 .. Len(s) /\ s[Len(s)] \in Bar
        OBVIOUS
    <2>2. \A bar \in Bar : bar.openTime \in Int
        BY DEF Bar
    <2> QED BY <2>1, <2>2 DEF Last, UpTo
<1>3. PICK at \in Int : at = OpensAt(p.at, b) /\ at <= t
    BY <1>1
<1>4. /\ Fold(Roll(s, p, at, b, CAPACITY), t)
      /\ s = <<>> => Roll(s, p, at, b, CAPACITY).redraw = <<Opened(p, at, b)>>
    BY <1>3, RollFacts
<1>5. Opened(p, at, b) \in Bar /\ Opened(p, at, b).openTime = at
    BY OpenedBar
<1>6. CASE b.kind = "Time"
    <2>1. Interval(p, b.size) = at /\ OnTrade(s, p, b, CAPACITY) = FoldTime(s, p, b, CAPACITY)
        BY <1>3, <1>6 DEF Interval, OpensAt, OnTrade
    <2>2. CASE s = <<>>
        BY <2>1, <2>2, <1>3, <1>4, <1>5 DEF FoldTime
    <2>3. CASE s # <<>> /\ Last(s).openTime < at
        <3>1. ~(Last(s).openTime = at)
            BY <1>2, <2>3
        <3> QED BY <2>1, <2>3, <3>1, <1>4 DEF FoldTime
    <2>4. CASE s # <<>> /\ Last(s).openTime = at
        <3>1. FoldTime(s, p, b, CAPACITY) = Formed(s, Extend(Last(s), p))
            BY <2>1, <2>4, <1>2 DEF FoldTime
        <3>2. Extend(Last(s), p) \in Bar /\ Extend(Last(s), p).openTime <= t
            BY <2>4, <1>2, ExtendedBar
        <3> QED BY <2>1, <2>4, <3>1, <3>2, FormedFacts
    <2>5. CASE s # <<>> /\ ~(Last(s).openTime < at) /\ ~(Last(s).openTime = at)
        <3>1. FoldTime(s, p, b, CAPACITY) = [series |-> s, redraw |-> <<>>]
            BY <2>1, <2>5 DEF FoldTime, Folded
        <3> QED BY <2>1, <2>5, <3>1 DEF Fold, UpTo
    <2> QED BY <2>2, <2>3, <2>4, <2>5
<1>7. CASE b.kind = "Ticks"
    <2>1. at = p.at /\ OnTrade(s, p, b, CAPACITY) = FoldTicks(s, p, b, CAPACITY)
        BY <1>3, <1>7 DEF OpensAt, OnTrade
    <2>2. CASE s # <<>> /\ ~Last(s).closed /\ Last(s).trades < b.size
        <3>1. PICK e \in Bar : e = Extend(Last(s), p) /\ e.openTime <= t
            BY <2>2, <1>2, ExtendedBar
        <3>2. PICK bar \in Bar : bar = [e EXCEPT !.closed = e.trades >= b.size] /\ bar.openTime <= t
            <4>1. (e.trades >= b.size) \in BOOLEAN
                OBVIOUS
            <4> QED BY <3>1, <4>1, ClosedBar
        <3>3. FoldTicks(s, p, b, CAPACITY) = Formed(s, bar)
            BY <2>2, <3>1, <3>2 DEF FoldTicks
        <3> QED BY <2>1, <2>2, <3>2, <3>3, FormedFacts
    <2>3. CASE ~(s # <<>> /\ ~Last(s).closed /\ Last(s).trades < b.size)
        <3>1. FoldTicks(s, p, b, CAPACITY) = Roll(s, p, at, b, CAPACITY)
            BY <2>1, <2>3 DEF FoldTicks
        <3> QED BY <2>1, <3>1, <1>3, <1>4, <1>5
    <2> QED BY <2>2, <2>3
<1> QED BY <1>6, <1>7 DEF IsBucketing

-----------------------------------------------------------------------------
(* A series of bars on its way through a fold.                             *)

Rising(s) == \A i \in 1 .. Len(s) - 1 : s[i].openTime < s[i + 1].openTime
Fresh(e, t) == e \in Event /\ e.kind = "Candle" => e.bar.openTime <= t
AllFresh(s, t) == \A i \in 1 .. Len(s) : Fresh(s[i], t)

\* An open time is a number.
LEMMA BarTimes == \A bar \in Bar : bar.openTime \in Int
BY DEF Bar

\* fold_candle leaves bars in the order of their open times.
LEMMA FoldCandleInOrder ==
    ASSUME NEW s \in Seq(Bar), NEW bar \in Bar, NEW d \in Nat \ {0}, Rising(s),
           NEW t \in Int, UpTo(s, t), bar.openTime <= t
    PROVE  Rising(FoldCandle(s, bar, d)) /\ UpTo(FoldCandle(s, bar, d), t)
<1>0. PICK r : r = FoldCandle(s, bar, d)
    OBVIOUS
<1>1. PICK n \in Nat : n = Len(s)
    OBVIOUS
<1>2. \A i \in 1 .. n : s[i] \in Bar /\ s[i].openTime \in Int /\ s[i].openTime <= t
    BY <1>1, BarTimes DEF UpTo
<1>3. CASE Newer(s, bar)
    <2>1. /\ r \in Seq(Bar)
          /\ Len(r) = IF Len(s) + 1 <= d THEN Len(s) + 1 ELSE d
          /\ Len(r) >= 1 /\ r[Len(r)] = bar
          /\ \A j \in 1 .. Len(r) - 1 : r[Len(r) - j] = s[Len(s) + 1 - j]
        <3>1. Grown(r, s, bar, d)
            BY <1>0, <1>3, NewerBar
        <3> QED BY <3>1 DEF Grown
    <2>2. PICK m \in Nat : m = Len(r) /\ m >= 1 /\ m <= n + 1 /\ r[m] = bar
        BY <1>1, <2>1
    <2>3. ASSUME NEW i \in 1 .. m - 1
          PROVE  r[i] = s[i + n + 1 - m] /\ i + n + 1 - m \in 1 .. n
        <3>1. m - i \in 1 .. Len(r) - 1 /\ Len(r) - (m - i) = i /\ Len(s) + 1 - (m - i) = i + n + 1 - m
            BY <1>1, <2>2
        <3>2. i + n + 1 - m \in 1 .. n
            BY <2>2
        <3> QED BY <2>1, <3>1, <3>2
    <2>4. UpTo(r, t)
        <3>1. ASSUME NEW i \in 1 .. m PROVE r[i].openTime <= t
            <4>1. CASE i = m
                BY <2>2, <4>1
            <4>2. CASE i # m
                BY <1>2, <2>3, <4>2
            <4> QED BY <4>1, <4>2
        <3> QED BY <2>2, <3>1 DEF UpTo
    <2>5. ASSUME NEW i \in 1 .. m - 1 PROVE r[i].openTime < r[i + 1].openTime
        <3>1. CASE i = m - 1
            <4>1. r[i] = s[n] /\ r[i + 1] = bar /\ n >= 1
                <5>1. i + n + 1 - m = n /\ i + 1 = m
                    BY <3>1
                <5>2. r[i + 1] = bar
                    BY <2>2, <5>1
                <5>3. n >= 1
                    BY <2>3, <5>1
                <5> QED BY <2>3, <5>1, <5>2, <5>3
            <4>2. s # <<>> /\ Last(s) = s[n]
                BY <1>1, <4>1 DEF Last
            <4> QED BY <1>3, <4>1, <4>2 DEF Newer
        <3>2. CASE i # m - 1
            <4>1. i + 1 \in 1 .. m - 1 /\ (i + 1) + n + 1 - m = (i + n + 1 - m) + 1
                BY <3>2
            <4>2. PICK x \in 1 .. n : x = i + n + 1 - m /\ r[i] = s[x]
                BY <2>3
            <4>3. r[i + 1] = s[x + 1] /\ x + 1 \in 1 .. n
                BY <2>3, <4>1, <4>2
            <4>4. x \in 1 .. Len(s) - 1
                BY <1>1, <4>3
            <4> QED BY <4>2, <4>3, <4>4 DEF Rising
        <3> QED BY <3>1, <3>2
    <2> QED BY <1>0, <2>2, <2>4, <2>5 DEF Rising
<1>4. CASE Anew(s, bar)
    <2>1. r \in Seq(Bar) /\ Len(r) = n /\ n >= 1 /\ r[n] = bar /\ \A i \in 1 .. n - 1 : r[i] = s[i]
        BY <1>0, <1>1, <1>4, BarAnew
    <2>2. s[n].openTime = bar.openTime
        BY <1>1, <1>4 DEF Anew, Last
    <2>3. \A i \in 1 .. n : r[i].openTime = s[i].openTime
        BY <2>1, <2>2
    <2>4. UpTo(r, t)
        BY <1>2, <2>1, <2>3 DEF UpTo
    <2>5. \A i \in 1 .. n - 1 : i \in 1 .. n /\ i + 1 \in 1 .. n
        OBVIOUS
    <2>6. Rising(r)
        BY <1>1, <2>1, <2>3, <2>5 DEF Rising
    <2> QED BY <1>0, <2>4, <2>6
<1>5. CASE ~Newer(s, bar) /\ ~Anew(s, bar)
    BY <1>5, OlderBar
<1> QED BY <1>3, <1>4, <1>5

\* Bars that are in order stay so through any events, whatever repeats there are in them.
LEMMA CourseBars ==
    ASSUME NEW f, FeedOK(f), NEW s \in Seq(Event), NEW y, Course(y, f, s),
           Rising(f.bars), NEW t \in Int, UpTo(f.bars, t), AllFresh(s, t)
    PROVE  \A i \in 0 .. Len(s) : Rising(y[i].bars) /\ UpTo(y[i].bars, t)
<1> DEFINE P(i) == Rising(y[i].bars) /\ UpTo(y[i].bars, t)
           T    == {i \in 0 .. Len(s) : ~P(i)}
<1>1. SUFFICES ASSUME T # {} PROVE FALSE
    OBVIOUS
<1>2. PICK m \in T : \A k \in T : m <= k
    <2>1. T \subseteq Nat
        OBVIOUS
    <2> HIDE DEF T
    <2> QED BY <1>1, <2>1, LeastNat
<1>3. m # 0
    BY <1>2 DEF Course
<1>4. m \in 1 .. Len(s) /\ m - 1 \in 0 .. Len(s) /\ m - 1 \notin T
    BY <1>2, <1>3
<1>5. PICK g : g = y[m - 1]
    OBVIOUS
<1>6. Rising(g.bars) /\ UpTo(g.bars, t) /\ y[m] = Applied(g, s[m]) /\ s[m] \in Event /\ Fresh(s[m], t)
    BY <1>4, <1>5 DEF Course, AllFresh
<1>7. FeedOK(g)
    BY <1>4, <1>5, CourseOK
<1>8. P(m)
    <2>1. CASE s[m].kind = "Trade"
        BY <1>6, <1>7, <2>1, AppliedTrade
    <2>2. CASE s[m].kind = "Candle"
        <3>1. y[m].bars = FoldCandle(g.bars, s[m].bar, CANDLE_DEPTH) /\ g.bars \in Seq(Bar)
            BY <1>6, <1>7, <2>2, AppliedCandle DEF FeedOK, FeedState
        <3>2. s[m].bar \in Bar /\ s[m].bar.openTime <= t
            BY <1>6, <2>2, EventKinds DEF Fresh
        <3> QED BY <1>6, <3>1, <3>2, FoldCandleInOrder, Depths
    <2> QED BY <1>6, <2>1, <2>2, EventKinds
<1> QED BY <1>2, <1>8

\* What is handed over.
LEMMA HandedEvents ==
    ASSUME NEW h, h \in [bars : Seq(Bar), tape : Seq(PublicTrade)]
    PROVE  /\ Column(h.tape, Trade) \in Seq(Event) /\ Len(Column(h.tape, Trade)) = Len(h.tape)
           /\ \A i \in 1 .. Len(h.tape) : /\ Column(h.tape, Trade)[i].kind = "Trade"
                                          /\ Column(h.tape, Trade)[i].print = h.tape[i]
           /\ Column(h.bars, Candle) \in Seq(Event) /\ Len(Column(h.bars, Candle)) = Len(h.bars)
           /\ \A i \in 1 .. Len(h.bars) : /\ Column(h.bars, Candle)[i].kind = "Candle"
                                          /\ Column(h.bars, Candle)[i].bar = h.bars[i]
<1>1. PICK n \in Nat, m \in Nat : n = Len(h.tape) /\ m = Len(h.bars)
    OBVIOUS
<1>2. DOMAIN h.tape = 1 .. n /\ DOMAIN h.bars = 1 .. m
    BY <1>1
<1>3. \A i \in 1 .. n : [kind |-> "Trade", print |-> h.tape[i]] \in Event
    BY <1>1 DEF Event
<1>4. \A i \in 1 .. m : [kind |-> "Candle", bar |-> h.bars[i]] \in Event
    BY <1>1 DEF Event
<1>5. Column(h.tape, Trade) = [i \in 1 .. n |-> [kind |-> "Trade", print |-> h.tape[i]]]
    BY <1>2 DEF Column, Trade
<1>6. Column(h.bars, Candle) = [i \in 1 .. m |-> [kind |-> "Candle", bar |-> h.bars[i]]]
    BY <1>2 DEF Column, Candle
<1>7. Column(h.tape, Trade) \in Seq(Event) /\ Len(Column(h.tape, Trade)) = n
    BY <1>3, <1>5
<1>8. Column(h.bars, Candle) \in Seq(Event) /\ Len(Column(h.bars, Candle)) = m
    BY <1>4, <1>6
<1> QED BY <1>1, <1>5, <1>6, <1>7, <1>8

-----------------------------------------------------------------------------
(* The types, and when bars open.                                          *)

\* The time of the last print; no bar opens after that.
Moment == IF printed = <<>> THEN 0 ELSE Last(printed).at
Floor  == OpensAt(Moment, bucketing)

InTime ==
    /\ \A i \in 1 .. Len(fed) : fed[i].at <= Moment
    /\ UpTo(series, Floor) /\ UpTo(held.bars, Floor) /\ UpTo(feed.bars, Floor)
    /\ AllFresh(sink, Floor) /\ Fresh(inHand, Floor) /\ AllFresh(queue, Floor)

InOrder == Rising(held.bars) /\ Rising(feed.bars)

\* The first bar of a core is no older than what a terminal has, and the pump folds it before
\* anything else.
FirstBar ==
    held.bars = <<>> =>
        /\ inHand = None /\ queue = <<>>
        /\ fed = <<>> => sink = <<>> /\ series = <<>>
        /\ fed # <<>> => /\ sink # <<>> /\ sink[1].kind = "Candle"
                         /\ feed.bars # <<>> => Last(feed.bars).openTime <= sink[1].bar.openTime

Alone == stage = "none" => session = NoSession /\ queue = <<>>

Charted == ChartingTypeOK /\ InTime /\ InOrder /\ FirstBar /\ Alone

\* What the type invariant says of the series.
LEMMA TypeFacts ==
    ASSUME ChartingTypeOK
    PROVE  /\ IsBucketing(bucketing) /\ FeedOK(feed)
           /\ printed \in Seq(PublicTrade) /\ fed \in Seq(PublicTrade)
           /\ held.bars \in Seq(Bar) /\ held.tape \in Seq(PublicTrade)
           /\ feed.bars \in Seq(Bar) /\ feed.tape \in Seq(PublicTrade)
BY DEF ChartingTypeOK, IsBucketing, FeedOK, FeedState

\* The time of the last print is a number, and so is that of the last bar that can open.
LEMMA MomentType ==
    ASSUME ChartingTypeOK
    PROVE  Moment \in Nat /\ Floor \in Int
<1>1. Moment \in Nat
    <2>1. CASE printed = <<>>
        BY <2>1 DEF Moment
    <2>2. CASE printed # <<>>
        <3>1. Last(printed) \in PublicTrade
            BY <2>2, TypeFacts DEF Last
        <3> QED BY <2>2, <3>1 DEF Moment, PublicTrade
    <2> QED BY <2>1, <2>2
<1> QED BY <1>1, TypeFacts, OpensLater DEF Floor

\* Bars that opened by an instant had opened by a later one.
LEMMA UpToMore ==
    ASSUME NEW s \in Seq(Bar), NEW t \in Int, NEW u \in Int, t <= u, UpTo(s, t)
    PROVE  UpTo(s, u)
<1>1. \A i \in 1 .. Len(s) : s[i].openTime \in Int
    BY BarTimes
<1> QED BY <1>1 DEF UpTo

\* An event that was possible at an instant is possible at a later one.
LEMMA FreshMore ==
    ASSUME NEW e, NEW t \in Int, NEW u \in Int, t <= u, Fresh(e, t)
    PROVE  Fresh(e, u)
<1>1. CASE e \in Event /\ e.kind = "Candle"
    <2>1. e.bar \in Bar
        BY <1>1, EventKinds
    <2>2. e.bar.openTime \in Int
        BY <2>1, BarTimes
    <2> QED BY <1>1, <2>2 DEF Fresh
<1>2. CASE ~(e \in Event /\ e.kind = "Candle")
    BY <1>2 DEF Fresh
<1> QED BY <1>1, <1>2

\* And so are events.
LEMMA AllFreshMore ==
    ASSUME NEW s, NEW t \in Int, NEW u \in Int, t <= u, AllFresh(s, t)
    PROVE  AllFresh(s, u)
BY FreshMore DEF AllFresh

\* What is sent with a print: its bars and then itself.
Sent(print) == Column(OnTrade(series, print, bucketing, CAPACITY).redraw, Candle) \o <<Trade(print)>>

\* The connector's handling of a print keeps types and times, and the first print sends its
\* bar first.
LEMMA OnPrintFacts ==
    ASSUME ChartingTypeOK, NEW p \in PublicTrade, OnPrint(p), NEW t \in Int,
           UpTo(series, t), OpensAt(p.at, bucketing) <= t
    PROVE  /\ fed' = Append(fed, p)
           /\ series' \in Seq(Bar) /\ Len(series') <= CAPACITY /\ UpTo(series', t)
           /\ sink' = sink \o Sent(p) /\ Sent(p) \in Seq(Event) /\ AllFresh(Sent(p), t)
           /\ series = <<>> => /\ Sent(p) # <<>> /\ Sent(p)[1].kind = "Candle"
                               /\ Sent(p)[1].bar.openTime = OpensAt(p.at, bucketing)
<1> DEFINE f == OnTrade(series, p, bucketing, CAPACITY)
           h == [bars |-> f.redraw, tape |-> <<>>]
           c == Column(f.redraw, Candle)
<1>1. /\ Fold(f, t)
      /\ series = <<>> => \E bar \in Bar : f.redraw = <<bar>> /\ bar.openTime = OpensAt(p.at, bucketing)
    <2>1. series \in Seq(Bar) /\ Len(series) <= CAPACITY
        BY DEF ChartingTypeOK
    <2>2. IsBucketing(bucketing)
        BY TypeFacts
    <2> QED BY <2>1, <2>2, OnTradeFacts
<1>2. fed' = Append(fed, p) /\ series' = f.series /\ sink' = sink \o Sent(p)
    <2>1. sink \in Seq(Event)
        BY DEF ChartingTypeOK
    <2>2. sink' = (sink \o c) \o <<Trade(p)>>
        BY DEF OnPrint
    <2>3. f.redraw \in Seq(Bar)
        BY <1>1 DEF Fold
    <2>4. c \in Seq(Event)
        <3>1. h \in [bars : Seq(Bar), tape : Seq(PublicTrade)]
            BY <2>3
        <3>2. Column(h.bars, Candle) \in Seq(Event)
            BY <3>1, HandedEvents
        <3> QED BY <3>2
    <2>5. <<Trade(p)>> \in Seq(Event)
        BY DEF Trade, Event
    <2> HIDE DEF c
    <2>6. (sink \o c) \o <<Trade(p)>> = sink \o (c \o <<Trade(p)>>)
        BY <2>1, <2>4, <2>5, ConcatAssociative
    <2> QED BY <2>2, <2>6 DEF OnPrint, Sent, c
<1>3. PICK k : k = f.redraw
    OBVIOUS
<1>4. k \in Seq(Bar) /\ UpTo(k, t)
    BY <1>1, <1>3 DEF Fold
<1>5. PICK n \in Nat : n = Len(k)
    BY <1>4
<1>6. /\ c \in Seq(Event) /\ Len(c) = n
      /\ \A i \in 1 .. n : c[i].kind = "Candle" /\ c[i].bar = k[i]
    <2>1. h \in [bars : Seq(Bar), tape : Seq(PublicTrade)] /\ h.bars = k
        BY <1>3, <1>4
    <2>2. /\ Column(k, Candle) \in Seq(Event) /\ Len(Column(k, Candle)) = Len(k)
          /\ \A i \in 1 .. Len(k) : Column(k, Candle)[i].kind = "Candle" /\ Column(k, Candle)[i].bar = k[i]
        BY <2>1, HandedEvents
    <2> QED BY <1>3, <1>5, <2>2
<1>7. /\ <<Trade(p)>> \in Seq(Event) /\ Len(<<Trade(p)>>) = 1 /\ <<Trade(p)>>[1] = Trade(p)
      /\ Trade(p).kind = "Trade"
    BY DEF Trade, Event
<1>8. Sent(p) = c \o <<Trade(p)>>
    BY DEF Sent
<1>9. /\ Sent(p) \in Seq(Event) /\ Len(Sent(p)) = n + 1
      /\ \A i \in 1 .. n + 1 : Sent(p)[i] = IF i <= n THEN c[i] ELSE <<Trade(p)>>[i - n]
    <2> HIDE DEF c
    <2> QED BY <1>6, <1>7, <1>8, ConcatProperties
<1>10. AllFresh(Sent(p), t)
    <2>1. ASSUME NEW i \in 1 .. n + 1 PROVE Fresh(Sent(p)[i], t)
        <3>1. CASE i <= n
            <4>1. Sent(p)[i] = c[i] /\ i \in 1 .. n /\ i \in 1 .. Len(k)
                BY <1>5, <1>9, <3>1
            <4> QED BY <1>4, <1>6, <4>1 DEF Fresh, UpTo
        <3>2. CASE ~(i <= n)
            <4>1. i - n = 1
                BY <3>2
            <4>2. Sent(p)[i] = Trade(p)
                BY <1>7, <1>9, <3>2, <4>1
            <4> QED BY <1>7, <4>2 DEF Fresh
        <3> QED BY <3>1, <3>2
    <2> QED BY <1>9, <2>1 DEF AllFresh
<1>11. ASSUME series = <<>>
       PROVE  /\ Sent(p) # <<>> /\ Sent(p)[1].kind = "Candle"
              /\ Sent(p)[1].bar.openTime = OpensAt(p.at, bucketing)
    <2>1. PICK bar \in Bar : k = <<bar>> /\ bar.openTime = OpensAt(p.at, bucketing)
        BY <1>1, <1>3, <1>11
    <2>2. n = 1 /\ k[1] = bar
        BY <1>5, <2>1
    <2>3. Sent(p)[1] = c[1] /\ Len(Sent(p)) = 2
        BY <1>9, <2>2
    <2>4. c[1].kind = "Candle" /\ c[1].bar = bar
        BY <1>6, <2>2
    <2>5. Sent(p) # <<>>
        BY <1>9, <2>3
    <2> QED BY <2>1, <2>3, <2>4, <2>5
<1> QED BY <1>1, <1>2, <1>9, <1>10, <1>11 DEF Fold

\* Either kind of print keeps the order: a new one of the venue, or an old one it replays.
LEMMA PrintCharted ==
    ASSUME Charted, NEW p \in PublicTrade, OnPrint(p), printed' \in Seq(PublicTrade),
           Moment <= Moment', p.at <= Moment', fed = <<>> => Moment <= p.at,
           UNCHANGED <<bucketing, goodToken>>,
           connects' \in Nat, upsets' \in Nat
    PROVE  Charted'
<1>1. ChartingTypeOK /\ InTime /\ InOrder /\ FirstBar /\ Alone
    BY DEF Charted
<1>2. UNCHANGED <<inHand, held, queue, missed, stage, session, toCore, lagged, feed>>
    BY DEF OnPrint, sessionVars
<1>3. Moment \in Nat /\ Moment' \in Nat
    <2>1. Moment' = IF printed' = <<>> THEN 0 ELSE Last(printed').at
        BY DEF Moment
    <2>2. printed' # <<>> => Last(printed') \in PublicTrade
        BY DEF Last
    <2> QED BY <1>1, <2>1, <2>2, MomentType DEF PublicTrade
<1>4. p.at \in Nat /\ IsBucketing(bucketing)
    BY <1>1, TypeFacts DEF PublicTrade
<1>5. PICK t \in Int : t = Floor'
    <2>1. Floor' = OpensAt(Moment', bucketing)
        BY DEF Floor
    <2>2. OpensAt(Moment', bucketing) \in Int
        BY <1>3, <1>4, OpensLater
    <2> QED BY <2>1, <2>2
<1>6. Floor <= t /\ Floor \in Int /\ OpensAt(p.at, bucketing) <= t
    <2>1. t = OpensAt(Moment', bucketing)
        BY <1>5 DEF Floor
    <2>2. OpensAt(Moment, bucketing) <= t /\ OpensAt(Moment, bucketing) \in Int
        BY <1>3, <1>4, <2>1, OpensLater
    <2>3. OpensAt(p.at, bucketing) <= t
        BY <1>3, <1>4, <2>1, OpensLater
    <2> QED BY <2>2, <2>3 DEF Floor
<1>7. series \in Seq(Bar) /\ sink \in Seq(Event) /\ fed \in Seq(PublicTrade)
    BY <1>1 DEF ChartingTypeOK
<1>8. UpTo(series, t) /\ UpTo(held.bars, t) /\ UpTo(feed.bars, t)
    BY <1>1, <1>6, TypeFacts, UpToMore DEF InTime, ChartingTypeOK
<1>9. AllFresh(sink, t) /\ Fresh(inHand, t) /\ AllFresh(queue, t)
    BY <1>1, <1>6, AllFreshMore, FreshMore DEF InTime
<1>10. /\ fed' = Append(fed, p)
       /\ series' \in Seq(Bar) /\ Len(series') <= CAPACITY /\ UpTo(series', t)
       /\ sink' = sink \o Sent(p) /\ Sent(p) \in Seq(Event) /\ AllFresh(Sent(p), t)
       /\ series = <<>> => /\ Sent(p) # <<>> /\ Sent(p)[1].kind = "Candle"
                           /\ Sent(p)[1].bar.openTime = OpensAt(p.at, bucketing)
    BY <1>1, <1>6, <1>8, OnPrintFacts
<1>11. /\ sink' \in Seq(Event) /\ Len(sink') = Len(sink) + Len(Sent(p))
       /\ \A i \in 1 .. Len(sink) + Len(Sent(p)) :
            sink'[i] = IF i <= Len(sink) THEN sink[i] ELSE Sent(p)[i - Len(sink)]
    BY <1>7, <1>10, ConcatProperties
<1>12. PICK n \in Nat, m \in Nat : n = Len(sink) /\ m = Len(Sent(p))
    <2>1. Len(sink) \in Nat /\ Len(Sent(p)) \in Nat
        BY <1>7, <1>10
    <2> QED BY <2>1
<1>13. ChartingTypeOK'
    <2>1. fed' \in Seq(PublicTrade)
        BY <1>7, <1>10
    <2> QED BY <1>1, <1>2, <1>10, <1>11, <2>1 DEF ChartingTypeOK
<1>14. AllFresh(sink', t)
    <2>1. ASSUME NEW i \in 1 .. n + m PROVE Fresh(sink'[i], t)
        <3>1. CASE i <= n
            BY <1>9, <1>11, <1>12, <3>1 DEF AllFresh
        <3>2. CASE ~(i <= n)
            <4>1. i - n \in 1 .. m /\ sink'[i] = Sent(p)[i - n]
                BY <1>11, <1>12, <3>2
            <4> QED BY <1>10, <1>12, <4>1 DEF AllFresh
        <3> QED BY <3>1, <3>2
    <2> QED BY <1>11, <1>12, <2>1 DEF AllFresh
<1>15. \A i \in 1 .. Len(fed') : fed'[i].at <= Moment'
    <2>1. PICK k \in Nat : k = Len(fed)
        BY <1>7
    <2>2. Len(fed') = k + 1 /\ fed'[k + 1] = p /\ \A i \in 1 .. k : fed'[i] = fed[i]
        BY <1>7, <1>10, <2>1
    <2>3. ASSUME NEW i \in 1 .. k PROVE fed'[i].at <= Moment'
        <3>1. fed[i] \in PublicTrade /\ fed[i].at <= Moment
            BY <1>1, <1>7, <2>1 DEF InTime
        <3>2. fed[i].at \in Nat
            BY <3>1 DEF PublicTrade
        <3> QED BY <1>3, <2>2, <3>1, <3>2
    <2> QED BY <2>2, <2>3
<1>16. InTime'
    <2>1. UpTo(held'.bars, t) /\ UpTo(feed'.bars, t) /\ Fresh(inHand', t) /\ AllFresh(queue', t)
        BY <1>2, <1>8, <1>9
    <2> QED BY <1>5, <1>10, <1>14, <1>15, <2>1 DEF InTime
<1>17. InOrder' /\ Alone'
    BY <1>1, <1>2 DEF InOrder, Alone
<1>18. FirstBar'
    <2>1. SUFFICES ASSUME held.bars = <<>>
          PROVE  /\ inHand = None /\ queue = <<>> /\ fed' # <<>> /\ sink' # <<>> /\ sink'[1].kind = "Candle"
                 /\ (feed.bars # <<>> => Last(feed.bars).openTime <= sink'[1].bar.openTime)
        BY <1>2 DEF FirstBar
    <2>2. inHand = None /\ queue = <<>> /\ fed' # <<>>
        <3>1. Append(fed, p) # <<>>
            BY <1>7
        <3> QED BY <1>1, <1>10, <2>1, <3>1 DEF FirstBar
    <2>3. CASE fed = <<>>
        <3>1. n = 0 /\ series = <<>>
            BY <1>1, <1>12, <2>1, <2>3 DEF FirstBar
        <3>2. m >= 1
            BY <1>10, <1>12, <3>1
        <3>3. sink'[1] = Sent(p)[1] /\ sink' # <<>>
            <4>1. 1 \in 1 .. n + m /\ ~(1 <= n) /\ 1 - n = 1
                BY <3>1, <3>2
            <4>2. Len(sink') # 0
                BY <1>11, <1>12, <3>1, <3>2
            <4> QED BY <1>11, <1>12, <4>1, <4>2
        <3>4. sink'[1].bar.openTime = OpensAt(p.at, bucketing)
            BY <1>10, <3>1, <3>3
        <3>5. ASSUME feed.bars # <<>> PROVE Last(feed.bars).openTime <= OpensAt(p.at, bucketing)
            <4>1. Last(feed.bars) \in Bar /\ Last(feed.bars).openTime <= Floor
                <5>1. feed.bars \in Seq(Bar)
                    BY <1>1, TypeFacts
                <5>2. Len(feed.bars) \in 1 .. Len(feed.bars)
                    BY <3>5, <5>1
                <5> QED BY <1>1, <5>1, <5>2 DEF InTime, UpTo, Last
            <4>2. Moment <= p.at
                BY <2>3
            <4>3. Floor <= OpensAt(p.at, bucketing) /\ OpensAt(p.at, bucketing) \in Int
                BY <1>3, <1>4, <4>2, OpensLater DEF Floor
            <4> QED BY <1>6, <4>1, <4>3, BarTimes
        <3> QED BY <1>10, <2>2, <3>1, <3>3, <3>4, <3>5
    <2>4. CASE fed # <<>>
        <3>1. sink # <<>> /\ sink[1].kind = "Candle"
              /\ (feed.bars # <<>> => Last(feed.bars).openTime <= sink[1].bar.openTime)
            BY <1>1, <2>1, <2>4 DEF FirstBar
        <3>2. n >= 1
            BY <1>7, <1>12, <3>1
        <3>3. sink'[1] = sink[1]
            <4>1. 1 \in 1 .. n + m /\ 1 <= n
                BY <3>2
            <4> QED BY <1>11, <1>12, <4>1
        <3>4. Len(sink') # 0
            BY <1>11, <1>12, <3>2
        <3>5. sink' # <<>>
            BY <3>4
        <3> QED BY <2>2, <3>1, <3>2, <3>3, <3>5
    <2> QED BY <2>3, <2>4
<1> QED BY <1>13, <1>16, <1>17, <1>18 DEF Charted

\* A new print of the venue keeps the order.
LEMMA VenuePrintsCharted ==
    ASSUME Charted, NEW at \in Times, VenuePrints(at)
    PROVE  Charted'
<1> DEFINE id == Len(printed) + 1
<1>1. PICK p : /\ p = [id |-> id, at |-> at, price |-> Sizes[id].price, qty |-> Sizes[id].qty,
                       side |-> Sizes[id].side]
               /\ printed' = Append(printed, p) /\ OnPrint(p)
    BY DEF VenuePrints
<1>2. /\ id \in DOMAIN Sizes /\ (printed # <<>> => at >= Last(printed).at)
      /\ UNCHANGED <<bucketing, goodToken, connects, upsets>>
    BY DEF VenuePrints
<1>3. printed \in Seq(PublicTrade) /\ connects \in Nat /\ upsets \in Nat
    BY DEF Charted, ChartingTypeOK
<1>4. id \in Nat /\ at \in Nat
    BY <1>3, ChartingAssumption
<1>5. Sizes[id] \in [price : Int, qty : Int, side : {"Buy", "Sell"}]
    <2>1. PICK S : S = [price : Int, qty : Int, side : {"Buy", "Sell"}]
        OBVIOUS
    <2>2. Sizes \in Seq(S)
        BY <2>1, ChartingAssumption
    <2>3. id \in 1 .. Len(Sizes)
        BY <1>2, <2>2
    <2>4. PICK k : k = id
        OBVIOUS
    <2>5. Sizes[k] \in S
        BY ONLY <2>2, <2>3, <2>4, ElementOfSeq
    <2> QED BY <2>1, <2>4, <2>5
<1>6. p \in PublicTrade
    BY <1>1, <1>4, <1>5 DEF PublicTrade
<1>7. printed' \in Seq(PublicTrade) /\ printed' # <<>> /\ Last(printed') = p
    BY <1>1, <1>3, <1>6 DEF Last
<1>8. Moment' = at /\ p.at = at
    BY <1>1, <1>7 DEF Moment
<1>9. Moment <= at
    BY <1>2, <1>4 DEF Moment
<1>10. /\ Moment <= Moment' /\ p.at <= Moment' /\ (fed = <<>> => Moment <= p.at)
       /\ UNCHANGED <<bucketing, goodToken>> /\ connects' \in Nat /\ upsets' \in Nat
    BY <1>2, <1>3, <1>4, <1>8, <1>9
<1> QED BY <1>1, <1>6, <1>7, <1>10, PrintCharted

\* A print the venue replays, older than others that were folded, keeps the order.
LEMMA VenueReplaysCharted ==
    ASSUME Charted, NEW i \in DOMAIN fed, VenueReplays(i)
    PROVE  Charted'
<1>1. PICK p : p = fed[i]
    OBVIOUS
<1>2. OnPrint(p) /\ UNCHANGED <<bucketing, printed, goodToken, connects>> /\ upsets' = upsets + 1
    BY <1>1 DEF VenueReplays, Upset, venueVars
<1>3. printed \in Seq(PublicTrade) /\ fed \in Seq(PublicTrade) /\ connects \in Nat /\ upsets \in Nat
    BY DEF Charted, ChartingTypeOK
<1>4. i \in 1 .. Len(fed) /\ fed # <<>> /\ p \in PublicTrade
    BY <1>1, <1>3
<1>5. p.at <= Moment /\ Moment' = Moment
    BY <1>1, <1>2, <1>4 DEF Charted, InTime, Moment
<1>6. Moment \in Nat
    BY MomentType DEF Charted
<1>7. /\ Moment <= Moment' /\ p.at <= Moment' /\ (fed = <<>> => Moment <= p.at)
      /\ UNCHANGED <<bucketing, goodToken>> /\ connects' \in Nat /\ upsets' \in Nat
      /\ printed' \in Seq(PublicTrade)
    BY <1>2, <1>3, <1>4, <1>5, <1>6
<1> QED BY <1>2, <1>4, <1>7, PrintCharted

\* Time passes with prints only.
LEMMA FloorStays ==
    ASSUME UNCHANGED <<bucketing, printed>>
    PROVE  Moment' = Moment /\ Floor' = Floor
BY DEF Moment, Floor

\* The read-model folds an event and keeps its bars in order.
LEMMA PumpFoldsCharted ==
    ASSUME Charted, PumpFolds
    PROVE  Charted'
<1>1. ChartingTypeOK /\ InTime /\ InOrder /\ FirstBar /\ Alone
    BY DEF Charted
<1>2. /\ UNCHANGED <<bucketing, printed, goodToken, fed, series, queue, missed, stage, session, toCore,
                     lagged, feed, connects, upsets>>
      /\ sink # <<>> /\ inHand' = Head(sink) /\ sink' = Tail(sink)
    BY DEF PumpFolds, venueVars, sessionVars
<1>3. PICK e : e = Head(sink) /\ e \in Event /\ e = sink[1] /\ sink' \in Seq(Event)
               /\ Len(sink') = Len(sink) - 1 /\ \A i \in 1 .. Len(sink') : sink'[i] = sink[i + 1]
    <2>1. sink \in Seq(Event)
        BY <1>1 DEF ChartingTypeOK
    <2> QED BY <1>2, <2>1
<1>4. held' = Kept(held, e)
    BY <1>3 DEF PumpFolds
<1>5. Moment' = Moment /\ Floor' = Floor /\ Floor \in Int
    BY <1>1, <1>2, FloorStays, MomentType
<1>6. Fresh(e, Floor) /\ AllFresh(sink', Floor)
    <2>1. 1 \in 1 .. Len(sink) /\ \A i \in 1 .. Len(sink') : i + 1 \in 1 .. Len(sink)
        <3>1. sink \in Seq(Event)
            BY <1>1 DEF ChartingTypeOK
        <3>2. Len(sink) \in Nat /\ Len(sink) >= 1
            BY <1>2, <3>1
        <3> QED BY <1>3, <3>2
    <2> QED BY <1>1, <1>3, <2>1 DEF InTime, AllFresh
<1>7. held \in [bars : Seq(Bar), tape : Seq(PublicTrade)] /\ Len(held.bars) <= HISTORY
      /\ Len(held.tape) <= TAPE_HISTORY
    BY <1>1 DEF ChartingTypeOK
<1>8. /\ held' \in [bars : Seq(Bar), tape : Seq(PublicTrade)] /\ Len(held'.bars) <= HISTORY
      /\ Len(held'.tape) <= TAPE_HISTORY
      /\ UpTo(held'.bars, Floor) /\ Rising(held'.bars)
      /\ held'.bars = <<>> => held.bars = <<>> /\ e.kind = "Trade"
    <2>1. CASE e.kind = "Trade"
        <3>1. e.print \in PublicTrade
            BY <1>3, <2>1, EventKinds
        <3> DEFINE t == Append(held.tape, e.print)
        <3>2. t \in Seq(PublicTrade)
            BY <1>7, <3>1
        <3>3. held' = [held EXCEPT !.tape = Keep(t, TAPE_HISTORY)]
            BY <1>4, <2>1 DEF Kept
        <3> HIDE DEF t
        <3>4. PICK k \in Seq(PublicTrade) : k = Keep(t, TAPE_HISTORY)
                  /\ Len(k) = IF Len(t) <= TAPE_HISTORY THEN Len(t) ELSE TAPE_HISTORY
            BY <3>2, KeepFacts, Depths
        <3>5. Len(k) <= TAPE_HISTORY
            BY <3>2, <3>4, Depths
        <3>6. held' = [bars |-> held.bars, tape |-> k]
            BY <1>7, <3>3, <3>4
        <3> QED BY <1>1, <1>7, <2>1, <3>5, <3>6 DEF InTime, InOrder
    <2>2. CASE e.kind = "Candle"
        <3>1. e.bar \in Bar /\ e.bar.openTime <= Floor
            BY <1>3, <1>6, <2>2, EventKinds DEF Fresh
        <3>2. PICK k : k = FoldCandle(held.bars, e.bar, HISTORY)
            OBVIOUS
        <3>3. k \in Seq(Bar) /\ Len(k) <= HISTORY /\ k # <<>>
            BY <1>7, <3>1, <3>2, FoldCandleType, Depths
        <3>4. Rising(k) /\ UpTo(k, Floor)
            BY <1>1, <1>5, <1>7, <3>1, <3>2, FoldCandleInOrder, Depths DEF InTime, InOrder
        <3>5. held' = [held EXCEPT !.bars = k]
            BY <1>4, <2>2, <3>2 DEF Kept
        <3>6. held' = [bars |-> k, tape |-> held.tape]
            BY <1>7, <3>5
        <3> QED BY <1>7, <3>3, <3>4, <3>6
    <2> QED BY <1>3, <2>1, <2>2, EventKinds
<1>9. ChartingTypeOK'
    <2>1. inHand' \in Event \cup {None}
        BY <1>2, <1>3
    <2> QED BY <1>1, <1>2, <1>3, <1>8, <2>1 DEF ChartingTypeOK
<1>10. InTime'
    BY <1>1, <1>2, <1>3, <1>5, <1>6, <1>8 DEF InTime
<1>11. InOrder' /\ Alone'
    BY <1>1, <1>2, <1>8 DEF InOrder, Alone
<1>12. FirstBar'
    <2>1. SUFFICES ASSUME held'.bars = <<>> PROVE FALSE
        BY DEF FirstBar
    <2>2. held.bars = <<>> /\ e.kind = "Trade"
        BY <1>8, <2>1
    <2>3. sink[1].kind = "Candle"
        BY <1>1, <1>2, <2>2 DEF FirstBar
    <2> QED BY <1>3, <2>2, <2>3
<1> QED BY <1>9, <1>10, <1>11, <1>12 DEF Charted

\* The pump's send adds to a backlog what is possible already, or overruns it.
LEMMA PumpSendsCharted ==
    ASSUME Charted, PumpSends
    PROVE  Charted'
<1>1. ChartingTypeOK /\ InTime /\ InOrder /\ FirstBar /\ Alone
    BY DEF Charted
<1>2. /\ UNCHANGED <<bucketing, printed, goodToken, fed, series, sink, held, stage, session, toCore, feed,
                     connects, upsets>>
      /\ inHand # None /\ inHand' = None
    BY DEF PumpSends, venueVars
<1>3. Moment' = Moment /\ Floor' = Floor
    BY <1>2, FloorStays
<1>4. queue \in Seq(Event) /\ Len(queue) <= FANOUT_CAPACITY /\ inHand \in Event
    BY <1>1, <1>2 DEF ChartingTypeOK
<1>5. /\ queue' \in Seq(Event) /\ Len(queue') <= FANOUT_CAPACITY /\ AllFresh(queue', Floor)
      /\ missed' \in BOOLEAN /\ lagged' \in BOOLEAN /\ (stage = "none" => queue' = queue)
    <2>0. missed \in BOOLEAN /\ lagged \in BOOLEAN
        BY <1>1 DEF ChartingTypeOK
    <2>1. CASE stage = "none"
        BY <1>1, <1>4, <2>0, <2>1 DEF PumpSends, InTime
    <2>2. CASE stage # "none"
        <3>1. PICK q : q = IF Len(queue) = FANOUT_CAPACITY THEN Tail(queue) ELSE queue
            OBVIOUS
        <3>2. queue' = Append(q, inHand)
            BY <2>2, <3>1 DEF PumpSends
        <3>3. missed' = (missed \/ Len(queue) = FANOUT_CAPACITY) /\ lagged' = (lagged \/ Len(queue) = FANOUT_CAPACITY)
            BY <2>2 DEF PumpSends
        <3>4. q \in Seq(Event) /\ Len(q) <= FANOUT_CAPACITY - 1 /\ AllFresh(q, Floor)
            <4>1. CASE Len(queue) = FANOUT_CAPACITY
                <5>1. queue # <<>>
                    BY <1>4, <4>1, Depths
                <5>2. q \in Seq(Event) /\ Len(q) = Len(queue) - 1 /\ \A i \in 1 .. Len(q) : q[i] = queue[i + 1]
                    BY <1>4, <3>1, <4>1, <5>1
                <5>3. \A i \in 1 .. Len(q) : i + 1 \in 1 .. Len(queue)
                    BY <1>4, <5>2
                <5>4. AllFresh(q, Floor)
                    BY <1>1, <5>2, <5>3 DEF InTime, AllFresh
                <5> QED BY <4>1, <5>2, <5>4, Depths
            <4>2. CASE Len(queue) # FANOUT_CAPACITY
                BY <1>1, <1>4, <3>1, <4>2, Depths DEF InTime
            <4> QED BY <4>1, <4>2
        <3>5. PICK n \in Nat : n = Len(q)
            BY <3>4
        <3>6. queue' \in Seq(Event) /\ Len(queue') = n + 1 /\ queue'[n + 1] = inHand
              /\ \A i \in 1 .. n : queue'[i] = q[i]
            BY <1>4, <3>2, <3>4, <3>5
        <3>7. Len(queue') <= FANOUT_CAPACITY
            BY <3>4, <3>5, <3>6, Depths
        <3>8. AllFresh(queue', Floor)
            BY <1>1, <3>4, <3>5, <3>6 DEF AllFresh, InTime
        <3> QED BY <2>0, <2>2, <3>3, <3>6, <3>7, <3>8
    <2> QED BY <2>1, <2>2
<1>6. ChartingTypeOK'
    BY <1>1, <1>2, <1>5 DEF ChartingTypeOK
<1>7. Fresh(inHand', Floor)
    BY <1>2, Depths DEF Fresh
<1>8. InTime'
    BY <1>1, <1>2, <1>3, <1>5, <1>7 DEF InTime
<1>9. InOrder' /\ Alone'
    BY <1>1, <1>2, <1>5 DEF InOrder, Alone
<1>10. FirstBar'
    BY <1>1, <1>2 DEF FirstBar
<1> QED BY <1>6, <1>8, <1>9, <1>10 DEF Charted

\* The tape of a course is only changed by prints, and the bars by bars.
LEMMA CourseOfTrades ==
    ASSUME NEW f, FeedOK(f), NEW s \in Seq(Event), \A i \in 1 .. Len(s) : s[i].kind = "Trade",
           NEW y, Course(y, f, s)
    PROVE  \A i \in 0 .. Len(s) : y[i].bars = f.bars
<1> DEFINE P(i) == y[i].bars = f.bars
           T    == {i \in 0 .. Len(s) : ~P(i)}
<1>1. SUFFICES ASSUME T # {} PROVE FALSE
    OBVIOUS
<1>2. PICK m \in T : \A k \in T : m <= k
    <2>1. T \subseteq Nat
        OBVIOUS
    <2> HIDE DEF T
    <2> QED BY <1>1, <2>1, LeastNat
<1>3. m # 0
    BY <1>2 DEF Course
<1>4. m \in 1 .. Len(s) /\ m - 1 \in 0 .. Len(s) /\ m - 1 \notin T
    BY <1>2, <1>3
<1>5. PICK g : g = y[m - 1] /\ g.bars = f.bars /\ y[m] = Applied(g, s[m]) /\ s[m] \in Event
    BY <1>4 DEF Course
<1>6. FeedOK(g) /\ s[m].kind = "Trade"
    BY <1>4, <1>5, CourseOK
<1>7. P(m)
    BY <1>5, <1>6, AppliedTrade
<1> QED BY <1>2, <1>7

\* Bars leave the tape of the terminal alone.
LEMMA CourseOfCandles ==
    ASSUME NEW f, FeedOK(f), NEW s \in Seq(Event), \A i \in 1 .. Len(s) : s[i].kind = "Candle",
           NEW y, Course(y, f, s)
    PROVE  \A i \in 0 .. Len(s) : y[i].tape = f.tape
<1> DEFINE P(i) == y[i].tape = f.tape
           T    == {i \in 0 .. Len(s) : ~P(i)}
<1>1. SUFFICES ASSUME T # {} PROVE FALSE
    OBVIOUS
<1>2. PICK m \in T : \A k \in T : m <= k
    <2>1. T \subseteq Nat
        OBVIOUS
    <2> HIDE DEF T
    <2> QED BY <1>1, <2>1, LeastNat
<1>3. m # 0
    BY <1>2 DEF Course
<1>4. m \in 1 .. Len(s) /\ m - 1 \in 0 .. Len(s) /\ m - 1 \notin T
    BY <1>2, <1>3
<1>5. PICK g : g = y[m - 1] /\ g.tape = f.tape /\ y[m] = Applied(g, s[m]) /\ s[m] \in Event
    BY <1>4 DEF Course
<1>6. FeedOK(g) /\ s[m].kind = "Candle"
    BY <1>4, <1>5, CourseOK
<1>7. P(m)
    BY <1>5, <1>6, AppliedCandle
<1> QED BY <1>2, <1>7

\* What a handover does to a feed.
LEMMA TapeHanded ==
    ASSUME Charted, NEW g, g = AppliedAll(feed, Column(held.tape, Trade))
    PROVE  FeedOK(g) /\ g.bars = feed.bars
<1> DEFINE s == Column(held.tape, Trade)
<1>1. ChartingTypeOK /\ FeedOK(feed)
    BY TypeFacts DEF Charted
<1>2. /\ s \in Seq(Event) /\ Len(s) = Len(held.tape) /\ held.tape \in Seq(PublicTrade)
      /\ \A i \in 1 .. Len(held.tape) : s[i].kind = "Trade"
    BY <1>1, HandedEvents DEF ChartingTypeOK
<1>3. \A i \in 1 .. Len(s) : s[i].kind = "Trade"
    BY <1>2
<1> HIDE DEF s
<1>4. PICK y : Course(y, feed, s) /\ AppliedAll(feed, s) = y[Len(s)]
    BY <1>2, AppliedInOrder
<1>5. Len(s) \in 0 .. Len(s)
    BY <1>2
<1>6. FeedOK(y[Len(s)])
    BY <1>1, <1>2, <1>4, <1>5, CourseOK
<1>7. y[Len(s)].bars = feed.bars
    BY <1>1, <1>2, <1>3, <1>4, <1>5, CourseOfTrades
<1> QED BY <1>4, <1>6, <1>7 DEF s

\* The handover of the bars leaves those of the terminal in order, and its tape alone.
LEMMA CandlesHanded ==
    ASSUME Charted, NEW g, g = AppliedAll(feed, Column(held.bars, Candle))
    PROVE  /\ FeedOK(g) /\ g.tape = feed.tape /\ Rising(g.bars) /\ UpTo(g.bars, Floor)
           /\ held.bars = <<>> => g.bars = feed.bars
<1> DEFINE s == Column(held.bars, Candle)
<1>1. ChartingTypeOK /\ FeedOK(feed) /\ InTime /\ InOrder /\ Floor \in Int
    BY TypeFacts, MomentType DEF Charted
<1>2. /\ s \in Seq(Event) /\ Len(s) = Len(held.bars) /\ held.bars \in Seq(Bar)
      /\ \A i \in 1 .. Len(held.bars) : s[i].kind = "Candle" /\ s[i].bar = held.bars[i]
    BY <1>1, HandedEvents DEF ChartingTypeOK
<1>3. \A i \in 1 .. Len(s) : s[i].kind = "Candle"
    BY <1>2
<1>4. AllFresh(s, Floor)
    BY <1>1, <1>2 DEF AllFresh, Fresh, InTime, UpTo
<1> HIDE DEF s
<1>5. PICK y : Course(y, feed, s) /\ AppliedAll(feed, s) = y[Len(s)]
    BY <1>2, AppliedInOrder
<1>6. Len(s) \in 0 .. Len(s)
    BY <1>2
<1>7. FeedOK(y[Len(s)])
    BY <1>1, <1>2, <1>5, <1>6, CourseOK
<1>8. y[Len(s)].tape = feed.tape
    BY <1>1, <1>2, <1>3, <1>5, <1>6, CourseOfCandles
<1>9. Rising(feed.bars) /\ UpTo(feed.bars, Floor)
    BY <1>1 DEF InTime, InOrder
<1>10. Rising(y[Len(s)].bars) /\ UpTo(y[Len(s)].bars, Floor)
    BY <1>1, <1>2, <1>4, <1>5, <1>6, <1>9, CourseBars
<1>11. held.bars = <<>> => y[Len(s)] = feed
    <2>1. held.bars = <<>> => Len(s) = 0
        BY <1>2
    <2> QED BY <1>5, <2>1 DEF Course
<1> QED BY <1>5, <1>7, <1>8, <1>10, <1>11 DEF s

\* A step after which the core has what it had, and a feed that has not lost its order.
LEMMA FeedCharted ==
    ASSUME Charted, UNCHANGED <<venueVars, coreVars>>, FeedOK(feed'),
           \/ feed'.bars = feed.bars
           \/ held.bars # <<>> /\ Rising(feed'.bars) /\ UpTo(feed'.bars, Floor),
           queue' \in Seq(Event), Len(queue') <= FANOUT_CAPACITY, AllFresh(queue', Floor),
           queue = <<>> => queue' = <<>>,
           missed' \in BOOLEAN, lagged' \in BOOLEAN, stage' \in {"none", "select", "tape", "candles"},
           session' \in [authenticated : BOOLEAN, subscribed : BOOLEAN],
           toCore' \in Seq({"Hello", "Subscribe", "Unsubscribe", "Ping"}),
           connects' \in Nat, upsets' \in Nat,
           stage' = "none" => session' = NoSession /\ queue' = <<>>
    PROVE  Charted'
<1>1. ChartingTypeOK /\ InTime /\ InOrder /\ FirstBar
    BY DEF Charted
<1>2. UNCHANGED <<bucketing, printed, goodToken, fed, series, sink, inHand, held>>
    BY DEF venueVars, coreVars
<1>3. Moment' = Moment /\ Floor' = Floor
    BY <1>2, FloorStays
<1>4. ChartingTypeOK'
    BY <1>1, <1>2 DEF ChartingTypeOK, FeedOK
<1>5. Rising(feed'.bars) /\ UpTo(feed'.bars, Floor)
    BY <1>1 DEF InOrder, InTime
<1>6. InTime'
    BY <1>1, <1>2, <1>3, <1>5 DEF InTime
<1>7. InOrder'
    BY <1>1, <1>2, <1>5 DEF InOrder
<1>8. FirstBar'
    BY <1>1, <1>2 DEF FirstBar
<1>9. Alone'
    BY DEF Alone
<1> QED BY <1>4, <1>6, <1>7, <1>8, <1>9 DEF Charted

\* What the steps of the terminal and the session keep, when they leave the feed and the queue alone.
LEMMA SameFeedCharted ==
    ASSUME Charted
    PROVE  /\ ChartingTypeOK /\ FeedOK(feed)
           /\ queue \in Seq(Event) /\ Len(queue) <= FANOUT_CAPACITY /\ AllFresh(queue, Floor)
           /\ missed \in BOOLEAN /\ lagged \in BOOLEAN
           /\ stage \in {"none", "select", "tape", "candles"}
           /\ session \in [authenticated : BOOLEAN, subscribed : BOOLEAN]
           /\ toCore \in Seq({"Hello", "Subscribe", "Unsubscribe", "Ping"})
           /\ connects \in Nat /\ upsets \in Nat
           /\ (stage = "none" => session = NoSession /\ queue = <<>>)
<1>1. ChartingTypeOK /\ InTime /\ Alone
    BY DEF Charted
<1>2. FeedOK(feed)
    BY <1>1, TypeFacts
<1> QED BY <1>1, <1>2 DEF ChartingTypeOK, InTime, Alone

\* Nothing is kept of a connection that is gone.
LEMMA GoneFacts ==
    ASSUME Charted, Gone
    PROVE  /\ queue' \in Seq(Event) /\ Len(queue') <= FANOUT_CAPACITY /\ AllFresh(queue', Floor)
           /\ queue' = <<>> /\ missed' = FALSE /\ lagged' \in BOOLEAN /\ stage' = "none"
           /\ session' = NoSession /\ session' \in [authenticated : BOOLEAN, subscribed : BOOLEAN]
           /\ toCore' = <<>> /\ toCore' \in Seq({"Hello", "Subscribe", "Unsubscribe", "Ping"})
<1>1. queue' = <<>> /\ missed' = FALSE /\ lagged' = lagged /\ stage' = "none"
      /\ session' = NoSession /\ toCore' = <<>>
    BY DEF Gone
<1>2. Len(queue') <= FANOUT_CAPACITY /\ AllFresh(queue', Floor)
    BY <1>1, Depths DEF AllFresh
<1>3. lagged \in BOOLEAN
    BY SameFeedCharted
<1>4. session' \in [authenticated : BOOLEAN, subscribed : BOOLEAN]
    BY <1>1 DEF NoSession
<1> QED BY <1>1, <1>2, <1>3, <1>4

\* A change of status leaves the bars and the tape alone.
LEMMA StatusFacts ==
    ASSUME NEW f, FeedOK(f), NEW st \in {"Connecting", "Live", "Lost", "Refused"},
           NEW g, g = [f EXCEPT !.status = st]
    PROVE  FeedOK(g) /\ g.bars = f.bars /\ g.tape = f.tape
BY DEF FeedOK, FeedState

\* A connection keeps the order: the bars of the terminal outlive the one before.
LEMMA FeedConnectsCharted ==
    ASSUME Charted, FeedConnects
    PROVE  Charted'
<1>1. /\ UNCHANGED <<venueVars, coreVars, queue, missed, session, lagged, upsets>>
      /\ stage = "none" /\ stage' = "select" /\ connects' = connects + 1 /\ toCore' = <<"Hello">>
      /\ feed' = [feed EXCEPT !.status = "Connecting"]
    BY DEF FeedConnects
<1>2. FeedOK(feed') /\ feed'.bars = feed.bars
    BY <1>1, StatusFacts, SameFeedCharted
<1>3. toCore' \in Seq({"Hello", "Subscribe", "Unsubscribe", "Ping"}) /\ connects' \in Nat
    BY <1>1, SameFeedCharted
<1> QED BY <1>1, <1>2, <1>3, SameFeedCharted, FeedCharted

\* A ping changes nothing of it.
LEMMA PingCharted ==
    ASSUME Charted, Ping
    PROVE  Charted'
<1>1. /\ UNCHANGED <<venueVars, coreVars, queue, missed, stage, session, feed, lagged, connects>>
      /\ upsets' = upsets + 1
    BY DEF Ping, Upset
<1>2. PICK msg \in {"Ping", "Unsubscribe", "Subscribe"} : toCore' = Append(toCore, msg)
    BY DEF Ping
<1>3. toCore' \in Seq({"Hello", "Subscribe", "Unsubscribe", "Ping"}) /\ upsets' \in Nat
    BY <1>1, <1>2, SameFeedCharted
<1> QED BY <1>1, <1>3, SameFeedCharted, FeedCharted

\* A lost connection takes the backlog with it, and leaves the terminal its bars.
LEMMA FeedDisconnectsCharted ==
    ASSUME Charted, FeedDisconnects
    PROVE  Charted'
<1>1. /\ UNCHANGED <<venueVars, coreVars, connects, upsets>> /\ Gone
      /\ feed' = [feed EXCEPT !.status = "Lost"]
    BY DEF FeedDisconnects
<1>2. FeedOK(feed') /\ feed'.bars = feed.bars
    BY <1>1, StatusFacts, SameFeedCharted
<1>3. missed' \in BOOLEAN /\ stage' \in {"none", "select", "tape", "candles"}
    BY <1>1, GoneFacts
<1> QED BY <1>1, <1>2, <1>3, GoneFacts, SameFeedCharted, FeedCharted

\* The session handles a message, and keeps the order.
LEMMA SessionHandlesCharted ==
    ASSUME Charted, SessionHandles
    PROVE  Charted'
<1>1. UNCHANGED <<venueVars, coreVars, connects, upsets>> /\ stage = "select" /\ toCore # <<>>
    BY DEF SessionHandles
<1>2. PICK msg : msg = Head(toCore)
    OBVIOUS
<1>3. PICK rest \in Seq({"Hello", "Subscribe", "Unsubscribe", "Ping"}) : rest = Tail(toCore)
    <2>1. PICK S : S = {"Hello", "Subscribe", "Unsubscribe", "Ping"}
        OBVIOUS
    <2>2. toCore \in Seq(S) /\ toCore # <<>>
        BY <1>1, <2>1, SameFeedCharted
    <2>3. Tail(toCore) \in Seq(S)
        BY ONLY <2>2
    <2> QED BY <2>1, <2>3
<1>4. CASE msg = "Hello" /\ ~goodToken
    <2>1. Gone /\ feed' = [feed EXCEPT !.status = "Refused"]
        BY <1>2, <1>4 DEF SessionHandles
    <2>2. FeedOK(feed') /\ feed'.bars = feed.bars
        BY <2>1, StatusFacts, SameFeedCharted
    <2>3. missed' \in BOOLEAN /\ stage' \in {"none", "select", "tape", "candles"}
        BY <2>1, GoneFacts
    <2> QED BY <1>1, <2>1, <2>2, <2>3, GoneFacts, SameFeedCharted, FeedCharted
<1>5. CASE msg = "Hello" /\ goodToken
    <2>1. /\ session' = [session EXCEPT !.authenticated = TRUE]
          /\ toCore' = Append(rest, "Subscribe")
          /\ feed' = [feed EXCEPT !.status = "Live"]
          /\ stage' = "tape"
          /\ UNCHANGED <<queue, missed, lagged>>
        BY <1>2, <1>3, <1>5 DEF SessionHandles
    <2>2. FeedOK(feed') /\ feed'.bars = feed.bars
        BY <2>1, StatusFacts, SameFeedCharted
    <2>3. session' \in [authenticated : BOOLEAN, subscribed : BOOLEAN]
        BY <2>1, SameFeedCharted
    <2>4. toCore' \in Seq({"Hello", "Subscribe", "Unsubscribe", "Ping"})
        BY <1>3, <2>1
    <2> QED BY <1>1, <2>1, <2>2, <2>3, <2>4, SameFeedCharted, FeedCharted
<1>6. CASE msg # "Hello"
    <2>1. /\ session' = IF msg = "Ping" THEN session
                        ELSE [session EXCEPT !.subscribed = (msg = "Subscribe")]
          /\ toCore' = rest
          /\ stage' = "tape"
          /\ UNCHANGED <<queue, missed, lagged, feed>>
        BY <1>2, <1>3, <1>6 DEF SessionHandles
    <2>2. session' \in [authenticated : BOOLEAN, subscribed : BOOLEAN]
        <3>1. (msg = "Subscribe") \in BOOLEAN
            OBVIOUS
        <3> QED BY <2>1, <3>1, SameFeedCharted
    <2>3. FeedOK(feed') /\ feed'.bars = feed.bars
        BY <2>1, SameFeedCharted
    <2> QED BY <1>1, <1>3, <2>1, <2>2, <2>3, SameFeedCharted, FeedCharted
<1>7. goodToken \in BOOLEAN
    BY SameFeedCharted DEF ChartingTypeOK
<1> QED BY <1>4, <1>5, <1>6, <1>7

\* The handover of the tape leaves the bars alone.
LEMMA HandTapeCharted ==
    ASSUME Charted, HandTape
    PROVE  Charted'
<1>1. UNCHANGED <<venueVars, coreVars, queue, missed, session, toCore, lagged, connects, upsets>>
      /\ stage = "tape" /\ stage' = "candles"
    BY DEF HandTape
<1>2. FeedOK(feed') /\ feed'.bars = feed.bars
    <2>1. CASE session.subscribed
        BY <2>1, TapeHanded DEF HandTape
    <2>2. CASE ~session.subscribed
        BY <2>2, SameFeedCharted DEF HandTape
    <2> QED BY <2>1, <2>2
<1> QED BY <1>1, <1>2, SameFeedCharted, FeedCharted

\* The handover of the bars keeps them in order.
LEMMA HandCandlesCharted ==
    ASSUME Charted, HandCandles
    PROVE  Charted'
<1>1. UNCHANGED <<venueVars, coreVars, queue, missed, session, toCore, lagged, connects, upsets>>
      /\ stage = "candles" /\ stage' = "select"
    BY DEF HandCandles
<1>2. FeedOK(feed') /\ (\/ feed'.bars = feed.bars
                        \/ held.bars # <<>> /\ Rising(feed'.bars) /\ UpTo(feed'.bars, Floor))
    <2>1. CASE session.subscribed
        BY <2>1, CandlesHanded DEF HandCandles
    <2>2. CASE ~session.subscribed
        BY <2>2, SameFeedCharted DEF HandCandles
    <2> QED BY <2>1, <2>2
<1> QED BY <1>1, <1>2, SameFeedCharted, FeedCharted

\* What a feed is sent is folded into it.
LEMMA EventApplied ==
    ASSUME Charted, NEW e \in Event, Fresh(e, Floor), e.kind = "Candle" => held.bars # <<>>,
           NEW g, g = Applied(feed, e)
    PROVE  FeedOK(g) /\ (\/ g.bars = feed.bars
                         \/ held.bars # <<>> /\ Rising(g.bars) /\ UpTo(g.bars, Floor))
<1>1. FeedOK(feed) /\ InTime /\ InOrder /\ Floor \in Int
    BY SameFeedCharted, MomentType DEF Charted
<1>2. FeedOK(g)
    BY <1>1, AppliedOK
<1>3. CASE e.kind = "Trade"
    BY <1>1, <1>2, <1>3, AppliedTrade
<1>4. CASE e.kind = "Candle"
    <2>1. e.bar \in Bar /\ e.bar.openTime <= Floor
        BY <1>4, EventKinds DEF Fresh
    <2>2. g.bars = FoldCandle(feed.bars, e.bar, CANDLE_DEPTH)
        BY <1>1, <1>4, AppliedCandle
    <2>3. Rising(feed.bars) /\ UpTo(feed.bars, Floor) /\ feed.bars \in Seq(Bar)
          /\ Len(feed.bars) <= CANDLE_DEPTH
        BY <1>1 DEF InTime, InOrder, FeedOK, FeedState
    <2>4. Rising(g.bars) /\ UpTo(g.bars, Floor)
        BY <1>1, <2>1, <2>2, <2>3, FoldCandleInOrder, Depths
    <2> QED BY <1>2, <1>4, <2>4
<1> QED BY <1>3, <1>4, EventKinds

\* An event forwarded keeps the order of the bars.
LEMMA ForwardCharted ==
    ASSUME Charted, Forward
    PROVE  Charted'
<1>1. UNCHANGED <<venueVars, coreVars, stage, session, toCore, lagged, connects, upsets>>
      /\ stage = "select"
    BY DEF Forward
<1>2. CASE missed
    <2>1. missed' = FALSE /\ UNCHANGED <<queue, feed>>
        BY <1>2 DEF Forward
    <2>2. FeedOK(feed') /\ feed'.bars = feed.bars
        BY <2>1, SameFeedCharted
    <2> QED BY <1>1, <2>1, <2>2, SameFeedCharted, FeedCharted
<1>3. CASE ~missed
    <2>1. queue # <<>> /\ queue' = Tail(queue) /\ missed' = missed
        BY <1>3 DEF Forward
    <2>2. queue \in Seq(Event) /\ Len(queue) <= FANOUT_CAPACITY
        BY SameFeedCharted
    <2>3. PICK e : e = Head(queue) /\ e = queue[1] /\ e \in Event /\ queue' \in Seq(Event)
                   /\ Len(queue') = Len(queue) - 1 /\ \A i \in 1 .. Len(queue') : queue'[i] = queue[i + 1]
        BY <2>1, <2>2
    <2>4. PICK n \in Nat : n = Len(queue) /\ n >= 1
        BY <2>1, <2>2
    <2>5. 1 \in 1 .. n /\ \A i \in 1 .. n - 1 : i + 1 \in 1 .. n
        BY <2>4
    <2>6. Fresh(e, Floor) /\ AllFresh(queue', Floor)
        BY <2>3, <2>4, <2>5, SameFeedCharted DEF AllFresh
    <2>7. Len(queue') <= FANOUT_CAPACITY
        BY <2>2, <2>3, <2>4, Depths
    <2>8. feed' = IF session.subscribed THEN Applied(feed, e) ELSE feed
        BY <1>3, <2>3 DEF Forward
    <2>9. e.kind = "Candle" => held.bars # <<>>
        BY <2>1 DEF Charted, FirstBar
    <2>10. FeedOK(feed') /\ (\/ feed'.bars = feed.bars
                             \/ held.bars # <<>> /\ Rising(feed'.bars) /\ UpTo(feed'.bars, Floor))
        <3>1. CASE session.subscribed
            BY <2>3, <2>6, <2>8, <2>9, <3>1, EventApplied
        <3>2. CASE ~session.subscribed
            BY <2>8, <3>2, SameFeedCharted
        <3> QED BY <3>1, <3>2
    <2> QED BY <1>1, <2>1, <2>3, <2>6, <2>7, <2>10, SameFeedCharted, FeedCharted
<1> QED BY <1>2, <1>3, SameFeedCharted

\* A restarted core has no bars, and its first is no older than the terminal's last.
LEMMA CoreRestartsCharted ==
    ASSUME Charted, CoreRestarts
    PROVE  Charted'
<1>1. /\ Gone /\ UNCHANGED <<bucketing, printed, goodToken, connects>> /\ upsets' = upsets + 1
      /\ feed' = IF stage = "none" THEN feed ELSE [feed EXCEPT !.status = "Lost"]
      /\ fed' = <<>> /\ series' = <<>> /\ sink' = <<>> /\ inHand' = None /\ held' = NoHistory
    BY DEF CoreRestarts, Upset, venueVars
<1>2. Moment' = Moment /\ Floor' = Floor
    BY <1>1, FloorStays
<1>3. FeedOK(feed') /\ feed'.bars = feed.bars
    BY <1>1, StatusFacts, SameFeedCharted
<1>4. held' \in [bars : Seq(Bar), tape : Seq(PublicTrade)] /\ held'.bars = <<>> /\ held'.tape = <<>>
    BY <1>1 DEF NoHistory
<1>5. ChartingTypeOK'
    <2>1. ChartingTypeOK
        BY SameFeedCharted
    <2>2. upsets' \in Nat /\ connects' \in Nat
        BY <1>1, SameFeedCharted
    <2>3. /\ Len(series') <= CAPACITY /\ Len(held'.bars) <= HISTORY /\ Len(held'.tape) <= TAPE_HISTORY
        BY <1>1, <1>4, Depths
    <2>4. fed' \in Seq(PublicTrade) /\ series' \in Seq(Bar) /\ sink' \in Seq(Event)
        BY <1>1
    <2>5. /\ bucketing' \in [kind : {"Time", "Ticks"}, size : Nat \ {0}] /\ printed' \in Seq(PublicTrade)
          /\ goodToken' \in BOOLEAN
        BY <1>1, <2>1 DEF ChartingTypeOK
    <2>6. /\ queue' \in Seq(Event) /\ Len(queue') <= FANOUT_CAPACITY /\ stage' \in {"none", "select", "tape", "candles"}
          /\ missed' \in BOOLEAN /\ lagged' \in BOOLEAN
          /\ session' \in [authenticated : BOOLEAN, subscribed : BOOLEAN]
          /\ toCore' \in Seq({"Hello", "Subscribe", "Unsubscribe", "Ping"})
        BY <1>1, GoneFacts
    <2>7. feed' \in FeedState /\ Len(feed'.bars) <= CANDLE_DEPTH /\ Len(feed'.tape) <= TAPE_DEPTH
        BY <1>3 DEF FeedOK
    <2>8. inHand' \in Event \cup {None}
        BY <1>1
    <2> QED BY <1>4, <2>2, <2>3, <2>4, <2>5, <2>6, <2>7, <2>8 DEF ChartingTypeOK
<1>6. InTime'
    <2>1. AllFresh(sink', Floor) /\ Fresh(inHand', Floor) /\ AllFresh(queue', Floor)
        BY <1>1, Depths, GoneFacts DEF AllFresh, Fresh
    <2>2. UpTo(series', Floor) /\ UpTo(held'.bars, Floor) /\ UpTo(feed'.bars, Floor)
        BY <1>1, <1>3, <1>4 DEF UpTo, Charted, InTime
    <2>3. \A i \in 1 .. Len(fed') : fed'[i].at <= Moment'
        BY <1>1
    <2> QED BY <1>2, <2>1, <2>2, <2>3 DEF InTime
<1>7. InOrder'
    BY <1>3, <1>4 DEF InOrder, Charted, Rising
<1>8. FirstBar' /\ Alone'
    BY <1>1, GoneFacts DEF FirstBar, Alone
<1> QED BY <1>5, <1>6, <1>7, <1>8 DEF Charted

\* The order holds at first.
LEMMA ChartingInitCharted ==
    ASSUME ChartingInit
    PROVE  Charted
<1>1. /\ goodToken \in BOOLEAN
      /\ printed = <<>> /\ fed = <<>> /\ series = <<>> /\ sink = <<>> /\ inHand = None
      /\ held = NoHistory /\ queue = <<>> /\ missed = FALSE /\ stage = "none" /\ session = NoSession
      /\ toCore = <<>> /\ lagged = FALSE /\ connects = 0 /\ upsets = 0
      /\ feed = [status |-> "Connecting", bars |-> <<>>, tape |-> <<>>, trades |-> 0]
    BY DEF ChartingInit
<1>2. bucketing \in [kind : {"Time", "Ticks"}, size : Nat \ {0}]
    <2>1. PICK b \in Bucketings : bucketing = Clamped(b)
        BY DEF ChartingInit
    <2>2. b \in [kind : {"Time", "Ticks"}, size : Int]
        BY <2>1, ChartingAssumption
    <2>3. PICK m \in Int : m = Max({b.size, 1}) /\ m >= 1
        <3>1. b.size \in Int
            BY <2>2
        <3> QED BY <3>1, TwoOf
    <2>4. bucketing = [b EXCEPT !.size = m]
        BY <2>1, <2>3 DEF Clamped
    <2>5. bucketing = [kind |-> b.kind, size |-> m]
        BY <2>2, <2>4
    <2> QED BY <2>2, <2>3, <2>5
<1>3. held = [bars |-> <<>>, tape |-> <<>>] /\ session = [authenticated |-> FALSE, subscribed |-> FALSE]
    BY <1>1 DEF NoHistory, NoSession
<1>4. feed \in FeedState /\ feed.bars = <<>> /\ feed.tape = <<>>
    BY <1>1 DEF FeedState
<1>5. ChartingTypeOK
    <2>1. Len(series) <= CAPACITY /\ Len(held.bars) <= HISTORY /\ Len(held.tape) <= TAPE_HISTORY
          /\ Len(queue) <= FANOUT_CAPACITY /\ Len(feed.bars) <= CANDLE_DEPTH /\ Len(feed.tape) <= TAPE_DEPTH
        BY <1>1, <1>3, <1>4, Depths
    <2>2. held \in [bars : Seq(Bar), tape : Seq(PublicTrade)]
        BY <1>3
    <2>3. /\ printed \in Seq(PublicTrade) /\ fed \in Seq(PublicTrade) /\ series \in Seq(Bar)
          /\ sink \in Seq(Event) /\ queue \in Seq(Event)
          /\ toCore \in Seq({"Hello", "Subscribe", "Unsubscribe", "Ping"})
        BY <1>1
    <2>4. session \in [authenticated : BOOLEAN, subscribed : BOOLEAN]
        BY <1>3
    <2>5. connects \in Nat /\ upsets \in Nat
        BY <1>1
    <2> QED BY <1>1, <1>2, <1>4, <2>1, <2>2, <2>3, <2>4, <2>5 DEF ChartingTypeOK
<1>6. InTime
    BY <1>1, <1>3, <1>4, Depths DEF InTime, UpTo, AllFresh, Fresh
<1>7. InOrder /\ FirstBar /\ Alone
    BY <1>1, <1>3, <1>4 DEF InOrder, FirstBar, Alone, Rising
<1> QED BY <1>5, <1>6, <1>7 DEF Charted

\* Every step keeps it.
LEMMA ChartingNextCharted ==
    ASSUME Charted, [ChartingNext]_chartingVars
    PROVE  Charted'
<1>1. CASE UNCHANGED chartingVars
    BY <1>1 DEF chartingVars, venueVars, coreVars, sessionVars, Charted, ChartingTypeOK, InTime, InOrder,
                FirstBar, Alone, Moment, Floor
<1>2. CASE ChartingNext
    BY <1>2, VenuePrintsCharted, VenueReplaysCharted, PumpFoldsCharted, PumpSendsCharted,
       FeedConnectsCharted, PingCharted, FeedDisconnectsCharted, CoreRestartsCharted,
       SessionHandlesCharted, HandTapeCharted, HandCandlesCharted, ForwardCharted DEF ChartingNext
<1> QED BY <1>1, <1>2

\* The bars of the read-model and of a terminal stay in the order of their open times, and no
\* bar opens after the last print: bars that are sent again with every print, that are handed
\* over by a session, or that come from a core that was restarted are folded in their place.
THEOREM ChartingInOrder == ChartingSpec => []Charted
<1>1. ChartingInit => Charted
    BY ChartingInitCharted
<1>2. Charted /\ [ChartingNext]_chartingVars => Charted'
    BY ChartingNextCharted
<1> QED BY <1>1, <1>2, PTL DEF ChartingSpec

\* What the connector, the read-model, a session and a terminal keep of prints and bars has its
\* type and its bound (capacities of the series, the read-model's rings, the backlog and the
\* terminal's), in whatever order prints, the pump, handovers and connections come.
THEOREM ChartingTypes == ChartingSpec => []ChartingTypeOK
<1>1. Charted => ChartingTypeOK
    BY DEF Charted
<1> QED BY <1>1, ChartingInOrder, PTL

-----------------------------------------------------------------------------
(* What has left the read-model and not reached the terminal.              *)

Pending == queue \o IF inHand = None THEN <<>> ELSE <<inHand>>

\* r is s without its k first.
Without(r, s, k) ==
    /\ k \in 0 .. Len(s) /\ s \in Seq(Event) /\ r \in Seq(Event)
    /\ Len(r) = Len(s) - k /\ \A i \in 1 .. Len(r) : r[i] = s[i + k]

\* What is pending: the session's backlog, and the event the pump has folded and not sent.
LEMMA PendingFacts ==
    ASSUME Charted
    PROVE  /\ Pending \in Seq(Event) /\ Len(Pending) <= FANOUT_CAPACITY + 1
           /\ Len(Pending) = Len(queue) + IF inHand = None THEN 0 ELSE 1
           /\ \A i \in 1 .. Len(queue) : Pending[i] = queue[i]
           /\ (inHand # None => Pending[Len(queue) + 1] = inHand /\ inHand \in Event)
<1>1. queue \in Seq(Event) /\ inHand \in Event \cup {None} /\ Len(queue) <= FANOUT_CAPACITY
    BY SameFeedCharted DEF ChartingTypeOK
<1>2. PICK n \in Nat : n = Len(queue)
    BY <1>1
<1>3. CASE inHand = None
    <2>1. Pending = queue
        BY <1>1, <1>3 DEF Pending
    <2> QED BY <1>1, <1>2, <1>3, <2>1, Depths
<1>4. CASE inHand # None
    <2>1. <<inHand>> \in Seq(Event) /\ Len(<<inHand>>) = 1 /\ <<inHand>>[1] = inHand
        BY <1>1, <1>4
    <2>2. Pending = queue \o <<inHand>>
        BY <1>4 DEF Pending
    <2>3. /\ Pending \in Seq(Event) /\ Len(Pending) = n + 1
          /\ \A i \in 1 .. n + 1 : Pending[i] = IF i <= n THEN queue[i] ELSE <<inHand>>[i - n]
        BY ONLY <1>1, <1>2, <2>1, <2>2, ConcatProperties
    <2>4. Pending[n + 1] = inHand
        <3>1. n + 1 \in 1 .. n + 1 /\ ~(n + 1 <= n) /\ n + 1 - n = 1
            OBVIOUS
        <3> QED BY <2>1, <2>3, <3>1
    <2>5. \A i \in 1 .. n : Pending[i] = queue[i]
        BY <2>3
    <2> QED BY <1>1, <1>2, <1>4, <2>3, <2>4, <2>5, Depths
<1> QED BY <1>3, <1>4

\* What is pending stays if neither changes.
LEMMA SamePending ==
    ASSUME Charted, UNCHANGED <<queue, inHand>>
    PROVE  Pending' = Pending /\ Without(Pending', Pending, 0)
<1>1. Pending' = Pending
    BY DEF Pending
<1>2. Pending \in Seq(Event)
    BY PendingFacts
<1> QED BY <1>1, <1>2 DEF Without

\* Whatever the session has not forwarded goes with it.
LEMMA GonePending ==
    ASSUME Charted, queue' = <<>>, inHand' = inHand
    PROVE  Without(Pending', Pending, Len(queue))
<1>1. /\ Pending \in Seq(Event) /\ Len(Pending) = Len(queue) + IF inHand = None THEN 0 ELSE 1
      /\ (inHand # None => Pending[Len(queue) + 1] = inHand /\ inHand \in Event)
    BY PendingFacts
<1>2. PICK n \in Nat : n = Len(queue)
    BY SameFeedCharted
<1>3. CASE inHand = None
    <2>1. Pending' = <<>>
        BY <1>3 DEF Pending
    <2> QED BY <1>1, <1>2, <1>3, <2>1 DEF Without
<1>4. CASE inHand # None
    <2>1. Pending' = <<inHand>>
        BY <1>1, <1>4 DEF Pending
    <2>2. Pending' \in Seq(Event) /\ Len(Pending') = 1 /\ Pending'[1] = inHand
        BY <1>1, <1>4, <2>1
    <2> QED BY <1>1, <1>2, <1>4, <2>2 DEF Without
<1> QED BY <1>3, <1>4

\* A forwarded event is the first of what was pending.
LEMMA ForwardedPending ==
    ASSUME Charted, queue # <<>>, queue' = Tail(queue), inHand' = inHand
    PROVE  /\ Without(Pending', Pending, 1) /\ Pending[1] = Head(queue) /\ Len(Pending) >= 1
<1>1. queue \in Seq(Event) /\ inHand \in Event \cup {None}
    BY SameFeedCharted DEF ChartingTypeOK
<1>2. /\ Pending \in Seq(Event) /\ Len(Pending) = Len(queue) + IF inHand = None THEN 0 ELSE 1
      /\ \A i \in 1 .. Len(queue) : Pending[i] = queue[i]
      /\ (inHand # None => Pending[Len(queue) + 1] = inHand)
    BY PendingFacts
<1>3. PICK n \in Nat : n = Len(queue) /\ n >= 1
    BY <1>1
<1>4. /\ queue' \in Seq(Event) /\ Len(queue') = n - 1 /\ \A i \in 1 .. n - 1 : queue'[i] = queue[i + 1]
      /\ Head(queue) = queue[1]
    BY <1>1, <1>3
<1>5. Pending[1] = Head(queue)
    BY <1>2, <1>3, <1>4
<1>6. CASE inHand = None
    <2>1. Pending' = queue'
        BY <1>4, <1>6 DEF Pending
    <2>2. \A i \in 1 .. n - 1 : Pending'[i] = Pending[i + 1]
        BY <1>2, <1>3, <1>4, <2>1
    <2> QED BY <1>2, <1>3, <1>4, <1>5, <1>6, <2>1, <2>2 DEF Without
<1>7. CASE inHand # None
    <2>1. <<inHand>> \in Seq(Event) /\ Len(<<inHand>>) = 1 /\ <<inHand>>[1] = inHand
        BY <1>1, <1>7
    <2>2. Pending' = queue' \o <<inHand>>
        BY <1>7 DEF Pending
    <2>3. /\ Pending' \in Seq(Event) /\ Len(Pending') = (n - 1) + 1
          /\ \A i \in 1 .. (n - 1) + 1 : Pending'[i] = IF i <= n - 1 THEN queue'[i] ELSE <<inHand>>[i - (n - 1)]
        BY ONLY <1>4, <2>1, <2>2, ConcatProperties
    <2>4. ASSUME NEW i \in 1 .. n PROVE Pending'[i] = Pending[i + 1]
        <3>1. i \in 1 .. (n - 1) + 1
            BY <1>3
        <3>2. CASE i <= n - 1
            <4>1. i \in 1 .. n - 1 /\ i + 1 \in 1 .. n
                BY <1>3, <3>2
            <4> QED BY <1>2, <1>3, <1>4, <2>3, <3>1, <3>2, <4>1
        <3>3. CASE ~(i <= n - 1)
            <4>1. i = n /\ i - (n - 1) = 1
                BY <1>3, <3>3
            <4> QED BY <1>2, <1>3, <1>7, <2>1, <2>3, <3>1, <3>3, <4>1
        <3> QED BY <3>2, <3>3
    <2> QED BY <1>2, <1>3, <1>5, <1>7, <2>3, <2>4 DEF Without
<1> QED BY <1>6, <1>7

\* An event sent by the pump is pending still, or nobody is connected to want it.
LEMMA SentPending ==
    ASSUME Charted, PumpSends, ~lagged'
    PROVE  \E k \in 0 .. Len(Pending) : Without(Pending', Pending, k) /\ (stage # "none" => k = 0)
<1>1. inHand # None /\ inHand' = None
    BY DEF PumpSends
<1>2. /\ Pending \in Seq(Event) /\ Len(Pending) = Len(queue) + 1
      /\ \A i \in 1 .. Len(queue) : Pending[i] = queue[i]
      /\ Pending[Len(queue) + 1] = inHand
    BY <1>1, PendingFacts
<1>3. queue \in Seq(Event) /\ inHand \in Event
    BY <1>1, SameFeedCharted DEF ChartingTypeOK
<1>4. CASE stage = "none"
    <2>1. queue = <<>> /\ queue' = queue
        BY <1>4, SameFeedCharted DEF PumpSends
    <2>2. Pending' = <<>> /\ Len(Pending) = 1
        BY <1>1, <1>2, <2>1 DEF Pending
    <2>3. Without(Pending', Pending, 1)
        BY <1>2, <2>2 DEF Without
    <2> QED BY <1>4, <2>2, <2>3
<1>5. CASE stage # "none"
    <2>1. queue' = Append(queue, inHand)
        BY <1>5 DEF PumpSends
    <2>2. Pending' = queue' \o <<>>
        BY <1>1 DEF Pending
    <2>3. Pending = queue \o <<inHand>>
        BY <1>1 DEF Pending
    <2>4. Pending' = Pending
        BY <1>3, <2>1, <2>2, <2>3
    <2>5. Without(Pending', Pending, 0)
        BY <1>2, <2>4 DEF Without
    <2> QED BY <1>2, <2>5
<1> QED BY <1>4, <1>5

\* An event folded by the read-model is the last of what is pending.
LEMMA FoldedPending ==
    ASSUME Charted, PumpFolds
    PROVE  /\ Pending' = Append(Pending, sink[1]) /\ sink[1] \in Event /\ held' = Kept(held, sink[1])
           /\ UNCHANGED <<stage, session, feed, lagged>>
<1>1. /\ sink # <<>> /\ inHand = None /\ inHand' = Head(sink) /\ held' = Kept(held, Head(sink))
      /\ UNCHANGED <<queue, stage, session, feed, lagged>>
    BY DEF PumpFolds, sessionVars
<1>2. sink \in Seq(Event) /\ queue \in Seq(Event)
    BY SameFeedCharted DEF ChartingTypeOK
<1>3. Head(sink) = sink[1] /\ sink[1] \in Event
    BY <1>1, <1>2
<1>4. inHand' # None
    BY <1>1, <1>3, Depths
<1>5. Pending' = queue \o <<sink[1]>> /\ Pending = queue
    BY <1>1, <1>2, <1>3, <1>4 DEF Pending
<1> QED BY <1>1, <1>2, <1>3, <1>5

-----------------------------------------------------------------------------
(* The tape.                                                               *)

One(e) == IF e.kind = "Trade" THEN 1 ELSE 0

\* a[i] prints of p come after its first i events.
Ages(a, p) ==
    /\ a[Len(p)] = 0
    /\ \A i \in 0 .. Len(p) : a[i] \in Nat /\ a[i] <= Len(p) - i
    /\ \A i \in 1 .. Len(p) : a[i - 1] = a[i] + One(p[i])

\* A print with g newer ones in the read-model is still there, unless there are too many.
SameTape(a, p, t) ==
    \A i \in 1 .. Len(p) : p[i].kind = "Trade" /\ a[i] < Len(t) => p[i].print = t[Len(t) - a[i]]

\* How far down the tape of a terminal the print with g newer ones may be, when all that
\* is pending has been forwarded.
Reach(g) == g + 1 + IF g <= FANOUT_CAPACITY + 1 THEN g ELSE FANOUT_CAPACITY + 1

\* A terminal that misses none of the prints but the n last has t, as far as there is room.
HasTape(n, x, t) ==
    \A g \in 0 .. Len(t) - 1 : Reach(g) <= TAPE_DEPTH =>
        g < n \/ \E q \in 1 .. Len(x) : x[q] = t[Len(t) - g] /\ n + q <= Reach(g)

TapeSent == stage \in {"candles", "select"} /\ session.subscribed

TapeInv == ~lagged => \E a : /\ Ages(a, Pending) /\ SameTape(a, Pending, held.tape)
                             /\ (TapeSent => HasTape(a[0], feed.tape, held.tape))

\* An event is one print, or none.
LEMMA OneFacts == \A e : One(e) \in {0, 1}
BY DEF One

\* The prints that come after the others are the same when the first are forwarded or lost.
LEMMA AgesLess ==
    ASSUME NEW a, NEW p, Ages(a, p), NEW r, NEW k, Without(r, p, k), NEW t, SameTape(a, p, t)
    PROVE  \E b : Ages(b, r) /\ SameTape(b, r, t) /\ (k = 0 => b[0] = a[0])
                  /\ (k = 1 => a[0] = b[0] + One(p[1]))
<1> DEFINE b == [i \in 0 .. Len(r) |-> a[i + k]]
<1>1. PICK n \in Nat, m \in Nat : n = Len(p) /\ m = Len(r) /\ k \in 0 .. n /\ m = n - k
    BY DEF Without
<1>2. \A i \in 0 .. m : b[i] = a[i + k] /\ i + k \in 0 .. n
    BY <1>1
<1> HIDE DEF b
<1>3. Ages(b, r)
    <2>1. b[m] = 0
        <3>1. m \in 0 .. m /\ m + k = n
            BY <1>1
        <3> QED BY <1>1, <1>2, <3>1 DEF Ages
    <2>2. ASSUME NEW i \in 0 .. m PROVE b[i] \in Nat /\ b[i] <= m - i
        <3>1. a[i + k] \in Nat /\ a[i + k] <= n - (i + k)
            BY <1>1, <1>2 DEF Ages
        <3> QED BY <1>1, <1>2, <3>1
    <2>3. ASSUME NEW i \in 1 .. m PROVE b[i - 1] = b[i] + One(r[i])
        <3>1. i + k \in 1 .. n /\ i \in 0 .. m /\ i - 1 \in 0 .. m /\ (i - 1) + k = (i + k) - 1
            BY <1>1
        <3>2. a[(i + k) - 1] = a[i + k] + One(p[i + k])
            BY <1>1, <3>1 DEF Ages
        <3>3. r[i] = p[i + k]
            BY <1>1 DEF Without
        <3> QED BY <1>2, <3>1, <3>2, <3>3
    <2> QED BY <1>1, <2>1, <2>2, <2>3 DEF Ages
<1>4. SameTape(b, r, t)
    <2>1. SUFFICES ASSUME NEW i \in 1 .. m, r[i].kind = "Trade", b[i] < Len(t)
                   PROVE  r[i].print = t[Len(t) - b[i]]
        BY <1>1 DEF SameTape
    <2>2. i + k \in 1 .. n /\ i \in 0 .. m /\ r[i] = p[i + k]
        BY <1>1 DEF Without
    <2>3. b[i] = a[i + k]
        BY <1>2, <2>2
    <2> QED BY <1>1, <2>1, <2>2, <2>3 DEF SameTape
<1>5. k = 0 => b[0] = a[0]
    <2>1. SUFFICES ASSUME k = 0 PROVE b[0] = a[0]
        OBVIOUS
    <2>2. 0 \in 0 .. m /\ 0 + k = 0
        BY <1>1, <2>1
    <2> QED BY <1>2, <2>2
<1>6. k = 1 => a[0] = b[0] + One(p[1])
    <2>1. SUFFICES ASSUME k = 1 PROVE a[0] = b[0] + One(p[1])
        OBVIOUS
    <2>2. b[0] = a[1] /\ 1 \in 1 .. n
        BY <1>1, <1>2, <2>1
    <2>3. a[1 - 1] = a[1] + One(p[1])
        BY <1>1, <2>2 DEF Ages
    <2> QED BY <2>2, <2>3
<1> QED BY <1>3, <1>4, <1>5, <1>6

\* Most steps leave the read-model alone, and at most forget what is pending.
LEMMA TapeKept ==
    ASSUME TapeInv, ~lagged' => ~lagged, held' = held,
           ~lagged' => \E k \in 0 .. Len(Pending) :
               Without(Pending', Pending, k) /\ (TapeSent' => TapeSent /\ k = 0 /\ feed'.tape = feed.tape)
    PROVE  TapeInv'
<1>1. SUFFICES ASSUME ~lagged'
               PROVE  \E b : /\ Ages(b, Pending') /\ SameTape(b, Pending', held.tape)
                             /\ (TapeSent' => HasTape(b[0], feed'.tape, held.tape))
    BY DEF TapeInv
<1>2. PICK a : /\ Ages(a, Pending) /\ SameTape(a, Pending, held.tape)
               /\ (TapeSent => HasTape(a[0], feed.tape, held.tape))
    BY <1>1 DEF TapeInv
<1>3. PICK k \in 0 .. Len(Pending) :
          Without(Pending', Pending, k) /\ (TapeSent' => TapeSent /\ k = 0 /\ feed'.tape = feed.tape)
    BY <1>1
<1>4. PICK b : Ages(b, Pending') /\ SameTape(b, Pending', held.tape) /\ (k = 0 => b[0] = a[0])
    BY <1>2, <1>3, AgesLess
<1>5. TapeSent' => HasTape(b[0], feed'.tape, held.tape)
    BY <1>2, <1>3, <1>4
<1> QED BY <1>4, <1>5

\* A sequence with one more.
LEMMA AppendFacts ==
    ASSUME NEW S, NEW s \in Seq(S), NEW e \in S
    PROVE  /\ Append(s, e) \in Seq(S) /\ Len(Append(s, e)) = Len(s) + 1
           /\ Append(s, e)[Len(s) + 1] = e /\ \A i \in 1 .. Len(s) : Append(s, e)[i] = s[i]
OBVIOUS

\* One more event: every print pending has one more after it, if that is a print.
LEMMA AgesMore ==
    ASSUME NEW a, NEW p \in Seq(Event), Ages(a, p), NEW e \in Event
    PROVE  \E b : /\ Ages(b, Append(p, e)) /\ b[Len(p) + 1] = 0
                  /\ \A i \in 0 .. Len(p) : b[i] = a[i] + One(e)
<1>1. PICK n \in Nat : n = Len(p)
    OBVIOUS
<1> DEFINE b == [i \in 0 .. n + 1 |-> IF i <= n THEN a[i] + One(e) ELSE 0]
<1>2. PICK r : r = Append(p, e) /\ Len(r) = n + 1 /\ r[n + 1] = e /\ \A i \in 1 .. n : r[i] = p[i]
    <2>1. /\ Len(Append(p, e)) = Len(p) + 1 /\ Append(p, e)[Len(p) + 1] = e
          /\ \A i \in 1 .. Len(p) : Append(p, e)[i] = p[i]
        BY AppendFacts
    <2>2. PICK r : r = Append(p, e)
        OBVIOUS
    <2> QED BY ONLY <1>1, <2>1, <2>2
<1>3. PICK o \in {0, 1} : o = One(e)
    BY OneFacts
<1>4. b[n + 1] = 0 /\ \A i \in 0 .. n : b[i] = a[i] + o
    BY <1>1, <1>3
<1> HIDE DEF b
<1>5. \A i \in 0 .. n : a[i] \in Nat /\ a[i] <= n - i
    BY <1>1 DEF Ages
<1>6. ASSUME NEW i \in 0 .. n + 1 PROVE b[i] \in Nat /\ b[i] <= (n + 1) - i
    <2>1. CASE i = n + 1
        BY <1>4, <2>1
    <2>2. CASE i # n + 1
        <3>1. i \in 0 .. n
            BY <2>2
        <3> QED BY SMTT(20), <1>3, <1>4, <1>5, <3>1
    <2> QED BY <2>1, <2>2
<1>7. ASSUME NEW i \in 1 .. n + 1 PROVE b[i - 1] = b[i] + One(r[i])
    <2>1. CASE i = n + 1
        <3>1. i - 1 = n /\ n \in 0 .. n /\ a[n] = 0 /\ r[i] = e
            BY <1>1, <1>2, <2>1 DEF Ages
        <3> QED BY <1>3, <1>4, <2>1, <3>1
    <2>2. CASE i # n + 1
        <3>1. i \in 1 .. n /\ i \in 0 .. n /\ i - 1 \in 0 .. n
            BY <2>2
        <3>2. a[i - 1] = a[i] + One(p[i]) /\ r[i] = p[i]
            BY <1>1, <1>2, <3>1 DEF Ages
        <3>3. One(p[i]) \in {0, 1}
            BY OneFacts
        <3> QED BY <1>3, <1>4, <1>5, <3>1, <3>2, <3>3
    <2> QED BY <2>1, <2>2
<1>8. Ages(b, r)
    BY <1>2, <1>4, <1>6, <1>7 DEF Ages
<1> QED BY <1>1, <1>2, <1>3, <1>4, <1>8

\* r is t with another print, and maybe without its oldest.
GrownTape(r, t, print) ==
    /\ r \in Seq(PublicTrade) /\ Len(r) >= 1 /\ Len(r) <= Len(t) + 1 /\ r[Len(r)] = print
    /\ \A j \in 1 .. Len(r) - 1 : r[Len(r) - j] = t[Len(t) + 1 - j]

\* The read-model adds a print to its tape, whose oldest may go.
LEMMA NewerPrint ==
    ASSUME NEW t \in Seq(PublicTrade), NEW print \in PublicTrade, NEW r,
           r = Keep(Append(t, print), TAPE_HISTORY)
    PROVE  GrownTape(r, t, print)
<1>1. PICK n \in Nat : n = Len(t)
    OBVIOUS
<1>2. PICK u : u = Append(t, print)
    OBVIOUS
<1>3. /\ u \in Seq(PublicTrade) /\ Len(u) = n + 1 /\ u[n + 1] = print
      /\ \A i \in 1 .. n : u[i] = t[i]
    <2>1. /\ Append(t, print) \in Seq(PublicTrade) /\ Len(Append(t, print)) = Len(t) + 1
          /\ Append(t, print)[Len(t) + 1] = print
          /\ \A i \in 1 .. Len(t) : Append(t, print)[i] = t[i]
        BY AppendFacts
    <2> QED BY ONLY <1>1, <1>2, <2>1
<1>4. /\ r \in Seq(PublicTrade) /\ Len(r) = IF Len(u) <= TAPE_HISTORY THEN Len(u) ELSE TAPE_HISTORY
      /\ \A j \in 0 .. Len(r) - 1 : r[Len(r) - j] = u[Len(u) - j]
    BY ONLY <1>2, <1>3, KeepFacts, r = Keep(Append(t, print), TAPE_HISTORY), Depths
<1>5. PICK m \in Nat : m = Len(r) /\ m >= 1 /\ m <= n + 1
    BY <1>3, <1>4, Depths
<1>6. r[m] = print
    <2>1. 0 \in 0 .. m - 1 /\ m - 0 = m /\ (n + 1) - 0 = n + 1
        BY <1>5
    <2> QED BY <1>3, <1>4, <1>5, <2>1
<1>7. ASSUME NEW j \in 1 .. m - 1 PROVE r[m - j] = t[n + 1 - j]
    <2>1. j \in 0 .. m - 1 /\ n + 1 - j \in 1 .. n
        BY <1>5
    <2> QED BY <1>3, <1>4, <1>5, <2>1
<1> QED BY <1>1, <1>4, <1>5, <1>6, <1>7 DEF GrownTape

\* A print folded is the newest on the read-model's tape and the last one pending.
LEMMA SameTapeMore ==
    ASSUME NEW a, NEW p \in Seq(Event), Ages(a, p), NEW t \in Seq(PublicTrade), SameTape(a, p, t),
           NEW e \in Event, e.kind = "Trade", NEW r, GrownTape(r, t, e.print),
           NEW b, b[Len(p) + 1] = 0, \A i \in 0 .. Len(p) : b[i] = a[i] + One(e)
    PROVE  SameTape(b, Append(p, e), r)
<1>1. PICK n \in Nat, l \in Nat, m \in Nat : n = Len(p) /\ l = Len(t) /\ m = Len(r)
    BY DEF GrownTape
<1>2. PICK u : u = Append(p, e)
    OBVIOUS
<1>3. Len(u) = n + 1 /\ u[n + 1] = e /\ \A i \in 1 .. n : u[i] = p[i]
    <2>1. /\ Len(Append(p, e)) = Len(p) + 1 /\ Append(p, e)[Len(p) + 1] = e
          /\ \A i \in 1 .. Len(p) : Append(p, e)[i] = p[i]
        BY AppendFacts
    <2> QED BY ONLY <1>1, <1>2, <2>1
<1>4. SUFFICES ASSUME NEW i \in 1 .. n + 1, u[i].kind = "Trade", b[i] < m
               PROVE  u[i].print = r[m - b[i]]
    BY <1>1, <1>2, <1>3 DEF SameTape
<1>5. CASE i = n + 1
    BY <1>1, <1>3, <1>5 DEF GrownTape
<1>6. CASE i # n + 1
    <2>1. i \in 1 .. n /\ i \in 0 .. n /\ u[i] = p[i]
        BY <1>3, <1>6
    <2>2. One(e) = 1
        BY DEF One
    <2>3. b[i] = a[i] + 1 /\ a[i] \in Nat
        BY <1>1, <2>1, <2>2 DEF Ages
    <2>4. m <= l + 1
        BY <1>1 DEF GrownTape
    <2>5. b[i] \in 1 .. m - 1 /\ a[i] < l /\ l + 1 - b[i] = l - a[i]
        <3>1. PICK k \in Nat : k = a[i] /\ b[i] = k + 1 /\ k + 1 < m
            BY <1>4, <2>3
        <3>2. k + 1 \in 1 .. m - 1 /\ k < l /\ l + 1 - (k + 1) = l - k
            BY ONLY SMTT(20), <2>4, <3>1, m \in Nat, l \in Nat, k \in Nat
        <3> QED BY <3>1, <3>2
    <2>6. p[i].print = t[l - a[i]]
        BY <1>1, <1>4, <2>1, <2>5 DEF SameTape
    <2>7. r[m - b[i]] = t[l + 1 - b[i]]
        BY <1>1, <2>5 DEF GrownTape
    <2> QED BY <2>1, <2>5, <2>6, <2>7
<1> QED BY <1>5, <1>6

\* A bar folded leaves the prints pending where they are on the tape.
LEMMA SameTapeOther ==
    ASSUME NEW a, NEW p \in Seq(Event), Ages(a, p), NEW t, SameTape(a, p, t),
           NEW e \in Event, e.kind = "Candle",
           NEW b, b[Len(p) + 1] = 0, \A i \in 0 .. Len(p) : b[i] = a[i] + One(e)
    PROVE  SameTape(b, Append(p, e), t)
<1>1. PICK n \in Nat : n = Len(p)
    OBVIOUS
<1>2. PICK u : u = Append(p, e)
    OBVIOUS
<1>3. Len(u) = n + 1 /\ u[n + 1] = e /\ \A i \in 1 .. n : u[i] = p[i]
    <2>1. /\ Len(Append(p, e)) = Len(p) + 1 /\ Append(p, e)[Len(p) + 1] = e
          /\ \A i \in 1 .. Len(p) : Append(p, e)[i] = p[i]
        BY AppendFacts
    <2> QED BY ONLY <1>1, <1>2, <2>1
<1>4. SUFFICES ASSUME NEW i \in 1 .. n + 1, u[i].kind = "Trade", b[i] < Len(t)
               PROVE  u[i].print = t[Len(t) - b[i]]
    BY <1>1, <1>2, <1>3 DEF SameTape
<1>5. i \in 1 .. n /\ i \in 0 .. n /\ u[i] = p[i]
    BY <1>3, <1>4
<1>6. One(e) = 0
    BY DEF One
<1>7. b[i] = a[i] + 0 /\ a[i] \in Nat
    BY <1>1, <1>5, <1>6 DEF Ages
<1>8. b[i] = a[i]
    BY <1>7
<1> QED BY <1>1, <1>4, <1>5, <1>8 DEF SameTape

\* How the reach of a print grows with its age.
LEMMA ReachFacts ==
    /\ \A g \in Nat : Reach(g) \in Nat /\ Reach(g) >= g + 1 /\ Reach(g) + 1 <= Reach(g + 1)
                      /\ Reach(g) <= 2 * g + 1 /\ Reach(g) <= g + 2 + FANOUT_CAPACITY
    /\ \A g, n \in Nat : n <= g /\ n <= FANOUT_CAPACITY + 1 => n + g + 1 <= Reach(g)
BY Depths DEF Reach

\* One more print on the read-model's tape is one more that the terminal misses.
LEMMA HasTapeMore ==
    ASSUME NEW n \in Nat, NEW x \in Seq(PublicTrade), NEW t \in Seq(PublicTrade), HasTape(n, x, t),
           NEW print, NEW r, GrownTape(r, t, print)
    PROVE  HasTape(n + 1, x, r)
<1>1. PICK l \in Nat, m \in Nat : l = Len(t) /\ m = Len(r) /\ m <= l + 1
    BY SMTT(20) DEF GrownTape
<1>2. SUFFICES ASSUME NEW g \in 0 .. m - 1, Reach(g) <= TAPE_DEPTH, ~(g < n + 1)
               PROVE  \E q \in 1 .. Len(x) : x[q] = r[m - g] /\ (n + 1) + q <= Reach(g)
    BY <1>1 DEF HasTape
<1>3. PICK h \in Nat : h = g - 1 /\ h \in 0 .. l - 1 /\ g = h + 1 /\ ~(h < n)
    BY <1>1, <1>2
<1>4. Reach(h) + 1 <= Reach(g) /\ Reach(h) \in Nat /\ Reach(g) \in Nat
    <2>1. Reach(h) + 1 <= Reach(h + 1) /\ Reach(h) \in Nat
        BY ReachFacts
    <2>2. h + 1 \in Nat
        OBVIOUS
    <2>3. Reach(h + 1) \in Nat
        BY ONLY <2>2, ReachFacts
    <2> QED BY <1>3, <2>1, <2>3
<1>5. Reach(h) <= TAPE_DEPTH
    BY <1>2, <1>4, Depths
<1>6. PICK q \in 1 .. Len(x) : x[q] = t[l - h] /\ n + q <= Reach(h)
    BY <1>1, <1>3, <1>5 DEF HasTape
<1>7. r[m - g] = t[l - h]
    <2>1. g \in 1 .. m - 1 /\ l + 1 - g = l - h
        BY <1>1, <1>3
    <2> QED BY <1>1, <2>1 DEF GrownTape
<1>8. (n + 1) + q <= Reach(g)
    BY <1>4, <1>6
<1> QED BY <1>6, <1>7, <1>8

\* The read-model folds an event, and the tape is followed.
LEMMA PumpFoldsTape ==
    ASSUME Charted, TapeInv, PumpFolds
    PROVE  TapeInv'
<1>1. PICK e \in Event : /\ Pending' = Append(Pending, e) /\ held' = Kept(held, e)
                         /\ UNCHANGED <<stage, session, feed, lagged>>
    BY FoldedPending
<1>2. SUFFICES ASSUME ~lagged
               PROVE  \E b : /\ Ages(b, Pending') /\ SameTape(b, Pending', held'.tape)
                             /\ (TapeSent => HasTape(b[0], feed.tape, held'.tape))
    BY <1>1 DEF TapeInv, TapeSent
<1>3. PICK a : /\ Ages(a, Pending) /\ SameTape(a, Pending, held.tape)
               /\ (TapeSent => HasTape(a[0], feed.tape, held.tape))
    BY <1>2 DEF TapeInv
<1>4. Pending \in Seq(Event) /\ Len(Pending) \in Nat
    BY PendingFacts
<1>5. PICK b : /\ Ages(b, Append(Pending, e)) /\ b[Len(Pending) + 1] = 0
               /\ \A i \in 0 .. Len(Pending) : b[i] = a[i] + One(e)
    BY <1>3, <1>4, AgesMore
<1>6. held \in [bars : Seq(Bar), tape : Seq(PublicTrade)] /\ feed.tape \in Seq(PublicTrade)
    BY SameFeedCharted DEF ChartingTypeOK, FeedState
<1>7. a[0] \in Nat /\ b[0] = a[0] + One(e)
    <2>1. 0 \in 0 .. Len(Pending)
        BY <1>4
    <2> QED BY <1>3, <1>5, <2>1 DEF Ages
<1>8. CASE e.kind = "Trade"
    <2>1. e.print \in PublicTrade
        BY <1>8, EventKinds
    <2>2. PICK r : r = Keep(Append(held.tape, e.print), TAPE_HISTORY)
        OBVIOUS
    <2>3. held' = [held EXCEPT !.tape = r]
        BY <1>1, <1>8, <2>2 DEF Kept
    <2>4. held'.tape = r
        BY <1>6, <2>3
    <2>5. GrownTape(r, held.tape, e.print)
        BY <1>6, <2>1, <2>2, NewerPrint
    <2>6. SameTape(b, Append(Pending, e), r)
        BY <1>3, <1>4, <1>5, <1>6, <1>8, <2>5, SameTapeMore
    <2>7. b[0] = a[0] + 1
        BY <1>7, <1>8 DEF One
    <2>8. TapeSent => HasTape(b[0], feed.tape, r)
        BY <1>3, <1>6, <1>7, <2>5, <2>7, HasTapeMore
    <2> QED BY <1>1, <1>5, <2>4, <2>6, <2>8
<1>9. CASE e.kind = "Candle"
    <2>1. held'.tape = held.tape
        BY <1>1, <1>6, <1>9 DEF Kept
    <2>2. SameTape(b, Append(Pending, e), held.tape)
        BY <1>3, <1>4, <1>5, <1>9, SameTapeOther
    <2>3. b[0] = a[0]
        BY <1>7, <1>9 DEF One
    <2> QED BY <1>1, <1>3, <1>5, <2>1, <2>2, <2>3
<1> QED BY <1>8, <1>9, EventKinds

\* A print that is forwarded is one less to come.
LEMMA ForwardedTape ==
    ASSUME NEW n \in Nat, NEW f, FeedOK(f), NEW t \in Seq(PublicTrade), HasTape(n + 1, f.tape, t),
           NEW e \in Event, e.kind = "Trade", n < Len(t) => e.print = t[Len(t) - n]
    PROVE  HasTape(n, Applied(f, e).tape, t)
<1>1. PICK x : x = Applied(f, e).tape
    OBVIOUS
<1>2. f.tape \in Seq(PublicTrade)
    BY DEF FeedOK, FeedState
<1>3. PICK k \in Nat, m \in Nat : k = Len(f.tape) /\ m = IF k + 1 <= TAPE_DEPTH THEN k + 1 ELSE TAPE_DEPTH
    <2>1. Len(f.tape) \in Nat
        BY <1>2
    <2> QED BY <2>1, Depths
<1>4. Len(x) = m /\ x[1] = e.print /\ \A q \in 2 .. m : x[q] = f.tape[q - 1]
    BY <1>1, <1>3, AppliedTrade
<1>5. m >= 1
    BY <1>3, Depths
<1>6. PICK l \in Nat : l = Len(t)
    OBVIOUS
<1>7. SUFFICES ASSUME NEW g \in 0 .. l - 1, Reach(g) <= TAPE_DEPTH, ~(g < n)
               PROVE  \E q \in 1 .. m : x[q] = t[l - g] /\ n + q <= Reach(g)
    BY <1>1, <1>4, <1>6 DEF HasTape
<1>8. g \in Nat
    OBVIOUS
<1>9. Reach(g) \in Nat /\ Reach(g) >= g + 1
    BY <1>8, ReachFacts
<1>10. CASE g = n
    <2>1. e.print = t[l - n]
        BY <1>6, <1>7, <1>10
    <2>2. 1 \in 1 .. m /\ n + 1 <= Reach(g)
        BY <1>5, <1>9, <1>10
    <2> QED BY <1>4, <1>10, <2>1, <2>2
<1>11. CASE g # n
    <2>1. ~(g < n + 1)
        BY <1>7, <1>11
    <2>2. PICK q \in 1 .. k : f.tape[q] = t[l - g] /\ (n + 1) + q <= Reach(g)
        BY <1>3, <1>6, <1>7, <2>1 DEF HasTape
    <2>3. q + 1 \in 2 .. m /\ q + 1 \in 1 .. m /\ (q + 1) - 1 = q /\ n + (q + 1) <= Reach(g)
        BY <1>3, <1>7, <1>9, <2>2, Depths
    <2> QED BY <1>4, <2>2, <2>3
<1> QED BY <1>10, <1>11

\* The session forwards an event, and the tape is followed.
LEMMA ForwardTape ==
    ASSUME Charted, TapeInv, Forward
    PROVE  TapeInv'
<1>1. UNCHANGED <<held, inHand, stage, session, lagged>>
    BY DEF Forward, coreVars
<1>2. CASE missed \/ ~session.subscribed
    <2>1. CASE missed
        <3>1. UNCHANGED <<queue, feed>>
            BY <2>1 DEF Forward
        <3>2. Without(Pending', Pending, 0)
            BY <1>1, <3>1, SamePending
        <3>3. 0 \in 0 .. Len(Pending)
            BY <3>2 DEF Without
        <3>4. TapeSent' = TapeSent
            BY <1>1 DEF TapeSent
        <3> QED BY <1>1, <3>1, <3>2, <3>3, <3>4, TapeKept
    <2>2. CASE ~missed
        <3>1. queue # <<>> /\ queue' = Tail(queue)
            BY <2>2 DEF Forward
        <3>2. Without(Pending', Pending, 1)
            BY <1>1, <3>1, ForwardedPending
        <3>3. 1 \in 0 .. Len(Pending)
            BY <3>2 DEF Without
        <3>4. ~TapeSent'
            BY <1>1, <1>2, <2>2 DEF TapeSent
        <3> QED BY <1>1, <3>2, <3>3, <3>4, TapeKept
    <2> QED BY <2>1, <2>2
<1>3. CASE ~missed /\ session.subscribed
    <2>1. queue # <<>> /\ queue' = Tail(queue) /\ feed' = Applied(feed, Head(queue)) /\ TapeSent
        BY <1>3 DEF Forward, TapeSent
    <2>2. Without(Pending', Pending, 1) /\ Pending[1] = Head(queue) /\ Len(Pending) >= 1
        BY <1>1, <2>1, ForwardedPending
    <2>3. PICK e \in Event : e = Pending[1]
        BY <2>2, PendingFacts
    <2>4. SUFFICES ASSUME ~lagged
                   PROVE  \E b : /\ Ages(b, Pending') /\ SameTape(b, Pending', held.tape)
                                 /\ HasTape(b[0], feed'.tape, held.tape)
        BY <1>1 DEF TapeInv
    <2>5. PICK a : /\ Ages(a, Pending) /\ SameTape(a, Pending, held.tape)
                   /\ HasTape(a[0], feed.tape, held.tape)
        BY <2>1, <2>4 DEF TapeInv
    <2>6. PICK b : Ages(b, Pending') /\ SameTape(b, Pending', held.tape) /\ a[0] = b[0] + One(Pending[1])
        BY <2>2, <2>5, AgesLess
    <2>7. b[0] \in Nat
        <3>1. 0 \in 0 .. Len(Pending')
            BY <2>2 DEF Without
        <3> QED BY <2>6, <3>1 DEF Ages
    <2>8. FeedOK(feed) /\ held.tape \in Seq(PublicTrade)
        BY SameFeedCharted DEF ChartingTypeOK
    <2>9. CASE e.kind = "Trade"
        <3>1. a[0] = b[0] + 1
            BY <2>3, <2>6, <2>9 DEF One
        <3>2. b[0] < Len(held.tape) => e.print = held.tape[Len(held.tape) - b[0]]
            <4>1. a[1 - 1] = a[1] + One(Pending[1]) /\ a[1] \in Nat /\ 1 \in 1 .. Len(Pending)
                <5>1. 1 \in 1 .. Len(Pending) /\ 1 \in 0 .. Len(Pending)
                    BY <2>2, PendingFacts
                <5> QED BY <2>5, <5>1 DEF Ages
            <4>2. a[1] = b[0]
                BY <2>3, <2>7, <2>9, <3>1, <4>1 DEF One
            <4> QED BY <2>3, <2>5, <2>9, <4>1, <4>2 DEF SameTape
        <3>3. HasTape(b[0], Applied(feed, e).tape, held.tape)
            BY <2>5, <2>7, <2>8, <2>9, <3>1, <3>2, ForwardedTape
        <3> QED BY <2>1, <2>2, <2>3, <2>6, <3>3
    <2>10. CASE e.kind = "Candle"
        <3>1. a[0] = b[0]
            BY <2>3, <2>6, <2>7, <2>10 DEF One
        <3>2. feed'.tape = feed.tape
            BY <2>1, <2>2, <2>3, <2>8, <2>10, AppliedCandle
        <3> QED BY <2>5, <2>6, <3>1, <3>2
    <2> QED BY <2>9, <2>10, EventKinds
<1> QED BY <1>2, <1>3

\* The tape is handed over oldest first, and so it lies newest first in front of what was there.
LEMMA CourseOfTape ==
    ASSUME NEW f, FeedOK(f), NEW t \in Seq(PublicTrade), NEW s \in Seq(Event), Len(s) = Len(t),
           \A i \in 1 .. Len(t) : s[i] \in Event /\ s[i].kind = "Trade" /\ s[i].print = t[i],
           NEW y, Course(y, f, s)
    PROVE  \A i \in 0 .. Len(t) : \A q \in 1 .. i : q <= TAPE_DEPTH =>
               q <= Len(y[i].tape) /\ y[i].tape[q] = t[i + 1 - q]
<1>0. PICK n \in Nat : n = Len(t)
    OBVIOUS
<1> DEFINE P(i) == \A q \in 1 .. i : q <= TAPE_DEPTH => q <= Len(y[i].tape) /\ y[i].tape[q] = t[i + 1 - q]
           T    == {i \in 0 .. n : ~P(i)}
<1>1. SUFFICES ASSUME T # {} PROVE FALSE
    BY <1>0
<1>2. PICK m \in T : \A k \in T : m <= k
    <2>1. T \subseteq Nat
        OBVIOUS
    <2> HIDE DEF T
    <2> QED BY <1>1, <2>1, LeastNat
<1>3. m # 0
    BY <1>2
<1>4. m \in 1 .. n /\ m - 1 \in 0 .. n /\ m - 1 \notin T
    BY <1>2, <1>3
<1>5. PICK g : g = y[m - 1] /\ y[m] = Applied(g, s[m]) /\ s[m] \in Event /\ s[m].kind = "Trade"
               /\ s[m].print = t[m]
    BY <1>0, <1>4 DEF Course
<1>6. FeedOK(g)
    BY <1>0, <1>4, <1>5, CourseOK
<1>7. PICK k \in Nat : k = Len(g.tape)
    BY <1>6 DEF FeedOK, FeedState
<1>8. PICK x : /\ x = y[m].tape /\ x[1] = t[m]
               /\ Len(x) = IF k + 1 <= TAPE_DEPTH THEN k + 1 ELSE TAPE_DEPTH
               /\ \A q \in 2 .. Len(x) : x[q] = g.tape[q - 1]
    <2>1. PICK e \in Event : e = s[m] /\ e.kind = "Trade" /\ e.print = t[m] /\ y[m] = Applied(g, e)
        BY <1>5
    <2>2. /\ Applied(g, e).tape[1] = e.print
          /\ Len(Applied(g, e).tape) = IF Len(g.tape) + 1 <= TAPE_DEPTH THEN Len(g.tape) + 1 ELSE TAPE_DEPTH
          /\ \A q \in 2 .. Len(Applied(g, e).tape) : Applied(g, e).tape[q] = g.tape[q - 1]
        BY ONLY <1>6, <2>1, AppliedTrade
    <2>3. PICK x : x = y[m].tape
        OBVIOUS
    <2> QED BY ONLY <1>7, <2>1, <2>2, <2>3
<1>9. ASSUME NEW q \in 1 .. m, q <= TAPE_DEPTH PROVE q <= Len(x) /\ x[q] = t[m + 1 - q]
    <2>1. CASE q = 1
        <3>1. 1 <= Len(x) /\ m + 1 - 1 = m
            BY <1>4, <1>7, <1>8, Depths
        <3> QED BY <1>8, <2>1, <3>1
    <2>2. CASE q # 1
        <3>1. q - 1 \in 1 .. m - 1 /\ q - 1 <= TAPE_DEPTH
            BY <1>4, <1>9, <2>2, Depths
        <3>2. P(m - 1)
            BY <1>4
        <3>3. q - 1 <= k /\ g.tape[q - 1] = t[(m - 1) + 1 - (q - 1)]
            BY <1>5, <1>7, <3>1, <3>2
        <3>4. (m - 1) + 1 - (q - 1) = m + 1 - q
            BY <1>4
        <3>5. q <= Len(x) /\ q \in 2 .. Len(x)
            BY <1>7, <1>8, <1>9, <2>2, <3>3, Depths
        <3> QED BY <1>8, <3>3, <3>4, <3>5
    <2> QED BY <2>1, <2>2
<1>10. P(m)
    BY <1>8, <1>9
<1> QED BY <1>2, <1>10

\* The session hands the tape over, with prints of it pending still, and it is followed from
\* then on: those come twice, and push out no more than Reach allows for.
LEMMA HandTapeTape ==
    ASSUME Charted, TapeInv, HandTape
    PROVE  TapeInv'
<1>1. UNCHANGED <<held, inHand, queue, session, lagged>> /\ stage' = "candles"
    BY DEF HandTape, coreVars
<1>2. Without(Pending', Pending, 0) /\ Pending' = Pending
    BY <1>1, SamePending
<1>3. CASE ~session.subscribed
    <2>1. 0 \in 0 .. Len(Pending)
        BY <1>2 DEF Without
    <2>2. ~TapeSent'
        BY <1>1, <1>3 DEF TapeSent
    <2> QED BY <1>1, <1>2, <2>1, <2>2, TapeKept
<1>4. CASE session.subscribed
    <2>1. feed' = AppliedAll(feed, Column(held.tape, Trade))
        BY <1>4 DEF HandTape
    <2>2. SUFFICES ASSUME ~lagged
                   PROVE  \E b : /\ Ages(b, Pending) /\ SameTape(b, Pending, held.tape)
                                 /\ HasTape(b[0], feed'.tape, held.tape)
        BY <1>1, <1>2 DEF TapeInv
    <2>3. PICK a : Ages(a, Pending) /\ SameTape(a, Pending, held.tape)
        BY <2>2 DEF TapeInv
    <2>4. PICK n \in Nat : n = a[0] /\ n <= FANOUT_CAPACITY + 1
        <3>1. Len(Pending) \in Nat /\ Len(Pending) <= FANOUT_CAPACITY + 1
            BY PendingFacts
        <3>2. a[0] \in Nat /\ a[0] <= Len(Pending) - 0
            BY <2>3, <3>1 DEF Ages
        <3> QED BY <3>1, <3>2, Depths
    <2>5. FeedOK(feed) /\ held.tape \in Seq(PublicTrade)
        BY SameFeedCharted DEF ChartingTypeOK
    <2>6. PICK s : s = Column(held.tape, Trade)
        OBVIOUS
    <2>7. /\ s \in Seq(Event) /\ Len(s) = Len(held.tape)
          /\ \A i \in 1 .. Len(held.tape) : s[i] \in Event /\ s[i].kind = "Trade" /\ s[i].print = held.tape[i]
        <3>1. held \in [bars : Seq(Bar), tape : Seq(PublicTrade)]
            BY SameFeedCharted DEF ChartingTypeOK
        <3>2. /\ s \in Seq(Event) /\ Len(s) = Len(held.tape)
              /\ \A i \in 1 .. Len(held.tape) : s[i].kind = "Trade" /\ s[i].print = held.tape[i]
            BY ONLY <2>6, <3>1, HandedEvents
        <3> QED BY <3>2
    <2>8. PICK y : Course(y, feed, s) /\ feed' = y[Len(s)]
        BY <2>1, <2>6, <2>7, AppliedInOrder
    <2>9. PICK l \in Nat : l = Len(held.tape)
        BY <2>5
    <2>10. \A q \in 1 .. l : q <= TAPE_DEPTH =>
               q <= Len(feed'.tape) /\ feed'.tape[q] = held.tape[l + 1 - q]
        <3>1. l \in 0 .. l
            OBVIOUS
        <3>2. \A i \in 0 .. Len(held.tape) : \A q \in 1 .. i : q <= TAPE_DEPTH =>
                  q <= Len(y[i].tape) /\ y[i].tape[q] = held.tape[i + 1 - q]
            <4>1. PICK t \in Seq(PublicTrade) : t = held.tape
                BY <2>5
            <4>2. Len(s) = Len(t) /\ \A i \in 1 .. Len(t) : /\ s[i] \in Event /\ s[i].kind = "Trade"
                                                           /\ s[i].print = t[i]
                BY <2>7, <4>1
            <4>3. \A i \in 0 .. Len(t) : \A q \in 1 .. i : q <= TAPE_DEPTH =>
                      q <= Len(y[i].tape) /\ y[i].tape[q] = t[i + 1 - q]
                <5>1. FeedOK(feed) /\ s \in Seq(Event) /\ Course(y, feed, s)
                    BY <2>5, <2>7, <2>8
                <5> QED BY ONLY SMTT(20), t \in Seq(PublicTrade), <4>2, <5>1, CourseOfTape
            <4> QED BY <4>1, <4>3
        <3> QED BY <2>7, <2>8, <2>9, <3>1, <3>2
    <2>11. HasTape(n, feed'.tape, held.tape)
        <3>1. SUFFICES ASSUME NEW g \in 0 .. l - 1, Reach(g) <= TAPE_DEPTH, ~(g < n)
                       PROVE  \E q \in 1 .. Len(feed'.tape) :
                                  feed'.tape[q] = held.tape[l - g] /\ n + q <= Reach(g)
            BY <2>9 DEF HasTape
        <3>2. g \in Nat
            OBVIOUS
        <3>3. Reach(g) \in Nat /\ Reach(g) >= g + 1 /\ n + g + 1 <= Reach(g)
            <4>1. Reach(g) \in Nat /\ Reach(g) >= g + 1
                BY ONLY <3>2, ReachFacts
            <4>2. n <= g
                BY <3>1, <3>2
            <4>3. n + g + 1 <= Reach(g)
                BY ONLY <2>4, <3>2, <4>2, n \in Nat, ReachFacts
            <4> QED BY <4>1, <4>3
        <3>4. g + 1 \in 1 .. l /\ g + 1 <= TAPE_DEPTH /\ l + 1 - (g + 1) = l - g
            BY <3>1, <3>3, Depths
        <3>5. g + 1 <= Len(feed'.tape) /\ feed'.tape[g + 1] = held.tape[l - g]
            BY <2>10, <3>4
        <3>6. feed'.tape \in Seq(PublicTrade)
            BY <2>1, TapeHanded DEF FeedOK, FeedState
        <3>7. g + 1 \in 1 .. Len(feed'.tape)
            BY <3>4, <3>5, <3>6
        <3>8. n + (g + 1) <= Reach(g)
            BY <3>3
        <3> QED BY <3>5, <3>7, <3>8
    <2> QED BY <2>3, <2>4, <2>11
<1> QED BY <1>3, <1>4

\* The other steps: what is pending is the same, or goes with a session.
LEMMA QuietSteps ==
    ASSUME Charted,
           \/ \E at \in Times : VenuePrints(at)
           \/ \E i \in DOMAIN fed : VenueReplays(i)
           \/ FeedConnects \/ Ping \/ HandCandles \/ FeedDisconnects \/ SessionHandles
    PROVE  /\ held' = held /\ lagged' = lagged
           /\ \E k \in 0 .. Len(Pending) : Without(Pending', Pending, k)
                  /\ (TapeSent' => TapeSent /\ k = 0 /\ (feed' = feed \/ HandCandles))
<1>1. Len(Pending) \in Nat /\ Len(queue) \in Nat /\ 0 \in 0 .. Len(Pending)
      /\ Len(queue) \in 0 .. Len(Pending)
    <2>1. Len(Pending) \in Nat /\ Len(queue) \in Nat /\ Len(Pending) >= Len(queue)
        BY PendingFacts, SameFeedCharted
    <2> QED BY <2>1
<1>2. CASE \/ \E at \in Times : VenuePrints(at)
           \/ \E i \in DOMAIN fed : VenueReplays(i)
           \/ Ping
    <2>1. UNCHANGED <<held, queue, inHand, stage, session, lagged, feed>>
        BY <1>2 DEF VenuePrints, VenueReplays, Ping, OnPrint, sessionVars, coreVars
    <2>2. Without(Pending', Pending, 0)
        BY <2>1, SamePending
    <2>3. TapeSent' = TapeSent
        BY <2>1 DEF TapeSent
    <2> QED BY <1>1, <2>1, <2>2, <2>3
<1>3. CASE FeedConnects
    <2>1. UNCHANGED <<held, queue, inHand, session, lagged>> /\ stage = "none"
        BY <1>3 DEF FeedConnects, coreVars
    <2>2. Without(Pending', Pending, 0)
        BY <2>1, SamePending
    <2>3. ~session.subscribed
        BY <2>1, SameFeedCharted DEF NoSession
    <2>4. ~TapeSent'
        BY <2>1, <2>3 DEF TapeSent
    <2> QED BY <1>1, <2>1, <2>2, <2>4
<1>4. CASE HandCandles
    <2>1. UNCHANGED <<held, queue, inHand, session, lagged>> /\ stage = "candles" /\ stage' = "select"
        BY <1>4 DEF HandCandles, coreVars
    <2>2. Without(Pending', Pending, 0)
        BY <2>1, SamePending
    <2>3. TapeSent' = TapeSent
        BY <2>1 DEF TapeSent
    <2> QED BY <1>1, <1>4, <2>1, <2>2, <2>3
<1>5. CASE FeedDisconnects
    <2>1. UNCHANGED <<held, inHand, lagged>> /\ queue' = <<>> /\ stage' = "none"
        BY <1>5, GoneFacts DEF FeedDisconnects, Gone, coreVars
    <2>2. Without(Pending', Pending, Len(queue))
        BY <2>1, GonePending
    <2>3. ~TapeSent'
        BY <2>1 DEF TapeSent
    <2> QED BY <1>1, <2>1, <2>2, <2>3
<1>6. CASE SessionHandles
    <2>1. UNCHANGED <<held, inHand>>
        BY <1>6 DEF SessionHandles, coreVars
    <2>2. PICK msg : msg = Head(toCore)
        OBVIOUS
    <2>3. CASE msg = "Hello" /\ ~goodToken
        <3>1. Gone
            BY <1>6, <2>2, <2>3 DEF SessionHandles
        <3>2. lagged' = lagged /\ queue' = <<>> /\ stage' = "none"
            BY <3>1 DEF Gone
        <3>3. Without(Pending', Pending, Len(queue))
            BY <2>1, <3>2, GonePending
        <3>4. ~TapeSent'
            BY <3>2 DEF TapeSent
        <3> QED BY <1>1, <2>1, <3>2, <3>3, <3>4
    <2>4. CASE ~(msg = "Hello" /\ ~goodToken)
        <3>1. UNCHANGED <<queue, lagged>> /\ stage' = "tape"
            <4>1. CASE msg = "Hello" /\ goodToken
                BY <1>6, <2>2, <4>1 DEF SessionHandles
            <4>2. CASE msg # "Hello"
                BY <1>6, <2>2, <4>2 DEF SessionHandles
            <4> QED BY <2>4, <4>1, <4>2
        <3>2. Without(Pending', Pending, 0)
            BY <2>1, <3>1, SamePending
        <3>3. ~TapeSent'
            BY <3>1 DEF TapeSent
        <3> QED BY <1>1, <2>1, <3>1, <3>2, <3>3
    <2> QED BY <2>3, <2>4
<1> QED BY <1>2, <1>3, <1>4, <1>5, <1>6

\* The pump sends an event, and the tape is followed.
LEMMA PumpSendsTape ==
    ASSUME Charted, TapeInv, PumpSends
    PROVE  TapeInv'
<1>1. UNCHANGED <<held, stage, session, feed>>
    BY DEF PumpSends
<1>2. ~lagged' => ~lagged
    <2>1. CASE stage = "none"
        BY <2>1 DEF PumpSends
    <2>2. CASE stage # "none"
        BY <2>2 DEF PumpSends
    <2> QED BY <2>1, <2>2
<1>3. ~lagged' => \E k \in 0 .. Len(Pending) :
          Without(Pending', Pending, k) /\ (TapeSent' => TapeSent /\ k = 0 /\ feed'.tape = feed.tape)
    <2>1. SUFFICES ASSUME ~lagged'
                   PROVE  \E k \in 0 .. Len(Pending) : Without(Pending', Pending, k)
                              /\ (TapeSent' => TapeSent /\ k = 0 /\ feed'.tape = feed.tape)
        OBVIOUS
    <2>2. PICK k \in 0 .. Len(Pending) : Without(Pending', Pending, k) /\ (stage # "none" => k = 0)
        BY <2>1, SentPending
    <2>3. TapeSent' => TapeSent /\ stage # "none"
        BY <1>1 DEF TapeSent
    <2> QED BY <1>1, <2>2, <2>3
<1> QED BY <1>1, <1>2, <1>3, TapeKept

\* With nothing pending there is nothing to be followed.
LEMMA NothingPending ==
    ASSUME NEW p, p = <<>>, NEW t, NEW x
    PROVE  \E a : Ages(a, p) /\ SameTape(a, p, t) /\ a[0] = 0
<1> DEFINE a == [i \in {0} |-> 0]
<1>1. a[0] = 0
    OBVIOUS
<1>2. Len(p) = 0
    OBVIOUS
<1>3. 0 .. Len(p) = {0} /\ 1 .. Len(p) = {}
    BY <1>2
<1> HIDE DEF a
<1>4. Ages(a, p)
    BY <1>1, <1>2, <1>3 DEF Ages
<1>5. SameTape(a, p, t)
    BY <1>3 DEF SameTape
<1> QED BY <1>1, <1>4, <1>5

\* Every step keeps the tape followed.
LEMMA TapeNext ==
    ASSUME Charted, TapeInv, [ChartingNext]_chartingVars
    PROVE  TapeInv'
<1>1. CASE UNCHANGED chartingVars
    BY <1>1 DEF chartingVars, venueVars, coreVars, sessionVars, TapeInv, TapeSent, Pending
<1>2. CASE \/ \E at \in Times : VenuePrints(at)
           \/ \E i \in DOMAIN fed : VenueReplays(i)
           \/ FeedConnects \/ Ping \/ HandCandles \/ FeedDisconnects \/ SessionHandles
    <2>1. held' = held /\ lagged' = lagged
        BY <1>2, QuietSteps
    <2>2. PICK k \in 0 .. Len(Pending) : Without(Pending', Pending, k)
              /\ (TapeSent' => TapeSent /\ k = 0 /\ (feed' = feed \/ HandCandles))
        BY <1>2, QuietSteps
    <2>3. HandCandles => feed'.tape = feed.tape
        <3>1. SUFFICES ASSUME HandCandles PROVE feed'.tape = feed.tape
            OBVIOUS
        <3>2. CASE session.subscribed
            BY <3>1, <3>2, CandlesHanded DEF HandCandles
        <3>3. CASE ~session.subscribed
            BY <3>1, <3>3 DEF HandCandles
        <3> QED BY <3>2, <3>3
    <2>4. TapeSent' => TapeSent /\ k = 0 /\ feed'.tape = feed.tape
        BY <2>2, <2>3
    <2> QED BY <2>1, <2>2, <2>4, TapeKept
<1>3. CASE CoreRestarts
    <2>1. queue' = <<>> /\ inHand' = None /\ stage' = "none" /\ held' = NoHistory
        BY <1>3 DEF CoreRestarts, Gone
    <2>2. Pending' = <<>> /\ ~TapeSent'
        BY <2>1 DEF Pending, TapeSent
    <2>3. \E a : Ages(a, Pending') /\ SameTape(a, Pending', held'.tape)
        BY <2>2, NothingPending
    <2> QED BY <2>2, <2>3 DEF TapeInv
<1> QED BY <1>1, <1>2, <1>3, PumpFoldsTape, PumpSendsTape, ForwardTape, HandTapeTape DEF ChartingNext

\* Once a session has handed the tape over, the terminal has every print of the read-model's
\* tape that is not pending (in the session's backlog or in the pump's hand), unless it is too
\* old for the room the terminal has: the handover and the backlog may bring a print twice,
\* and leave none out.
THEOREM TapeFollowed == ChartingSpec => []TapeInv
<1>1. ChartingInit => TapeInv
    <2>1. SUFFICES ASSUME ChartingInit PROVE TapeInv
        OBVIOUS
    <2>2. Pending = <<>> /\ ~TapeSent
        BY <2>1 DEF ChartingInit, Pending, TapeSent
    <2>3. \E a : Ages(a, Pending) /\ SameTape(a, Pending, held.tape)
        BY <2>2, NothingPending
    <2> QED BY <2>2, <2>3 DEF TapeInv
<1>2. Charted /\ TapeInv /\ [ChartingNext]_chartingVars => TapeInv'
    BY TapeNext
<1> QED BY <1>1, <1>2, ChartingInOrder, PTL DEF ChartingSpec

\* Followed with nothing pending, the tape is complete as far as it has room.
LEMMA TapeIsComplete ==
    ASSUME Charted, TapeInv
    PROVE  TapeComplete
<1>1. SUFFICES ASSUME Settled, NEW i \in DOMAIN held.tape,
                      \/ 2 * (Len(held.tape) - i) < TAPE_DEPTH
                      \/ Len(held.tape) - i + FANOUT_CAPACITY + 1 < TAPE_DEPTH
               PROVE  held.tape[i] \in Range(feed.tape)
    BY DEF TapeComplete
<1>2. Pending = <<>> /\ TapeSent /\ ~lagged
    BY <1>1 DEF Settled, Pending, TapeSent
<1>3. PICK a : Ages(a, Pending) /\ HasTape(a[0], feed.tape, held.tape)
    BY <1>2 DEF TapeInv
<1>4. a[0] = 0
    BY <1>2, <1>3 DEF Ages
<1>5. held.tape \in Seq(PublicTrade) /\ feed.tape \in Seq(PublicTrade)
    BY TypeFacts DEF Charted
<1>6. PICK l \in Nat : l = Len(held.tape) /\ i \in 1 .. l
    <2>1. PICK t \in Seq(PublicTrade) : t = held.tape
        BY <1>5
    <2>2. i \in 1 .. Len(t) /\ Len(t) \in Nat
        BY <1>1, <2>1
    <2> QED BY <2>1, <2>2
<1>7. PICK g \in Nat : g = l - i /\ g \in 0 .. l - 1 /\ l - g = i
    BY <1>6
<1>8. Reach(g) <= TAPE_DEPTH
    <2>1. Reach(g) \in Nat /\ Reach(g) <= 2 * g + 1 /\ Reach(g) <= g + 2 + FANOUT_CAPACITY
        BY ONLY g \in Nat, ReachFacts
    <2>2. 2 * g < TAPE_DEPTH \/ g + FANOUT_CAPACITY + 1 < TAPE_DEPTH
        BY <1>1, <1>6, <1>7
    <2> QED BY ONLY <2>1, <2>2, g \in Nat, Depths
<1>9. PICK q \in 1 .. Len(feed.tape) : feed.tape[q] = held.tape[l - g]
    BY SMTT(20), <1>3, <1>4, <1>6, <1>7, <1>8 DEF HasTape
<1>10. q \in DOMAIN feed.tape
    BY <1>5
<1> QED BY <1>7, <1>9, <1>10 DEF Range

\* A terminal that all of the core's events have reached has every print of the read-model's
\* tape that is newer than half of what it keeps, or all of them with room for a whole backlog
\* besides, though prints that the session hands over and forwards too come twice.
THEOREM TapeEndsComplete == ChartingSpec => []TapeComplete
<1>1. Charted /\ TapeInv => TapeComplete
    BY TapeIsComplete
<1> QED BY <1>1, ChartingInOrder, TapeFollowed, PTL

-----------------------------------------------------------------------------
(* The bars.                                                               *)

Renewed(r, s, bar) ==
    /\ r \in Seq(Bar) /\ Len(r) = Len(s) /\ Len(r) >= 1 /\ r[Len(r)] = bar
    /\ \A i \in 1 .. Len(s) - 1 : r[i] = s[i]

\* The last of some bars.
LEMMA LastBar ==
    ASSUME NEW s \in Seq(Bar), s # <<>>
    PROVE  /\ Len(s) \in Nat /\ Len(s) >= 1 /\ Last(s) = s[Len(s)] /\ Last(s) \in Bar
           /\ Last(s).openTime \in Int /\ Len(s) \in 1 .. Len(s)
<1>1. Len(s) \in Nat /\ Len(s) >= 1 /\ Last(s) = s[Len(s)] /\ Len(s) \in 1 .. Len(s)
    BY DEF Last
<1>2. s[Len(s)] \in Bar
    BY <1>1
<1> QED BY <1>1, <1>2, BarTimes

\* fold_candle adds a bar, replaces the last, or ignores it.
LEMMA FoldCases ==
    ASSUME NEW s \in Seq(Bar), NEW bar \in Bar, NEW d \in Nat \ {0}, NEW r, r = FoldCandle(s, bar, d)
    PROVE  \/ Newer(s, bar) /\ Grown(r, s, bar, d)
           \/ Anew(s, bar) /\ Renewed(r, s, bar)
           \/ s # <<>> /\ r = s /\ bar.openTime < Last(s).openTime
<1>1. CASE Newer(s, bar)
    BY <1>1, NewerBar
<1>2. CASE Anew(s, bar)
    BY <1>2, BarAnew DEF Renewed
<1>3. CASE ~Newer(s, bar) /\ ~Anew(s, bar)
    <2>1. r = s /\ s # <<>>
        BY <1>3, OlderBar
    <2>2. Last(s).openTime \in Int /\ bar.openTime \in Int
        BY <2>1, LastBar, BarTimes
    <2>3. ~(Last(s).openTime < bar.openTime) /\ Last(s).openTime # bar.openTime
        BY <1>3, <2>1 DEF Newer, Anew
    <2> QED BY <2>1, <2>2, <2>3
<1> QED BY <1>1, <1>2, <1>3

\* Bars in order are so at any distance.
LEMMA RisingFar ==
    ASSUME NEW s \in Seq(Bar), Rising(s), NEW i \in 1 .. Len(s), NEW j \in 1 .. Len(s), i < j
    PROVE  s[i].openTime < s[j].openTime
<1>1. PICK n \in Nat : n = Len(s)
    OBVIOUS
<1>2. \A k \in 1 .. n : s[k].openTime \in Int
    BY <1>1, BarTimes
<1> DEFINE T == {k \in i + 1 .. n : ~(s[i].openTime < s[k].openTime)}
<1>3. SUFFICES ASSUME T # {} PROVE FALSE
    BY <1>1
<1>4. PICK m \in T : \A k \in T : m <= k
    <2>1. T \subseteq Nat
        BY <1>1
    <2> HIDE DEF T
    <2> QED BY <1>3, <2>1, LeastNat
<1>5. m \in i + 1 .. n /\ ~(s[i].openTime < s[m].openTime) /\ i \in 1 .. n /\ m \in 1 .. n
      /\ m - 1 \in 1 .. n - 1 /\ m - 1 \in 1 .. n /\ (m - 1) + 1 = m
    BY <1>1, <1>4
<1>6. s[m - 1].openTime < s[m].openTime
    BY <1>1, <1>5 DEF Rising
<1>7. CASE m = i + 1
    <2>1. m - 1 = i
        BY <1>5, <1>7
    <2> QED BY <1>5, <1>6, <2>1
<1>8. CASE m # i + 1
    <2>1. m - 1 \in i + 1 .. n /\ m - 1 \notin T
        BY <1>4, <1>5, <1>8
    <2>2. s[i].openTime < s[m - 1].openTime
        BY <2>1
    <2> QED BY <1>2, <1>5, <1>6, <2>2
<1> QED BY <1>7, <1>8

\* z ends with b, and with the i first of b.
Ends(z, b)      == Len(z) >= Len(b) /\ \A j \in 0 .. Len(b) - 1 : z[Len(z) - j] = b[Len(b) - j]
EndsAt(z, b, i) == Len(z) >= i /\ \A j \in 0 .. i - 1 : z[Len(z) - j] = b[i - j]

\* Bars that end with others still do when a bar is folded into both.
LEMMA FoldEnds ==
    ASSUME NEW z \in Seq(Bar), NEW b \in Seq(Bar), b # <<>>, Ends(z, b), NEW bar \in Bar,
           NEW u, u = FoldCandle(z, bar, CANDLE_DEPTH), NEW v, v = FoldCandle(b, bar, HISTORY)
    PROVE  Ends(u, v)
<1>1. PICK n \in Nat, l \in Nat : n = Len(z) /\ l = Len(b) /\ l >= 1 /\ n >= l
    BY DEF Ends
<1>2. /\ z # <<>> /\ Last(z) = Last(b) /\ Last(b).openTime \in Int /\ bar.openTime \in Int
      /\ Last(z) = z[n] /\ Last(b) = b[l]
    <2>1. z # <<>>
        BY <1>1
    <2>2. 0 \in 0 .. l - 1 /\ n - 0 = n /\ l - 0 = l
        BY <1>1
    <2>3. z[n] = b[l]
        BY <1>1, <2>2 DEF Ends
    <2> QED BY <1>1, <2>1, <2>3, LastBar, BarTimes
<1>3. CASE Newer(b, bar)
    <2>1. Newer(z, bar)
        BY <1>2, <1>3 DEF Newer
    <2>2. Grown(u, z, bar, CANDLE_DEPTH) /\ Grown(v, b, bar, HISTORY)
        BY <1>3, <2>1, NewerBar, Depths
    <2>3. PICK s \in Nat, t \in Nat : /\ s = Len(u) /\ t = Len(v)
                                      /\ s = (IF n + 1 <= CANDLE_DEPTH THEN n + 1 ELSE CANDLE_DEPTH)
                                      /\ t = (IF l + 1 <= HISTORY THEN l + 1 ELSE HISTORY)
        BY <1>1, <2>2, Depths DEF Grown
    <2>4. s >= t /\ t <= l + 1
        BY <1>1, <2>3, Depths
    <2>5. ASSUME NEW j \in 0 .. t - 1 PROVE u[s - j] = v[t - j]
        <3>1. CASE j = 0
            <4>1. s - j = s /\ t - j = t
                BY <3>1
            <4> QED BY <2>2, <2>3, <4>1 DEF Grown
        <3>2. CASE j # 0
            <4>1. j \in 1 .. t - 1 /\ j \in 1 .. s - 1 /\ j - 1 \in 0 .. l - 1
                  /\ n + 1 - j = n - (j - 1) /\ l + 1 - j = l - (j - 1)
                BY <2>4, <3>2
            <4>2. u[s - j] = z[n + 1 - j] /\ v[t - j] = b[l + 1 - j]
                BY <1>1, <2>2, <2>3, <4>1 DEF Grown
            <4>3. z[n - (j - 1)] = b[l - (j - 1)]
                BY <1>1, <4>1 DEF Ends
            <4> QED BY <4>1, <4>2, <4>3
        <3> QED BY <3>1, <3>2
    <2> QED BY <2>3, <2>4, <2>5 DEF Ends
<1>4. CASE Anew(b, bar)
    <2>1. Anew(z, bar)
        BY <1>2, <1>4 DEF Anew
    <2>2. Renewed(u, z, bar) /\ Renewed(v, b, bar)
        BY <1>4, <2>1, BarAnew, Depths DEF Renewed
    <2>3. Len(u) = n /\ Len(v) = l /\ u[n] = bar /\ v[l] = bar
        BY <1>1, <2>2 DEF Renewed
    <2>4. ASSUME NEW j \in 0 .. l - 1 PROVE u[n - j] = v[l - j]
        <3>1. CASE j = 0
            <4>1. n - j = n /\ l - j = l
                BY <3>1
            <4> QED BY <2>3, <4>1
        <3>2. CASE j # 0
            <4>1. n - j \in 1 .. n - 1 /\ l - j \in 1 .. l - 1
                BY <1>1, <3>2
            <4>2. u[n - j] = z[n - j] /\ v[l - j] = b[l - j]
                BY <1>1, <2>2, <4>1 DEF Renewed
            <4> QED BY <1>1, <4>2 DEF Ends
        <3> QED BY <3>1, <3>2
    <2> QED BY <1>1, <2>3, <2>4 DEF Ends
<1>5. CASE ~Newer(b, bar) /\ ~Anew(b, bar)
    <2>1. ~Newer(z, bar) /\ ~Anew(z, bar)
        BY <1>2, <1>5 DEF Newer, Anew
    <2>2. u = z /\ v = b
        BY <1>5, <2>1, OlderBar
    <2> QED BY <2>2
<1> QED BY <1>3, <1>4, <1>5

\* The first bar of a core, which is no older than what a terminal has.
LEMMA FoldFirst ==
    ASSUME NEW z \in Seq(Bar), NEW bar \in Bar, z # <<>> => Last(z).openTime <= bar.openTime,
           NEW u, u = FoldCandle(z, bar, CANDLE_DEPTH), NEW v, v = FoldCandle(<<>>, bar, HISTORY)
    PROVE  Ends(u, v) /\ v \in Seq(Bar) /\ Len(v) = 1 /\ v[1] = bar
<1>1. <<>> \in Seq(Bar) /\ Newer(<<>>, bar) /\ Len(<<>>) = 0
    BY DEF Newer
<1>2. Grown(v, <<>>, bar, HISTORY)
    BY <1>1, NewerBar, Depths
<1>3. v \in Seq(Bar) /\ Len(v) = 1 /\ v[1] = bar
    <2>1. Len(v) = 1
        BY <1>1, <1>2, Depths DEF Grown
    <2> QED BY <1>2, <2>1 DEF Grown
<1>4. Len(u) \in Nat /\ Len(u) >= 1 /\ u[Len(u)] = bar
    <2>1. Newer(z, bar) \/ Anew(z, bar)
        <3>1. CASE z = <<>>
            BY <3>1 DEF Newer
        <3>2. CASE z # <<>>
            <4>1. Last(z).openTime \in Int /\ bar.openTime \in Int
                BY <3>2, LastBar, BarTimes
            <4>2. Last(z).openTime < bar.openTime \/ Last(z).openTime = bar.openTime
                BY <3>2, <4>1
            <4> QED BY <3>2, <4>2 DEF Newer, Anew
        <3> QED BY <3>1, <3>2
    <2>2. CASE Newer(z, bar)
        <3>1. Grown(u, z, bar, CANDLE_DEPTH)
            BY <2>2, NewerBar, Depths
        <3> QED BY ONLY <3>1 DEF Grown
    <2>3. CASE Anew(z, bar)
        <3>1. u \in Seq(Bar) /\ Len(u) >= 1 /\ u[Len(u)] = bar
            BY <2>3, BarAnew, Depths
        <3> QED BY ONLY <3>1
    <2> QED BY <2>1, <2>2, <2>3
<1>5. Ends(u, v)
    <2>1. PICK n \in Nat : n = Len(u) /\ n >= 1
        BY <1>4
    <2>2. ASSUME NEW j \in 0 .. 1 - 1 PROVE u[n - j] = v[1 - j]
        <3>1. j = 0 /\ n - j = n /\ 1 - j = 1
            OBVIOUS
        <3> QED BY <1>3, <1>4, <2>1, <3>1
    <2> QED BY <1>3, <2>1, <2>2 DEF Ends
<1> QED BY <1>3, <1>5

\* x goes on to the k-th of b, and has those before it that it has room for; or to none of it.
Joins(x, b, k) ==
    IF k = 0 THEN x = <<>> \/ b = <<>> \/ Last(x).openTime < b[1].openTime
    ELSE /\ x # <<>> /\ k <= Len(x) /\ Last(x).openTime = b[k].openTime
         /\ \A j \in 1 .. k - 1 : x[Len(x) - j] = b[k - j]

\* A terminal's bars stop somewhere in those of the read-model.
Behind(x, b) == \E k \in 0 .. Len(b) : Joins(x, b, k)

\* Bars that end with others are behind them by nothing.
LEMMA EndsBehind ==
    ASSUME NEW z \in Seq(Bar), NEW b \in Seq(Bar), Ends(z, b)
    PROVE  Behind(z, b)
<1>1. PICK n \in Nat, l \in Nat : n = Len(z) /\ l = Len(b) /\ n >= l
    BY DEF Ends
<1>2. CASE l = 0
    <2>0. b = <<>>
        BY ONLY b \in Seq(Bar), <1>1, <1>2, EmptySeq
    <2>1. b = <<>> /\ 0 \in 0 .. Len(b)
        BY <1>1, <1>2, <2>0
    <2>2. Joins(z, b, 0)
        BY <2>1 DEF Joins
    <2> QED BY <2>1, <2>2 DEF Behind
<1>3. CASE l # 0
    <2>1. z # <<>> /\ Last(z) = z[n] /\ 0 \in 0 .. l - 1 /\ n - 0 = n /\ l - 0 = l /\ l \in 0 .. l
        BY <1>1, <1>3 DEF Last
    <2>2. Last(z) = b[l]
        BY <1>1, <2>1 DEF Ends
    <2>3. \A j \in 1 .. l - 1 : z[n - j] = b[l - j]
        <3>1. \A j \in 0 .. l - 1 : z[n - j] = b[l - j]
            BY <1>1 DEF Ends
        <3>2. \A j \in 1 .. l - 1 : j \in 0 .. l - 1
            BY <1>1
        <3> QED BY <3>1, <3>2
    <2>4. Joins(z, b, l)
        BY <1>1, <1>3, <2>1, <2>2, <2>3 DEF Joins
    <2> QED BY <1>1, <2>1, <2>4 DEF Behind
<1> QED BY <1>2, <1>3

\* What is behind after a bar was behind before it.
LEMMA BehindBefore ==
    ASSUME NEW x \in Seq(Bar), NEW b \in Seq(Bar), NEW bar \in Bar, NEW d \in Nat \ {0},
           NEW r, r = FoldCandle(x, bar, d), Behind(r, b)
    PROVE  Behind(x, b)
<1>1. PICK k \in 0 .. Len(b) : Joins(r, b, k)
    BY DEF Behind
<1>2. PICK n \in Nat, l \in Nat : n = Len(x) /\ l = Len(b)
    OBVIOUS
<1>3. CASE Newer(x, bar)
    <2>1. Grown(r, x, bar, d)
        BY <1>3, NewerBar
    <2>2. PICK m \in Nat : m = Len(r) /\ m >= 1 /\ m <= n + 1 /\ r[m] = bar /\ r \in Seq(Bar) /\ r # <<>>
        BY <1>2, <2>1 DEF Grown
    <2>3. Last(r) = bar
        BY <2>2 DEF Last
    <2>4. x # <<>> => Last(x).openTime < bar.openTime /\ Last(x).openTime \in Int /\ bar.openTime \in Int
        BY <1>3, LastBar, BarTimes DEF Newer
    <2>5. CASE k = 0 \/ k = 1
        <3>1. b # <<>> => b[1].openTime \in Int
            <4>1. b # <<>> => b[1] \in Bar
                OBVIOUS
            <4> QED BY <4>1, BarTimes
        <3>2. x = <<>> \/ b = <<>> \/ Last(x).openTime < b[1].openTime
            <4>1. CASE k = 0
                BY <1>1, <2>2, <2>3, <2>4, <3>1, <4>1 DEF Joins
            <4>2. CASE k = 1
                BY <1>1, <2>3, <2>4, <4>2 DEF Joins
            <4> QED BY <2>5, <4>1, <4>2
        <3>3. Joins(x, b, 0) /\ 0 \in 0 .. l
            BY <3>2 DEF Joins
        <3> QED BY <1>2, <3>3 DEF Behind
    <2>6. CASE k # 0 /\ k # 1
        <3>1. k - 1 \in 1 .. l /\ k \in 2 .. l /\ k - 1 \in 0 .. l /\ 1 \in 1 .. k - 1
            BY <1>2, <2>6
        <3>2. k <= m /\ \A j \in 1 .. k - 1 : r[m - j] = b[k - j]
            BY <1>1, <2>2, <2>6 DEF Joins
        <3>3. \A j \in 1 .. m - 1 : r[m - j] = x[n + 1 - j]
            BY <1>2, <2>1, <2>2 DEF Grown
        <3>4. n >= 1 /\ k - 1 <= n /\ 1 \in 1 .. m - 1 /\ n + 1 - 1 = n
            BY <2>2, <3>1, <3>2
        <3>5. r[m - 1] = b[k - 1] /\ r[m - 1] = x[n]
            BY <3>1, <3>2, <3>3, <3>4
        <3>6. x # <<>> /\ Last(x) = b[k - 1]
            BY <1>2, <3>4, <3>5 DEF Last
        <3>7. ASSUME NEW j \in 1 .. (k - 1) - 1 PROVE x[n - j] = b[(k - 1) - j]
            <4>1. j + 1 \in 1 .. k - 1 /\ j + 1 \in 1 .. m - 1 /\ n + 1 - (j + 1) = n - j
                  /\ k - (j + 1) = (k - 1) - j
                BY <3>1, <3>2, <2>2
            <4> QED BY <3>2, <3>3, <4>1
        <3>8. Joins(x, b, k - 1)
            BY <1>2, <2>6, <3>1, <3>4, <3>6, <3>7 DEF Joins
        <3> QED BY <1>2, <3>1, <3>8 DEF Behind
    <2> QED BY <2>5, <2>6
<1>4. CASE Anew(x, bar)
    <2>1. Renewed(r, x, bar)
        BY <1>4, BarAnew DEF Renewed
    <2>2. n >= 1 /\ Len(r) = n /\ r \in Seq(Bar) /\ r[n] = bar /\ \A i \in 1 .. n - 1 : r[i] = x[i]
        BY <1>2, <2>1 DEF Renewed
    <2>3. r # <<>> /\ x # <<>> /\ Last(r) = bar /\ Last(x).openTime = Last(r).openTime
        BY <1>2, <1>4, <2>2 DEF Last, Anew
    <2>4. CASE k = 0
        <3>1. Joins(x, b, 0)
            BY <1>1, <2>3, <2>4 DEF Joins
        <3> QED BY <1>1, <2>4, <3>1 DEF Behind
    <2>5. CASE k # 0
        <3>1. k <= n /\ Last(r).openTime = b[k].openTime /\ \A j \in 1 .. k - 1 : r[n - j] = b[k - j]
            BY <1>1, <2>2, <2>5 DEF Joins
        <3>2. ASSUME NEW j \in 1 .. k - 1 PROVE x[n - j] = b[k - j]
            <4>1. n - j \in 1 .. n - 1
                BY <1>2, <3>1
            <4> QED BY <2>2, <3>1, <4>1
        <3>3. Joins(x, b, k)
            BY <1>2, <2>3, <2>5, <3>1, <3>2 DEF Joins
        <3> QED BY <1>1, <3>3 DEF Behind
    <2> QED BY <2>4, <2>5
<1>5. CASE ~Newer(x, bar) /\ ~Anew(x, bar)
    BY <1>5, OlderBar
<1> QED BY <1>3, <1>4, <1>5

\* What is behind stays behind a read-model that goes on.
LEMMA BehindAfter ==
    ASSUME NEW x \in Seq(Bar), NEW b \in Seq(Bar), b # <<>>, Rising(b), Len(b) <= HISTORY,
           NEW bar \in Bar, NEW v, v = FoldCandle(b, bar, HISTORY), Behind(x, b)
    PROVE  Behind(x, v)
<1>1. PICK k \in 0 .. Len(b) : Joins(x, b, k)
    BY DEF Behind
<1>2. PICK n \in Nat, l \in Nat : n = Len(x) /\ l = Len(b) /\ l >= 1
    OBVIOUS
<1>3. \A i \in 1 .. l : b[i] \in Bar /\ b[i].openTime \in Int
    BY <1>2, BarTimes
<1>4. (x # <<>> => Last(x).openTime \in Int) /\ Last(b) = b[l] /\ bar.openTime \in Int
    BY <1>2, LastBar, BarTimes
<1>5. CASE Newer(b, bar)
    <2>1. Grown(v, b, bar, HISTORY)
        BY <1>5, NewerBar, Depths
    <2>2. PICK m \in Nat : /\ m = Len(v) /\ m = (IF l + 1 <= HISTORY THEN l + 1 ELSE HISTORY)
                           /\ v[m] = bar /\ \A j \in 1 .. m - 1 : v[m - j] = b[l + 1 - j]
        <3>1. /\ Len(v) = (IF l + 1 <= HISTORY THEN l + 1 ELSE HISTORY)
              /\ v[Len(v)] = bar /\ \A j \in 1 .. Len(v) - 1 : v[Len(v) - j] = b[l + 1 - j]
            BY <1>2, <2>1 DEF Grown
        <3>2. PICK m \in Nat : m = (IF l + 1 <= HISTORY THEN l + 1 ELSE HISTORY)
            BY <1>2, Depths
        <3>3. m = Len(v)
            BY <3>1, <3>2
        <3> QED BY <3>1, <3>2, <3>3
    <2>3. PICK s \in {0, 1} : m = l + 1 - s
        BY <1>2, <2>2, Depths
    <2>4. \A i \in 1 .. m - 1 : v[i] = b[i + s]
        <3>1. TAKE i \in 1 .. m - 1
        <3>2. m - i \in 1 .. m - 1 /\ m - (m - i) = i /\ l + 1 - (m - i) = i + s
            BY <2>3
        <3> QED BY <2>2, <3>2
    <2>5. /\ s = 0 => v[1] = b[1]
          /\ s = 1 => b[1].openTime < v[1].openTime
          /\ v[1].openTime \in Int
        <3>1. CASE s = 0
            <4>1. 1 \in 1 .. m - 1 /\ 1 + s = 1 /\ 1 \in 1 .. l
                BY <1>2, <2>3, <3>1
            <4> QED BY <1>3, <2>4, <3>1, <4>1
        <3>2. CASE s = 1 /\ l = 1
            <4>1. v[1] = bar
                BY <2>2, <2>3, <3>2
            <4>2. b[1].openTime < bar.openTime
                BY <1>4, <1>5, <3>2 DEF Newer
            <4> QED BY <1>4, <3>2, <4>1, <4>2
        <3>3. CASE s = 1 /\ l # 1
            <4>1. 1 \in 1 .. m - 1 /\ 1 + s = 2 /\ 1 \in 1 .. l /\ 2 \in 1 .. l
                BY <1>2, <2>3, <3>3
            <4>2. v[1] = b[2]
                BY <2>4, <4>1
            <4>3. b[1].openTime < b[2].openTime
                BY <1>2, <4>1, RisingFar
            <4> QED BY <1>3, <3>3, <4>1, <4>2, <4>3
        <3> QED BY <3>1, <3>2, <3>3
    <2>6. v # <<>>
        BY <2>1 DEF Grown
    <2>7. CASE k = 0 \/ (k = 1 /\ s = 1)
        <3>1. 1 \in 1 .. l /\ b[1].openTime \in Int
            BY <1>2, <1>3
        <3>2. x = <<>> \/ Last(x).openTime < v[1].openTime
            <4>1. CASE k = 0
                BY <1>1, <1>4, <2>3, <2>5, <3>1, <4>1 DEF Joins
            <4>2. CASE k = 1 /\ s = 1
                BY <1>1, <1>4, <2>5, <3>1, <4>2 DEF Joins
            <4> QED BY <2>7, <4>1, <4>2
        <3>3. Joins(x, v, 0) /\ 0 \in 0 .. m
            BY <3>2 DEF Joins
        <3> QED BY <2>2, <3>3 DEF Behind
    <2>8. CASE ~(k = 0 \/ (k = 1 /\ s = 1))
        <3>1. PICK h \in 1 .. m - 1 : h = k - s /\ k = h + s
            BY <1>2, <2>3, <2>8
        <3>2. x # <<>> /\ k <= n /\ Last(x).openTime = b[k].openTime /\ h <= n
              /\ \A j \in 1 .. k - 1 : x[n - j] = b[k - j]
            BY <1>1, <1>2, <2>3, <2>8, <3>1 DEF Joins
        <3>3. v[h] = b[k]
            BY <2>4, <3>1
        <3>4. ASSUME NEW j \in 1 .. h - 1 PROVE x[n - j] = v[h - j]
            <4>1. h - j \in 1 .. m - 1 /\ (h - j) + s = k - j /\ j \in 1 .. k - 1
                BY <2>3, <3>1
            <4> QED BY <2>4, <3>2, <4>1
        <3>5. Joins(x, v, h)
            BY <1>2, <3>1, <3>2, <3>3, <3>4 DEF Joins
        <3>6. h \in 0 .. m
            BY <3>1
        <3> QED BY <2>2, <3>5, <3>6 DEF Behind
    <2> QED BY <2>7, <2>8
<1>6. CASE Anew(b, bar)
    <2>1. Renewed(v, b, bar)
        BY <1>6, BarAnew, Depths DEF Renewed
    <2>2. Len(v) = l /\ v[l] = bar /\ v # <<>> /\ \A i \in 1 .. l - 1 : v[i] = b[i]
        BY <1>2, <2>1 DEF Renewed
    <2>3. \A i \in 1 .. l : v[i].openTime = b[i].openTime
        <3>1. TAKE i \in 1 .. l
        <3>2. CASE i = l
            BY <1>4, <1>6, <2>2, <3>2 DEF Anew
        <3>3. CASE i # l
            <4>1. i \in 1 .. l - 1
                BY <3>3
            <4> QED BY <2>2, <4>1
        <3> QED BY <3>2, <3>3
    <2>4. CASE k = 0
        <3>1. 1 \in 1 .. l
            BY <1>2
        <3>2. Joins(x, v, 0)
            BY <1>1, <2>3, <2>4, <3>1 DEF Joins
        <3> QED BY <1>1, <1>2, <2>2, <2>4, <3>2 DEF Behind
    <2>5. CASE k # 0
        <3>1. k \in 1 .. l
            BY <1>2, <2>5
        <3>2. x # <<>> /\ k <= n /\ Last(x).openTime = b[k].openTime
              /\ \A j \in 1 .. k - 1 : x[n - j] = b[k - j]
            BY <1>1, <1>2, <2>5 DEF Joins
        <3>3. ASSUME NEW j \in 1 .. k - 1 PROVE x[n - j] = v[k - j]
            <4>1. k - j \in 1 .. l - 1
                BY <3>1
            <4> QED BY <2>2, <3>2, <4>1
        <3>4. Joins(x, v, k)
            BY <1>2, <2>3, <2>5, <3>1, <3>2, <3>3 DEF Joins
        <3> QED BY <1>1, <1>2, <2>2, <3>4 DEF Behind
    <2> QED BY <2>4, <2>5
<1>7. CASE ~Newer(b, bar) /\ ~Anew(b, bar)
    BY <1>7, OlderBar
<1> QED BY <1>5, <1>6, <1>7

\* The first bar of a core.
LEMMA BehindFirst ==
    ASSUME NEW x \in Seq(Bar), NEW bar \in Bar, x # <<>> => Last(x).openTime <= bar.openTime,
           NEW v \in Seq(Bar), Len(v) = 1, v[1] = bar
    PROVE  Behind(x, v)
<1>1. CASE x = <<>>
    <2>1. Joins(x, v, 0) /\ 0 \in 0 .. Len(v)
        BY <1>1 DEF Joins
    <2> QED BY <2>1 DEF Behind
<1>2. CASE x # <<>>
    <2>1. Len(x) >= 1 /\ Last(x).openTime \in Int /\ bar.openTime \in Int
        BY <1>2, LastBar, BarTimes
    <2>2. CASE Last(x).openTime < bar.openTime
        <3>1. Joins(x, v, 0) /\ 0 \in 0 .. Len(v)
            BY <2>2 DEF Joins
        <3> QED BY <3>1 DEF Behind
    <2>3. CASE Last(x).openTime = bar.openTime
        <3>1. Joins(x, v, 1) /\ 1 \in 0 .. Len(v)
            BY <1>2, <2>1, <2>3 DEF Joins
        <3> QED BY <3>1 DEF Behind
    <2> QED BY <1>2, <2>1, <2>2, <2>3
<1> QED BY <1>1, <1>2

\* What becomes of the bars x when those of b are folded into them, one by one.
LEMMA CourseOfBars ==
    ASSUME NEW f, FeedOK(f), NEW b \in Seq(Bar), Rising(b), Len(b) <= CANDLE_DEPTH,
           NEW k \in 0 .. Len(b), Joins(f.bars, b, k), NEW s \in Seq(Event), Len(s) = Len(b),
           \A i \in 1 .. Len(b) : s[i] \in Event /\ s[i].kind = "Candle" /\ s[i].bar = b[i],
           NEW y, Course(y, f, s)
    PROVE  \A i \in 0 .. Len(b) : /\ (i < k \/ i = 0 => y[i].bars = f.bars)
                                  /\ (i >= k /\ i >= 1 => EndsAt(y[i].bars, b, i))
<1>0. PICK n \in Nat : n = Len(b) /\ n <= CANDLE_DEPTH
    OBVIOUS
<1> DEFINE P(i) == /\ (i < k \/ i = 0 => y[i].bars = f.bars)
                   /\ (i >= k /\ i >= 1 => EndsAt(y[i].bars, b, i))
           T    == {i \in 0 .. n : ~P(i)}
<1>1. SUFFICES ASSUME T # {} PROVE FALSE
    BY <1>0
<1>2. PICK m \in T : \A j \in T : m <= j
    <2>1. T \subseteq Nat
        OBVIOUS
    <2> HIDE DEF T
    <2> QED BY <1>1, <2>1, LeastNat
<1>3. m # 0
    BY <1>2 DEF Course
<1>4. m \in 1 .. n /\ m - 1 \in 0 .. n /\ P(m - 1)
    <2>1. m \in 1 .. n /\ m - 1 \in 0 .. n /\ m - 1 \notin T
        BY <1>2, <1>3
    <2> QED BY <2>1
<1>5. PICK g, e : g = y[m - 1] /\ e = s[m] /\ y[m] = Applied(g, e) /\ e \in Event /\ e.kind = "Candle"
                  /\ e.bar = b[m]
    BY <1>0, <1>4 DEF Course
<1>6. FeedOK(g)
    BY <1>0, <1>4, <1>5, CourseOK
<1>7. g.bars \in Seq(Bar) /\ f.bars \in Seq(Bar) /\ b[m] \in Bar /\ b[m].openTime \in Int
    BY <1>0, <1>4, <1>6, BarTimes DEF FeedOK, FeedState
<1>8. PICK r : r = FoldCandle(g.bars, b[m], CANDLE_DEPTH) /\ r = y[m].bars
    <2>1. Applied(g, e).bars = FoldCandle(g.bars, e.bar, CANDLE_DEPTH)
        BY <1>5, <1>6, AppliedCandle
    <2> QED BY <1>5, <2>1
<1>9. ASSUME EndsAt(r, b, m), m >= k PROVE FALSE
    BY <1>2, <1>3, <1>8, <1>9
<1>10. CASE m < k
    <2>1. g.bars = f.bars
        BY <1>4, <1>5, <1>10
    <2>2. k \in 1 .. n /\ f.bars # <<>> /\ Last(f.bars).openTime = b[k].openTime
        BY <1>0, <1>4, <1>10 DEF Joins
    <2>3. b[m].openTime < b[k].openTime
        BY <1>0, <1>4, <1>10, <2>2, RisingFar
    <2>4. b[k].openTime \in Int
        BY <1>0, <2>2, BarTimes
    <2>5. ~Newer(g.bars, b[m]) /\ ~Anew(g.bars, b[m])
        BY <1>7, <2>1, <2>2, <2>3, <2>4 DEF Newer, Anew
    <2>6. r = f.bars
        BY <1>8, <2>1, <2>5, OlderBar
    <2>7. P(m)
        BY <1>8, <1>10, <2>6
    <2> QED BY <1>2, <2>7
<1>11. CASE m = k
    <2>1. g.bars = f.bars
        BY <1>4, <1>5, <1>11
    <2>2. /\ f.bars # <<>> /\ m <= Len(f.bars) /\ Last(f.bars).openTime = b[m].openTime
          /\ \A j \in 1 .. m - 1 : f.bars[Len(f.bars) - j] = b[m - j]
        BY <1>3, <1>11 DEF Joins
    <2>3. Anew(g.bars, b[m])
        BY <2>1, <2>2 DEF Anew
    <2>4. Renewed(r, g.bars, b[m])
        <3>1. PICK x \in Seq(Bar), bar \in Bar : x = g.bars /\ bar = b[m]
            BY <1>7
        <3>2. /\ r \in Seq(Bar) /\ Len(r) = Len(x) /\ Len(r) >= 1 /\ r[Len(r)] = bar
              /\ \A i \in 1 .. Len(x) - 1 : r[i] = x[i]
            <4>1. r = FoldCandle(x, bar, CANDLE_DEPTH) /\ Anew(x, bar) /\ CANDLE_DEPTH \in Nat \ {0}
                BY <1>8, <2>3, <3>1, Depths
            <4> QED BY ONLY x \in Seq(Bar), bar \in Bar, <4>1, BarAnew
        <3> QED BY <3>1, <3>2 DEF Renewed
    <2>5. PICK h \in Nat : h = Len(f.bars)
        BY <1>7
    <2>6. Len(r) = h /\ r[h] = b[m] /\ \A i \in 1 .. h - 1 : r[i] = f.bars[i]
        BY <2>1, <2>4, <2>5 DEF Renewed
    <2>7. ASSUME NEW j \in 0 .. m - 1 PROVE r[h - j] = b[m - j]
        <3>1. CASE j = 0
            <4>1. h - j = h /\ m - j = m
                BY <1>4, <3>1
            <4> QED BY <2>6, <4>1
        <3>2. CASE j # 0
            <4>1. j \in 1 .. m - 1 /\ h - j \in 1 .. h - 1
                BY <2>2, <2>5, <3>2
            <4> QED BY <2>2, <2>5, <2>6, <4>1
        <3> QED BY <3>1, <3>2
    <2>8. EndsAt(r, b, m)
        BY <2>2, <2>5, <2>6, <2>7 DEF EndsAt
    <2> QED BY <1>9, <1>11, <2>8
<1>12. CASE m > k
    <2>1. Newer(g.bars, b[m])
        <3>1. CASE m = 1
            <4>1. k = 0 /\ g.bars = f.bars /\ b # <<>>
                BY <1>0, <1>4, <1>5, <1>12, <3>1
            <4> QED BY <3>1, <4>1 DEF Joins, Newer
        <3>2. CASE m # 1
            <4>1. m - 1 >= k /\ m - 1 >= 1 /\ m - 1 \in 1 .. n
                BY <1>4, <1>12, <3>2
            <4>2. EndsAt(g.bars, b, m - 1)
                BY <1>4, <1>5, <4>1
            <4>3. PICK h \in Nat : h = Len(g.bars) /\ h >= m - 1
                <5>1. Len(g.bars) \in Nat
                    BY <1>7
                <5>2. Len(g.bars) >= m - 1
                    BY <4>2 DEF EndsAt
                <5> QED BY <5>1, <5>2
            <4>4. 0 \in 0 .. (m - 1) - 1 /\ h - 0 = h /\ (m - 1) - 0 = m - 1
                BY <1>4, <4>1, <4>3
            <4>5. g.bars[h] = b[m - 1]
                BY <4>2, <4>3, <4>4 DEF EndsAt
            <4>6. Last(g.bars) = b[m - 1]
                BY <1>7, <4>3, <4>5 DEF Last
            <4>7. b[m - 1].openTime < b[m].openTime
                BY <1>0, <1>4, <4>1, RisingFar
            <4> QED BY <4>6, <4>7 DEF Newer
        <3> QED BY <3>1, <3>2
    <2>2. Grown(r, g.bars, b[m], CANDLE_DEPTH)
        BY <1>7, <1>8, <2>1, NewerBar, Depths
    <2>3. PICK h \in Nat : h = Len(g.bars)
        BY <1>7
    <2>4. PICK t \in Nat : t = (IF h + 1 <= CANDLE_DEPTH THEN h + 1 ELSE CANDLE_DEPTH)
        BY <2>3, Depths
    <2>5. Len(r) = t /\ r[t] = b[m] /\ \A j \in 1 .. t - 1 : r[t - j] = g.bars[h + 1 - j]
        BY <2>2, <2>3, <2>4 DEF Grown
    <2>6. CASE m = 1
        <3>1. t >= 1
            BY <2>4, Depths
        <3>2. ASSUME NEW j \in 0 .. m - 1 PROVE r[t - j] = b[m - j]
            <4>1. j = 0 /\ t - j = t /\ m - j = m
                BY <2>6
            <4> QED BY <2>5, <4>1
        <3>3. EndsAt(r, b, m)
            BY <2>5, <2>6, <3>1, <3>2 DEF EndsAt
        <3> QED BY <1>4, <1>9, <1>12, <3>3
    <2>7. CASE m # 1
        <3>1. m - 1 >= k /\ m - 1 >= 1
            BY <1>4, <1>12, <2>7
        <3>2. EndsAt(g.bars, b, m - 1)
            BY <1>4, <1>5, <3>1
        <3>3. h >= m - 1 /\ \A j \in 0 .. (m - 1) - 1 : g.bars[h - j] = b[(m - 1) - j]
            BY <2>3, <3>2 DEF EndsAt
        <3>4. t >= m
            BY <1>0, <1>4, <2>4, <3>3, Depths
        <3>5. ASSUME NEW j \in 0 .. m - 1 PROVE r[t - j] = b[m - j]
            <4>1. CASE j = 0
                <5>1. t - j = t /\ m - j = m
                    BY <1>4, <4>1
                <5> QED BY <2>5, <5>1
            <4>2. CASE j # 0
                <5>1. j \in 1 .. t - 1 /\ j - 1 \in 0 .. (m - 1) - 1 /\ h + 1 - j = h - (j - 1)
                      /\ (m - 1) - (j - 1) = m - j
                    BY ONLY SMTT(20), m \in Nat, t \in Nat, h \in Nat, j \in 0 .. m - 1, <3>4, <4>2
                <5> QED BY <2>5, <3>3, <5>1
            <4> QED BY <4>1, <4>2
        <3>6. EndsAt(r, b, m)
            BY <2>5, <3>4, <3>5 DEF EndsAt
        <3> QED BY <1>4, <1>9, <1>12, <3>6
    <2> QED BY <2>6, <2>7
<1> QED BY <1>4, <1>10, <1>11, <1>12

\* The bars that are handed over end a terminal that was behind them.
LEMMA BarsHandOver ==
    ASSUME NEW f, FeedOK(f), NEW b \in Seq(Bar), Rising(b), Len(b) <= CANDLE_DEPTH, Behind(f.bars, b),
           NEW s \in Seq(Event), Len(s) = Len(b),
           \A i \in 1 .. Len(b) : s[i] \in Event /\ s[i].kind = "Candle" /\ s[i].bar = b[i],
           NEW y, Course(y, f, s)
    PROVE  Ends(y[Len(s)].bars, b)
<1>1. PICK k \in 0 .. Len(b) : Joins(f.bars, b, k)
    BY DEF Behind
<1>2. PICK n \in Nat : n = Len(b)
    OBVIOUS
<1>3. CASE n = 0
    <2>1. y[0] = f
        BY DEF Course
    <2>2. Len(f.bars) \in Nat
        BY DEF FeedOK, FeedState
    <2> QED BY <1>2, <1>3, <2>1, <2>2 DEF Ends
<1>4. CASE n # 0
    <2>1. n \in 0 .. n /\ n >= k /\ n >= 1
        BY <1>2, <1>4
    <2>2. \A i \in 0 .. Len(b) : i >= k /\ i >= 1 => EndsAt(y[i].bars, b, i)
        BY <1>1, CourseOfBars
    <2>3. EndsAt(y[n].bars, b, n)
        BY <1>2, <2>1, <2>2
    <2> QED BY <1>2, <2>3 DEF Ends, EndsAt
<1> QED BY <1>3, <1>4

\* Of the pending bars none is newer than the read-model's last one, and the last of those
\* with its open time is it.
Stale(p, b) ==
    \A i \in 1 .. Len(p) : p[i].kind = "Candle" =>
        /\ b # <<>> /\ p[i].bar.openTime <= Last(b).openTime
        /\ p[i].bar.openTime = Last(b).openTime =>
             p[i].bar = Last(b) \/ \E j \in i + 1 .. Len(p) :
                 p[j].kind = "Candle" /\ p[j].bar.openTime = Last(b).openTime

\* z ends with b, but for what has formed of the last one.
EndsBut(z, b) ==
    /\ Len(z) >= Len(b) /\ z[Len(z)].openTime = b[Len(b)].openTime
    /\ \A j \in 1 .. Len(b) - 1 : z[Len(z) - j] = b[Len(b) - j]

\* Another bar of that open time, or an older one, changes nothing else.
LEMMA FoldStale ==
    ASSUME NEW z \in Seq(Bar), NEW b \in Seq(Bar), b # <<>>, EndsBut(z, b), NEW bar \in Bar,
           bar.openTime <= b[Len(b)].openTime, NEW r, r = FoldCandle(z, bar, CANDLE_DEPTH)
    PROVE  /\ EndsBut(r, b)
           /\ r[Len(r)] = IF bar.openTime = b[Len(b)].openTime THEN bar ELSE z[Len(z)]
<1>1. PICK n \in Nat, l \in Nat : n = Len(z) /\ l = Len(b) /\ l >= 1 /\ n >= l
    BY DEF EndsBut
<1>2. z # <<>> /\ Last(z) = z[n] /\ bar.openTime \in Int /\ b[l].openTime \in Int /\ z[n].openTime = b[l].openTime
    <2>1. b[l] \in Bar /\ z # <<>> /\ Last(z) = z[n]
        BY <1>1 DEF Last
    <2> QED BY <1>1, <2>1, BarTimes DEF EndsBut
<1>3. ~Newer(z, bar)
    BY <1>1, <1>2 DEF Newer
<1>4. CASE bar.openTime = b[l].openTime
    <2>1. Anew(z, bar)
        BY <1>2, <1>4 DEF Anew
    <2>2. Len(r) = n /\ r[n] = bar /\ \A i \in 1 .. n - 1 : r[i] = z[i]
        BY <1>1, <2>1, BarAnew, Depths
    <2>3. ASSUME NEW j \in 1 .. l - 1 PROVE r[n - j] = b[l - j]
        <3>1. n - j \in 1 .. n - 1
            BY <1>1
        <3> QED BY <1>1, <2>2, <3>1 DEF EndsBut
    <2> QED BY <1>1, <1>4, <2>2, <2>3 DEF EndsBut
<1>5. CASE bar.openTime # b[l].openTime
    <2>1. ~Anew(z, bar)
        BY <1>2, <1>5 DEF Anew
    <2>2. r = z
        BY <1>3, <2>1, OlderBar
    <2> QED BY <1>1, <1>5, <2>2
<1> QED BY <1>4, <1>5

\* Pending bars folded into bars that end with the read-model's change the last one at most,
\* and it is restored by the end of them.
LEMMA CourseOfStale ==
    ASSUME NEW f, FeedOK(f), NEW b \in Seq(Bar), b # <<>>, Ends(f.bars, b), NEW p \in Seq(Event), Stale(p, b),
           NEW y, Course(y, f, p)
    PROVE  \A i \in 0 .. Len(p) :
               /\ EndsBut(y[i].bars, b)
               /\ \/ y[i].bars[Len(y[i].bars)] = b[Len(b)]
                  \/ \E j \in i + 1 .. Len(p) : p[j].kind = "Candle" /\ p[j].bar.openTime = b[Len(b)].openTime
<1>0. PICK n \in Nat : n = Len(p)
    OBVIOUS
<1> DEFINE Later(i) == \E j \in i + 1 .. n : p[j].kind = "Candle" /\ p[j].bar.openTime = b[Len(b)].openTime
           P(i) == EndsBut(y[i].bars, b) /\ (y[i].bars[Len(y[i].bars)] = b[Len(b)] \/ Later(i))
           T    == {i \in 0 .. n : ~P(i)}
<1>1. SUFFICES ASSUME T # {} PROVE FALSE
    BY <1>0
<1>2. PICK m \in T : \A j \in T : m <= j
    <2>1. T \subseteq Nat
        OBVIOUS
    <2> HIDE DEF T
    <2> QED BY <1>1, <2>1, LeastNat
<1>3. PICK l \in Nat : l = Len(b) /\ l >= 1 /\ Last(b) = b[l] /\ b[l] \in Bar /\ b[l].openTime \in Int
    BY LastBar
<1>4. P(0)
    <2>1. y[0] = f
        BY DEF Course
    <2>2. PICK h \in Nat : h = Len(f.bars) /\ h >= l
        BY <1>3 DEF FeedOK, FeedState, Ends
    <2>3. 0 \in 0 .. l - 1 /\ h - 0 = h /\ l - 0 = l
        BY <1>3
    <2>4. f.bars[h] = b[l]
        BY <1>3, <2>2, <2>3 DEF Ends
    <2>5. EndsBut(f.bars, b)
        BY <1>3, <2>2, <2>4 DEF Ends, EndsBut
    <2> QED BY <1>3, <2>1, <2>2, <2>4, <2>5
<1>5. m \in 1 .. n /\ m - 1 \in 0 .. n /\ P(m - 1)
    <2>1. m # 0
        BY <1>2, <1>4
    <2>2. m \in 1 .. n /\ m - 1 \in 0 .. n /\ m - 1 \notin T
        BY <1>2, <2>1
    <2> QED BY <2>2
<1>6. PICK g, e : g = y[m - 1] /\ e = p[m] /\ y[m] = Applied(g, e) /\ e \in Event
    BY <1>0, <1>5 DEF Course
<1>7. FeedOK(g) /\ g.bars \in Seq(Bar)
    <2>1. FeedOK(g)
        BY <1>0, <1>5, <1>6, CourseOK
    <2> QED BY <2>1 DEF FeedOK, FeedState
<1>8. EndsBut(g.bars, b) /\ (g.bars[Len(g.bars)] = b[l] \/ Later(m - 1))
    BY <1>3, <1>5, <1>6
<1>9. Later(m - 1) => Later(m) \/ (e.kind = "Candle" /\ e.bar.openTime = b[l].openTime)
    <2>1. SUFFICES ASSUME NEW j \in (m - 1) + 1 .. n, p[j].kind = "Candle",
                          p[j].bar.openTime = b[Len(b)].openTime
                   PROVE  Later(m) \/ (e.kind = "Candle" /\ e.bar.openTime = b[l].openTime)
        OBVIOUS
    <2>2. CASE j = m
        BY <1>3, <1>6, <2>1, <2>2
    <2>3. CASE j # m
        <3>1. j \in m + 1 .. n
            BY <1>5, <2>3
        <3> QED BY <2>1, <3>1
    <2> QED BY <2>2, <2>3
<1>10. CASE e.kind = "Trade"
    <2>1. y[m].bars = g.bars
        BY <1>6, <1>7, <1>10, AppliedTrade
    <2>2. Later(m - 1) => Later(m)
        BY <1>9, <1>10
    <2> HIDE DEF Later
    <2>3. P(m)
        BY <1>3, <1>8, <2>1, <2>2
    <2> QED BY <1>2, <2>3
<1>11. CASE e.kind = "Candle"
    <2>1. e.bar \in Bar /\ e.bar.openTime \in Int
        BY <1>6, <1>11, EventKinds, BarTimes
    <2>2. PICK r : r = FoldCandle(g.bars, e.bar, CANDLE_DEPTH) /\ r = y[m].bars
        <3>1. Applied(g, e).bars = FoldCandle(g.bars, e.bar, CANDLE_DEPTH)
            BY <1>6, <1>7, <1>11, AppliedCandle
        <3> QED BY <1>6, <3>1
    <2>3. e.bar.openTime <= b[l].openTime /\ (e.bar.openTime = b[l].openTime => e.bar = b[l] \/ Later(m))
        BY <1>0, <1>3, <1>5, <1>6, <1>11 DEF Stale
    <2>4. EndsBut(r, b) /\ r[Len(r)] = IF e.bar.openTime = b[l].openTime THEN e.bar ELSE g.bars[Len(g.bars)]
        <3>1. PICK x \in Seq(Bar), bar \in Bar : x = g.bars /\ bar = e.bar
            BY <1>7, <2>1
        <3>2. EndsBut(x, b) /\ bar.openTime <= b[Len(b)].openTime /\ r = FoldCandle(x, bar, CANDLE_DEPTH)
            BY <1>3, <1>8, <2>2, <2>3, <3>1
        <3>3. /\ EndsBut(r, b)
              /\ r[Len(r)] = IF bar.openTime = b[Len(b)].openTime THEN bar ELSE x[Len(x)]
            BY ONLY x \in Seq(Bar), bar \in Bar, b \in Seq(Bar), b # <<>>, <3>2, FoldStale
        <3> QED BY <1>3, <3>1, <3>3
    <2> HIDE DEF Later
    <2>5. r[Len(r)] = b[l] \/ Later(m)
        BY <1>8, <1>9, <2>3, <2>4
    <2>6. P(m)
        BY <1>3, <2>2, <2>4, <2>5
    <2> QED BY <1>2, <2>6
<1> QED BY <1>6, <1>10, <1>11, EventKinds

\* And so those end with the read-model's when all that is pending is forwarded.
LEMMA StaleEnds ==
    ASSUME NEW f, FeedOK(f), NEW b \in Seq(Bar), Ends(f.bars, b), NEW p \in Seq(Event), Stale(p, b),
           NEW y, Course(y, f, p)
    PROVE  Ends(y[Len(p)].bars, b)
<1>1. PICK n \in Nat : n = Len(p) /\ n \in 0 .. n
    OBVIOUS
<1>2. PICK x \in Seq(Bar) : x = y[n].bars
    <2>1. FeedOK(y[n])
        BY <1>1, CourseOK
    <2> QED BY <2>1 DEF FeedOK, FeedState
<1>3. CASE b = <<>>
    BY <1>1, <1>2, <1>3 DEF Ends
<1>4. CASE b # <<>>
    <2>1. /\ EndsBut(x, b)
          /\ \/ x[Len(x)] = b[Len(b)]
             \/ \E j \in n + 1 .. n : p[j].kind = "Candle" /\ p[j].bar.openTime = b[Len(b)].openTime
        BY <1>1, <1>2, <1>4, CourseOfStale
    <2>2. x[Len(x)] = b[Len(b)]
        <3>1. n + 1 .. n = {}
            OBVIOUS
        <3> QED BY <2>1, <3>1
    <2>3. PICK h \in Nat, l \in Nat : h = Len(x) /\ l = Len(b) /\ l >= 1 /\ h >= l
        BY <1>4, <2>1 DEF EndsBut
    <2>4. ASSUME NEW j \in 0 .. l - 1 PROVE x[h - j] = b[l - j]
        <3>1. CASE j = 0
            BY <2>2, <2>3, <3>1
        <3>2. CASE j # 0
            <4>1. j \in 1 .. l - 1
                BY <3>2
            <4> QED BY <2>1, <2>3, <4>1 DEF EndsBut
        <3> QED BY <3>1, <3>2
    <2> QED BY <1>1, <1>2, <2>3, <2>4 DEF Ends
<1> QED BY <1>3, <1>4

\* What ends with the bars when all is forwarded was behind them all along.
LEMMA CourseBehind ==
    ASSUME NEW f, FeedOK(f), NEW b \in Seq(Bar), NEW p \in Seq(Event), NEW y, Course(y, f, p),
           Behind(y[Len(p)].bars, b)
    PROVE  \A i \in 0 .. Len(p) : Behind(y[i].bars, b)
<1>0. PICK n \in Nat : n = Len(p)
    OBVIOUS
<1> DEFINE T == {i \in 0 .. n : ~Behind(y[n - i].bars, b)}
<1>1. SUFFICES ASSUME T # {} PROVE FALSE
    <2>1. SUFFICES ASSUME T = {} PROVE \A i \in 0 .. n : Behind(y[i].bars, b)
        BY <1>0
    <2>2. TAKE i \in 0 .. n
    <2>3. n - i \in 0 .. n /\ n - (n - i) = i
        OBVIOUS
    <2> QED BY <2>1, <2>3
<1>2. PICK m \in T : \A j \in T : m <= j
    <2>1. T \subseteq Nat
        OBVIOUS
    <2> HIDE DEF T
    <2> QED BY <1>1, <2>1, LeastNat
<1>3. m # 0
    <2>1. n - 0 = n
        OBVIOUS
    <2> QED BY <1>0, <1>2, <2>1
<1>4. PICK k \in 1 .. n : /\ k = n - m + 1 /\ Behind(y[k].bars, b) /\ ~Behind(y[k - 1].bars, b)
                          /\ k - 1 \in 0 .. n
    <2>1. m \in 1 .. n /\ m - 1 \in 0 .. n /\ m - 1 \notin T
        <3>1. m \in 0 .. n
            OBVIOUS
        <3> HIDE DEF T
        <3>2. m \in 1 .. n /\ m - 1 \in 0 .. n /\ ~(m <= m - 1)
            BY <1>3, <3>1
        <3> QED BY <1>2, <3>2
    <2>2. n - (m - 1) = n - m + 1 /\ n - m = (n - m + 1) - 1 /\ n - m + 1 \in 1 .. n
          /\ (n - m + 1) - 1 \in 0 .. n
        BY <2>1
    <2>3. Behind(y[n - m + 1].bars, b) /\ ~Behind(y[(n - m + 1) - 1].bars, b)
        BY <1>2, <2>1, <2>2
    <2> QED BY <2>2, <2>3
<1>5. PICK g, e : g = y[k - 1] /\ e = p[k] /\ y[k] = Applied(g, e) /\ e \in Event
    BY <1>0, <1>4 DEF Course
<1>6. FeedOK(g) /\ g.bars \in Seq(Bar)
    <2>1. FeedOK(g)
        BY <1>0, <1>4, <1>5, CourseOK
    <2> QED BY <2>1 DEF FeedOK, FeedState
<1>7. CASE e.kind = "Trade"
    <2>1. y[k].bars = g.bars
        BY <1>5, <1>6, <1>7, AppliedTrade
    <2> QED BY <1>4, <1>5, <2>1
<1>8. CASE e.kind = "Candle"
    <2>1. PICK x \in Seq(Bar), bar \in Bar : x = g.bars /\ bar = e.bar
        BY <1>5, <1>6, <1>8, EventKinds
    <2>2. PICK r : r = FoldCandle(x, bar, CANDLE_DEPTH) /\ r = y[k].bars
        <3>1. Applied(g, e).bars = FoldCandle(g.bars, e.bar, CANDLE_DEPTH)
            BY <1>5, <1>6, <1>8, AppliedCandle
        <3> QED BY <1>5, <2>1, <3>1
    <2>3. Behind(r, b) /\ CANDLE_DEPTH \in Nat \ {0}
        BY <1>4, <2>2, Depths
    <2>4. Behind(x, b)
        BY ONLY x \in Seq(Bar), bar \in Bar, b \in Seq(Bar), <2>2, <2>3, BehindBefore
    <2> QED BY <1>4, <1>5, <2>1, <2>4
<1> QED BY <1>5, <1>7, <1>8, EventKinds

\* What is pending is no newer for lack of its first events.
LEMMA StaleLess ==
    ASSUME NEW r, NEW p, NEW k, Without(r, p, k), NEW b, Stale(p, b)
    PROVE  Stale(r, b)
<1>1. PICK n \in Nat, m \in Nat : n = Len(p) /\ m = Len(r) /\ k \in 0 .. n /\ m = n - k
    BY DEF Without
<1>2. \A i \in 1 .. m : r[i] = p[i + k] /\ i + k \in 1 .. n
    BY <1>1 DEF Without
<1>3. SUFFICES ASSUME NEW i \in 1 .. m, r[i].kind = "Candle"
               PROVE  /\ b # <<>> /\ r[i].bar.openTime <= Last(b).openTime
                      /\ r[i].bar.openTime = Last(b).openTime =>
                           r[i].bar = Last(b) \/ \E j \in i + 1 .. m :
                               r[j].kind = "Candle" /\ r[j].bar.openTime = Last(b).openTime
    BY <1>1 DEF Stale
<1>4. /\ b # <<>> /\ p[i + k].bar.openTime <= Last(b).openTime
      /\ p[i + k].bar.openTime = Last(b).openTime =>
           p[i + k].bar = Last(b) \/ \E j \in (i + k) + 1 .. n :
               p[j].kind = "Candle" /\ p[j].bar.openTime = Last(b).openTime
    BY <1>1, <1>2, <1>3 DEF Stale
<1>5. ASSUME NEW j \in (i + k) + 1 .. n, p[j].kind = "Candle", p[j].bar.openTime = Last(b).openTime
      PROVE  \E h \in i + 1 .. m : r[h].kind = "Candle" /\ r[h].bar.openTime = Last(b).openTime
    <2>1. j - k \in i + 1 .. m /\ j - k \in 1 .. m /\ (j - k) + k = j
        BY <1>1
    <2>2. r[j - k] = p[j]
        BY <1>2, <2>1
    <2> QED BY <1>5, <2>1, <2>2
<1> QED BY <1>2, <1>4, <1>5

\* The read-model folds a bar before it is sent.
LEMMA StaleMore ==
    ASSUME NEW p \in Seq(Event), NEW b \in Seq(Bar), Stale(p, b), NEW e \in Event, e.kind = "Candle",
           NEW v, v = FoldCandle(b, e.bar, HISTORY)
    PROVE  Stale(Append(p, e), v)
<1>1. PICK n \in Nat : n = Len(p)
    OBVIOUS
<1>2. PICK u : u = Append(p, e)
    OBVIOUS
<1>3. Len(u) = n + 1 /\ u[n + 1] = e /\ \A i \in 1 .. n : u[i] = p[i] /\ p[i] \in Event
    <2>1. /\ Len(Append(p, e)) = Len(p) + 1 /\ Append(p, e)[Len(p) + 1] = e
          /\ \A i \in 1 .. Len(p) : Append(p, e)[i] = p[i]
        BY AppendFacts
    <2>2. \A i \in 1 .. n : p[i] \in Event
        BY <1>1
    <2> QED BY ONLY <1>1, <1>2, <2>1, <2>2
<1>4. PICK bar \in Bar : bar = e.bar /\ bar.openTime \in Int
    BY EventKinds, BarTimes
<1>5. /\ v # <<>> /\ Last(v).openTime \in Int /\ bar.openTime <= Last(v).openTime
      /\ (bar.openTime = Last(v).openTime => Last(v) = bar)
      /\ (b # <<>> => Last(b).openTime <= Last(v).openTime /\ Last(b).openTime \in Int
                      /\ (Last(b).openTime = Last(v).openTime =>
                            bar.openTime = Last(v).openTime \/ Last(v) = Last(b)))
    <2>1. \/ Newer(b, bar) /\ Grown(v, b, bar, HISTORY)
          \/ Anew(b, bar) /\ Renewed(v, b, bar)
          \/ b # <<>> /\ v = b /\ bar.openTime < Last(b).openTime
        BY <1>4, FoldCases, Depths
    <2>2. b # <<>> => Last(b).openTime \in Int
        BY LastBar
    <2>3. CASE Newer(b, bar) /\ Grown(v, b, bar, HISTORY)
        <3>1. v # <<>> /\ Last(v) = bar
            BY <2>3 DEF Grown, Last
        <3> QED BY <1>4, <2>2, <2>3, <3>1 DEF Newer
    <2>4. CASE Anew(b, bar) /\ Renewed(v, b, bar)
        <3>1. v # <<>> /\ Last(v) = bar
            BY <2>4 DEF Renewed, Last
        <3> QED BY <1>4, <2>2, <2>4, <3>1 DEF Anew
    <2>5. CASE b # <<>> /\ v = b /\ bar.openTime < Last(b).openTime
        BY <1>4, <2>2, <2>5
    <2> QED BY <2>1, <2>3, <2>4, <2>5
<1>6. SUFFICES ASSUME NEW i \in 1 .. n + 1, u[i].kind = "Candle"
               PROVE  /\ v # <<>> /\ u[i].bar.openTime <= Last(v).openTime
                      /\ u[i].bar.openTime = Last(v).openTime =>
                           u[i].bar = Last(v) \/ \E j \in i + 1 .. n + 1 :
                               u[j].kind = "Candle" /\ u[j].bar.openTime = Last(v).openTime
    BY <1>2, <1>3 DEF Stale
<1>7. CASE i = n + 1
    BY <1>3, <1>4, <1>5, <1>7
<1>8. CASE i # n + 1
    <2>1. i \in 1 .. n /\ u[i] = p[i] /\ p[i] \in Event /\ n + 1 \in i + 1 .. n + 1
        BY <1>3, <1>8
    <2>2. PICK x \in Bar : x = u[i].bar /\ x.openTime \in Int
        BY <1>6, <2>1, EventKinds, BarTimes
    <2>3. /\ b # <<>> /\ x.openTime <= Last(b).openTime
          /\ x.openTime = Last(b).openTime =>
               x = Last(b) \/ \E j \in i + 1 .. n :
                   p[j].kind = "Candle" /\ p[j].bar.openTime = Last(b).openTime
        BY <1>1, <1>6, <2>1, <2>2 DEF Stale
    <2>4. x.openTime <= Last(v).openTime
        BY <1>5, <2>2, <2>3
    <2>5. ASSUME x.openTime = Last(v).openTime
          PROVE  x = Last(v) \/ \E j \in i + 1 .. n + 1 :
                     u[j].kind = "Candle" /\ u[j].bar.openTime = Last(v).openTime
        <3>1. x.openTime = Last(b).openTime /\ Last(b).openTime = Last(v).openTime
            BY <1>5, <2>2, <2>3, <2>5
        <3>2. CASE bar.openTime = Last(v).openTime
            BY <1>3, <1>4, <2>1, <3>2
        <3>3. CASE Last(v) = Last(b)
            <4>1. ASSUME NEW j \in i + 1 .. n, p[j].kind = "Candle", p[j].bar.openTime = Last(b).openTime
                  PROVE  \E h \in i + 1 .. n + 1 :
                             u[h].kind = "Candle" /\ u[h].bar.openTime = Last(v).openTime
                <5>1. j \in i + 1 .. n + 1 /\ j \in 1 .. n
                    BY <2>1
                <5> QED BY <1>3, <3>1, <4>1, <5>1
            <4> QED BY <2>3, <3>1, <3>3, <4>1
        <3> QED BY <1>5, <2>3, <3>1, <3>2, <3>3
    <2> QED BY <1>5, <2>2, <2>4, <2>5
<1> QED BY <1>7, <1>8

\* A print pending says nothing of bars.
LEMMA StaleOther ==
    ASSUME NEW p \in Seq(Event), NEW b, Stale(p, b), NEW e \in Event, e.kind = "Trade"
    PROVE  Stale(Append(p, e), b)
<1>1. PICK n \in Nat : n = Len(p)
    OBVIOUS
<1>2. PICK u : u = Append(p, e)
    OBVIOUS
<1>3. Len(u) = n + 1 /\ u[n + 1] = e /\ \A i \in 1 .. n : u[i] = p[i]
    <2>1. /\ Len(Append(p, e)) = Len(p) + 1 /\ Append(p, e)[Len(p) + 1] = e
          /\ \A i \in 1 .. Len(p) : Append(p, e)[i] = p[i]
        BY AppendFacts
    <2> QED BY ONLY <1>1, <1>2, <2>1
<1>4. SUFFICES ASSUME NEW i \in 1 .. n + 1, u[i].kind = "Candle"
               PROVE  /\ b # <<>> /\ u[i].bar.openTime <= Last(b).openTime
                      /\ u[i].bar.openTime = Last(b).openTime =>
                           u[i].bar = Last(b) \/ \E j \in i + 1 .. n + 1 :
                               u[j].kind = "Candle" /\ u[j].bar.openTime = Last(b).openTime
    BY <1>2, <1>3 DEF Stale
<1>5. i \in 1 .. n /\ u[i] = p[i]
    BY <1>3, <1>4
<1>6. /\ b # <<>> /\ p[i].bar.openTime <= Last(b).openTime
      /\ p[i].bar.openTime = Last(b).openTime =>
           p[i].bar = Last(b) \/ \E j \in i + 1 .. n :
               p[j].kind = "Candle" /\ p[j].bar.openTime = Last(b).openTime
    BY <1>1, <1>4, <1>5 DEF Stale
<1>7. ASSUME NEW j \in i + 1 .. n, p[j].kind = "Candle", p[j].bar.openTime = Last(b).openTime
      PROVE  \E h \in i + 1 .. n + 1 : u[h].kind = "Candle" /\ u[h].bar.openTime = Last(b).openTime
    <2>1. j \in i + 1 .. n + 1 /\ j \in 1 .. n
        BY <1>5
    <2> QED BY <1>3, <1>7, <2>1
<1> QED BY <1>5, <1>6, <1>7

\* A course goes on with one more event.
LEMMA CourseMore ==
    ASSUME NEW f, NEW p \in Seq(Event), NEW y, Course(y, f, p), NEW e \in Event
    PROVE  \E z : Course(z, f, Append(p, e)) /\ z[Len(Append(p, e))] = Applied(y[Len(p)], e)
<1>1. PICK n \in Nat : n = Len(p)
    OBVIOUS
<1>2. PICK u : u = Append(p, e)
    OBVIOUS
<1>3. Len(u) = n + 1 /\ u[n + 1] = e /\ \A i \in 1 .. n : u[i] = p[i]
    <2>1. /\ Len(Append(p, e)) = Len(p) + 1 /\ Append(p, e)[Len(p) + 1] = e
          /\ \A i \in 1 .. Len(p) : Append(p, e)[i] = p[i]
        BY AppendFacts
    <2> QED BY ONLY <1>1, <1>2, <2>1
<1>4. PICK g : g = Applied(y[n], e)
    OBVIOUS
<1> DEFINE z == [i \in 0 .. n + 1 |-> IF i <= n THEN y[i] ELSE g]
<1>5. z[n + 1] = g /\ \A i \in 0 .. n : z[i] = y[i]
    OBVIOUS
<1> HIDE DEF z
<1>6. z[0] = f
    <2>1. 0 \in 0 .. n
        OBVIOUS
    <2> QED BY <1>5, <2>1 DEF Course
<1>7. ASSUME NEW i \in 1 .. n + 1 PROVE z[i] = Applied(z[i - 1], u[i])
    <2>1. CASE i = n + 1
        <3>1. i - 1 = n /\ n \in 0 .. n
            BY <2>1
        <3> QED BY <1>3, <1>4, <1>5, <2>1, <3>1
    <2>2. CASE i # n + 1
        <3>1. i \in 1 .. n /\ i \in 0 .. n /\ i - 1 \in 0 .. n
            BY <2>2
        <3>2. y[i] = Applied(y[i - 1], p[i])
            BY <1>1, <3>1 DEF Course
        <3> QED BY <1>3, <1>5, <3>1, <3>2
    <2> QED BY <2>1, <2>2
<1>8. Course(z, f, u)
    BY <1>3, <1>6, <1>7 DEF Course
<1> QED BY <1>1, <1>2, <1>3, <1>4, <1>5, <1>8

\* And begins later with one event less.
LEMMA CourseLess ==
    ASSUME NEW f, NEW p, NEW y, Course(y, f, p), NEW r, Without(r, p, 1)
    PROVE  \E z : Course(z, Applied(f, p[1]), r) /\ z[Len(r)] = y[Len(p)]
<1>1. PICK n \in Nat, m \in Nat : n = Len(p) /\ m = Len(r) /\ n = m + 1
    BY DEF Without
<1>2. \A i \in 1 .. m : r[i] = p[i + 1]
    BY <1>1 DEF Without
<1> DEFINE z == [i \in 0 .. m |-> y[i + 1]]
<1>3. \A i \in 0 .. m : z[i] = y[i + 1]
    OBVIOUS
<1> HIDE DEF z
<1>4. z[0] = Applied(f, p[1])
    <2>1. 0 \in 0 .. m /\ 0 + 1 = 1 /\ 1 \in 1 .. n /\ 1 - 1 = 0
        BY <1>1
    <2>2. y[1] = Applied(y[1 - 1], p[1]) /\ y[0] = f
        BY <1>1, <2>1 DEF Course
    <2> QED BY <1>3, <2>1, <2>2
<1>5. ASSUME NEW i \in 1 .. m PROVE z[i] = Applied(z[i - 1], r[i])
    <2>1. i \in 0 .. m /\ i - 1 \in 0 .. m /\ i + 1 \in 1 .. n /\ (i - 1) + 1 = i /\ (i + 1) - 1 = i
        BY <1>1
    <2>2. y[i + 1] = Applied(y[(i + 1) - 1], p[i + 1])
        BY <1>1, <2>1 DEF Course
    <2> QED BY <1>2, <1>3, <2>1, <2>2
<1>6. z[m] = y[n]
    <2>1. m \in 0 .. m /\ m + 1 = n
        BY <1>1
    <2> QED BY <1>3, <2>1
<1> QED BY <1>1, <1>4, <1>5, <1>6 DEF Course

BarsSent == stage = "select" /\ session.subscribed

\* All that is pending brings the terminal the bars of the read-model, if it has been handed
\* them, and they go on from its own in any case.
BarInv == ~lagged => /\ Stale(Pending, held.bars) /\ Behind(feed.bars, held.bars)
                     /\ (BarsSent => \E y : Course(y, feed, Pending)
                                            /\ Ends(y[Len(Pending)].bars, held.bars))

\* Most steps leave the read-model and the terminal's bars alone, and at most forget what is
\* pending.
LEMMA BarsKept ==
    ASSUME BarInv, ~lagged' => ~lagged, held' = held, ~lagged' => feed'.bars = feed.bars,
           ~lagged' => \E k \in 0 .. Len(Pending) :
               Without(Pending', Pending, k)
               /\ (BarsSent' => BarsSent /\ k = 0 /\ feed' = feed)
    PROVE  BarInv'
<1>1. SUFFICES ASSUME ~lagged'
               PROVE  /\ Stale(Pending', held.bars) /\ Behind(feed'.bars, held.bars)
                      /\ (BarsSent' => \E y : Course(y, feed', Pending')
                                              /\ Ends(y[Len(Pending')].bars, held.bars))
    BY DEF BarInv
<1>2. /\ Stale(Pending, held.bars) /\ Behind(feed.bars, held.bars)
      /\ (BarsSent => \E y : Course(y, feed, Pending) /\ Ends(y[Len(Pending)].bars, held.bars))
    BY <1>1 DEF BarInv
<1>3. PICK k \in 0 .. Len(Pending) : Without(Pending', Pending, k)
          /\ (BarsSent' => BarsSent /\ k = 0 /\ feed' = feed)
    BY <1>1
<1>4. Stale(Pending', held.bars)
    BY <1>2, <1>3, StaleLess
<1>5. ASSUME BarsSent' PROVE \E y : Course(y, feed', Pending') /\ Ends(y[Len(Pending')].bars, held.bars)
    <2>1. PICK y : Course(y, feed, Pending) /\ Ends(y[Len(Pending)].bars, held.bars)
        BY <1>2, <1>3, <1>5
    <2>2. Without(Pending', Pending, 0) /\ feed' = feed
        BY <1>3, <1>5
    <2>3. PICK n \in Nat : n = Len(Pending) /\ n = Len(Pending')
        BY <2>2 DEF Without
    <2>4. \A i \in 1 .. n : Pending'[i] = Pending[i]
        BY <2>2, <2>3 DEF Without
    <2>5. Course(y, feed', Pending')
        BY <2>1, <2>2, <2>3, <2>4 DEF Course
    <2> QED BY <2>1, <2>3, <2>5
<1> QED BY <1>1, <1>2, <1>4, <1>5

\* The shapes of what the steps below are about.
LEMMA BarFacts ==
    ASSUME Charted
    PROVE  /\ FeedOK(feed) /\ feed.bars \in Seq(Bar) /\ Len(feed.bars) <= CANDLE_DEPTH
           /\ held \in [bars : Seq(Bar), tape : Seq(PublicTrade)]
           /\ held.bars \in Seq(Bar) /\ Len(held.bars) <= HISTORY /\ Len(held.bars) <= CANDLE_DEPTH
           /\ Rising(held.bars) /\ Pending \in Seq(Event) /\ Len(Pending) \in Nat
<1>1. ChartingTypeOK /\ FeedOK(feed) /\ Rising(held.bars)
    BY SameFeedCharted DEF Charted, InOrder
<1>2. held \in [bars : Seq(Bar), tape : Seq(PublicTrade)] /\ Len(held.bars) <= HISTORY
    BY <1>1 DEF ChartingTypeOK
<1>3. Len(held.bars) \in Nat
    BY <1>2
<1>4. Len(held.bars) <= CANDLE_DEPTH
    BY <1>2, <1>3, Depths
<1>5. Pending \in Seq(Event) /\ Len(Pending) \in Nat
    BY PendingFacts
<1> QED BY <1>1, <1>2, <1>4, <1>5 DEF FeedOK, FeedState

\* The session hands the bars over: the terminal ends with the read-model's, and bars pending
\* from before cannot take it back.
LEMMA HandCandlesBars ==
    ASSUME Charted, BarInv, HandCandles
    PROVE  BarInv'
<1>1. UNCHANGED <<held, inHand, queue, session, lagged>> /\ stage' = "select"
    BY DEF HandCandles, coreVars
<1>2. Without(Pending', Pending, 0) /\ Pending' = Pending
    BY <1>1, SamePending
<1>3. CASE ~session.subscribed
    <2>1. 0 \in 0 .. Len(Pending)
        BY <1>2 DEF Without
    <2>2. ~BarsSent'
        BY <1>1, <1>3 DEF BarsSent
    <2>3. feed' = feed
        BY <1>3 DEF HandCandles
    <2> QED BY <1>1, <1>2, <2>1, <2>2, <2>3, BarsKept
<1>4. CASE session.subscribed
    <2>1. feed' = AppliedAll(feed, Column(held.bars, Candle))
        BY <1>4 DEF HandCandles
    <2>2. SUFFICES ASSUME ~lagged
                   PROVE  /\ Stale(Pending, held.bars) /\ Behind(feed'.bars, held.bars)
                          /\ \E y : Course(y, feed', Pending) /\ Ends(y[Len(Pending)].bars, held.bars)
        BY <1>1, <1>2 DEF BarInv
    <2>3. Stale(Pending, held.bars) /\ Behind(feed.bars, held.bars)
        BY <2>2 DEF BarInv
    <2>4. PICK b \in Seq(Bar) : b = held.bars /\ Rising(b) /\ Len(b) <= CANDLE_DEPTH
        BY BarFacts
    <2>5. PICK s : s = Column(held.bars, Candle)
        OBVIOUS
    <2>6. /\ s \in Seq(Event) /\ Len(s) = Len(b)
          /\ \A i \in 1 .. Len(b) : s[i] \in Event /\ s[i].kind = "Candle" /\ s[i].bar = b[i]
        <3>1. held \in [bars : Seq(Bar), tape : Seq(PublicTrade)]
            BY BarFacts
        <3>2. /\ s \in Seq(Event) /\ Len(s) = Len(b)
              /\ \A i \in 1 .. Len(b) : s[i].kind = "Candle" /\ s[i].bar = b[i]
            BY ONLY <2>4, <2>5, <3>1, HandedEvents
        <3> QED BY <3>2
    <2>7. PICK y : Course(y, feed, s) /\ feed' = y[Len(s)]
        BY <2>1, <2>5, <2>6, AppliedInOrder
    <2>8. FeedOK(feed)
        BY BarFacts
    <2>9. Ends(feed'.bars, b)
        BY <2>3, <2>4, <2>6, <2>7, <2>8, BarsHandOver
    <2>10. FeedOK(feed') /\ feed'.bars \in Seq(Bar)
        <3>1. FeedOK(feed')
            BY <2>1, CandlesHanded
        <3> QED BY <3>1 DEF FeedOK, FeedState
    <2>11. Behind(feed'.bars, b)
        BY <2>9, <2>10, EndsBehind
    <2>12. Pending \in Seq(Event)
        BY BarFacts
    <2>13. PICK z : Course(z, feed', Pending)
        BY <2>12, AppliedInOrder
    <2>14. Ends(z[Len(Pending)].bars, b)
        BY <2>3, <2>4, <2>9, <2>10, <2>12, <2>13, StaleEnds
    <2> QED BY <2>3, <2>4, <2>11, <2>13, <2>14
<1> QED BY <1>3, <1>4

\* The session forwards an event, and the bars are followed.
LEMMA ForwardBars ==
    ASSUME Charted, BarInv, Forward
    PROVE  BarInv'
<1>1. UNCHANGED <<held, inHand, stage, session, lagged>> /\ stage = "select"
    BY DEF Forward, coreVars
<1>2. CASE missed
    <2>1. UNCHANGED <<queue, feed>>
        BY <1>2 DEF Forward
    <2>2. Without(Pending', Pending, 0)
        BY <1>1, <2>1, SamePending
    <2>3. 0 \in 0 .. Len(Pending)
        BY <2>2 DEF Without
    <2>4. BarsSent' = BarsSent
        BY <1>1 DEF BarsSent
    <2> QED BY <1>1, <2>1, <2>2, <2>3, <2>4, BarsKept
<1>3. CASE ~missed
    <2>1. queue # <<>> /\ queue' = Tail(queue)
        BY <1>3 DEF Forward
    <2>2. Without(Pending', Pending, 1) /\ Pending[1] = Head(queue) /\ Len(Pending) >= 1
        BY <1>1, <2>1, ForwardedPending
    <2>3. CASE ~session.subscribed
        <3>1. feed' = feed
            BY <1>3, <2>3 DEF Forward
        <3>2. 1 \in 0 .. Len(Pending)
            BY <2>2 DEF Without
        <3>3. ~BarsSent'
            BY <1>1, <2>3 DEF BarsSent
        <3> QED BY <1>1, <2>2, <3>1, <3>2, <3>3, BarsKept
    <2>4. CASE session.subscribed
        <3>1. PICK e : e = Pending[1] /\ e \in Event /\ feed' = Applied(feed, e)
            <4>1. 1 \in 1 .. Len(Pending) /\ Pending \in Seq(Event)
                BY <2>2, BarFacts
            <4>2. Pending[1] \in Event
                BY <4>1
            <4> QED BY <1>3, <2>2, <2>4, <4>2 DEF Forward
        <3>2. SUFFICES ASSUME ~lagged
                       PROVE  /\ Stale(Pending', held.bars) /\ Behind(feed'.bars, held.bars)
                              /\ \E y : Course(y, feed', Pending') /\ Ends(y[Len(Pending')].bars, held.bars)
            BY <1>1 DEF BarInv
        <3>3. PICK y : Course(y, feed, Pending) /\ Ends(y[Len(Pending)].bars, held.bars)
            BY <1>1, <2>4, <3>2 DEF BarInv, BarsSent
        <3>4. Stale(Pending', held.bars)
            BY <2>2, <3>2, StaleLess DEF BarInv
        <3>5. PICK z : Course(z, feed', Pending') /\ z[Len(Pending')] = y[Len(Pending)]
            BY <2>2, <3>1, <3>3, CourseLess
        <3>6. FeedOK(feed') /\ held.bars \in Seq(Bar)
            BY <3>1, BarFacts, AppliedOK
        <3>7. PICK r \in Seq(Event) : r = Pending' /\ Len(r) \in 0 .. Len(r) /\ 0 \in 0 .. Len(r)
            BY <2>2 DEF Without
        <3>8. z[Len(r)].bars \in Seq(Bar)
            <4>1. FeedOK(z[Len(r)])
                BY <3>5, <3>6, <3>7, CourseOK
            <4> QED BY <4>1 DEF FeedOK, FeedState
        <3>9. Behind(z[Len(r)].bars, held.bars)
            BY <3>3, <3>5, <3>6, <3>7, <3>8, EndsBehind
        <3>10. Behind(z[0].bars, held.bars)
            BY <3>5, <3>6, <3>7, <3>9, CourseBehind
        <3>11. z[0] = feed'
            BY <3>5 DEF Course
        <3> QED BY <3>3, <3>4, <3>5, <3>10, <3>11
    <2> QED BY <2>3, <2>4
<1> QED BY <1>2, <1>3

\* The read-model folds an event, and the bars are followed when it has been forwarded.
LEMMA PumpFoldsBars ==
    ASSUME Charted, BarInv, PumpFolds
    PROVE  BarInv'
<1>1. PICK e \in Event : /\ Pending' = Append(Pending, e) /\ held' = Kept(held, e) /\ e = sink[1]
                         /\ UNCHANGED <<stage, session, feed, lagged>>
    BY FoldedPending
<1>2. SUFFICES ASSUME ~lagged
               PROVE  /\ Stale(Append(Pending, e), held'.bars) /\ Behind(feed.bars, held'.bars)
                      /\ (BarsSent => \E y : Course(y, feed, Append(Pending, e))
                                             /\ Ends(y[Len(Append(Pending, e))].bars, held'.bars))
    BY <1>1 DEF BarInv, BarsSent
<1>3. /\ Stale(Pending, held.bars) /\ Behind(feed.bars, held.bars)
      /\ (BarsSent => \E y : Course(y, feed, Pending) /\ Ends(y[Len(Pending)].bars, held.bars))
    BY <1>2 DEF BarInv
<1>4. PICK p \in Seq(Event), b \in Seq(Bar), n \in Nat :
          p = Pending /\ b = held.bars /\ n = Len(p) /\ Len(b) <= HISTORY /\ Rising(b) /\ n \in 0 .. n
    BY BarFacts
<1>5. held \in [bars : Seq(Bar), tape : Seq(PublicTrade)] /\ FeedOK(feed) /\ feed.bars \in Seq(Bar)
    BY BarFacts
<1>6. CASE e.kind = "Trade"
    <2>1. held'.bars = b
        BY <1>1, <1>4, <1>5, <1>6 DEF Kept
    <2>2. Stale(Append(p, e), b)
        BY <1>3, <1>4, <1>6, StaleOther
    <2>3. ASSUME NEW y, Course(y, feed, p), Ends(y[n].bars, b)
          PROVE  \E z : Course(z, feed, Append(p, e)) /\ Ends(z[Len(Append(p, e))].bars, b)
        <3>1. PICK z : Course(z, feed, Append(p, e)) /\ z[Len(Append(p, e))] = Applied(y[n], e)
            BY <1>4, <2>3, CourseMore
        <3>2. FeedOK(y[n])
            BY <1>4, <1>5, <2>3, CourseOK
        <3>3. Applied(y[n], e).bars = y[n].bars
            BY <1>6, <3>2, AppliedTrade
        <3> QED BY <2>3, <3>1, <3>3
    <2> QED BY <1>3, <1>4, <2>1, <2>2, <2>3
<1>7. CASE e.kind = "Candle"
    <2>1. PICK bar \in Bar : bar = e.bar
        BY <1>7, EventKinds
    <2>2. PICK v : v = FoldCandle(b, bar, HISTORY)
        OBVIOUS
    <2>3. held'.bars = v
        <3>1. held' = [held EXCEPT !.bars = v]
            BY <1>1, <1>4, <1>7, <2>1, <2>2 DEF Kept
        <3> QED BY <1>5, <3>1
    <2>4. Stale(Append(p, e), v)
        BY <1>3, <1>4, <1>7, <2>1, <2>2, StaleMore
    <2>5. CASE b # <<>>
        <3>1. Behind(feed.bars, v)
            BY <1>3, <1>4, <1>5, <2>2, <2>5, BehindAfter
        <3>2. ASSUME NEW y, Course(y, feed, p), Ends(y[n].bars, b)
              PROVE  \E z : Course(z, feed, Append(p, e)) /\ Ends(z[Len(Append(p, e))].bars, v)
            <4>1. PICK z : Course(z, feed, Append(p, e)) /\ z[Len(Append(p, e))] = Applied(y[n], e)
                BY <1>4, <3>2, CourseMore
            <4>2. FeedOK(y[n])
                BY <1>4, <1>5, <3>2, CourseOK
            <4>3. PICK x \in Seq(Bar) : x = y[n].bars
                BY <4>2 DEF FeedOK, FeedState
            <4>4. PICK u : u = FoldCandle(x, bar, CANDLE_DEPTH) /\ u = Applied(y[n], e).bars
                BY <1>7, <2>1, <4>2, <4>3, AppliedCandle
            <4>5. Ends(x, b)
                BY <3>2, <4>3
            <4>6. Ends(u, v)
                BY <2>2, <2>5, <4>4, <4>5, FoldEnds
            <4> QED BY <4>1, <4>4, <4>6
        <3> QED BY <1>3, <1>4, <2>3, <2>4, <3>1, <3>2
    <2>6. CASE b = <<>>
        <3>1. /\ inHand = None /\ queue = <<>> /\ sink # <<>>
              /\ (feed.bars # <<>> => Last(feed.bars).openTime <= bar.openTime)
            <4>1. sink # <<>>
                BY DEF PumpFolds
            <4> QED BY <1>1, <1>4, <2>1, <2>6, <4>1 DEF Charted, FirstBar
        <3>2. p = <<>> /\ n = 0
            BY <1>4, <3>1 DEF Pending
        <3>3. PICK x \in Seq(Bar) : x = feed.bars
            BY <1>5
        <3>4. PICK u : u = FoldCandle(x, bar, CANDLE_DEPTH) /\ u = Applied(feed, e).bars
            BY <1>5, <1>7, <2>1, <3>3, AppliedCandle
        <3>5. Ends(u, v) /\ v \in Seq(Bar) /\ Len(v) = 1 /\ v[1] = bar
            <4>1. x # <<>> => Last(x).openTime <= bar.openTime
                BY <3>1, <3>3
            <4>2. v = FoldCandle(<<>>, bar, HISTORY)
                BY <2>2, <2>6
            <4> QED BY <3>4, <4>1, <4>2, FoldFirst, ZenonT(30)
        <3>6. Behind(x, v)
            BY <3>1, <3>3, <3>5, BehindFirst
        <3>7. ASSUME NEW y, Course(y, feed, p)
              PROVE  \E z : Course(z, feed, Append(p, e)) /\ Ends(z[Len(Append(p, e))].bars, v)
            <4>1. PICK z : Course(z, feed, Append(p, e)) /\ z[Len(Append(p, e))] = Applied(y[n], e)
                BY <1>4, <3>7, CourseMore
            <4>2. y[n] = feed
                BY <3>2, <3>7 DEF Course
            <4> QED BY <3>4, <3>5, <4>1, <4>2
        <3> QED BY <1>3, <1>4, <2>3, <2>4, <3>3, <3>6, <3>7
    <2> QED BY <2>5, <2>6
<1> QED BY <1>6, <1>7, EventKinds

\* The pump sends an event, and the bars are followed.
LEMMA PumpSendsBars ==
    ASSUME Charted, BarInv, PumpSends
    PROVE  BarInv'
<1>1. UNCHANGED <<held, stage, session, feed>>
    BY DEF PumpSends
<1>2. ~lagged' => ~lagged
    <2>1. CASE stage = "none"
        BY <2>1 DEF PumpSends
    <2>2. CASE stage # "none"
        BY <2>2 DEF PumpSends
    <2> QED BY <2>1, <2>2
<1>3. ~lagged' => \E k \in 0 .. Len(Pending) :
          Without(Pending', Pending, k) /\ (BarsSent' => BarsSent /\ k = 0 /\ feed' = feed)
    <2>1. SUFFICES ASSUME ~lagged'
                   PROVE  \E k \in 0 .. Len(Pending) : Without(Pending', Pending, k)
                              /\ (BarsSent' => BarsSent /\ k = 0 /\ feed' = feed)
        OBVIOUS
    <2>2. PICK k \in 0 .. Len(Pending) : Without(Pending', Pending, k) /\ (stage # "none" => k = 0)
        BY <2>1, SentPending
    <2>3. BarsSent' => BarsSent /\ stage # "none"
        BY <1>1 DEF BarsSent
    <2> QED BY <1>1, <2>2, <2>3
<1> QED BY <1>1, <1>2, <1>3, BarsKept

\* The steps that neither hand bars over nor forward any.
LEMMA QuietBars ==
    ASSUME Charted, BarInv,
           \/ \E at \in Times : VenuePrints(at)
           \/ \E i \in DOMAIN fed : VenueReplays(i)
           \/ FeedConnects \/ Ping \/ FeedDisconnects \/ SessionHandles \/ HandTape
    PROVE  BarInv'
<1>1. CASE HandTape
    <2>1. UNCHANGED <<held, inHand, queue, session, lagged>> /\ stage' = "candles"
        BY <1>1 DEF HandTape, coreVars
    <2>2. Without(Pending', Pending, 0)
        BY <2>1, SamePending
    <2>3. feed'.bars = feed.bars
        <3>1. CASE session.subscribed
            BY <1>1, <3>1, TapeHanded DEF HandTape
        <3>2. CASE ~session.subscribed
            BY <1>1, <3>2 DEF HandTape
        <3> QED BY <3>1, <3>2
    <2>4. 0 \in 0 .. Len(Pending) /\ ~BarsSent'
        BY <2>1, <2>2 DEF Without, BarsSent
    <2> QED BY <2>1, <2>2, <2>3, <2>4, BarsKept
<1>2. CASE \/ \E at \in Times : VenuePrints(at)
           \/ \E i \in DOMAIN fed : VenueReplays(i)
           \/ FeedConnects \/ Ping \/ FeedDisconnects \/ SessionHandles
    <2>1. held' = held /\ lagged' = lagged
        BY <1>2, QuietSteps
    <2>2. PICK k \in 0 .. Len(Pending) : Without(Pending', Pending, k)
              /\ (TapeSent' => TapeSent /\ k = 0 /\ (feed' = feed \/ HandCandles))
        BY <1>2, QuietSteps
    <2>3. feed'.bars = feed.bars
        <3>0. FeedOK(feed)
            BY BarFacts
        <3>1. CASE (\E at \in Times : VenuePrints(at)) \/ (\E i \in DOMAIN fed : VenueReplays(i)) \/ Ping
            BY <3>1 DEF VenuePrints, VenueReplays, Ping, OnPrint
        <3>2. CASE FeedConnects
            BY <3>0, <3>2, StatusFacts DEF FeedConnects
        <3>3. CASE FeedDisconnects
            BY <3>0, <3>3, StatusFacts DEF FeedDisconnects
        <3>4. CASE SessionHandles
            <4>1. PICK msg : msg = Head(toCore)
                OBVIOUS
            <4>2. CASE msg = "Hello" /\ ~goodToken
                <5>1. feed' = [feed EXCEPT !.status = "Refused"]
                    BY <3>4, <4>1, <4>2 DEF SessionHandles
                <5> QED BY <3>0, <5>1, StatusFacts
            <4>3. CASE msg = "Hello" /\ goodToken
                <5>1. feed' = [feed EXCEPT !.status = "Live"]
                    BY <3>4, <4>1, <4>3 DEF SessionHandles
                <5> QED BY <3>0, <5>1, StatusFacts
            <4>4. CASE msg # "Hello"
                BY <3>4, <4>1, <4>4 DEF SessionHandles
            <4> QED BY <4>2, <4>3, <4>4
        <3> QED BY <1>2, <3>1, <3>2, <3>3, <3>4
    <2>4. BarsSent' => BarsSent /\ k = 0 /\ feed' = feed
        <3>1. SUFFICES ASSUME BarsSent' PROVE BarsSent /\ k = 0 /\ feed' = feed
            OBVIOUS
        <3>2. TapeSent'
            BY <3>1 DEF BarsSent, TapeSent
        <3>3. TapeSent /\ k = 0 /\ (feed' = feed \/ HandCandles)
            BY <2>2, <3>2
        <3>4. CASE (\E at \in Times : VenuePrints(at)) \/ (\E i \in DOMAIN fed : VenueReplays(i)) \/ Ping
            <4>1. UNCHANGED <<stage, session, feed>>
                BY <3>4 DEF VenuePrints, VenueReplays, Ping, OnPrint, sessionVars
            <4> QED BY <3>1, <3>3, <4>1 DEF BarsSent
        <3>5. CASE FeedConnects
            <4>1. stage = "none"
                BY <3>5 DEF FeedConnects
            <4> QED BY <3>3, <4>1 DEF TapeSent
        <3>6. CASE FeedDisconnects
            <4>1. stage' = "none"
                BY <3>6 DEF FeedDisconnects, Gone
            <4> QED BY <3>1, <4>1 DEF BarsSent
        <3>7. CASE SessionHandles
            <4>1. PICK msg : msg = Head(toCore)
                OBVIOUS
            <4>2. CASE msg = "Hello" /\ ~goodToken
                <5>1. stage' = "none"
                    BY <3>7, <4>1, <4>2 DEF SessionHandles, Gone
                <5> QED BY <3>1, <5>1 DEF BarsSent
            <4>3. CASE msg = "Hello" /\ goodToken
                <5>1. stage' = "tape"
                    BY <3>7, <4>1, <4>3 DEF SessionHandles
                <5> QED BY <3>1, <5>1 DEF BarsSent
            <4>4. CASE msg # "Hello"
                <5>1. stage' = "tape"
                    BY <3>7, <4>1, <4>4 DEF SessionHandles
                <5> QED BY <3>1, <5>1 DEF BarsSent
            <4> QED BY <4>2, <4>3, <4>4
        <3> QED BY <1>2, <3>4, <3>5, <3>6, <3>7
    <2> QED BY <2>1, <2>2, <2>3, <2>4, BarsKept
<1> QED BY <1>1, <1>2

\* A core without history has nothing to send.
LEMMA NoBars ==
    ASSUME Pending = <<>>, held = NoHistory, stage = "none"
    PROVE  BarInv
<1>1. held.bars = <<>> /\ ~BarsSent
    BY DEF NoHistory, BarsSent
<1>2. Joins(feed.bars, held.bars, 0) /\ 0 \in 0 .. Len(held.bars)
    BY <1>1 DEF Joins
<1>3. Behind(feed.bars, held.bars)
    BY <1>2 DEF Behind
<1>4. Stale(Pending, held.bars)
    BY DEF Stale
<1> QED BY <1>1, <1>3, <1>4 DEF BarInv

\* Every step keeps the bars followed.
LEMMA BarNext ==
    ASSUME Charted, BarInv, [ChartingNext]_chartingVars
    PROVE  BarInv'
<1>1. CASE UNCHANGED chartingVars
    <2>1. UNCHANGED <<queue, inHand, held, feed, stage, session, lagged>>
        BY <1>1 DEF chartingVars, venueVars, coreVars, sessionVars
    <2>2. Pending' = Pending /\ BarsSent' = BarsSent
        BY <2>1 DEF Pending, BarsSent
    <2> QED BY <2>1, <2>2 DEF BarInv
<1>2. CASE CoreRestarts
    <2>1. queue' = <<>> /\ inHand' = None /\ stage' = "none" /\ held' = NoHistory
        BY <1>2 DEF CoreRestarts, Gone
    <2>2. Pending' = <<>>
        BY <2>1 DEF Pending
    <2>3. (Pending = <<>> /\ held = NoHistory /\ stage = "none" => BarInv)'
        BY NoBars, PTL
    <2> QED BY <2>1, <2>2, <2>3
<1> QED BY <1>1, <1>2, QuietBars, PumpFoldsBars, PumpSendsBars, ForwardBars, HandCandlesBars DEF ChartingNext

\* The bars of a terminal always stop somewhere in those of the read-model, and once a session
\* has handed the bars over, what is pending brings them to the same end: a pending bar is no
\* newer than the read-model's last, and the last pending one of its open time is that bar.
THEOREM BarsFollowed == ChartingSpec => []BarInv
<1>1. ChartingInit => BarInv
    <2>1. SUFFICES ASSUME ChartingInit PROVE BarInv
        OBVIOUS
    <2>2. Pending = <<>> /\ held = NoHistory /\ stage = "none"
        BY <2>1 DEF ChartingInit, Pending
    <2> QED BY <2>2, NoBars
<1>2. Charted /\ BarInv /\ [ChartingNext]_chartingVars => BarInv'
    BY BarNext
<1> QED BY <1>1, <1>2, ChartingInOrder, PTL DEF ChartingSpec

\* Sequences that agree up to a place have the same beginning.
LEMMA PrefixesEqual ==
    ASSUME NEW s \in Seq(Bar), NEW t \in Seq(Bar), NEW l \in Nat, l <= Len(s), l <= Len(t),
           \A i \in 1 .. l : s[i] = t[i]
    PROVE  SubSeq(s, 1, l) = SubSeq(t, 1, l)
<1>1. \A i \in 1 .. l : s[i] \in Bar /\ t[i] \in Bar
    <2>1. TAKE i \in 1 .. l
    <2>2. i \in 1 .. Len(s) /\ i \in 1 .. Len(t)
        OBVIOUS
    <2> QED BY <2>2
<1>2. /\ SubSeq(s, 1, l) \in Seq(Bar) /\ Len(SubSeq(s, 1, l)) = IF 1 <= l THEN l - 1 + 1 ELSE 0
      /\ \A i \in 1 .. l - 1 + 1 : SubSeq(s, 1, l)[i] = s[1 + i - 1]
    BY ONLY <1>1, 1 \in Int, l \in Int, l \in Nat, SubSeqProperties
<1>3. /\ SubSeq(t, 1, l) \in Seq(Bar) /\ Len(SubSeq(t, 1, l)) = IF 1 <= l THEN l - 1 + 1 ELSE 0
      /\ \A i \in 1 .. l - 1 + 1 : SubSeq(t, 1, l)[i] = t[1 + i - 1]
    BY ONLY <1>1, 1 \in Int, l \in Int, l \in Nat, SubSeqProperties
<1>4. PICK u, v : u = SubSeq(s, 1, l) /\ v = SubSeq(t, 1, l)
    OBVIOUS
<1>5. u \in Seq(Bar) /\ v \in Seq(Bar) /\ Len(u) = l /\ Len(v) = l /\ \A i \in 1 .. l : u[i] = v[i]
    BY <1>2, <1>3, <1>4
<1> QED BY ONLY <1>4, <1>5, SeqEqual

\* Ending with a sequence is having it for a suffix.
LEMMA EndsIsSuffix ==
    ASSUME NEW z \in Seq(Bar), NEW b \in Seq(Bar), Ends(z, b)
    PROVE  IsSuffix(b, z)
<1>1. PICK n \in Nat, l \in Nat : n = Len(z) /\ l = Len(b) /\ l <= n
    BY DEF Ends
<1>2. PICK rb, rz : rb = Reverse(b) /\ rz = Reverse(z)
    OBVIOUS
<1>3. /\ rb \in Seq(Bar) /\ Len(rb) = l /\ \A i \in 1 .. l : rb[i] = b[l - i + 1]
      /\ rz \in Seq(Bar) /\ Len(rz) = n /\ \A i \in 1 .. n : rz[i] = z[n - i + 1]
    <2>1. \A i \in 1 .. l : b[l - i + 1] \in Bar
        <3>1. TAKE i \in 1 .. l
        <3>2. l - i + 1 \in 1 .. l
            OBVIOUS
        <3> QED BY <1>1, <3>2
    <2>2. \A i \in 1 .. n : z[n - i + 1] \in Bar
        <3>1. TAKE i \in 1 .. n
        <3>2. n - i + 1 \in 1 .. n
            OBVIOUS
        <3> QED BY <1>1, <3>2
    <2>3. rb = [i \in 1 .. l |-> b[l - i + 1]] /\ rz = [i \in 1 .. n |-> z[n - i + 1]]
        BY <1>1, <1>2 DEF Reverse
    <2>4. rb \in [1 .. l -> Bar] /\ rz \in [1 .. n -> Bar]
        BY <2>1, <2>2, <2>3
    <2>5. \A m \in Nat : \A f \in [1 .. m -> Bar] : f \in Seq(Bar) /\ Len(f) = m
        OBVIOUS
    <2>6. rb \in Seq(Bar) /\ Len(rb) = l /\ rz \in Seq(Bar) /\ Len(rz) = n
        BY <2>4, <2>5
    <2> QED BY <2>3, <2>6
<1>4. \A i \in 1 .. l : rb[i] = rz[i]
    <2>1. TAKE i \in 1 .. l
    <2>2. i - 1 \in 0 .. l - 1 /\ n - (i - 1) = n - i + 1 /\ l - (i - 1) = l - i + 1 /\ i \in 1 .. n
        BY <1>1
    <2>3. z[n - (i - 1)] = b[l - (i - 1)]
        BY <1>1, <2>2 DEF Ends
    <2> QED BY <1>3, <2>2, <2>3
<1>5. SubSeq(rb, 1, l) = SubSeq(rz, 1, l)
    BY <1>3, <1>4, PrefixesEqual
<1> QED BY <1>1, <1>2, <1>3, <1>5 DEF IsSuffix, IsPrefix

\* Followed with nothing pending, the bars have settled.
LEMMA BarsSettle ==
    ASSUME Charted, BarInv
    PROVE  CandlesSettle
<1>1. \A i \in 1 .. Len(feed.bars) - 1 : feed.bars[i].openTime < feed.bars[i + 1].openTime
    BY DEF Charted, InOrder, Rising
<1>2. ASSUME Settled PROVE IsSuffix(held.bars, feed.bars)
    <2>1. Pending = <<>> /\ BarsSent /\ ~lagged
        BY <1>2 DEF Settled, Pending, BarsSent
    <2>2. PICK y : Course(y, feed, Pending) /\ Ends(y[Len(Pending)].bars, held.bars)
        BY <2>1 DEF BarInv
    <2>3. y[Len(Pending)] = feed
        BY <2>1, <2>2 DEF Course
    <2>4. Ends(feed.bars, held.bars) /\ feed.bars \in Seq(Bar) /\ held.bars \in Seq(Bar)
        BY <2>2, <2>3, BarFacts
    <2> QED BY <2>4, EndsIsSuffix
<1> QED BY <1>1, <1>2 DEF CandlesSettle

\* A terminal that all of the core's events have reached ends with the read-model's bars, the
\* open one included, and it never has two of one open time, though a bar is sent again with
\* every print and the handover of the bars crosses those the session forwards.
THEOREM CandlesEndSettled == ChartingSpec => []CandlesSettle
<1>1. Charted /\ BarInv => CandlesSettle
    BY BarsSettle
<1> QED BY <1>1, ChartingInOrder, BarsFollowed, PTL
=============================================================================
