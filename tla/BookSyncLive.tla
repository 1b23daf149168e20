---------------------------- MODULE BookSyncLive ----------------------------
(***************************************************************************)
(* BookSync over an endless stream, to check that a book is built in the   *)
(* end.  The handlers are those of BookSync; the levels are left out       *)
(* (Level = {}), and the venue's number stays at MaxId while every number  *)
(* in the system sinks instead: all the code does with two numbers is      *)
(* compare them.  A number that has sunk to 0 is older than every update   *)
(* still under way: see BookSyncLiveAssumption.                            *)
(*                                                                         *)
(* Until it is calm the venue loses updates, connections drop and fetches  *)
(* fail or die; once calm none of this happens, the venue goes on          *)
(* publishing, and a fetch reports within Promptness.  The updates that    *)
(* arrive while a fetch runs never fill the buffer.                        *)
(***************************************************************************)
EXTENDS BookSync

CONSTANTS Step,        \* numbers one update spans
          MaxLosses,   \* updates lost in one behaviour
          Promptness   \* ticks within which a fetch reports once it is calm

\* The last conjunct keeps every update on the socket or held back above 0, so that
\* what has sunk to 0 is older than all of them and no comparison is falsified.
ASSUME BookSyncLiveAssumption ==
    /\ Step \in Nat \ {0} /\ MaxLosses \in Nat /\ Promptness \in Nat
    /\ FirstId = MaxId
    /\ Step * (MaxBuffered + MaxStream + MaxLosses) < MaxId

VARIABLES calm,        \* no more failures
          losses       \* updates lost so far

liveVars == <<vars, calm, losses>>

Sink(n)         == IF n > Step THEN n - Step ELSE 0
SinkBook(book)  == IF book = NoBook THEN NoBook ELSE [book EXCEPT !.last = Sink(@)]
SinkDelta(d)    == [d EXCEPT !.prev = Sink(@), !.last = Sink(@)]
SinkDeltas(seq) == [i \in DOMAIN seq |-> SinkDelta(seq[i])]

Fetching == \E i \in Slot : fetches[i].busy

\* VenueUpdate with the venue as the frame of reference.
VenueMovesOn(lost) ==
    /\ up
    /\ Len(stream) < MaxStream
    /\ lost => ~calm /\ losses < MaxLosses
    /\ Fetching => Len(entry.buffered) + Len(stream) < MaxBuffered
    /\ losses' = IF lost THEN losses + 1 ELSE losses
    /\ stream' = IF lost THEN SinkDeltas(stream)
                 ELSE Append(SinkDeltas(stream), VenueDelta(epoch, head - Step, head))
    /\ entry' = [entry EXCEPT !.book = SinkBook(@), !.buffered = SinkDeltas(@)]
    /\ fetches' = [i \in Slot |-> [fetches[i] EXCEPT !.snap = SinkBook(@)]]
    /\ shown' = SinkBook(shown)
    /\ UNCHANGED <<epoch, up, head, shownIn, rested, calm>>

CalmDown ==
    /\ ~calm
    /\ calm' = TRUE
    /\ UNCHANGED <<vars, losses>>

\* Once calm, a fetch is younger than Promptness when it reports.
TickLive ==
    /\ calm => \A i \in Slot : fetches[i].busy => fetches[i].age + 1 < Promptness
    /\ Tick
    /\ UNCHANGED <<calm, losses>>

Always(action) == action /\ UNCHANGED <<calm, losses>>
Stormy(action) == ~calm /\ Always(action)

LiveNext ==
    \/ \E lost \in BOOLEAN : VenueMovesOn(lost)
    \/ \E i \in Slot, n \in 0..head : Always(RestAnswers(i, n))
    \/ Always(DeltaArrives)
    \/ \E i \in Slot : Always(SnapshotArrives(i))
    \/ \E i \in Slot : Stormy(FetchFails(i))
    \/ \E i \in Slot : Stormy(FetchDies(i))
    \/ Stormy(Disconnect)
    \/ Always(Connect)
    \/ TickLive
    \/ CalmDown

\* The venue publishes and answers, the runtime polls every channel of the pump's select
\* loop and every fetch task, the clock runs, and a reconnect succeeds in the end.
Fairness ==
    /\ WF_liveVars(VenueMovesOn(FALSE))
    /\ WF_liveVars(Always(DeltaArrives))
    /\ \A i \in Slot : /\ WF_liveVars(\E n \in 0..head : Always(RestAnswers(i, n)))
                       /\ WF_liveVars(Always(SnapshotArrives(i)))
    /\ WF_liveVars(Always(Connect))
    /\ WF_liveVars(TickLive)

\* For TLC: no levels, only the numbers matter.
NoLevels         == {}
EmptyBook(e, n)  == [l \in {} |-> 0]

LiveInit == Init /\ calm = FALSE /\ losses = 0

LiveSpec == LiveInit /\ [][LiveNext]_liveVars /\ Fairness

-----------------------------------------------------------------------------

\* Once failures stop, the connector has a live book and keeps it: no lost answer latches
\* `awaiting`, no late fetch goes on tearing the book down, and the loop of snapshot, replay
\* and retry converges (books.rs:4-11 and 31-34).
BookSettles == <>[](calm /\ up => Live)
=============================================================================
