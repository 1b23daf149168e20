----------------------------- MODULE ResumeLog -----------------------------
(***************************************************************************)
(* The replayable history of one session (crates/wire/src/resume.rs): a    *)
(* ring of numbered events per channel, and what of them a terminal that   *)
(* comes back is given.                                                    *)
(*                                                                         *)
(* An event is its number: what it carries is of no account to the log.    *)
(***************************************************************************)
EXTENDS Sequences, Naturals, FiniteSets

CONSTANTS Channel,
          Resumable,      \* Channel::resumable: the channels a resume may replay
          RingCapacity,   \* ring_capacity, per channel
          ResumeWindow    \* RESUME_WINDOW, in ticks of the clock

ASSUME ResumeLogAssumption ==
    /\ Resumable \subseteq Channel
    /\ RingCapacity \in [Channel -> Nat]
    /\ ResumeWindow \in Nat

\* Ring::new.
NewRing == [entries |-> <<>>, next |-> 1]

\* No channel has been published on.
NoRings == [c \in {} |-> NewRing]

\* A mutant: the newest event makes room.
PushDroppingNewest(c, ring, now) ==
    LET event == [seq |-> ring.next, at |-> now]
    IN  [next |-> ring.next + 1,
         entries |-> IF Len(ring.entries) < RingCapacity[c]
                     THEN Append(ring.entries, event) ELSE ring.entries]

\* Ring::push: a channel without a ring of its own still counts.
Push(c, ring, now) ==
    LET all == Append(ring.entries, [seq |-> ring.next, at |-> now])
    IN  [next |-> ring.next + 1,
         entries |-> IF RingCapacity[c] = 0 THEN ring.entries
                     ELSE IF Len(all) > RingCapacity[c] THEN Tail(all) ELSE all]

\* `rings.entry(channel).or_insert_with(..)`.
RingOf(rings, c) == IF c \in DOMAIN rings THEN rings[c] ELSE NewRing

\* ResumeLog::record.
Record(rings, c, now) ==
    [d \in DOMAIN rings \cup {c} |-> IF d = c THEN Push(c, RingOf(rings, c), now) ELSE rings[d]]

\* ResumeLog::next_seq.
NextSeq(rings, c) == RingOf(rings, c).next

\* "Already up to date."
UpToDate(ring, after) == after + 1 = ring.next

\* The history goes back to the gap, and its oldest entry is not too old.
Reaches(ring, after, now) ==
    /\ after < ring.next
    /\ ring.entries # <<>>
    /\ Head(ring.entries).seq <= after + 1
    /\ now - Head(ring.entries).at <= ResumeWindow

\* The numbers of the events after `after` that are still held, oldest first: the
\* filter of Ring::since, which drops a first part of a ring whose numbers rise.
Missed(ring, after) ==
    LET seen == {i \in DOMAIN ring.entries : ring.entries[i].seq <= after}
    IN  [i \in 1..(Len(ring.entries) - Cardinality(seen)) |->
           ring.entries[Cardinality(seen) + i].seq]

\* Ring::since gives an answer, and a ring is there to give it.
CanReplay(rings, c, after, now) ==
    /\ c \in Resumable
    /\ c \in DOMAIN rings
    /\ UpToDate(rings[c], after) \/ Reaches(rings[c], after, now)

\* ResumeLog::resume for the epoch of this log: `acks` is the last event seen per
\* channel; a channel without anything to replay is as good as left out.
Resume(rings, acks, now) ==
    LET lost == {c \in DOMAIN acks : ~CanReplay(rings, c, acks[c], now)}
    IN  [lost   |-> lost,
         replay |-> [c \in DOMAIN acks |->
                       IF c \in lost \/ UpToDate(rings[c], acks[c]) THEN <<>>
                       ELSE Missed(rings[c], acks[c])]]
=============================================================================
