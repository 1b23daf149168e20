----------------------------- MODULE LinkProofs -----------------------------
(***************************************************************************)
(* Proofs about Link for any channels, capacities, window, interval and    *)
(* number of misses: a silent peer is found in time, a peer that answers   *)
(* is not given up, and a terminal is never given part of what it missed.  *)
(***************************************************************************)
EXTENDS Link, FiniteSetTheorems, TLAPS

USE ResumeLogAssumption, HeartbeatAssumption, LinkAssumption

-----------------------------------------------------------------------------
(* The types of what the operators return.                                 *)

\* Heartbeat::new, on_send, on_pong and saw_traffic make a heartbeat.
LEMMA BeatTypes ==
    ASSUME NEW h \in Beats, NEW t \in Nat, NEW nonce \in Nat
    PROVE  /\ NewHeartbeat \in Beats
           /\ OnSend(h, t) \in Beats
           /\ OnPong(h, nonce) \in Beats
           /\ SawTraffic(h, t) \in Beats
<1>1. /\ h.inFlight \in Nat /\ h.nextNonce \in Nat \ {0} /\ h.misses \in Nat
      /\ h.lastActivity \in Nat \cup {Never}
      /\ h = [inFlight |-> h.inFlight, nextNonce |-> h.nextNonce, misses |-> h.misses,
              lastActivity |-> h.lastActivity]
    BY DEF Beats
<1>2. NewHeartbeat \in Beats
    BY DEF Beats, NewHeartbeat, NoNonce
<1>3. OnSend(h, t) \in Beats
    <2>1. h.nextNonce + 1 \in Nat \ {0} /\ h.misses + 1 \in Nat
        BY <1>1
    <2>. QED BY <1>1, <2>1 DEF Beats, OnSend
<1>4. OnPong(h, nonce) \in Beats
    BY <1>1 DEF Beats, OnPong, NoNonce
<1>5. SawTraffic(h, t) \in Beats
    BY <1>1 DEF Beats, SawTraffic
<1>. QED BY <1>2, <1>3, <1>4, <1>5

\* Ring::push makes a ring.
LEMMA PushType ==
    ASSUME NEW c \in Channel, NEW ring \in Ring, NEW t \in Nat
    PROVE  Push(c, ring, t) \in Ring
<1> DEFINE event == [seq |-> ring.next, at |-> t]
           all   == Append(ring.entries, event)
<1>1. event \in Entry /\ ring.entries \in Seq(Entry)
      /\ ring.next + 1 \in Nat \ {0}
    BY DEF Ring, Entry
<1> HIDE DEF event
<1>2. event \in Entry /\ ring.entries \in Seq(Entry)
    BY <1>1 DEF event
<1>3. all \in Seq(Entry) /\ Len(all) > 0
    BY <1>2
<1>4. Tail(all) \in Seq(Entry)
    BY <1>3
<1> USE DEF event
<1>. QED BY <1>1, <1>2, <1>3, <1>4 DEF Push, Ring

\* RingOf is a ring, whether the channel has been published on or not.
LEMMA RingOfType ==
    ASSUME NEW channels \in SUBSET Channel, NEW rs \in [channels -> Ring], NEW c
    PROVE  RingOf(rs, c) \in Ring
<1>1. <<>> \in Seq(Entry)
    OBVIOUS
<1>. QED BY <1>1 DEF RingOf, NewRing, Ring

\* ResumeLog::record leaves a ring for each channel it had, and for the one recorded.
LEMMA RecordType ==
    ASSUME NEW channels \in SUBSET Channel, NEW rs \in [channels -> Ring],
           NEW c \in Channel, NEW t \in Nat
    PROVE  Record(rs, c, t) \in [channels \cup {c} -> Ring]
<1>1. Push(c, RingOf(rs, c), t) \in Ring
    BY PushType, RingOfType
<1>. QED BY <1>1 DEF Record

\* The entries of a ring that were seen are no more than the entries.
LEMMA SeenCounted ==
    ASSUME NEW ring \in Ring, NEW after \in Nat,
           NEW seen, seen = {i \in DOMAIN ring.entries : ring.entries[i].seq <= after}
    PROVE  IsFiniteSet(seen) /\ Cardinality(seen) \in 0..Len(ring.entries)
<1>1. DOMAIN ring.entries = 1..Len(ring.entries) /\ Len(ring.entries) \in Nat
    BY DEF Ring
<1>2. IsFiniteSet(1..Len(ring.entries)) /\ Cardinality(1..Len(ring.entries)) = Len(ring.entries)
    BY <1>1, FS_Interval
<1>3. seen \subseteq 1..Len(ring.entries)
    BY <1>1
<1>4. IsFiniteSet(seen) /\ Cardinality(seen) <= Len(ring.entries)
    BY <1>2, <1>3, FS_Subset
<1>. QED BY <1>1, <1>4, FS_CardinalityType

\* Ring::since returns a sequence of events.
LEMMA MissedType ==
    ASSUME NEW ring \in Ring, NEW after \in Nat
    PROVE  Missed(ring, after) \in Seq(Nat)
<1> DEFINE seen == {i \in DOMAIN ring.entries : ring.entries[i].seq <= after}
<1>1. Cardinality(seen) \in 0..Len(ring.entries)
    BY SeenCounted
<1> HIDE DEF seen
<1>2. PICK n \in Nat : n = Cardinality(seen) /\ n <= Len(ring.entries)
    BY <1>1 DEF Ring
<1>3. ring.entries \in Seq(Entry) /\ Len(ring.entries) \in Nat
    BY DEF Ring
<1>4. \A i \in 1..(Len(ring.entries) - n) : ring.entries[n + i].seq \in Nat
    <2>. SUFFICES ASSUME NEW i \in 1..(Len(ring.entries) - n)
                  PROVE  ring.entries[n + i].seq \in Nat
        OBVIOUS
    <2>1. n + i \in 1..Len(ring.entries)
        BY <1>2, <1>3
    <2>2. ring.entries[n + i] \in Entry
        BY <1>3, <2>1
    <2>. QED BY <2>2 DEF Entry
<1>5. Missed(ring, after) = [i \in 1..(Len(ring.entries) - n) |-> ring.entries[n + i].seq]
    BY <1>2 DEF Missed, seen
<1>6. Len(ring.entries) - n \in Nat
    BY <1>2, <1>3
<1>. QED BY <1>4, <1>5, <1>6

\* What the core has published is a number.
LEMMA PublishedType ==
    ASSUME TypeOK, NEW c
    PROVE  Published(c) \in Nat /\ NextSeq(rings, c) = Published(c) + 1
<1>1. RingOf(rings, c) \in Ring
    BY RingOfType DEF TypeOK
<1>. QED BY <1>1 DEF Published, NextSeq, Ring

\* ResumeLog::resume returns channels and sequences of events.
LEMMA ResumeType ==
    ASSUME TypeOK
    PROVE  /\ Resume(rings, lastSeen, now).lost \in SUBSET Channel
           /\ Resume(rings, lastSeen, now).replay \in [Channel -> Seq(Nat)]
<1> DEFINE lost == {c \in DOMAIN lastSeen : ~CanReplay(rings, c, lastSeen[c], now)}
           part(c) == IF c \in lost \/ UpToDate(rings[c], lastSeen[c]) THEN <<>>
                      ELSE Missed(rings[c], lastSeen[c])
<1>1. DOMAIN lastSeen = Channel
    BY DEF TypeOK
<1>2. PICK channels \in SUBSET Channel : rings \in [channels -> Ring]
    BY DEF TypeOK
<1>3. ASSUME NEW c \in Channel, c \notin lost PROVE Missed(rings[c], lastSeen[c]) \in Seq(Nat)
    <2>1. c \in DOMAIN rings /\ lastSeen[c] \in Nat
        BY <1>1, <1>3 DEF TypeOK, CanReplay
    <2>2. rings[c] \in Ring
        BY <1>2, <2>1
    <2>. QED BY <2>1, <2>2, MissedType
<1>4. <<>> \in Seq(Nat)
    OBVIOUS
<1>5. \A c \in Channel : part(c) \in Seq(Nat)
    BY <1>3, <1>4
<1>6. Resume(rings, lastSeen, now) = [lost |-> lost, replay |-> [c \in DOMAIN lastSeen |-> part(c)]]
    BY DEF Resume
<1> HIDE DEF part, lost
<1>7. [c \in Channel |-> part(c)] \in [Channel -> Seq(Nat)]
    BY <1>5
<1>8. lost \subseteq Channel
    BY <1>1 DEF lost
<1>. QED BY <1>1, <1>6, <1>7, <1>8

\* The answer to a resume is a message.
LEMMA AnswerType ==
    ASSUME TypeOK
    PROVE  Answer \in Message
<1>1. epoch \in Nat
    BY DEF TypeOK
<1>2. [c \in Channel |-> Published(c)] \in [Channel -> Nat]
    BY PublishedType
<1>3. [c \in Channel |-> <<>>] \in [Channel -> Seq(Nat)]
    OBVIOUS
<1>4. ASSUME NEW result, result.lost \in SUBSET Channel,
             result.replay \in [Channel -> Seq(Nat)]
      PROVE  Resumed(result) \in Message
    BY <1>1, <1>2, <1>4 DEF Resumed, Message
<1>5. CASE knows = epoch
    BY <1>4, <1>5, ResumeType DEF Answer
<1>6. CASE knows # epoch
    BY <1>3, <1>4, <1>6 DEF Answer
<1>. QED BY <1>5, <1>6

\* What a queue holds after an element was added or taken.
LEMMA QueueTypes ==
    ASSUME NEW S, NEW s \in Seq(S)
    PROVE  /\ <<>> \in Seq(S)
           /\ \A x \in S : Append(s, x) \in Seq(S) /\ <<x>> \in Seq(S)
           /\ s # <<>> => Head(s) \in S /\ Tail(s) \in Seq(S)
OBVIOUS

\* What the terminal makes of an answer.
LEMMA TakeAnswerType ==
    ASSUME TypeOK, TakeAnswer
    PROVE  /\ knows' \in Nat
           /\ lastSeen' \in [Channel -> Nat]
           /\ applied' \in [Channel -> Seq([epoch : Nat, seq : Nat])]
<1> DEFINE answer == Head(wire)
           E == [epoch : Nat, seq : Nat]
           replayed(c) == [i \in DOMAIN answer.replay[c] |->
                             [epoch |-> answer.epoch, seq |-> answer.replay[c][i]]]
<1>1. answer \in Message /\ answer.kind = "resumed"
    BY QueueTypes DEF TakeAnswer, TypeOK
<1>2. answer.epoch \in Nat /\ answer.replay \in [Channel -> Seq(Nat)]
      /\ answer.upTo \in [Channel -> Nat]
    BY <1>1 DEF Message
<1>3. lastSeen \in [Channel -> Nat] /\ applied \in [Channel -> Seq(E)]
    BY DEF TypeOK
<1>4. \A c \in Channel : answer.replay[c] # <<>> => answer.replay[c][Len(answer.replay[c])] \in Nat
    <2>1. \A s \in Seq(Nat) : s # <<>> => s[Len(s)] \in Nat
        OBVIOUS
    <2>. QED BY <1>2, <2>1
<1>5. \A c \in Channel : replayed(c) \in Seq(E)
    <2>1. ASSUME NEW c \in Channel PROVE replayed(c) \in Seq(E)
        <3> DEFINE s == answer.replay[c]
        <3>1. s \in Seq(Nat) /\ DOMAIN s = 1..Len(s) /\ Len(s) \in Nat
            BY <1>2
        <3>2. \A i \in 1..Len(s) : [epoch |-> answer.epoch, seq |-> s[i]] \in E
            BY <1>2, <3>1
        <3> HIDE DEF E
        <3>3. replayed(c) = [i \in 1..Len(s) |-> [epoch |-> answer.epoch, seq |-> s[i]]]
            BY <3>1
        <3>. QED BY <3>1, <3>2, <3>3
    <2>. QED BY <2>1
<1>6. ASSUME NEW c \in Channel PROVE applied[c] \o replayed(c) \in Seq(E)
    <2>1. applied[c] \in Seq(E) /\ replayed(c) \in Seq(E)
        BY <1>3, <1>5
    <2> HIDE DEF E, replayed
    <2>. QED BY <2>1
<1>7. \A e, n \in Nat : Upto(e, n) \in Seq(E)
    <2>1. ASSUME NEW e \in Nat, NEW n \in Nat PROVE Upto(e, n) \in Seq(E)
        <3>1. \A i \in 1..n : [epoch |-> e, seq |-> i] \in E
            OBVIOUS
        <3> HIDE DEF E
        <3>. QED BY <3>1 DEF Upto
    <2>. QED BY <2>1
<1>8. /\ knows' = answer.epoch
      /\ lastSeen' = [c \in Channel |->
             IF c \in answer.lost THEN answer.upTo[c]
             ELSE IF answer.replay[c] = <<>> THEN lastSeen[c]
             ELSE answer.replay[c][Len(answer.replay[c])]]
      /\ applied' = [c \in Channel |->
             IF c \in answer.lost THEN Upto(answer.epoch, answer.upTo[c])
             ELSE applied[c] \o replayed(c)]
    BY DEF TakeAnswer
<1> HIDE DEF answer, E, replayed
<1>9. lastSeen' \in [Channel -> Nat]
    BY <1>2, <1>3, <1>4, <1>8
<1>10. applied' \in [Channel -> Seq(E)]
    <2>1. \A c \in Channel : Upto(answer.epoch, answer.upTo[c]) \in Seq(E)
        BY <1>2, <1>7
    <2>. QED BY <1>6, <1>8, <2>1
<1>. QED BY <1>2, <1>8, <1>9, <1>10 DEF E

-----------------------------------------------------------------------------
(* The type invariant.                                                     *)

\* An empty connection, and the state of a new one, have their types.
LEMMA CloseType ==
    ASSUME CloseLink
    PROVE  /\ link' \in {"none", "up", "silent"} /\ hb' \in Beats /\ wire' \in Seq(Message)
           /\ pings' \in Seq(Nat \ {NoNonce}) /\ replies' \in Seq(Nat) /\ answeredAt' \in Nat
<1>1. NewHeartbeat \in Beats
    BY DEF NewHeartbeat, Beats, NoNonce
<1>. QED BY <1>1 DEF CloseLink

\* Every step keeps the types.
LEMMA TypeStep ==
    ASSUME TypeOK, [Next]_vars
    PROVE  TypeOK'
<1> USE DEF TypeOK
<1>t. now \in Nat /\ epoch \in Nat \ {0} /\ hb \in Beats /\ brokenAt \in Nat /\ answeredAt \in Nat
    OBVIOUS
<1>1. ASSUME NEW c \in Channel, Publish(c) PROVE TypeOK'
    <2>1. \E channels \in SUBSET Channel : rings' \in [channels -> Ring]
        <3>1. PICK channels \in SUBSET Channel : rings \in [channels -> Ring]
            OBVIOUS
        <3>2. Record(rings, c, now) \in [channels \cup {c} -> Ring]
            BY <3>1, RecordType
        <3>3. channels \cup {c} \in SUBSET Channel
            OBVIOUS
        <3>. QED BY <1>1, <3>2, <3>3 DEF Publish
    <2>2. [kind |-> "event", channel |-> c, seq |-> NextSeq(rings, c)] \in Message
        <3>1. NextSeq(rings, c) \in Nat
            BY PublishedType
        <3>. QED BY <3>1 DEF Message
    <2>3. wire' \in Seq(Message)
        BY <1>1, <2>2, QueueTypes DEF Publish
    <2>. QED BY <1>1, <2>1, <2>3 DEF Publish, terminal
<1>2. CASE Ping
    <2>1. hb' \in Beats
        BY <1>2, BeatTypes DEF Ping
    <2>2. hb.nextNonce \in Nat \ {NoNonce}
        BY DEF Beats, NoNonce
    <2>3. pings' \in Seq(Nat \ {NoNonce})
        BY <1>2, <2>2, QueueTypes DEF Ping
    <2>. QED BY <1>2, <2>1, <2>3 DEF Ping, core, terminal
<1>3. CASE DropDead
    <2>1. brokenAt' \in Nat
        BY <1>3 DEF DropDead
    <2>. QED BY <1>3, <2>1, CloseType DEF DropDead, core, terminal
<1>4. CASE ReceivePong
    <2>1. Head(replies) \in Nat /\ replies' \in Seq(Nat)
        BY <1>4, QueueTypes DEF ReceivePong
    <2>2. hb' \in Beats
        BY <1>4, <2>1, BeatTypes DEF ReceivePong
    <2>3. answeredAt' \in Nat
        BY <1>4 DEF ReceivePong
    <2>. QED BY <1>4, <2>1, <2>2, <2>3 DEF ReceivePong, core, terminal
<1>5. CASE ReceiveTraffic
    <2>1. replies' \in Seq(Nat)
        BY <1>5, QueueTypes DEF ReceiveTraffic
    <2>2. hb' \in Beats
        BY <1>5, BeatTypes DEF ReceiveTraffic
    <2>. QED BY <1>5, <2>1, <2>2 DEF ReceiveTraffic, core, terminal
<1>6. CASE Restart
    <2>1. brokenAt' \in Nat
        BY <1>6 DEF Restart
    <2>2. epoch' \in Nat \ {0} /\ \E channels \in SUBSET Channel : rings' \in [channels -> Ring]
        <3>1. NoRings \in [{} -> Ring] /\ {} \in SUBSET Channel
            BY DEF NoRings
        <3>2. \E channels \in SUBSET Channel : rings' \in [channels -> Ring]
            BY <1>6, <3>1, Zenon DEF Restart
        <3>3. epoch' \in Nat \ {0}
            BY <1>6 DEF Restart
        <3>. QED BY <3>2, <3>3
    <2>. QED BY <1>6, <2>1, <2>2, CloseType DEF Restart, terminal
<1>7. CASE Connect
    <2>1. wire' \in Seq(Message)
        BY <1>7, AnswerType, QueueTypes DEF Connect
    <2>2. hb' \in Beats
        BY <1>7, BeatTypes DEF Connect
    <2>. QED BY <1>7, <2>1, <2>2, QueueTypes DEF Connect, core, terminal
<1>8. CASE TakeAnswer
    <2>1. wire' \in Seq(Message)
        BY <1>8, QueueTypes DEF TakeAnswer
    <2>. QED BY <1>8, <2>1, TakeAnswerType DEF TakeAnswer, core
<1>9. CASE TakeEvent
    <2>1. wire' \in Seq(Message) /\ Head(wire) \in Message /\ Head(wire).kind = "event"
        BY <1>9, QueueTypes DEF TakeEvent
    <2>2. Head(wire).channel \in Channel /\ Head(wire).seq \in Nat
        BY <2>1 DEF Message
    <2>3. lastSeen' \in [Channel -> Nat]
        BY <1>9, <2>2 DEF TakeEvent
    <2>4. applied' \in [Channel -> Seq([epoch : Nat, seq : Nat])]
        <3> DEFINE E == [epoch : Nat, seq : Nat]
                   e == [epoch |-> knows, seq |-> Head(wire).seq]
        <3>1. e \in E /\ applied \in [Channel -> Seq(E)]
            BY <2>2
        <3>2. applied' = [applied EXCEPT ![Head(wire).channel] = Append(@, e)]
            BY <1>9 DEF TakeEvent
        <3> HIDE DEF E, e
        <3>3. applied' \in [Channel -> Seq(E)]
            BY <2>2, <3>1, <3>2, QueueTypes
        <3>. QED BY <3>3 DEF E
    <2>. QED BY <1>9, <2>1, <2>3, <2>4 DEF TakeEvent, core
<1>10. CASE Pong
    <2>1. pings' \in Seq(Nat \ {NoNonce}) /\ Head(pings) \in Nat
        BY <1>10, QueueTypes DEF Pong
    <2>2. replies' \in Seq(Nat)
        BY <1>10, <2>1, QueueTypes DEF Pong
    <2>. QED BY <1>10, <2>1, <2>2 DEF Pong, core, terminal
<1>11. CASE SendTraffic
    <2>1. replies' \in Seq(Nat)
        BY <1>11, QueueTypes DEF SendTraffic, NoNonce
    <2>. QED BY <1>11, <2>1 DEF SendTraffic, core, terminal
<1>12. CASE GoSilent
    BY <1>12, QueueTypes DEF GoSilent, core, terminal
<1>13. CASE Break
    BY <1>13, CloseType DEF Break, core, terminal
<1>14. CASE Tick
    BY <1>14 DEF Tick, core, terminal
<1>15. CASE UNCHANGED vars
    BY <1>15 DEF vars, core, terminal
<1>. QED
    BY <1>1, <1>2, <1>3, <1>4, <1>5, <1>6, <1>7, <1>8, <1>9, <1>10, <1>11, <1>12, <1>13, <1>14,
       <1>15 DEF Next

\* The initial state has the types.
LEMMA TypeInit == Init => TypeOK
<1>1. NewHeartbeat \in Beats
    BY DEF NewHeartbeat, Beats, NoNonce
<1>2. NoRings \in [{} -> Ring] /\ {} \in SUBSET Channel
    BY DEF NoRings
<1>3. <<>> \in Seq([epoch : Nat, seq : Nat])
    OBVIOUS
<1>4. Init => \E channels \in SUBSET Channel : rings \in [channels -> Ring]
    BY <1>2, Zenon DEF Init
<1>. QED BY <1>1, <1>3, <1>4 DEF Init, TypeOK

\* The variables keep their types, in every behaviour of the core, the terminal and the link.
THEOREM TypeCorrect == Spec => []TypeOK
<1>. QED BY TypeInit, TypeStep, PTL DEF Spec

-----------------------------------------------------------------------------
(* The heartbeat in time.                                                  *)

\* A connection that is not up carries nothing back, and a new heartbeat waits for it.
Idle ==
    /\ link # "up" => pings = <<>> /\ replies = <<>>
    /\ link = "none" => hb = NewHeartbeat
    /\ link \in {"none", "up", "silent"}

\* Misses are of pings in flight, and fewer than would drop the connection.
Counted ==
    /\ hb.inFlight # NoNonce => hb.lastActivity # Never
    /\ hb.inFlight = NoNonce => hb.misses = 0
    /\ hb.misses < MissesAllowed

\* The loop pings as soon as a ping is due.
Punctual ==
    /\ brokenAt <= now /\ answeredAt <= now
    /\ hb.lastActivity # Never => hb.lastActivity <= now
    /\ Open /\ hb.lastActivity # Never => now <= hb.lastActivity + Interval

\* Since the link went silent, every ping but the first was a miss.
Silence ==
    link = "silent" =>
      /\ hb.lastActivity = Never => brokenAt = now
      /\ hb.lastActivity # Never /\ hb.inFlight = NoNonce => hb.lastActivity <= brokenAt
      /\ hb.inFlight # NoNonce => hb.lastActivity <= brokenAt + (hb.misses + 1) * Interval

\* Since the last answer, the misses took their time.
Quiet == hb.inFlight # NoNonce => hb.lastActivity >= answeredAt + hb.misses * Interval

BeatInv == Idle /\ Counted /\ Punctual /\ Silence /\ Quiet

\* What the misses take.
LEMMA Taken ==
    ASSUME NEW m \in Nat
    PROVE  /\ m * Interval \in Nat
           /\ (m + 1) * Interval = m * Interval + Interval
           /\ \A k \in Nat : m <= k => m * Interval <= k * Interval
<1>1. m * Interval \in Nat /\ (m + 1) * Interval = m * Interval + Interval
    BY SMT DEF HeartbeatAssumption
<1>2. ASSUME NEW k \in Nat, m <= k PROVE m * Interval <= k * Interval
    <2>1. PICK d \in Nat : k = m + d
        BY <1>2
    <2>2. k * Interval = m * Interval + d * Interval /\ d * Interval \in Nat
        BY <2>1, SMT DEF HeartbeatAssumption
    <2>. QED BY <1>1, <2>2
<1>. QED BY <1>1, <1>2

\* A silent link is within the time it may take to be found.
LEMMA SilenceBounded == TypeOK /\ BeatInv => DetectedInTime
<1>. SUFFICES ASSUME TypeOK, BeatInv, link = "silent"
              PROVE  now - brokenAt <= (MissesAllowed + 1) * Interval
    BY DEF DetectedInTime
<1>1. now \in Nat /\ brokenAt \in Nat /\ hb.misses \in Nat /\ hb.lastActivity \in Nat \cup {Never}
      /\ MissesAllowed \in Nat \ {0} /\ Interval \in Nat \ {0}
    BY DEF TypeOK, Beats, HeartbeatAssumption
<1>2. hb.misses + 2 <= MissesAllowed + 1 /\ hb.misses + 2 \in Nat /\ MissesAllowed + 1 \in Nat
    BY <1>1 DEF BeatInv, Counted
<1>3. PICK p, q, r \in Nat :
        /\ p = (hb.misses + 1) * Interval
        /\ q = (hb.misses + 2) * Interval
        /\ r = (MissesAllowed + 1) * Interval
        /\ q = p + Interval /\ q <= r
    <2>1. hb.misses + 1 \in Nat /\ (hb.misses + 1) + 1 = hb.misses + 2
        BY <1>1
    <2>2. /\ (hb.misses + 1) * Interval \in Nat /\ (hb.misses + 2) * Interval \in Nat
          /\ (MissesAllowed + 1) * Interval \in Nat
          /\ (hb.misses + 2) * Interval = (hb.misses + 1) * Interval + Interval
          /\ (hb.misses + 2) * Interval <= (MissesAllowed + 1) * Interval
        BY <1>2, <2>1, Taken
    <2>. QED BY <2>2
<1>4. CASE hb.lastActivity = Never
    BY <1>1, <1>3, <1>4 DEF BeatInv, Silence
<1>5. CASE hb.lastActivity # Never /\ hb.inFlight = NoNonce
    BY <1>1, <1>3, <1>5 DEF BeatInv, Silence, Punctual, Open
<1>6. CASE hb.inFlight # NoNonce
    <2>1. hb.lastActivity \in Nat /\ hb.lastActivity <= brokenAt + p
          /\ now <= hb.lastActivity + Interval
        BY <1>1, <1>3, <1>6 DEF BeatInv, Silence, Punctual, Open, Counted
    <2>. QED BY <1>1, <1>3, <2>1
<1>. QED BY <1>4, <1>5, <1>6

\* A connection that is given up was quiet for long enough.
LEMMA DropQuiet ==
    ASSUME TypeOK, BeatInv, DropDead
    PROVE  now - answeredAt >= MissesAllowed * Interval
<1>1. now \in Nat /\ answeredAt \in Nat /\ hb.misses \in Nat /\ hb.lastActivity \in Nat \cup {Never}
      /\ MissesAllowed \in Nat \ {0} /\ Interval \in Nat \ {0}
    BY DEF TypeOK, Beats, HeartbeatAssumption
<1>2. hb.inFlight # NoNonce /\ hb.misses + 1 >= MissesAllowed
    BY <1>1 DEF DropDead, IsDead, OnSend, BeatInv, Counted
<1>3. hb.misses + 1 = MissesAllowed
    BY <1>1, <1>2 DEF BeatInv, Counted
<1>4. hb.lastActivity \in Nat /\ hb.lastActivity >= answeredAt + hb.misses * Interval
    BY <1>1, <1>2 DEF BeatInv, Counted, Quiet
<1>5. now >= hb.lastActivity + Interval
    BY <1>4 DEF DropDead, Due, Never
<1>6. PICK p, r \in Nat : p = hb.misses * Interval /\ r = MissesAllowed * Interval /\ r = p + Interval
    BY <1>1, <1>3, Taken
<1>. QED BY <1>1, <1>4, <1>5, <1>6

\* Every step keeps the bounds.
LEMMA BeatStep ==
    ASSUME TypeOK, TypeOK', BeatInv, [Next]_vars
    PROVE  BeatInv'
<1>t. /\ now \in Nat /\ brokenAt \in Nat /\ answeredAt \in Nat
      /\ hb.inFlight \in Nat /\ hb.misses \in Nat /\ hb.nextNonce \in Nat \ {0}
      /\ hb.lastActivity \in Nat \cup {Never}
      /\ MissesAllowed \in Nat \ {0} /\ Interval \in Nat \ {0}
    BY DEF TypeOK, Beats, HeartbeatAssumption
<1>p. PICK p, q \in Nat :
        p = hb.misses * Interval /\ q = (hb.misses + 1) * Interval /\ q = p + Interval
    BY <1>t, Taken
<1>n. /\ NewHeartbeat.inFlight = NoNonce /\ NewHeartbeat.misses = 0
      /\ NewHeartbeat.lastActivity = Never
    BY DEF NewHeartbeat
<1>c. ASSUME CloseLink, now' = now, brokenAt' <= now PROVE BeatInv'
    BY <1>c, <1>n, <1>t DEF CloseLink, BeatInv, Idle, Counted, Punctual, Silence, Quiet, Open
<1>s. ASSUME UNCHANGED <<now, link, hb, brokenAt, answeredAt>>,
             link # "up" => UNCHANGED <<pings, replies>>
      PROVE  BeatInv'
    BY <1>s DEF BeatInv, Idle, Counted, Punctual, Silence, Quiet, Open
<1>1. ASSUME NEW c \in Channel, Publish(c) PROVE BeatInv'
    BY <1>1, <1>s DEF Publish
<1>2. CASE Ping
    <2>1. /\ hb'.inFlight = hb.nextNonce /\ hb'.lastActivity = now
          /\ hb'.misses = IF hb.inFlight = NoNonce THEN hb.misses ELSE hb.misses + 1
          /\ hb'.misses < MissesAllowed
          /\ UNCHANGED <<now, link, replies, brokenAt, answeredAt>>
          /\ link # "up" => UNCHANGED pings
          /\ Open
        BY <1>2 DEF Ping, OnSend, IsDead, core, terminal, TypeOK, Beats
    <2>2. Due(hb, now)
        BY <1>2 DEF Ping
    <2>3. Idle'
        BY <2>1 DEF BeatInv, Idle, Open
    <2>4. Counted'
        BY <2>1, <1>t DEF Counted, NoNonce, Never
    <2>5. Punctual'
        BY <2>1, <1>t DEF BeatInv, Punctual, Never
    <2>6. Quiet'
        <3>1. CASE hb.inFlight = NoNonce
            <4>1. hb'.misses = 0
                BY <2>1, <3>1 DEF BeatInv, Counted
            <4>2. hb'.misses * Interval = 0
                BY <4>1, <1>t
            <4>. QED BY <2>1, <4>2, <1>t DEF BeatInv, Punctual, Quiet
        <3>2. CASE hb.inFlight # NoNonce
            <4>1. hb'.misses = hb.misses + 1 /\ hb'.misses * Interval = q
                BY <2>1, <3>2, <1>p
            <4>2. hb.lastActivity \in Nat /\ hb.lastActivity >= answeredAt + p
                BY <3>2, <1>t, <1>p DEF BeatInv, Counted, Quiet
            <4>3. now >= hb.lastActivity + Interval
                BY <2>2, <4>2, <1>t DEF Due, Never
            <4>4. now >= answeredAt + q
                BY <4>2, <4>3, <1>p, <1>t
            <4>. QED BY <2>1, <4>1, <4>4 DEF Quiet
        <3>. QED BY <3>1, <3>2
    <2>7. Silence'
        <3>. SUFFICES ASSUME link = "silent"
                      PROVE  now <= brokenAt + (hb'.misses + 1) * Interval
            BY <2>1, <1>t DEF Silence, NoNonce, Never
        <3>1. CASE hb.inFlight = NoNonce
            <4>1. hb'.misses = 0 /\ (hb'.misses + 1) * Interval = Interval
                <5>1. hb'.misses = 0
                    BY <2>1, <3>1 DEF BeatInv, Counted
                <5>2. (0 + 1) * Interval = Interval
                    BY <1>t
                <5>. QED BY <5>1, <5>2
            <4>2. now <= brokenAt + Interval
                BY <3>1, <1>t DEF BeatInv, Silence, Punctual, Open
            <4>. QED BY <4>1, <4>2
        <3>2. CASE hb.inFlight # NoNonce
            <4>1. hb'.misses = hb.misses + 1
                BY <2>1, <3>2
            <4>2. hb.lastActivity \in Nat /\ hb.lastActivity <= brokenAt + q
                  /\ now <= hb.lastActivity + Interval
                BY <3>2, <1>t, <1>p DEF BeatInv, Counted, Silence, Punctual, Open
            <4>3. PICK r \in Nat : r = (hb.misses + 1 + 1) * Interval /\ r = q + Interval
                <5>1. hb.misses + 1 \in Nat
                    BY <1>t
                <5>2. /\ (hb.misses + 1 + 1) * Interval = (hb.misses + 1) * Interval + Interval
                      /\ (hb.misses + 1 + 1) * Interval \in Nat
                    BY <5>1, <1>t, <1>p, Taken
                <5>. QED BY <5>2, <1>p
            <4>4. now <= brokenAt + r
                BY <4>2, <4>3, <1>t, <1>p
            <4>. QED BY <4>1, <4>3, <4>4
        <3>. QED BY <3>1, <3>2
    <2>. QED BY <2>3, <2>4, <2>5, <2>6, <2>7 DEF BeatInv
<1>3. CASE DropDead
    <2>1. brokenAt' <= now
        BY <1>3, <1>t DEF DropDead, BeatInv, Punctual
    <2>. QED BY <1>3, <1>c, <2>1 DEF DropDead
<1>4. CASE ReceivePong
    <2>1. /\ link = "up" /\ link' = link /\ now' = now /\ brokenAt' = brokenAt
          /\ answeredAt' \in {now, answeredAt}
          /\ hb' = OnPong(hb, Head(replies))
          /\ hb.inFlight = Head(replies) => answeredAt' = now
          /\ hb.inFlight # Head(replies) => answeredAt' = answeredAt
        BY <1>4 DEF ReceivePong, BeatInv, Idle
    <2>2. CASE hb.inFlight # NoNonce /\ hb.inFlight = Head(replies)
        <3>1. hb'.inFlight = NoNonce /\ hb'.misses = 0 /\ hb'.lastActivity = hb.lastActivity
            BY <2>1, <2>2 DEF OnPong, TypeOK, Beats
        <3>. QED BY <2>1, <3>1, <1>t DEF BeatInv, Idle, Counted, Punctual, Silence, Quiet, Open
    <2>3. CASE ~(hb.inFlight # NoNonce /\ hb.inFlight = Head(replies))
        <3>1. hb' = hb
            BY <2>1, <2>3 DEF OnPong
        <3>2. hb.inFlight # Head(replies)
            BY <1>4, <2>3 DEF ReceivePong
        <3>. QED BY <2>1, <3>1, <3>2, <1>t
                 DEF BeatInv, Idle, Counted, Punctual, Silence, Quiet, Open
    <2>. QED BY <2>2, <2>3
<1>5. CASE ReceiveTraffic
    <2>1. link = "up" /\ UNCHANGED <<link, now, brokenAt, answeredAt>>
        BY <1>5 DEF ReceiveTraffic, BeatInv, Idle
    <2>2. hb'.inFlight = hb.inFlight /\ hb'.misses = hb.misses /\ hb'.lastActivity = now
        BY <1>5 DEF ReceiveTraffic, SawTraffic, TypeOK, Beats
    <2>3. Idle' /\ Counted' /\ Silence'
        BY <2>1, <2>2, <1>t DEF BeatInv, Idle, Counted, Silence, Never
    <2>4. Punctual'
        BY <2>1, <2>2, <1>t DEF BeatInv, Punctual
    <2>5. Quiet'
        <3>. SUFFICES ASSUME hb.inFlight # NoNonce PROVE now >= answeredAt + hb.misses * Interval
            BY <2>1, <2>2 DEF Quiet
        <3>1. hb.lastActivity \in Nat /\ hb.lastActivity <= now /\ hb.lastActivity >= answeredAt + p
            BY <1>t, <1>p DEF BeatInv, Counted, Punctual, Quiet
        <3>. QED BY <3>1, <1>t, <1>p
    <2>. QED BY <2>3, <2>4, <2>5 DEF BeatInv
<1>6. CASE Restart
    <2>1. brokenAt' <= now
        BY <1>6, <1>t DEF Restart, BeatInv, Punctual
    <2>. QED BY <1>6, <1>c, <2>1 DEF Restart
<1>7. CASE Connect
    BY <1>7, <1>n, <1>t DEF Connect, BeatInv, Idle, Counted, Punctual, Silence, Quiet, Open
<1>8. CASE TakeAnswer
    BY <1>8, <1>s DEF TakeAnswer
<1>9. CASE TakeEvent
    BY <1>9, <1>s DEF TakeEvent
<1>10. CASE Pong
    <2>1. link = "up"
        BY <1>10 DEF Pong, BeatInv, Idle
    <2>. QED BY <1>10, <1>s, <2>1 DEF Pong
<1>11. CASE SendTraffic
    BY <1>11, <1>s DEF SendTraffic
<1>12. CASE GoSilent
    <2>1. /\ link' = "silent" /\ pings' = <<>> /\ replies' = <<>> /\ brokenAt' = now
          /\ UNCHANGED <<now, hb, answeredAt>> /\ link = "up"
        BY <1>12 DEF GoSilent
    <2>2. hb.lastActivity = Never \/ (hb.lastActivity \in Nat /\ hb.lastActivity <= now)
        BY <1>t DEF BeatInv, Punctual
    <2>3. hb.lastActivity # Never => hb.lastActivity <= now + q
        BY <2>2, <1>t, <1>p
    <2>4. Silence'
        BY <2>1, <2>2, <2>3, <1>p DEF BeatInv, Counted, Silence
    <2>5. Idle' /\ Counted' /\ Punctual' /\ Quiet'
        BY <2>1, <1>t DEF BeatInv, Idle, Counted, Punctual, Quiet, Open
    <2>. QED BY <2>4, <2>5 DEF BeatInv
<1>13. CASE Break
    BY <1>13, <1>c, <1>t DEF Break
<1>14. CASE Tick
    <2>1. /\ ~(Open /\ Due(hb, now)) /\ now' = now + 1
          /\ UNCHANGED <<link, hb, pings, replies, brokenAt, answeredAt>>
        BY <1>14 DEF Tick
    <2>2. Open => hb.lastActivity \in Nat /\ now < hb.lastActivity + Interval
        BY <2>1, <1>t DEF Due
    <2>3. Idle' /\ Counted' /\ Quiet'
        BY <2>1 DEF BeatInv, Idle, Counted, Quiet
    <2>4. Punctual'
        BY <2>1, <2>2, <1>t DEF BeatInv, Punctual, Open
    <2>5. Silence'
        BY <2>1, <2>2, <1>t DEF BeatInv, Silence, Open, Never
    <2>. QED BY <2>3, <2>4, <2>5 DEF BeatInv
<1>15. CASE UNCHANGED vars
    BY <1>15, <1>s DEF vars
<1>. QED
    BY <1>1, <1>2, <1>3, <1>4, <1>5, <1>6, <1>7, <1>8, <1>9, <1>10, <1>11, <1>12, <1>13, <1>14,
       <1>15 DEF Next

\* The initial state is within the bounds.
LEMMA BeatInit == Init => BeatInv
BY DEF Init, BeatInv, Idle, Counted, Punctual, Silence, Quiet, Open, NewHeartbeat,
       HeartbeatAssumption

\* Heartbeat: whatever a peer did just before it fell silent, it is found within
\* one interval more than the misses allowed.
THEOREM AlwaysDetectedInTime == Spec => []DetectedInTime
<1>. QED BY TypeInit, TypeStep, BeatInit, BeatStep, SilenceBounded, PTL DEF Spec

\* Heartbeat: a connection is given up only after as long without an answer as
\* the misses take.
THEOREM NeverGivenUpEarly == Spec => DeadWasQuiet
<1>1. TypeOK /\ BeatInv /\ [Next]_vars =>
        [DropDead => now - answeredAt >= MissesAllowed * Interval]_vars
    BY DropQuiet
<1>. QED BY <1>1, TypeInit, TypeStep, BeatInit, BeatStep, PTL DEF Spec, DeadWasQuiet

-----------------------------------------------------------------------------
(* The rings hold the latest events, numbered without a gap.               *)

Consecutive(c, ring) ==
    /\ Len(ring.entries) <= RingCapacity[c]
    /\ \A i \in 1..Len(ring.entries) : ring.entries[i].seq = ring.next - 1 - Len(ring.entries) + i

RingInv == \A c \in DOMAIN rings : Consecutive(c, rings[c])

\* The numbers of a ring before and after it grows, and after it drops its oldest.
LEMMA GrownNumbers ==
    ASSUME NEW n \in Nat, NEW x \in Nat
    PROVE  /\ x - 1 - n + (n + 1) = x
           /\ \A i \in 1..n : /\ i + 1 \in 1..(n + 1)
                              /\ x - 1 - n + (i + 1) = (x + 1) - 1 - n + i
           /\ \A i \in 1..(n + 1) : x - 1 - n + i = (x + 1) - 1 - (n + 1) + i
OBVIOUS

\* Where the events after the last one seen are in a ring of n, the next of which is x.
LEMMA RestNumbers ==
    ASSUME NEW n \in Nat, NEW x \in Nat, NEW after \in Nat, NEW k \in Nat,
           k = after + 1 + n - x, k <= n
    PROVE  /\ n - k = x - 1 - after
           /\ \A i \in 1..(n - k) : k + i \in 1..n /\ x - 1 - n + (k + i) = after + i
           /\ \A i \in 1..n : x - 1 - n + i <= after <=> i \in 1..k
           /\ 1..k \subseteq 1..n
OBVIOUS

\* How many numbers there are up to k.
LEMMA UptoCount ==
    ASSUME NEW k \in Nat
    PROVE  Cardinality(1..k) = k
BY FS_Interval

\* Ring::push keeps the numbers without a gap, and the capacity.
LEMMA PushConsecutive ==
    ASSUME NEW c \in Channel, NEW ring \in Ring, NEW t \in Nat, Consecutive(c, ring)
    PROVE  Consecutive(c, Push(c, ring, t))
<1> DEFINE event == [seq |-> ring.next, at |-> t]
           es    == ring.entries
           all   == Append(es, event)
           pushed == Push(c, ring, t)
<1>1. /\ es \in Seq(Entry) /\ event \in Entry /\ event.seq = ring.next
      /\ ring.next \in Nat /\ RingCapacity[c] \in Nat
    BY DEF Ring, Entry, ResumeLogAssumption
<1>2. pushed.next = ring.next + 1
    BY DEF Push
<1>3. pushed.entries = IF RingCapacity[c] = 0 THEN es
                       ELSE IF Len(all) > RingCapacity[c] THEN Tail(all) ELSE all
    BY DEF Push
<1>4. /\ Len(es) \in Nat /\ Len(es) <= RingCapacity[c]
      /\ \A i \in 1..Len(es) : es[i].seq = ring.next - 1 - Len(es) + i
    BY <1>1 DEF Consecutive
<1> HIDE DEF event, es, all, pushed
<1>n. PICK n, x, cap \in Nat : n = Len(es) /\ x = ring.next /\ cap = RingCapacity[c] /\ n <= cap
    BY <1>1, <1>4
<1>5. /\ all \in Seq(Entry) /\ Len(all) = n + 1
      /\ \A i \in 1..n : all[i] = es[i]
      /\ all[n + 1] = event
    BY <1>1, <1>n DEF all
<1>6. \A i \in 1..(n + 1) : all[i].seq = x - 1 - n + i
    <2>1. all[n + 1].seq = x - 1 - n + (n + 1)
        <3>1. x - 1 - n + (n + 1) = x
            BY GrownNumbers
        <3>. QED BY <1>1, <1>5, <1>n, <3>1
    <2>2. ASSUME NEW i \in 1..n PROVE all[i].seq = x - 1 - n + i
        BY <1>4, <1>5, <1>n, <2>2
    <2>3. \A i \in 1..(n + 1) : i \in 1..n \/ i = n + 1
        BY <1>n
    <2>. QED BY <2>1, <2>2, <2>3
<1>7. /\ Tail(all) \in Seq(Entry) /\ Len(Tail(all)) = n
      /\ \A i \in 1..n : Tail(all)[i] = all[i + 1]
    BY <1>5, <1>n
<1>8. CASE cap = 0
    BY <1>2, <1>3, <1>4, <1>n, <1>8 DEF Consecutive, pushed
<1>9. CASE cap # 0 /\ n + 1 > cap
    <2>1. ASSUME NEW i \in 1..n PROVE Tail(all)[i].seq = (x + 1) - 1 - n + i
        <3>1. i + 1 \in 1..(n + 1) /\ x - 1 - n + (i + 1) = (x + 1) - 1 - n + i
            BY GrownNumbers
        <3>2. all[i + 1].seq = x - 1 - n + (i + 1)
            BY <1>6, <3>1
        <3>. QED BY <1>7, <3>1, <3>2
    <2>2. pushed.entries = Tail(all) /\ pushed.next = x + 1
        BY <1>2, <1>3, <1>5, <1>9, <1>n
    <2>. QED BY <1>7, <1>n, <2>1, <2>2 DEF Consecutive, pushed
<1>10. CASE cap # 0 /\ ~(n + 1 > cap)
    <2>1. pushed.entries = all /\ pushed.next = x + 1 /\ n + 1 <= cap
        BY <1>2, <1>3, <1>5, <1>10, <1>n
    <2>2. ASSUME NEW i \in 1..(n + 1) PROVE all[i].seq = (x + 1) - 1 - (n + 1) + i
        <3>1. x - 1 - n + i = (x + 1) - 1 - (n + 1) + i
            BY GrownNumbers
        <3>. QED BY <1>6, <3>1
    <2>. QED BY <1>5, <1>n, <2>1, <2>2 DEF Consecutive, pushed
<1>. QED BY <1>8, <1>9, <1>10

\* Ring::since: what is replayed is everything after the last event seen.
LEMMA MissedIsRest ==
    ASSUME NEW c \in Channel, NEW ring \in Ring, NEW after \in Nat, NEW t \in Nat,
           Consecutive(c, ring), Reaches(ring, after, t)
    PROVE  /\ after < ring.next
           /\ Missed(ring, after) = [i \in 1..(ring.next - 1 - after) |-> after + i]
<1> DEFINE es   == ring.entries
           seen == {i \in DOMAIN es : es[i].seq <= after}
<1>1. es \in Seq(Entry) /\ ring.next \in Nat
    BY DEF Ring
<1>2. /\ Len(es) \in Nat /\ DOMAIN es = 1..Len(es) /\ es # <<>> /\ Head(es) = es[1]
      /\ Len(es) > 0
    BY <1>1 DEF Reaches
<1>3. \A i \in 1..Len(es) : es[i].seq = ring.next - 1 - Len(es) + i
    BY DEF Consecutive
<1>n. PICK n, x \in Nat : n = Len(es) /\ x = ring.next /\ n > 0
    BY <1>1, <1>2
<1>4. after < x /\ x - n <= after + 1
    <2>1. es[1].seq = x - 1 - n + 1
        BY <1>3, <1>n
    <2>. QED BY <1>2, <1>n, <2>1 DEF Reaches
<1>5. PICK k \in Nat : k = after + 1 + n - x /\ k <= n
    BY <1>n, <1>4
<1>6. seen = 1..k
    <2>1. ASSUME NEW i \in 1..n PROVE es[i].seq <= after <=> i \in 1..k
        <3>1. es[i].seq = x - 1 - n + i
            BY <1>3, <1>n
        <3>. QED BY <1>5, <3>1, RestNumbers
    <2>2. 1..k \subseteq 1..n
        BY <1>5, RestNumbers
    <2>. QED BY <1>2, <1>n, <2>1, <2>2
<1>7. Cardinality(seen) = k
    BY <1>6, UptoCount
<1>8. Missed(ring, after) = [i \in 1..(n - k) |-> es[k + i].seq]
    BY <1>7, <1>n DEF Missed
<1> HIDE DEF es, seen
<1>9. n - k = x - 1 - after
    BY <1>5, RestNumbers
<1>10. \A i \in 1..(n - k) : es[k + i].seq = after + i
    <2>. SUFFICES ASSUME NEW i \in 1..(n - k) PROVE es[k + i].seq = after + i
        OBVIOUS
    <2>1. k + i \in 1..n /\ x - 1 - n + (k + i) = after + i
        BY <1>5, RestNumbers
    <2>2. es[k + i].seq = x - 1 - n + (k + i)
        BY <1>3, <1>n, <2>1
    <2>. QED BY <2>1, <2>2
<1>. QED BY <1>4, <1>8, <1>9, <1>10, <1>n

-----------------------------------------------------------------------------
(* What the terminal holds, and what it will hold.                         *)

\* What a message makes of the last events seen: it follows on them.
Follows(from, m, to) ==
    /\ m.kind = "event" => /\ m.seq = from[m.channel] + 1
                           /\ to = [from EXCEPT ![m.channel] = m.seq]
    /\ m.kind = "resumed" =>
         /\ m.epoch = epoch
         /\ \A c \in Channel :
              IF c \in m.lost THEN to[c] = m.upTo[c]
              ELSE /\ knows = epoch /\ from[c] <= to[c]
                   /\ m.replay[c] = [i \in 1..(to[c] - from[c]) |-> from[c] + i]

\* The last events seen, after each message on the wire.
IsCourse(f) ==
    /\ f \in [0..Len(wire) -> [Channel -> Nat]]
    /\ f[0] = lastSeen
    /\ f[Len(wire)] = [c \in Channel |-> Published(c)]
    /\ \A i \in 1..Len(wire) : Follows(f[i - 1], wire[i], f[i])

\* The answer comes first, and the epoch is the core's once it was taken.
WireInv ==
    /\ link # "up" => wire = <<>>
    /\ link = "up" => /\ \E f : IsCourse(f)
                      /\ \A i \in 2..Len(wire) : wire[i].kind = "event"
                      /\ (wire # <<>> => wire[1].kind = "event") => knows = epoch

StepInv == RingInv /\ InStep /\ WireInv

\* Nothing is left on the wire: the terminal is where the core is.
LEMMA CourseEnds == TypeOK /\ StepInv => CaughtUp
<1>. SUFFICES ASSUME TypeOK, StepInv, link = "up", wire = <<>>
              PROVE  knows = epoch /\ \A c \in Channel : lastSeen[c] = Published(c)
    BY DEF CaughtUp
<1>1. PICK f : IsCourse(f)
    BY DEF StepInv, WireInv
<1>2. Len(wire) = 0
    OBVIOUS
<1>3. lastSeen = [c \in Channel |-> Published(c)]
    BY <1>1, <1>2 DEF IsCourse
<1>. QED BY <1>3 DEF StepInv, WireInv

\* Publishing counts one event of the channel, and none of another.
LEMMA PublishCounts ==
    ASSUME TypeOK, NEW c \in Channel, rings' = Record(rings, c, now), NEW d
    PROVE  Published(d)' = IF d = c THEN Published(c) + 1 ELSE Published(d)
<1>1. RingOf(rings, c) \in Ring /\ Published(c) \in Nat
    BY RingOfType, PublishedType DEF TypeOK
<1>2. CASE d = c
    <2>1. rings'[c] = Push(c, RingOf(rings, c), now) /\ c \in DOMAIN rings'
        BY DEF Record
    <2>2. NextSeq(rings', c) = RingOf(rings, c).next + 1
        BY <2>1 DEF NextSeq, RingOf, Push
    <2>. QED BY <1>1, <1>2, <2>2 DEF Published, NextSeq, Ring
<1>3. CASE d # c
    BY <1>3 DEF Record, Published, NextSeq, RingOf
<1>. QED BY <1>2, <1>3

\* The answer to a resume takes the terminal to where the core is.
LEMMA AnswerFollows ==
    ASSUME TypeOK, RingInv
    PROVE  Follows(lastSeen, Answer, [c \in Channel |-> Published(c)])
<1> DEFINE to == [c \in Channel |-> Published(c)]
<1>1. Answer.kind = "resumed" /\ Answer.epoch = epoch
      /\ \A c \in Channel : Answer.upTo[c] = Published(c)
    BY DEF Answer, Resumed
<1>2. CASE knows # epoch
    <2>1. Answer.lost = Channel
        BY <1>2 DEF Answer, Resumed
    <2>. QED BY <1>1, <2>1 DEF Follows
<1>3. CASE knows = epoch
    <2>1. ASSUME NEW c \in Channel, c \notin Answer.lost
          PROVE  /\ lastSeen[c] <= Published(c)
                 /\ Answer.replay[c] = [i \in 1..(Published(c) - lastSeen[c]) |-> lastSeen[c] + i]
        <3> DEFINE ring  == rings[c]
                   after == lastSeen[c]
        <3>1. CanReplay(rings, c, after, now)
            BY <1>3, <2>1 DEF Answer, Resumed, Resume, TypeOK
        <3>2. c \in DOMAIN rings /\ ring \in Ring /\ after \in Nat /\ Published(c) \in Nat
            BY <3>1, PublishedType DEF CanReplay, TypeOK
        <3>3. Published(c) = ring.next - 1 /\ ring.next \in Nat
            BY <3>2 DEF Published, NextSeq, RingOf, Ring
        <3>4. Answer.replay[c] = IF UpToDate(ring, after) THEN <<>> ELSE Missed(ring, after)
            BY <1>3, <2>1 DEF Answer, Resumed, Resume, TypeOK
        <3>5. CASE UpToDate(ring, after)
            <4>1. after = Published(c)
                BY <3>2, <3>3, <3>5 DEF UpToDate
            <4>2. <<>> = [i \in 1..(Published(c) - after) |-> after + i]
                <5>1. Published(c) - after = 0
                    BY <3>2, <4>1
                <5>2. [i \in 1..0 |-> after + i] = <<>>
                    OBVIOUS
                <5>. QED BY <5>1, <5>2
            <4>. QED BY <3>2, <3>4, <3>5, <4>1, <4>2
        <3>6. CASE ~UpToDate(ring, after)
            <4>1. Reaches(ring, after, now) /\ now \in Nat
                BY <3>1, <3>6 DEF CanReplay, TypeOK
            <4>2. Consecutive(c, ring)
                BY <3>2 DEF RingInv
            <4>3. after < ring.next
                  /\ Missed(ring, after) = [i \in 1..(ring.next - 1 - after) |-> after + i]
                BY <3>2, <4>1, <4>2, MissedIsRest
            <4>. QED BY <3>2, <3>3, <3>4, <3>6, <4>3
        <3>. QED BY <3>5, <3>6
    <2>. QED BY <1>1, <1>3, <2>1 DEF Follows
<1>. QED BY <1>2, <1>3

\* The elements of two sequences put together.
LEMMA ConcatElements ==
    ASSUME NEW S, NEW s \in Seq(S), NEW t \in Seq(S)
    PROVE  /\ s \o t \in Seq(S) /\ Len(s \o t) = Len(s) + Len(t)
           /\ \A i \in 1..(Len(s) + Len(t)) :
                (s \o t)[i] = IF i <= Len(s) THEN s[i] ELSE t[i - Len(s)]
OBVIOUS

\* The elements of a sequence whose first one was taken.
LEMMA TailElements ==
    ASSUME NEW S, NEW s \in Seq(S), s # <<>>
    PROVE  /\ Len(s) \in Nat /\ Len(s) > 0 /\ Head(s) = s[1]
           /\ Len(Tail(s)) = Len(s) - 1
           /\ \A i \in 1..(Len(s) - 1) : Tail(s)[i] = s[i + 1]
OBVIOUS

\* The events after the first n, up to the m-th.
Rest(e, n, m) == [i \in 1..(m - n) |-> [epoch |-> e, seq |-> n + i]]

\* A state made from the first n events, and the events after them.
LEMMA UptoGrows ==
    ASSUME NEW e \in Nat, NEW n \in Nat, NEW m \in Nat, n <= m
    PROVE  /\ Upto(e, n) \o Rest(e, n, m) = Upto(e, m)
           /\ Append(Upto(e, n), [epoch |-> e, seq |-> n + 1]) = Upto(e, n + 1)
<1> DEFINE E == [epoch : Nat, seq : Nat]
           ev(i) == [epoch |-> e, seq |-> i]
           rest == [i \in 1..(m - n) |-> ev(n + i)]
<1>1. \A i \in Nat : ev(i) \in E
    OBVIOUS
<1>2. \A k \in Nat : Upto(e, k) = [i \in 1..k |-> ev(i)]
    BY DEF Upto
<1> HIDE DEF E, ev
<1>3. \A k \in Nat : Upto(e, k) \in Seq(E) /\ Len(Upto(e, k)) = k
                     /\ \A i \in 1..k : Upto(e, k)[i] = ev(i)
    BY <1>1, <1>2
<1>4. m - n \in Nat /\ n + (m - n) = m
    OBVIOUS
<1>5. \A i \in 1..(m - n) : n + i \in Nat
    OBVIOUS
<1>6. rest \in Seq(E) /\ Len(rest) = m - n /\ \A i \in 1..(m - n) : rest[i] = ev(n + i)
    BY <1>1, <1>4, <1>5
<1> HIDE DEF rest
<1>7. Upto(e, n) \o rest = Upto(e, m)
    <2> DEFINE s == Upto(e, n) \o rest
    <2>1. /\ s \in Seq(E) /\ Len(s) = m
          /\ \A i \in 1..m : s[i] = IF i <= n THEN Upto(e, n)[i] ELSE rest[i - n]
        <3>1. Upto(e, n) \in Seq(E) /\ rest \in Seq(E) /\ Len(Upto(e, n)) = n /\ Len(rest) = m - n
            BY <1>3, <1>6
        <3>2. /\ s \in Seq(E) /\ Len(s) = n + (m - n)
              /\ \A i \in 1..(n + (m - n)) :
                   s[i] = IF i <= n THEN Upto(e, n)[i] ELSE rest[i - n]
            <4> DEFINE u == Upto(e, n)
            <4>1. u \in Seq(E) /\ rest \in Seq(E) /\ Len(u) = n /\ Len(rest) = m - n
                BY <3>1
            <4> HIDE DEF u
            <4>2. /\ u \o rest \in Seq(E) /\ Len(u \o rest) = Len(u) + Len(rest)
                  /\ \A i \in 1..(Len(u) + Len(rest)) :
                       (u \o rest)[i] = IF i <= Len(u) THEN u[i] ELSE rest[i - Len(u)]
                BY <4>1, ConcatElements
            <4>. QED BY <4>1, <4>2 DEF u
        <3>. QED BY <1>4, <3>2
    <2>2. ASSUME NEW i \in 1..m PROVE s[i] = ev(i)
        <3>1. CASE i <= n
            BY <1>3, <2>1, <3>1
        <3>2. CASE ~(i <= n)
            <4>1. i - n \in 1..(m - n) /\ n + (i - n) = i
                BY <3>2
            <4>. QED BY <1>6, <2>1, <3>2, <4>1
        <3>. QED BY <3>1, <3>2
    <2> HIDE DEF s
    <2>3. s = [i \in 1..m |-> ev(i)]
        BY <2>1, <2>2
    <2>. QED BY <1>2, <2>3 DEF s
<1>8. Append(Upto(e, n), ev(n + 1)) = Upto(e, n + 1)
    <2> DEFINE s == Append(Upto(e, n), ev(n + 1))
    <2>1. /\ s \in Seq(E) /\ Len(s) = n + 1 /\ s[n + 1] = ev(n + 1)
          /\ \A i \in 1..n : s[i] = Upto(e, n)[i]
        BY <1>1, <1>3
    <2>2. ASSUME NEW i \in 1..(n + 1) PROVE s[i] = ev(i)
        BY <1>3, <2>1
    <2> HIDE DEF s
    <2>3. s = [i \in 1..(n + 1) |-> ev(i)]
        BY <2>1, <2>2
    <2>. QED BY <1>2, <2>3 DEF s
<1>. QED BY <1>7, <1>8 DEF rest, ev, Rest

\* The same, of what was replayed.
LEMMA UptoReplayed ==
    ASSUME NEW e, e \in Nat, NEW n, n \in Nat, NEW m, m \in Nat, n <= m
    PROVE  Upto(e, n) \o Rest(e, n, m) = Upto(e, m)
BY UptoGrows

\* The same, of the event that was taken.
LEMMA UptoNext ==
    ASSUME NEW e, e \in Nat, NEW n, n \in Nat
    PROVE  Append(Upto(e, n), [epoch |-> e, seq |-> n + 1]) = Upto(e, n + 1)
<1>1. n <= n
    OBVIOUS
<1>. QED BY <1>1, UptoGrows

\* A message was taken: the course goes on from the next one.
LEMMA CourseGoesOn ==
    ASSUME TypeOK, wire # <<>>, wire' = Tail(wire), UNCHANGED core,
           NEW f, IsCourse(f), lastSeen' = f[1],
           \A i \in 2..Len(wire) : wire[i].kind = "event"
    PROVE  /\ \E g : IsCourse(g)'
           /\ \A i \in 1..Len(wire') : wire'[i].kind = "event"
<1>0. wire \in Seq(Message)
    BY DEF TypeOK
<1>1. PICK n \in Nat : n = Len(wire) /\ n > 0
    BY <1>0, TailElements
<1>2. Len(wire') = n - 1 /\ \A i \in 1..(n - 1) : wire'[i] = wire[i + 1]
    BY <1>0, <1>1, TailElements
<1> DEFINE g == [i \in 0..(n - 1) |-> f[i + 1]]
<1>3. /\ f \in [0..n -> [Channel -> Nat]]
      /\ f[n] = [c \in Channel |-> Published(c)]
      /\ \A i \in 1..n : Follows(f[i - 1], wire[i], f[i])
    BY <1>1 DEF IsCourse
<1>4. /\ n - 1 \in Nat /\ (n - 1) + 1 = n
      /\ \A i \in 0..(n - 1) : i + 1 \in 0..n
      /\ \A i \in 1..(n - 1) : /\ i + 1 \in 1..n /\ i + 1 \in 2..n /\ i - 1 \in 0..(n - 1)
                               /\ i \in 0..(n - 1)
                               /\ (i + 1) - 1 = i /\ (i - 1) + 1 = i
    BY <1>1
<1>5. g \in [0..(n - 1) -> [Channel -> Nat]]
    BY <1>3, <1>4
<1>6. g[0] = lastSeen' /\ g[n - 1] = [c \in Channel |-> Published(c)]
    BY <1>3, <1>4
<1>7. ASSUME NEW i \in 1..(n - 1)
      PROVE  wire'[i].kind = "event" /\ Follows(g[i - 1], wire[i], g[i])'
    <2>1. wire'[i] = wire[i + 1] /\ wire[i + 1].kind = "event"
        BY <1>1, <1>2, <1>4
    <2>2. Follows(f[i], wire[i + 1], f[i + 1])
        BY <1>3, <1>4
    <2>3. g[i] = f[i + 1] /\ g[i - 1] = f[i]
        BY <1>4
    <2>. QED BY <2>1, <2>2, <2>3 DEF Follows
<1>8. UNCHANGED [c \in Channel |-> Published(c)]
    BY DEF core, Published, NextSeq
<1> HIDE DEF g
<1>9. IsCourse(g)'
    BY <1>2, <1>5, <1>6, <1>7, <1>8 DEF IsCourse
<1>. QED BY <1>2, <1>7, <1>9

\* An event was published: the course goes one event further.
LEMMA PublishStep ==
    ASSUME TypeOK, StepInv, NEW c \in Channel, Publish(c)
    PROVE  StepInv'
<1>1. /\ rings' = Record(rings, c, now)
      /\ UNCHANGED <<epoch, link, knows, lastSeen, applied>>
    BY DEF Publish, terminal
<1>2. PICK channels \in SUBSET Channel : rings \in [channels -> Ring]
    BY DEF TypeOK
<1>3. RingInv'
    <2>1. Consecutive(c, RingOf(rings, c)) /\ RingOf(rings, c) \in Ring /\ now \in Nat
        <3>1. CASE c \in DOMAIN rings
            BY <1>2, <3>1 DEF StepInv, RingInv, RingOf, TypeOK
        <3>2. CASE c \notin DOMAIN rings
            <4>1. Consecutive(c, NewRing)
                BY DEF Consecutive, NewRing, ResumeLogAssumption
            <4>2. now \in Nat
                BY DEF TypeOK
            <4>. QED BY <1>2, <3>2, <4>1, <4>2, RingOfType DEF RingOf
        <3>. QED BY <3>1, <3>2
    <2>2. Consecutive(c, Push(c, RingOf(rings, c), now))
        BY <2>1, PushConsecutive
    <2>3. ASSUME NEW d \in DOMAIN rings' PROVE Consecutive(d, rings'[d])
        <3>1. CASE d = c
            BY <1>1, <2>2, <3>1 DEF Record
        <3>2. CASE d # c
            <4>1. d \in DOMAIN rings /\ rings'[d] = rings[d]
                BY <1>1, <2>3, <3>2 DEF Record
            <4>. QED BY <4>1 DEF StepInv, RingInv
        <3>. QED BY <3>1, <3>2
    <2>. QED BY <2>3 DEF RingInv
<1>4. InStep'
    BY <1>1 DEF StepInv, InStep
<1>5. CASE link # "up"
    BY <1>1, <1>3, <1>4, <1>5 DEF StepInv, WireInv, Publish
<1>6. CASE link = "up"
    <2> DEFINE m  == [kind |-> "event", channel |-> c, seq |-> NextSeq(rings, c)]
               to == [d \in Channel |-> Published(d)]
               after == [to EXCEPT ![c] = NextSeq(rings, c)]
    <2>1. wire' = Append(wire, m) /\ wire \in Seq(Message)
        BY <1>6 DEF Publish, TypeOK
    <2>2. PICK f : IsCourse(f)
        BY <1>6 DEF StepInv, WireInv
    <2>3. PICK n \in Nat : n = Len(wire)
        BY <2>1
    <2>4. m \in Message /\ NextSeq(rings, c) = Published(c) + 1 /\ NextSeq(rings, c) \in Nat
        <3>1. NextSeq(rings, c) = Published(c) + 1 /\ NextSeq(rings, c) \in Nat
            BY PublishedType
        <3>. QED BY <3>1 DEF Message
    <2>5. to \in [Channel -> Nat] /\ after \in [Channel -> Nat]
        BY <2>4, PublishedType
    <2>6. after = [d \in Channel |-> Published(d)']
        BY <1>1, <2>4, PublishCounts
    <2>7. Follows(to, m, after)
        BY <2>4 DEF Follows
    <2> HIDE DEF m, to, after
    <2>8. /\ Len(wire') = n + 1 /\ wire'[n + 1] = m
          /\ \A i \in 1..n : wire'[i] = wire[i]
        BY <2>1, <2>3, <2>4
    <2>9. /\ f \in [0..n -> [Channel -> Nat]] /\ f[0] = lastSeen /\ f[n] = to
          /\ \A i \in 1..n : Follows(f[i - 1], wire[i], f[i])
        BY <2>2, <2>3 DEF IsCourse, to
    <2>a. PICK last \in [Channel -> Nat] : last = after
        BY <2>5
    <2> DEFINE g == [i \in 0..(n + 1) |-> IF i <= n THEN f[i] ELSE last]
    <2>10. /\ \A i \in 0..n : i \in 0..(n + 1) /\ i <= n
           /\ n + 1 \in 0..(n + 1) /\ ~(n + 1 <= n) /\ (n + 1) - 1 = n /\ 0 \in 0..n /\ n \in 0..n
           /\ \A i \in 1..n : i \in 0..n /\ i - 1 \in 0..n
           /\ \A i \in 1..(n + 1) : i \in 1..n \/ i = n + 1
           /\ \A i \in 0..(n + 1) : i <= n => i \in 0..n
        BY <2>3
    <2>11. g \in [0..(n + 1) -> [Channel -> Nat]]
        BY <2>9, <2>10
    <2>12. g[0] = lastSeen /\ g[n + 1] = last /\ g[n] = to
        BY <2>9, <2>10
    <2>13. ASSUME NEW i \in 1..(n + 1) PROVE Follows(g[i - 1], wire'[i], g[i])
        <3>1. CASE i \in 1..n
            <4>1. g[i] = f[i] /\ g[i - 1] = f[i - 1] /\ wire'[i] = wire[i]
                BY <2>8, <2>10, <3>1
            <4>. QED BY <2>9, <3>1, <4>1
        <3>2. CASE i = n + 1
            BY <2>7, <2>8, <2>10, <2>12, <2>a, <3>2
        <3>. QED BY <2>10, <3>1, <3>2
    <2> HIDE DEF g
    <2>14. ASSUME NEW i \in 1..(n + 1) PROVE Follows(g[i - 1], wire[i], g[i])'
        <3>1. Follows(g[i - 1], wire'[i], g[i]) /\ epoch' = epoch /\ knows' = knows
            BY <1>1, <2>13
        <3>. QED BY <3>1 DEF Follows
    <2>15. IsCourse(g)'
        <3>1. last = [d \in Channel |-> Published(d)]'
            BY <2>6, <2>a
        <3>2. lastSeen' = lastSeen /\ Len(wire') = n + 1
            BY <1>1, <2>8
        <3>. QED BY <2>11, <2>12, <2>14, <3>1, <3>2 DEF IsCourse
    <2>16. \A i \in 2..Len(wire') : wire'[i].kind = "event"
        <3>1. \A i \in 2..(n + 1) : i \in 2..n \/ i = n + 1
            BY <2>3
        <3>2. \A i \in 2..n : wire[i].kind = "event" /\ wire'[i] = wire[i]
            <4>1. \A i \in 2..n : i \in 1..n
                BY <2>3
            <4>. QED BY <1>6, <2>3, <2>8, <4>1 DEF StepInv, WireInv
        <3>3. wire'[n + 1].kind = "event"
            BY <2>8 DEF m
        <3>. QED BY <2>8, <3>1, <3>2, <3>3
    <2>17. (wire' # <<>> => wire'[1].kind = "event") => knows' = epoch'
        <3>1. CASE n = 0
            <4>1. wire = <<>>
                <5>1. \A s \in Seq(Message) : Len(s) = 0 => s = <<>>
                    OBVIOUS
                <5>. QED BY <2>1, <2>3, <3>1, <5>1
            <4>. QED BY <1>1, <1>6, <4>1 DEF StepInv, WireInv
        <3>2. CASE n # 0
            <4>1. 1 \in 1..n /\ n + 1 # 0
                BY <2>3, <3>2
            <4>2. wire'[1] = wire[1] /\ wire # <<>> /\ wire' # <<>>
                BY <2>1, <2>3, <2>4, <2>8, <3>2, <4>1
            <4>. QED BY <1>1, <1>6, <4>2 DEF StepInv, WireInv
        <3>. QED BY <3>1, <3>2
    <2>. QED BY <1>1, <1>3, <1>4, <1>6, <2>15, <2>16, <2>17 DEF StepInv, WireInv
<1>. QED BY <1>5, <1>6

\* The answer was taken: what was replayed or handed over is a state of its own.
LEMMA TakeAnswerStep ==
    ASSUME TypeOK, StepInv, TakeAnswer
    PROVE  StepInv'
<1> DEFINE answer == Head(wire)
<1>1. /\ wire # <<>> /\ wire' = Tail(wire) /\ answer.kind = "resumed"
      /\ knows' = answer.epoch /\ UNCHANGED <<epoch, rings, link>>
      /\ lastSeen' = [c \in Channel |->
             IF c \in answer.lost THEN answer.upTo[c]
             ELSE IF answer.replay[c] = <<>> THEN lastSeen[c]
             ELSE answer.replay[c][Len(answer.replay[c])]]
      /\ applied' = [c \in Channel |->
             IF c \in answer.lost THEN Upto(answer.epoch, answer.upTo[c])
             ELSE applied[c] \o [i \in DOMAIN answer.replay[c] |->
                                   [epoch |-> answer.epoch, seq |-> answer.replay[c][i]]]]
    BY DEF TakeAnswer, core
<1>2. link = "up"
    BY <1>1 DEF StepInv, WireInv
<1>3. PICK f : IsCourse(f)
    BY <1>2 DEF StepInv, WireInv
<1>4. wire \in Seq(Message) /\ Len(wire) \in Nat /\ Len(wire) > 0 /\ answer = wire[1]
    BY <1>1, TailElements DEF TypeOK
<1>5. f[0] = lastSeen /\ f[1] \in [Channel -> Nat] /\ Follows(lastSeen, answer, f[1])
    <2>1. 1 \in 0..Len(wire) /\ 1 \in 1..Len(wire) /\ 1 - 1 = 0
        BY <1>4
    <2>. QED BY <1>3, <1>4, <2>1 DEF IsCourse
<1> HIDE DEF answer
<1>6. answer.epoch = epoch /\ epoch \in Nat
    BY <1>1, <1>5 DEF Follows, TypeOK
<1>7. ASSUME NEW c \in Channel
      PROVE  lastSeen'[c] = f[1][c] /\ applied'[c] = Upto(epoch, f[1][c])
    <2>1. CASE c \in answer.lost
        BY <1>1, <1>5, <1>6, <2>1 DEF Follows
    <2>2. CASE c \notin answer.lost
        <3>1. PICK n, m \in Nat : n = lastSeen[c] /\ m = f[1][c]
            BY <1>5 DEF TypeOK
        <3>2. /\ n <= m /\ knows = epoch
              /\ answer.replay[c] = [i \in 1..(m - n) |-> n + i]
            <4>1. /\ lastSeen[c] <= f[1][c] /\ knows = epoch
                  /\ answer.replay[c] = [i \in 1..(f[1][c] - lastSeen[c]) |-> lastSeen[c] + i]
                BY <1>1, <1>5, <2>2 DEF Follows
            <4>. QED BY <3>1, <4>1
        <3>3. applied[c] = Upto(epoch, n)
            BY <3>1, <3>2 DEF StepInv, InStep
        <3>4. DOMAIN answer.replay[c] = 1..(m - n)
              /\ \A i \in 1..(m - n) : answer.replay[c][i] = n + i
            BY <3>2
        <3>5. applied'[c] = Upto(epoch, n) \o Rest(epoch, n, m)
            BY <1>1, <1>6, <2>2, <3>3, <3>4 DEF Rest
        <3>6. applied'[c] = Upto(epoch, m)
            <4>1. Upto(epoch, n) \o Rest(epoch, n, m) = Upto(epoch, m)
                BY <1>6, <3>2, UptoReplayed
            <4>. QED BY <3>5, <4>1
        <3>7. lastSeen'[c] = m
            <4>1. lastSeen'[c] = IF answer.replay[c] = <<>> THEN n
                                 ELSE answer.replay[c][Len(answer.replay[c])]
                BY <1>1, <2>2, <3>1
            <4>2. Len([i \in 1..(m - n) |-> n + i]) = m - n
                <5>1. m - n \in Nat
                    BY <3>2
                <5>. QED BY <5>1
            <4>3. CASE m = n
                <5>1. [i \in 1..(m - n) |-> n + i] = <<>>
                    <6>1. m - n = 0
                        BY <4>3
                    <6>2. [i \in 1..0 |-> n + i] = <<>>
                        OBVIOUS
                    <6>. QED BY <6>1, <6>2
                <5>. QED BY <3>2, <4>1, <4>3, <5>1
            <4>4. CASE m # n
                <5>1. m - n \in 1..(m - n) /\ n + (m - n) = m /\ m - n # 0
                    BY <3>2, <4>4
                <5>2. answer.replay[c] # <<>>
                    <6>1. Len(<<>>) = 0
                        OBVIOUS
                    <6>. QED BY <3>2, <4>2, <5>1, <6>1
                <5>3. answer.replay[c][m - n] = m
                    BY <3>4, <5>1
                <5>. QED BY <3>2, <4>1, <4>2, <5>2, <5>3
            <4>. QED BY <4>3, <4>4
        <3>. QED BY <3>1, <3>6, <3>7
    <2>. QED BY <2>1, <2>2
<1>8. lastSeen' = f[1]
    BY <1>1, <1>5, <1>7
<1>9. InStep'
    BY <1>1, <1>6, <1>7 DEF InStep
<1>10. /\ \E g : IsCourse(g)'
       /\ \A i \in 1..Len(wire') : wire'[i].kind = "event"
    BY <1>1, <1>2, <1>3, <1>8, CourseGoesOn DEF StepInv, WireInv, core
<1>11. RingInv'
    BY <1>1 DEF StepInv, RingInv
<1>12. WireInv'
    <2>1. \A i \in 2..Len(wire') : i \in 1..Len(wire')
        <3>1. Len(wire') \in Nat
            BY <1>1, <1>4, TailElements
        <3>. QED BY <3>1
    <2>. QED BY <1>1, <1>2, <1>6, <1>10, <2>1 DEF WireInv
<1>. QED BY <1>9, <1>11, <1>12 DEF StepInv

\* An event was taken: it is the next one of its channel.
LEMMA TakeEventStep ==
    ASSUME TypeOK, StepInv, TakeEvent
    PROVE  StepInv'
<1> DEFINE event == Head(wire)
<1>1. /\ wire # <<>> /\ wire' = Tail(wire) /\ event.kind = "event"
      /\ UNCHANGED <<epoch, rings, link, knows>>
      /\ lastSeen' = [lastSeen EXCEPT ![event.channel] = event.seq]
      /\ applied' = [applied EXCEPT ![event.channel] =
                       Append(@, [epoch |-> knows, seq |-> event.seq])]
    BY DEF TakeEvent, core
<1>2. link = "up"
    BY <1>1 DEF StepInv, WireInv
<1>3. PICK f : IsCourse(f)
    BY <1>2 DEF StepInv, WireInv
<1>4. wire \in Seq(Message) /\ Len(wire) \in Nat /\ Len(wire) > 0 /\ event = wire[1]
      /\ event \in Message
    BY <1>1, QueueTypes, TailElements DEF TypeOK
<1>5. f[0] = lastSeen /\ Follows(lastSeen, event, f[1])
    <2>1. 1 \in 1..Len(wire) /\ 1 - 1 = 0
        BY <1>4
    <2>. QED BY <1>3, <1>4, <2>1 DEF IsCourse
<1>6. event.channel \in Channel
    BY <1>1, <1>4 DEF Message
<1> HIDE DEF event
<1>7. event.seq = lastSeen[event.channel] + 1 /\ lastSeen' = f[1]
    BY <1>1, <1>5 DEF Follows
<1>8. InStep'
    <2>1. ASSUME NEW c \in Channel PROVE applied'[c] = Upto(knows, lastSeen'[c])
        <3>1. CASE c = event.channel
            <4>1. PICK n \in Nat : n = lastSeen[c]
                BY DEF TypeOK
            <4>2. applied[c] = Upto(knows, n) /\ knows \in Nat
                BY <4>1 DEF StepInv, InStep, TypeOK
            <4>3. /\ applied'[c] = Append(applied[c], [epoch |-> knows, seq |-> n + 1])
                  /\ lastSeen'[c] = n + 1
                BY <1>1, <1>7, <3>1, <4>1 DEF TypeOK
            <4>. QED BY <4>2, <4>3, UptoNext
        <3>2. CASE c # event.channel
            <4>1. applied'[c] = applied[c] /\ lastSeen'[c] = lastSeen[c]
                BY <1>1, <1>6, <3>2 DEF TypeOK
            <4>. QED BY <4>1 DEF StepInv, InStep
        <3>. QED BY <3>1, <3>2
    <2>. QED BY <1>1, <2>1 DEF InStep
<1>9. /\ \E g : IsCourse(g)'
      /\ \A i \in 1..Len(wire') : wire'[i].kind = "event"
    BY <1>1, <1>2, <1>3, <1>7, CourseGoesOn DEF StepInv, WireInv, core
<1>10. RingInv'
    BY <1>1 DEF StepInv, RingInv
<1>11. knows = epoch
    BY <1>1, <1>2, <1>4 DEF StepInv, WireInv
<1>12. WireInv'
    <2>1. \A i \in 2..Len(wire') : i \in 1..Len(wire')
        <3>1. Len(wire') \in Nat
            BY <1>1, <1>4, TailElements
        <3>. QED BY <3>1
    <2>. QED BY <1>1, <1>2, <1>9, <1>11, <2>1 DEF WireInv
<1>. QED BY <1>8, <1>10, <1>12 DEF StepInv

\* Every step leaves the terminal with a state of its own.
LEMMA StepInvStep ==
    ASSUME TypeOK, BeatInv, StepInv, [Next]_vars
    PROVE  StepInv'
<1>s. ASSUME UNCHANGED <<epoch, rings, knows, lastSeen, applied>>,
             UNCHANGED <<link, wire>> \/ (link' # "up" /\ wire' = <<>>)
      PROVE  StepInv'
    <2>1. InStep' /\ RingInv'
        BY <1>s DEF StepInv, InStep, RingInv
    <2>2. CASE link' # "up" /\ wire' = <<>>
        BY <2>1, <2>2 DEF StepInv, WireInv
    <2>3. CASE UNCHANGED <<link, wire>>
        <3>1. \A c \in Channel : UNCHANGED Published(c)
            BY <1>s DEF Published, NextSeq
        <3>2. [c \in Channel |-> Published(c)]' = [c \in Channel |-> Published(c)]
            BY <3>1
        <3>3. ASSUME NEW f, IsCourse(f) PROVE IsCourse(f)'
            <4>1. ASSUME NEW i \in 1..Len(wire), Follows(f[i - 1], wire[i], f[i])
                  PROVE  Follows(f[i - 1], wire[i], f[i])'
                <5>1. wire'[i] = wire[i] /\ epoch' = epoch /\ knows' = knows
                    BY <1>s, <2>3
                <5>. QED BY <4>1, <5>1 DEF Follows
            <4>2. lastSeen' = lastSeen /\ Len(wire') = Len(wire)
                BY <1>s, <2>3
            <4>. QED BY <3>2, <3>3, <4>1, <4>2 DEF IsCourse
        <3>4. WireInv'
            BY <1>s, <2>3, <3>3 DEF StepInv, WireInv
        <3>. QED BY <2>1, <3>4 DEF StepInv
    <2>. QED BY <1>s, <2>2, <2>3
<1>1. ASSUME NEW c \in Channel, Publish(c) PROVE StepInv'
    BY <1>1, PublishStep
<1>2. CASE Ping
    BY <1>2, <1>s DEF Ping, core, terminal
<1>3. CASE DropDead
    BY <1>3, <1>s DEF DropDead, CloseLink, core, terminal
<1>4. CASE ReceivePong
    BY <1>4, <1>s DEF ReceivePong, core, terminal
<1>5. CASE ReceiveTraffic
    BY <1>5, <1>s DEF ReceiveTraffic, core, terminal
<1>6. CASE Restart
    <2>1. RingInv'
        BY <1>6 DEF Restart, RingInv, NoRings
    <2>2. InStep'
        BY <1>6 DEF Restart, StepInv, InStep, terminal
    <2>3. WireInv'
        BY <1>6 DEF Restart, CloseLink, WireInv
    <2>. QED BY <2>1, <2>2, <2>3 DEF StepInv
<1>7. CASE Connect
    <2>1. /\ wire' = <<Answer>> /\ link' = "up"
          /\ UNCHANGED <<epoch, rings, knows, lastSeen, applied>>
        BY <1>7 DEF Connect, core, terminal
    <2>2. InStep' /\ RingInv'
        BY <2>1 DEF StepInv, InStep, RingInv
    <2>3. Follows(lastSeen, Answer, [c \in Channel |-> Published(c)])
        BY AnswerFollows DEF StepInv
    <2>4. /\ lastSeen \in [Channel -> Nat]
          /\ [c \in Channel |-> Published(c)] \in [Channel -> Nat]
        BY PublishedType DEF TypeOK
    <2>5. PICK a, from, to :
            /\ a = Answer /\ from = lastSeen /\ to = [c \in Channel |-> Published(c)]
        OBVIOUS
    <2> DEFINE f == [i \in 0..1 |-> IF i = 0 THEN from ELSE to]
    <2>6. IsCourse(f)'
        <3>1. Len(wire') = 1 /\ wire'[1] = a
            BY <2>1, <2>5
        <3>2. f \in [0..1 -> [Channel -> Nat]] /\ f[0] = from /\ f[1] = to
            BY <2>4, <2>5
        <3>3. from = lastSeen' /\ to = [c \in Channel |-> Published(c)]'
            BY <2>1, <2>5 DEF Published, NextSeq
        <3>4. Follows(from, a, to)
            BY <2>3, <2>5
        <3>5. Follows(from, wire[1], to)'
            BY <2>1, <3>1, <3>4 DEF Follows
        <3> HIDE DEF f
        <3>6. ASSUME NEW i \in 1..1 PROVE Follows(f[i - 1], wire[i], f[i])'
            <4>1. i = 1 /\ i - 1 = 0
                OBVIOUS
            <4>. QED BY <3>2, <3>5, <4>1
        <3>. QED BY <3>1, <3>2, <3>3, <3>6 DEF IsCourse
    <2>7. Answer.kind = "resumed"
        BY DEF Answer, Resumed
    <2>8. WireInv'
        <3>1. wire' # <<>> /\ wire'[1].kind # "event" /\ 2..Len(wire') = {}
            BY <2>1, <2>7
        <3>. QED BY <2>1, <2>6, <3>1 DEF WireInv
    <2>. QED BY <2>2, <2>8 DEF StepInv
<1>8. CASE TakeAnswer
    BY <1>8, TakeAnswerStep
<1>9. CASE TakeEvent
    BY <1>9, TakeEventStep
<1>10. CASE Pong
    BY <1>10, <1>s DEF Pong, core, terminal
<1>11. CASE SendTraffic
    BY <1>11, <1>s DEF SendTraffic, core, terminal
<1>12. CASE GoSilent
    BY <1>12, <1>s DEF GoSilent, core, terminal
<1>13. CASE Break
    BY <1>13, <1>s DEF Break, CloseLink, core, terminal
<1>14. CASE Tick
    BY <1>14, <1>s DEF Tick, core, terminal
<1>15. CASE UNCHANGED vars
    BY <1>15, <1>s DEF vars, core, terminal
<1>. QED
    BY <1>1, <1>2, <1>3, <1>4, <1>5, <1>6, <1>7, <1>8, <1>9, <1>10, <1>11, <1>12, <1>13, <1>14,
       <1>15 DEF Next

\* The terminal starts with nothing, which is a state of its own.
LEMMA StepInvInit == Init => StepInv
<1>. SUFFICES ASSUME Init PROVE StepInv
    OBVIOUS
<1>1. RingInv
    BY DEF Init, RingInv, NoRings
<1>2. InStep
    <2>1. Upto(0, 0) = <<>>
        BY DEF Upto
    <2>. QED BY <2>1 DEF Init, InStep
<1>3. WireInv
    BY DEF Init, WireInv
<1>. QED BY <1>1, <1>2, <1>3 DEF StepInv

\* ResumeLog: a replay is never part of what was missed, twice of it, or of
\* another lifetime.
THEOREM AlwaysInStep == Spec => []InStep
<1>1. StepInv => InStep
    BY DEF StepInv
<1>. QED BY <1>1, TypeInit, TypeStep, BeatInit, BeatStep, StepInvInit, StepInvStep, PTL DEF Spec

\* ResumeLog: with its connection empty, a terminal has everything that was published.
THEOREM AlwaysCaughtUp == Spec => []CaughtUp
<1>. QED BY CourseEnds, TypeInit, TypeStep, BeatInit, BeatStep, StepInvInit, StepInvStep, PTL
         DEF Spec
=============================================================================
