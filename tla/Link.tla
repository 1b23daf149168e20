-------------------------------- MODULE Link --------------------------------
(***************************************************************************)
(* One session over links that come and go: the core's replayable history  *)
(* (ResumeLog), its heartbeat on the connection of the moment (Heartbeat), *)
(* and a terminal that connects again and says where it got to.            *)
(*                                                                         *)
(* The terminal, the connection and the loop that drives the heartbeat are *)
(* not in the repository.  A connection keeps the order of what it carries *)
(* and may go silent: then nothing arrives and nothing fails.  The loop    *)
(* pings the moment a ping is due, and gives up when the peer is dead.     *)
(***************************************************************************)
EXTENDS ResumeLog, Heartbeat

CONSTANTS MaxTime,     \* ticks of the clock
          MaxEpoch,    \* lifetimes of the core
          MaxSeq,      \* events per channel and lifetime
          MaxOnWire,   \* messages on their way to the terminal
          MaxReplies   \* frames on their way to the core

ASSUME LinkAssumption ==
    MaxTime \in Nat /\ MaxEpoch \in Nat /\ MaxSeq \in Nat
    /\ MaxOnWire \in Nat /\ MaxReplies \in Nat

VARIABLES now,
          epoch,        \* ResumeLog::epoch
          rings,        \* ResumeLog::rings
          link,         \* "none", "up", or "silent": open for the core only
          hb,           \* the core's Heartbeat on the link
          wire,         \* events and answers on their way to the terminal
          pings,        \* nonces on their way to the terminal, ahead of everything else
          replies,      \* nonces on their way back, and other frames as NoNonce
          knows,        \* the terminal: the epoch it knows, 0 for none
          lastSeen,     \* the terminal: the last event it saw, per channel
          applied,      \* the events its state was made of, per channel (history)
          brokenAt,     \* when the link went silent or broke (history)
          answeredAt    \* when the last ping was answered, or the link was opened (history)

core     == <<epoch, rings>>
terminal == <<knows, lastSeen, applied>>
vars     == <<now, core, link, hb, wire, pings, replies, terminal, brokenAt, answeredAt>>

\* Whether the core has a connection.
Open == link # "none"

\* What the core has published on a channel in its lifetime.
Published(c) == NextSeq(rings, c) - 1

\* The state of a channel made from its first n events.
Upto(e, n) == [i \in 1..n |-> [epoch |-> e, seq |-> i]]

Init ==
    /\ now = 0
    /\ epoch = 1
    /\ rings = NoRings
    /\ link = "none"
    /\ hb = NewHeartbeat
    /\ wire = <<>> /\ pings = <<>> /\ replies = <<>>
    /\ knows = 0
    /\ lastSeen = [c \in Channel |-> 0]
    /\ applied = [c \in Channel |-> <<>>]
    /\ brokenAt = 0
    /\ answeredAt = 0

-----------------------------------------------------------------------------
(* The core.                                                               *)

\* An event is recorded, and sent if there is a connection.
Publish(c) ==
    /\ Published(c) < MaxSeq
    /\ link = "up" => Len(wire) < MaxOnWire
    /\ rings' = Record(rings, c, now)
    /\ wire' = IF link = "up"
               THEN Append(wire, [kind |-> "event", channel |-> c, seq |-> NextSeq(rings, c)])
               ELSE wire
    /\ UNCHANGED <<now, epoch, link, hb, pings, replies, terminal, brokenAt, answeredAt>>

\* The connection is gone for both sides.
CloseLink ==
    /\ link' = "none"
    /\ hb' = NewHeartbeat
    /\ wire' = <<>> /\ pings' = <<>> /\ replies' = <<>>
    /\ answeredAt' = 0

\* A ping goes out.
Ping ==
    /\ Open /\ Due(hb, now)
    /\ hb' = OnSend(hb, now)
    /\ ~IsDead(OnSend(hb, now))
    /\ pings' = IF link = "up" THEN Append(pings, hb.nextNonce) ELSE pings
    /\ UNCHANGED <<now, core, link, wire, replies, terminal, brokenAt, answeredAt>>

\* The peer has missed enough pings: the connection is dropped.
DropDead ==
    /\ Open /\ Due(hb, now)
    /\ IsDead(OnSend(hb, now))
    /\ CloseLink
    /\ brokenAt' = IF link = "up" THEN now ELSE brokenAt
    /\ UNCHANGED <<now, core, terminal>>

\* A pong arrives.
ReceivePong ==
    /\ replies # <<>> /\ Head(replies) # NoNonce
    /\ replies' = Tail(replies)
    /\ hb' = OnPong(hb, Head(replies))
    /\ answeredAt' = IF hb.inFlight = Head(replies) THEN now ELSE answeredAt
    /\ UNCHANGED <<now, core, link, wire, pings, terminal, brokenAt>>

\* Any other frame arrives.
ReceiveTraffic ==
    /\ replies # <<>> /\ Head(replies) = NoNonce
    /\ replies' = Tail(replies)
    /\ hb' = SawTraffic(hb, now)
    /\ UNCHANGED <<now, core, link, wire, pings, terminal, brokenAt, answeredAt>>

\* The core starts again: a new epoch, and an empty history.
Restart ==
    /\ epoch < MaxEpoch
    /\ epoch' = epoch + 1
    /\ rings' = NoRings
    /\ CloseLink
    /\ brokenAt' = IF link = "up" THEN now ELSE brokenAt
    /\ UNCHANGED <<now, terminal>>

-----------------------------------------------------------------------------
(* The terminal.                                                           *)

\* An answer: what is replayed, and the starting state of what is not, as the
\* core has it now.
Resumed(result) ==
    [kind |-> "resumed", epoch |-> epoch, lost |-> result.lost, replay |-> result.replay,
     upTo |-> [c \in Channel |-> Published(c)]]

\* A mutant: a resume is answered whatever lifetime it speaks of.
AnswerAnyEpoch == Resumed(Resume(rings, lastSeen, now))

\* The answer to a resume.  An epoch of another lifetime is refused, and the
\* terminal starts clean.
Answer ==
    IF knows = epoch THEN Resumed(Resume(rings, lastSeen, now))
    ELSE Resumed([lost |-> Channel, replay |-> [c \in Channel |-> <<>>]])

\* The terminal connects, for the first time or again.
Connect ==
    /\ link # "up"
    /\ link' = "up"
    /\ hb' = NewHeartbeat
    /\ wire' = <<Answer>> /\ pings' = <<>> /\ replies' = <<>>
    /\ answeredAt' = now
    /\ brokenAt' = 0
    /\ UNCHANGED <<now, core, terminal>>

\* The terminal applies the answer to its resume.
TakeAnswer ==
    LET answer == Head(wire)
    IN  /\ wire # <<>> /\ answer.kind = "resumed"
        /\ wire' = Tail(wire)
        /\ knows' = answer.epoch
        /\ lastSeen' = [c \in Channel |->
             IF c \in answer.lost THEN answer.upTo[c]
             ELSE IF answer.replay[c] = <<>> THEN lastSeen[c]
             ELSE answer.replay[c][Len(answer.replay[c])]]
        /\ applied' = [c \in Channel |->
             IF c \in answer.lost THEN Upto(answer.epoch, answer.upTo[c])
             ELSE applied[c] \o [i \in DOMAIN answer.replay[c] |->
                                   [epoch |-> answer.epoch, seq |-> answer.replay[c][i]]]]
        /\ UNCHANGED <<now, core, link, hb, pings, replies, brokenAt, answeredAt>>

\* The terminal applies an event.
TakeEvent ==
    LET event == Head(wire)
    IN  /\ wire # <<>> /\ event.kind = "event"
        /\ wire' = Tail(wire)
        /\ lastSeen' = [lastSeen EXCEPT ![event.channel] = event.seq]
        /\ applied' = [applied EXCEPT ![event.channel] =
                         Append(@, [epoch |-> knows, seq |-> event.seq])]
        /\ UNCHANGED <<now, core, link, hb, pings, replies, knows, brokenAt, answeredAt>>

\* The terminal answers a ping.
Pong ==
    /\ pings # <<>>
    /\ Len(replies) < MaxReplies
    /\ pings' = Tail(pings)
    /\ replies' = Append(replies, Head(pings))
    /\ UNCHANGED <<now, core, link, hb, wire, terminal, brokenAt, answeredAt>>

\* The terminal sends something else.
SendTraffic ==
    /\ link = "up"
    /\ Len(replies) < MaxReplies
    /\ replies' = Append(replies, NoNonce)
    /\ UNCHANGED <<now, core, link, hb, wire, pings, terminal, brokenAt, answeredAt>>

-----------------------------------------------------------------------------
(* The link and the clock.                                                 *)

\* The terminal is gone, and the core is not told.
GoSilent ==
    /\ link = "up"
    /\ link' = "silent"
    /\ wire' = <<>> /\ pings' = <<>> /\ replies' = <<>>
    /\ brokenAt' = now
    /\ UNCHANGED <<now, core, hb, terminal, answeredAt>>

\* The connection fails for both sides.
Break ==
    /\ link = "up"
    /\ CloseLink
    /\ brokenAt' = now
    /\ UNCHANGED <<now, core, terminal>>

\* Time passes, but not past a ping that is due.
Tick ==
    /\ now < MaxTime
    /\ ~(Open /\ Due(hb, now))
    /\ now' = now + 1
    /\ UNCHANGED <<core, link, hb, wire, pings, replies, terminal, brokenAt, answeredAt>>

Next ==
    \/ \E c \in Channel : Publish(c)
    \/ Ping \/ DropDead \/ ReceivePong \/ ReceiveTraffic \/ Restart
    \/ Connect \/ TakeAnswer \/ TakeEvent \/ Pong \/ SendTraffic
    \/ GoSilent \/ Break \/ Tick

Spec == Init /\ [][Next]_vars

-----------------------------------------------------------------------------
(* Properties.                                                             *)

Entry   == [seq : Nat, at : Nat]
Ring    == [entries : Seq(Entry), next : Nat \ {0}]
Beats   == [inFlight : Nat, nextNonce : Nat \ {0}, misses : Nat, lastActivity : Nat \cup {Never}]
Message == [kind : {"event"}, channel : Channel, seq : Nat]
           \cup [kind : {"resumed"}, epoch : Nat, lost : SUBSET Channel,
                 replay : [Channel -> Seq(Nat)], upTo : [Channel -> Nat]]

\* The types of the variables.
TypeOK ==
    /\ now \in Nat
    /\ epoch \in Nat \ {0}
    /\ \E channels \in SUBSET Channel : rings \in [channels -> Ring]
    /\ link \in {"none", "up", "silent"}
    /\ hb \in Beats
    /\ wire \in Seq(Message)
    /\ pings \in Seq(Nat \ {NoNonce})
    /\ replies \in Seq(Nat)
    /\ knows \in Nat
    /\ lastSeen \in [Channel -> Nat]
    /\ applied \in [Channel -> Seq([epoch : Nat, seq : Nat])]
    /\ brokenAt \in Nat
    /\ answeredAt \in Nat

\* "A partial replay must never be offered" (resume.rs): over breaks, replays,
\* snapshots and restarts of the core, what the terminal holds of a channel is
\* all of its events up to the last one it saw, of one lifetime, once and in order.
InStep == \A c \in Channel : applied[c] = Upto(knows, lastSeen[c])

\* "Gets back only what it missed", and no less: a terminal that has taken all
\* that its connection carried has seen everything the core has published.
CaughtUp ==
    link = "up" /\ wire = <<>> =>
        knows = epoch /\ \A c \in Channel : lastSeen[c] = Published(c)

\* A dead peer does not stay undetected for longer than the misses allowed and
\* the ping before them take (Heartbeat::on_send counts a miss when the next
\* ping goes out), whatever it sent or answered just before it went silent.
DetectedInTime == link = "silent" => now - brokenAt <= (MissesAllowed + 1) * Interval

\* A connection is given up only if nothing was answered for as long as the
\* misses take: a peer that answers at once is never dropped, and a lost answer
\* of an earlier outage does not count against it.
DeadWasQuiet == [][DropDead => now - answeredAt >= MissesAllowed * Interval]_vars

\* heartbeat.rs:33 says of DETECTION_BOUND: "Upper bound on how long a dead peer
\* stays undetected", the misses allowed times the interval.
DetectionBound == link = "silent" => now - brokenAt <= MissesAllowed * Interval

\* The events after the last one seen are all still held, and there are some.
MissedHeld(c) ==
    /\ c \in DOMAIN rings /\ rings[c].entries # <<>>
    /\ lastSeen[c] < Published(c)
    /\ Head(rings[c].entries).seq <= lastSeen[c] + 1

\* resume.rs:12 says "The terminal says where it got to, and gets back only what
\* it missed", for a break of up to RESUME_WINDOW, "How far back a resume can reach".
ShortBreakReplayed ==
    [][Connect /\ knows = epoch /\ now - brokenAt <= ResumeWindow =>
         \A c \in Resumable : MissedHeld(c) => c \notin Answer.lost]_vars
=============================================================================
