----------------------------- MODULE Heartbeat -----------------------------
(***************************************************************************)
(* Liveness of one connection (crates/wire/src/heartbeat.rs).              *)
(*                                                                         *)
(* The measured round trip, and the history of nonces that only tells a    *)
(* stale answer from an unknown one for the log, are left out.             *)
(***************************************************************************)
EXTENDS Integers

CONSTANTS Interval,        \* PING_INTERVAL, in ticks of the clock
          MissesAllowed    \* MISSES_BEFORE_DROP

ASSUME HeartbeatAssumption ==
    Interval \in Nat \ {0} /\ MissesAllowed \in Nat \ {0}

\* `None` for a ping in flight, and for an activity.
NoNonce == 0
Never   == -1

\* Heartbeat::new.
NewHeartbeat == [inFlight |-> NoNonce, nextNonce |-> 1, misses |-> 0, lastActivity |-> Never]

\* Heartbeat::due.
Due(hb, now) == hb.lastActivity = Never \/ now >= hb.lastActivity + Interval

\* Heartbeat::on_send: a ping that is superseded without an answer is a miss.
OnSend(hb, now) ==
    [inFlight |-> hb.nextNonce, nextNonce |-> hb.nextNonce + 1,
     misses |-> IF hb.inFlight = NoNonce THEN hb.misses ELSE hb.misses + 1,
     lastActivity |-> now]

\* A mutant: an answer does not clear the misses.
OnPongKeepingMisses(hb, nonce) ==
    IF hb.inFlight # NoNonce /\ hb.inFlight = nonce THEN [hb EXCEPT !.inFlight = NoNonce] ELSE hb

\* Heartbeat::on_pong: a stale or an unknown nonce changes nothing.
OnPong(hb, nonce) ==
    IF hb.inFlight # NoNonce /\ hb.inFlight = nonce
    THEN [hb EXCEPT !.inFlight = NoNonce, !.misses = 0] ELSE hb

\* A mutant: one more miss is allowed.
IsDeadLate(hb) == hb.misses > MissesAllowed

\* Heartbeat::is_dead.
IsDead(hb) == hb.misses >= MissesAllowed

\* Heartbeat::saw_traffic.
SawTraffic(hb, now) == [hb EXCEPT !.lastActivity = now]
=============================================================================
