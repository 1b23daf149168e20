----------------------------- MODULE Gatekeeper -----------------------------
(***************************************************************************)
(* Handshake rate limiting and the session table                           *)
(* (crates/wire/src/admission.rs), as functions of the two tables.         *)
(***************************************************************************)
EXTENDS Integers, FiniteSets, Tables

CONSTANTS HelloAttempts,   \* HELLO_ATTEMPTS_PER_MIN
          BanDuration,     \* BAN_DURATION, in ticks of the clock
          MaxSessions      \* MAX_SESSIONS, per device

ASSUME GatekeeperAssumption ==
    /\ HelloAttempts \in Nat \ {0}
    /\ BanDuration \in Nat \ {0}
    /\ MaxSessions \in Nat \ {0}

\* `None` for banned_until: a ban ends after the clock has started.
NoBan == 0

NewWindow(now) == [failures |-> 0, started |-> now, bannedUntil |-> NoBan]

-----------------------------------------------------------------------------
(* Handshake windows, by address.                                          *)

\* Gatekeeper::admit refuses.
Banned(attempts, peer, now) ==
    peer \in DOMAIN attempts /\ now < attempts[peer].bannedUntil

\* What Gatekeeper::admit leaves: a ban that has run out gives a full allowance again.
Admit(attempts, peer, now) ==
    IF /\ peer \in DOMAIN attempts
       /\ attempts[peer].bannedUntil # NoBan
       /\ ~Banned(attempts, peer, now)
    THEN Put(attempts, peer, NewWindow(now)) ELSE attempts

\* The window starts again when it is over.
Window(window, now) ==
    IF now - window.started > BanDuration
    THEN [window EXCEPT !.failures = 0, !.started = now] ELSE window

\* A mutant: the failure that fills the window does not ban.
FailedLate(window, now) ==
    [window EXCEPT !.failures = @ + 1,
                   !.bannedUntil = IF window.failures >= HelloAttempts THEN now + BanDuration ELSE @]

\* One failure more.
Failed(window, now) ==
    [window EXCEPT !.failures = @ + 1,
                   !.bannedUntil = IF window.failures + 1 >= HelloAttempts
                                   THEN now + BanDuration ELSE @]

\* Gatekeeper::handshake_failed.
HandshakeFailed(attempts, peer, now) ==
    LET window == IF peer \in DOMAIN attempts THEN attempts[peer] ELSE NewWindow(now)
    IN  Put(attempts, peer, Failed(Window(window, now), now))

\* Gatekeeper::handshake_succeeded.
HandshakeSucceeded(attempts, peer) == Drop(attempts, {peer})

\* Gatekeeper::expire_windows.
ExpireWindows(attempts, now) ==
    Drop(attempts, {p \in DOMAIN attempts :
                       /\ ~Banned(attempts, p, now)
                       /\ now - attempts[p].started > BanDuration})

-----------------------------------------------------------------------------
(* Sessions, by number.                                                    *)

\* Gatekeeper::sessions_of.
SessionsOf(sessions, device) == {i \in DOMAIN sessions : sessions[i].device = device}

\* The order of `min_by_key(|s| (s.opened_at, s.id))`.
OpenedBefore(sessions, i, j) ==
    \/ sessions[i].openedAt < sessions[j].openedAt
    \/ sessions[i].openedAt = sessions[j].openedAt /\ i < j

\* A mutant: the newest go.
TooManyNewest(sessions, device) ==
    {i \in SessionsOf(sessions, device) :
        Cardinality({j \in SessionsOf(sessions, device) : OpenedBefore(sessions, j, i)})
            >= MaxSessions}

\* The device's sessions beyond its limit: the oldest.
TooMany(sessions, device) ==
    {i \in SessionsOf(sessions, device) :
        Cardinality({j \in SessionsOf(sessions, device) : OpenedBefore(sessions, i, j)})
            >= MaxSessions}

\* Gatekeeper::open.
OpenSession(sessions, id, device, peer, role, now) ==
    LET all == Put(sessions, id, [device |-> device, peer |-> peer, role |-> role,
                                   openedAt |-> now])
    IN  Drop(all, TooMany(all, device))

\* Gatekeeper::revoke_device.
RevokeSessions(sessions, device) == Drop(sessions, SessionsOf(sessions, device))
=============================================================================
