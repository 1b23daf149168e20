------------------------------- MODULE Access -------------------------------
(***************************************************************************)
(* Who gets in, and what they may do inside: the gatekeeper, the device    *)
(* registry and the audit trail, under terminals that connect, enrol, fail *)
(* and come back, and an operator who issues codes and revokes devices.    *)
(*                                                                         *)
(* No code joins the three yet, so the caller is external: it admits a     *)
(* connection, and later, with other connections in between, hears its     *)
(* first message and acts on the answer in one step.                       *)
(***************************************************************************)
EXTENDS Gatekeeper, Devices, Sequences

-----------------------------------------------------------------------------
(* What a terminal can ask of a core (crates/wire/src/command.rs), without *)
(* the arguments.                                                          *)

\* Role, in order.
Viewer == 1
Trader == 2
Admin  == 3
Role   == Viewer..Admin

Handshake == {"Hello", "Enroll", "Resume", "RotateDeviceKey", "Ping", "Pong", "Bye"}

MarketData == {"Subscribe", "Unsubscribe", "SubscriptionsGet", "BookResyncRequest",
               "TapeBackfill", "CandleHistory"}

Orders == {"PlaceOrder", "CancelOrder", "AmendOrder", "CancelAll", "MoveOrders", "SplitOrder",
           "OrdersSnapshotRequest", "OrderStatusRequest"}

Positions == {"ClosePosition", "FlattenAll", "SetProtection", "SetVolumeStop", "SetPanic",
              "SetImmune"}

Venue == {"AccountSnapshotRequest", "SetLeverage", "SetMarginMode", "SetPositionMode",
          "TransferAsset", "TransferableAssetsRefresh", "ConfirmRiskLimit",
          "ApiKeyStatusRequest", "ConvertDust"}

Settings == {"SettingsGet", "SettingsSet", "AutoLeverageSet", "ProfitReset"}

Alerts == {"AlertUpsert", "AlertDelete", "AlertsSnapshotRequest", "ChartAnnotationsRequest",
           "NewsHistoryRequest"}

Reports == {"ReportSchemaRequest", "ReportSyncRequest", "ReportPageAck", "ReportCheckRows",
            "ReportSetRowsDeleted", "ReportQuery"}

Command == Handshake \cup MarketData \cup Orders \cup Positions \cup Venue \cup Settings
           \cup {"EmuTrades", "CoreRestart"} \cup Alerts \cup Reports

\* Command::channel.
CommandChannel(c) ==
    CASE c \in Handshake \cup {"CoreRestart"} -> "CONTROL"
      [] c \in MarketData \cup Orders \cup Positions \cup Venue \cup {"EmuTrades"} -> "COMMAND"
      [] c \in Settings -> "SETTINGS"
      [] c \in Alerts   -> "ALERTS"
      [] c \in Reports  -> "REPORT"

\* Command::retryable.
RetryableCommand(c) ==
    c \notin {"MoveOrders", "SplitOrder", "ClosePosition", "FlattenAll", "ConvertDust",
              "ProfitReset", "EmuTrades", "CoreRestart"}

\* Command::min_role.
ReadOnly == (Handshake \ {"RotateDeviceKey"}) \cup MarketData
            \cup {"OrdersSnapshotRequest", "OrderStatusRequest", "AccountSnapshotRequest",
                  "TransferableAssetsRefresh", "SettingsGet"}
            \cup (Alerts \ {"AlertUpsert", "AlertDelete"})
            \cup (Reports \ {"ReportSetRowsDeleted"})

ForAdmin == {"SetPositionMode", "TransferAsset", "ApiKeyStatusRequest", "ConvertDust",
             "ProfitReset", "CoreRestart"}

MinRole(c) == IF c \in ReadOnly THEN Viewer ELSE IF c \in ForAdmin THEN Admin ELSE Trader

\* admission::authorize.
Authorized(role, c) == role >= MinRole(c)

\* audit::should_audit.
ShouldAudit(c) == c \in {"Enroll", "RotateDeviceKey", "Resume"} \/ MinRole(c) > Viewer

-----------------------------------------------------------------------------
(* Who asks, and what is kept about it.                                    *)

CONSTANTS Peer, Device, Code,
          Issued,        \* the roles the operator hands codes out for
          Asked,         \* the commands sessions send
          MaxTime, MaxPending, MaxOpened, MaxIssues

ASSUME AccessAssumption ==
    /\ Issued \subseteq Role
    /\ Asked \subseteq Command
    /\ MaxTime \in Nat /\ MaxPending \in Nat /\ MaxOpened \in Nat /\ MaxIssues \in Nat

VARIABLES now,
          attempts,    \* Gatekeeper::attempts
          sessions,    \* Gatekeeper::sessions
          opened,      \* Gatekeeper::next_session, less one
          devices,     \* DeviceRegistry::devices
          codes,       \* DeviceRegistry::codes
          pending,     \* connections admitted and not heard yet, by address
          trail,       \* the audit records
          issues,      \* the roles of the codes handed out (history)
          failedAt,    \* when handshakes failed since the last success, by address (history)
          newest       \* each device's session of the moment, 0 for none (history)

gate     == <<attempts, sessions, opened>>
registry == <<devices, codes>>
vars     == <<now, gate, registry, pending, trail, issues, failedAt, newest>>

Init ==
    /\ now = 0
    /\ attempts = EmptyTable /\ sessions = EmptyTable /\ opened = 0
    /\ devices = EmptyTable /\ codes = EmptyTable
    /\ pending = [p \in Peer |-> 0]
    /\ trail = {}
    /\ issues = <<>>
    /\ failedAt = [p \in Peer |-> <<>>]
    /\ newest = [d \in Device |-> 0]

-----------------------------------------------------------------------------
(* Connections.                                                            *)

\* A connection is let in, or turned away.
Arrive(peer) ==
    /\ pending[peer] < MaxPending
    /\ attempts' = Admit(attempts, peer, now)
    /\ pending' = IF Banned(attempts, peer, now) THEN pending ELSE [pending EXCEPT ![peer] = @ + 1]
    /\ UNCHANGED <<now, sessions, opened, registry, trail, issues, failedAt, newest>>

\* The first message of a connection is heard.
Heard(peer) ==
    /\ pending[peer] > 0
    /\ pending' = [pending EXCEPT ![peer] = @ - 1]

\* The handshake of a connection succeeds or fails.
Succeeds(peer) ==
    /\ attempts' = HandshakeSucceeded(attempts, peer)
    /\ failedAt' = [failedAt EXCEPT ![peer] = <<>>]

Fails(peer) ==
    /\ attempts' = HandshakeFailed(attempts, peer, now)
    /\ failedAt' = [failedAt EXCEPT ![peer] = Append(@, now)]

\* A Hello that verifies opens a session with the role of the registry.
HelloAccepted(peer, device) ==
    /\ opened < MaxOpened
    /\ Heard(peer)
    /\ Verified(devices, device, TRUE)
    /\ Succeeds(peer)
    /\ opened' = opened + 1
    /\ sessions' = OpenSession(sessions, opened + 1, device, peer, devices[device].role, now)
    /\ newest' = [newest EXCEPT ![device] = opened + 1]
    /\ UNCHANGED <<now, registry, trail, issues>>

\* One that does not is a failure.
HelloRefused(peer, device, goodSignature) ==
    /\ Heard(peer)
    /\ ~Verified(devices, device, goodSignature)
    /\ Fails(peer)
    /\ UNCHANGED <<now, sessions, opened, registry, trail, issues, newest>>

\* A code is redeemed.
EnrollAccepted(peer, code, device) ==
    /\ Heard(peer)
    /\ CanEnroll(devices, codes, code, device, now)
    /\ Succeeds(peer)
    /\ devices' = Enroll(devices, codes, code, device)
    /\ codes' = CodesAfter(codes, code)
    /\ UNCHANGED <<now, sessions, opened, trail, issues, newest>>

\* A code is not: it is consumed all the same.
EnrollRefused(peer, code, device) ==
    /\ Heard(peer)
    /\ ~CanEnroll(devices, codes, code, device, now)
    /\ Fails(peer)
    /\ codes' = CodesAfter(codes, code)
    /\ UNCHANGED <<now, sessions, opened, devices, trail, issues, newest>>

\* A connection ends before it says anything.
GiveUp(peer) ==
    /\ Heard(peer)
    /\ UNCHANGED <<now, gate, registry, trail, issues, failedAt, newest>>

-----------------------------------------------------------------------------
(* Sessions.                                                               *)

\* Outcome::from_ack: what a record says of a command that was answered so.
Outcome == [Accepted |-> "Started", Done |-> "Succeeded", Rejected |-> "Refused",
            Failed |-> "Failed"]

\* static_tag: the name a record has for a command.
Interned(tag) == IF tag \in Command THEN tag ELSE "unknown"

\* The record of a command (audit::record), as it is accepted or refused.
Record(session, command) ==
    [device |-> session.device, role |-> session.role, command |-> Interned(command),
     outcome |-> Outcome[IF Authorized(session.role, command) THEN "Accepted" ELSE "Rejected"]]

\* A session sends a command: it runs or is refused, and leaves a record if it is audited.
Run(id, command) ==
    /\ trail' = IF ShouldAudit(command) THEN trail \cup {Record(sessions[id], command)} ELSE trail
    /\ UNCHANGED <<now, gate, registry, pending, issues, failedAt, newest>>

\* Gatekeeper::close.
Close(id) ==
    /\ sessions' = Drop(sessions, {id})
    /\ newest' = [d \in Device |-> IF newest[d] = id THEN 0 ELSE newest[d]]
    /\ UNCHANGED <<now, attempts, opened, registry, pending, trail, issues, failedAt>>

-----------------------------------------------------------------------------
(* The operator, and the timer.                                            *)

\* A code is handed out.
Issue(code, role) ==
    /\ Len(issues) < MaxIssues
    /\ codes' = IssueCode(codes, code, role, now)
    /\ issues' = Append(issues, role)
    /\ UNCHANGED <<now, gate, devices, pending, trail, failedAt, newest>>

\* A mutant: its sessions go on.
RevokeDeviceOnly(device) ==
    /\ device \in DOMAIN devices
    /\ devices' = Revoke(devices, device)
    /\ newest' = [newest EXCEPT ![device] = 0]
    /\ UNCHANGED <<now, gate, codes, pending, trail, issues, failedAt>>

\* A device is revoked, and its sessions are closed.
RevokeDevice(device) ==
    /\ device \in DOMAIN devices
    /\ devices' = Revoke(devices, device)
    /\ sessions' = RevokeSessions(sessions, device)
    /\ newest' = [newest EXCEPT ![device] = 0]
    /\ UNCHANGED <<now, attempts, opened, codes, pending, trail, issues, failedAt>>

\* What has run out is dropped.
Expire ==
    /\ attempts' = ExpireWindows(attempts, now)
    /\ codes' = ExpireCodes(codes, now)
    /\ UNCHANGED <<now, sessions, opened, devices, pending, trail, issues, failedAt, newest>>

Tick ==
    /\ now < MaxTime
    /\ now' = now + 1
    /\ UNCHANGED <<gate, registry, pending, trail, issues, failedAt, newest>>

Next ==
    \/ \E peer \in Peer :
         \/ Arrive(peer) \/ GiveUp(peer)
         \/ \E device \in Device :
              \/ HelloAccepted(peer, device)
              \/ \E good \in BOOLEAN : HelloRefused(peer, device, good)
              \/ \E code \in Code : EnrollAccepted(peer, code, device)
                                    \/ EnrollRefused(peer, code, device)
    \/ \E id \in DOMAIN sessions : Close(id) \/ \E c \in Asked : Run(id, c)
    \/ \E code \in Code, role \in Issued : Issue(code, role)
    \/ \E device \in Device : RevokeDevice(device)
    \/ Expire \/ Tick

Spec == Init /\ [][Next]_vars

-----------------------------------------------------------------------------
(* Properties.                                                             *)

\* The types of the variables.
TypeOK ==
    /\ now \in Nat /\ opened \in Nat
    /\ DOMAIN attempts \subseteq Peer
    /\ \A p \in DOMAIN attempts :
         attempts[p] \in [failures : Nat, started : 0..now, bannedUntil : Nat]
    /\ DOMAIN sessions \subseteq 1..opened
    /\ \A i \in DOMAIN sessions :
         sessions[i] \in [device : Device, peer : Peer, role : Role, openedAt : 0..now]
    /\ DOMAIN devices \subseteq Device
    /\ \A d \in DOMAIN devices : devices[d] \in [role : Role, revoked : BOOLEAN]
    /\ DOMAIN codes \subseteq Code
    /\ \A c \in DOMAIN codes : codes[c] \in [role : Role, issuedAt : 0..now]
    /\ pending \in [Peer -> Nat]
    /\ trail \subseteq [device : Device, role : Role, command : Command,
                        outcome : {"Started", "Refused"}]
    /\ issues \in Seq(Role)
    /\ failedAt \in [Peer -> Seq(Nat)]
    /\ newest \in [Device -> Nat]

\* A live session is of a device that is enrolled and not revoked, and has its role:
\* "revocation that left live sessions running would be theatre" (revoke_device).
SessionsEntitled ==
    \A i \in DOMAIN sessions :
        LET d == sessions[i].device
        IN  d \in DOMAIN devices /\ ~devices[d].revoked /\ sessions[i].role = devices[d].role

\* No device has more sessions than its limit, and the one opened last stays: "the oldest
\* is closed rather than the newest refused" (admission.rs), whatever was closed between.
NewestStays ==
    \A d \in Device :
        /\ Cardinality(SessionsOf(sessions, d)) <= MaxSessions
        /\ newest[d] # 0 => newest[d] \in SessionsOf(sessions, d)

\* "The code is single-use ... it grants the role it was issued for" (auth.rs): no more
\* devices hold a role than codes were handed out for it.
OneDevicePerCode ==
    \A role \in Role :
        Cardinality({d \in DOMAIN devices : devices[d].role = role})
            <= Cardinality({i \in DOMAIN issues : issues[i] = role})

\* How often an address that never succeeds can fail in a ban's time: a window's failures
\* short of a ban; those of a second one, but for its first; those that fill a third; and
\* once more for each other connection that was let in before the ban.
MostFailures ==
    2 * (HelloAttempts - 1) + (IF HelloAttempts > 2 THEN HelloAttempts - 2 ELSE 0) + MaxPending

\* It does not fail more often: a window that ends hands over to a full one, so does a ban
\* that has run out, even while the next window fills ("a full allowance again", admit), and
\* a ban does not stop what is under way.
FailuresBounded ==
    \A p \in Peer :
        LET s == failedAt[p]
        IN  Len(s) > MostFailures => s[Len(s) - MostFailures] + BanDuration <= now

\* "An audit trail still resolves its identity" (DeviceRegistry::revoke): each record
\* names a device the registry still knows, the role it was enrolled with, and a
\* command that ran only if that role may run it.
TrailResolves ==
    \A r \in trail :
        /\ r.device \in DOMAIN devices
        /\ r.role = devices[r.device].role
        /\ r.outcome = "Started" <=> r.role >= MinRole(r.command)
=============================================================================
