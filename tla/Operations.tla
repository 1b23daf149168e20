----------------------------- MODULE Operations -----------------------------
(***************************************************************************)
(* A core in service: an operator writes its files and starts it           *)
(* (crates/core/src/main.rs), its connectors keep their streams at the     *)
(* venue (crates/binance/src/lib.rs), one pump forwards what they produce  *)
(* to the terminals (crates/core/src/server.rs), counters say what was     *)
(* lost (crates/core/src/metrics.rs), and terminals connect, are refused   *)
(* or overrun, and show what they know (crates/terminal).                  *)
(*                                                                         *)
(* The venue, the operator and what a terminal does with its pins and its  *)
(* keystore are outside the repository.  Books are what Distribution is    *)
(* about: here an event is its kind and its instrument.                    *)
(***************************************************************************)
EXTENDS Startup, Screen

CONSTANTS
    Terminal,
    Settings,       \* what an operator may write into which configuration file
    Arguments, Environments,    \* what a core may be started with
    Keys, Serials,  \* key pairs of the core, and certificates of one pair
    Asks,           \* subscriptions somebody may ask a connector for
    Watching,       \* the instruments a terminal watches
    TOKEN,          \* the token of every terminal
    FANOUT_CAPACITY, BACKOFF_START, BACKOFF_MAX,
    MaxOps, MaxDials, MaxQueued    \* bounds of a check

VARIABLES
    ops,
    files, pems,    \* the configuration file, the certificate and key files
    core,           \* how far the core is, its configuration and its certificate
    connectors,     \* per market: link, commands waiting, active streams, the venue's, asked
    pipe,           \* the connectors' events: queued, the fanout's last, the read-model's
    metrics,
    sessions,       \* per terminal: how far its session is, and its place in the fanout
    display,        \* per terminal, its FeedState
    pins, kept, known   \* a terminal's pins, its key file, the key it goes by

coreVars    == <<core, connectors, pipe, metrics>>
keyVars     == <<pins, kept, known>>
serviceVars == <<ops, files, pems, coreVars, sessions, display, keyVars>>

Cert(key, serial) == [kind |-> "CERTIFICATE", key |-> key, serial |-> serial]
Pem(block)        == [found |-> TRUE, blocks |-> <<block>>]
FirstKey          == CHOOSE k \in Keys : TRUE

Passphrases == {"empty", "old", "new"}

\* None is none of the values it may stand for, and a file names its certificate and its key.
ASSUME ServiceAssumption ==
    /\ IsFiniteSet(Terminal) /\ Keys # {} /\ 1 \in Serials
    /\ None \notin Reasons
    /\ None \notin [kind : {"CERTIFICATE"}, key : Keys, serial : Serials]
    /\ None \notin [length : 0..FULL_LEN, key : Keys, passphrase : Passphrases]
    /\ \A s \in Settings :
          LET said == s.file.settings
          IN  /\ said.markets # None => IsFiniteSet(DOMAIN said.markets)
              /\ said.tls # None => {said.tls.cert, said.tls.key} \subseteq {"cert", "key"}

Down       == [stage |-> "down", refused |-> None, config |-> None, cert |-> None]
NoPipe     == [queue |-> <<>>, closed |-> FALSE, head |-> 0, recent |-> <<>>, held |-> {},
               produced |-> 0, stranded |-> 0]
NoMetrics  == [connected |-> 0, total |-> 0, broadcast |-> 0, dropped |-> 0, lagged |-> 0]
NoSession  == [phase |-> "idle", joined |-> 0, at |-> 0, given |-> 0, missed |-> 0, gap |-> FALSE]

ServiceInit ==
    /\ ops = 0
    /\ \E s \in Settings : files = [p \in {DEFAULT_CONFIG_PATH, "other.toml"} |->
         IF p = s.path THEN s.file ELSE NoFile]
    /\ pems = [p \in {"cert", "key"} |->
                 IF p = "cert" THEN Pem(Cert(FirstKey, 1))
                 ELSE Pem([kind |-> "PRIVATE KEY", key |-> FirstKey])]
    /\ core = Down /\ connectors = <<>> /\ pipe = NoPipe /\ metrics = NoMetrics
    /\ sessions = [t \in Terminal |-> NoSession]
    /\ display = [t \in Terminal |-> NoFeed]
    /\ pins = {PinOf(Cert(FirstKey, 1))} /\ kept = None /\ known = None

\* What happens from outside is bounded; an operator's edit counts half.
Edit      == ops + 1 <= MaxOps /\ ops' = ops + 1
Operation == ops + 2 <= MaxOps /\ ops' = ops + 2

\* To keep the parts from multiplying: files and pins are changed before a terminal dials,
\* the files that are read only while a core starts while none is up, connectors go on once
\* one is, other streams are asked for while no terminal is connected, and a terminal's key
\* is stored while nothing is started.
Undialled   == \A t \in Terminal : display[t].connection = 0
FilesMatter == core.stage # "up" /\ Undialled
Serving     == core.stage = "up"
Unused      == core = Down /\ Undialled
Calm        == \A m \in DOMAIN connectors : connectors[m].commands = <<>> /\ connectors[m].link = "up"
Offline     == \A t \in Terminal : sessions[t].phase = "idle"

-----------------------------------------------------------------------------
(* Events and counters.                                                    *)

\* What is of no one instrument has no key.
Happened(kind) == [kind |-> kind, key |-> <<>>]

\* EventSink::send: counted as dropped once the pump is gone. The queue has no bound but a
\* check's.
Send(events) ==
    /\ Len(pipe.queue) < MaxQueued
    /\ pipe' = [pipe EXCEPT !.queue = IF pipe.closed THEN @ ELSE @ \o events,
                            !.produced = @ + Len(events)]
    /\ metrics' = [metrics EXCEPT !.dropped = @ + IF pipe.closed THEN Len(events) ELSE 0]

\* Metrics::healthy.
Healthy == ~pipe.closed

\* Metrics::render: every number as it is.
Rendered == metrics

\* respond.
Reply(status, body) == [status |-> status, body |-> body]

Respond(method, path) ==
    CASE method # "GET" -> Reply(405, None)
      [] method = "GET" /\ path = "/metrics" -> Reply(200, Rendered)
      [] method = "GET" /\ path = "/health"  -> Reply(IF Healthy THEN 200 ELSE 503, None)
      [] OTHER -> Reply(404, None)

\* The pump of main: an event is folded into the read-model, counted, and broadcast; the
\* fanout overwrites its oldest.
Forward ==
    /\ Serving /\ pipe.queue # <<>>
    /\ LET event == Head(pipe.queue)
           kept_  == Append(pipe.recent, event)
       IN  pipe' = [pipe EXCEPT
             !.queue  = Tail(@),
             !.head   = @ + 1,
             !.recent = IF Len(kept_) > FANOUT_CAPACITY THEN Tail(kept_) ELSE kept_,
             !.held   = IF event.kind = "BookSnapshot" \/ event.kind = "Trade"
                        THEN @ \cup {event} ELSE @]
    /\ metrics' = [metrics EXCEPT !.broadcast = @ + 1]
    /\ UNCHANGED <<ops, files, pems, core, connectors, sessions, display, keyVars>>

\* The pump's task ends: what was queued is gone.
PumpDies ==
    /\ Operation
    /\ Serving /\ ~pipe.closed
    /\ pipe' = [pipe EXCEPT !.closed = TRUE, !.queue = <<>>, !.stranded = Len(pipe.queue)]
    /\ UNCHANGED <<files, pems, core, connectors, metrics, sessions, display, keyVars>>

-----------------------------------------------------------------------------
(* Connectors.                                                             *)

\* Binance::connect and the first subscribe.
NewConnector(config) ==
    LET streams == {StreamName(s) : s \in Wanted(config)}
    IN  [link |-> "connecting", active |-> {}, venue |-> {}, asked |-> streams,
         commands |-> <<[add |-> TRUE, streams |-> streams]>>, backoff |-> BACKOFF_START]

\* Mutant: the streams are recorded once the venue has been written to.
AfterTheWrite(active, command, written) ==
    IF ~written THEN active
    ELSE IF command.add THEN active \cup command.streams ELSE active \ command.streams

\* A command's effect on `active', before it is written.
Recorded(active, command, written) ==
    IF command.add THEN active \cup command.streams ELSE active \ command.streams

\* socket_task, after a connection that ended or was not made: the venue has forgotten.
Lose(m, active, rest) ==
    /\ connectors' = [connectors EXCEPT ![m] = [@ EXCEPT
         !.link = IF pipe.closed THEN "stopped" ELSE "waiting", !.active = active,
         !.venue = {}, !.commands = rest]]
    /\ Send(<<Happened("Disconnected")>>)

\* connect_async answers: everything active is asked for again, and if that is written the
\* feed is ready.
VenueAnswers(m) ==
    /\ Serving /\ connectors[m].link = "connecting"
    /\ connectors' = [connectors EXCEPT ![m] = [@ EXCEPT
         !.link = "up", !.venue = connectors[m].active, !.backoff = BACKOFF_START]]
    /\ Send(<<Happened("Ready")>>)
    /\ UNCHANGED <<ops, files, pems, core, sessions, display, keyVars>>

\* It does not, or the connection breaks, by the resubscription or later.
VenueDrops(m) ==
    /\ Operation
    /\ Serving /\ connectors[m].link \in {"connecting", "up"}
    /\ Lose(m, connectors[m].active, connectors[m].commands)
    /\ UNCHANGED <<files, pems, core, sessions, display, keyVars>>

\* The end of the wait before the next attempt.
Reconnect(m) ==
    /\ connectors[m].link = "waiting"
    /\ LET wait == 2 * connectors[m].backoff
       IN  connectors' = [connectors EXCEPT ![m] = [@ EXCEPT
             !.link = "connecting", !.backoff = IF wait < BACKOFF_MAX THEN wait ELSE BACKOFF_MAX]]
    /\ Send(<<Happened("Connecting")>>)
    /\ UNCHANGED <<ops, files, pems, core, sessions, display, keyVars>>

\* MarketDataSource::subscribe and unsubscribe: refused if a stream has no name, or the task
\* has stopped; else a command is queued.
Ask(m, add, subs) ==
    /\ Operation /\ Offline /\ Serving
    /\ \A s \in subs : HasName(s)
    /\ connectors[m].link # "stopped"
    /\ LET command == [add |-> add, streams |-> {StreamName(s) : s \in subs}]
           c       == connectors[m]
       IN  connectors' = [connectors EXCEPT ![m] = [c EXCEPT
             !.commands = Append(c.commands, command),
             !.asked    = Recorded(c.asked, command, TRUE)]]
    /\ UNCHANGED <<files, pems, core, pipe, metrics, sessions, display, keyVars>>

\* pump takes a command and writes it.
TakeCommand(m) ==
    /\ connectors[m].link = "up" /\ connectors[m].commands # <<>>
    /\ LET c       == connectors[m]
           command == Head(c.commands)
       IN  connectors' = [connectors EXCEPT ![m] = [c EXCEPT
             !.commands = Tail(c.commands), !.active = Recorded(c.active, command, TRUE),
             !.venue = Recorded(c.venue, command, TRUE)]]
    /\ UNCHANGED <<ops, files, pems, core, pipe, metrics, sessions, display, keyVars>>

\* The write fails.
CommandLost(m) ==
    /\ Operation
    /\ connectors[m].link = "up" /\ connectors[m].commands # <<>>
    /\ LET command == Head(connectors[m].commands)
       IN  Lose(m, Recorded(connectors[m].active, command, FALSE), Tail(connectors[m].commands))
    /\ UNCHANGED <<files, pems, core, sessions, display, keyVars>>

\* The venue sends something of a stream: a print, a book or a change of it.
Kinds(stream) ==
    CASE stream[2] = "aggTrade"    -> {"Trade"}
      [] stream[2] = "depth@100ms" -> {"BookSnapshot", "BookDelta"}
      [] OTHER                     -> {}

VenueSends(m) ==
    /\ Operation
    /\ \E stream \in connectors[m].venue : \E kind \in Kinds(stream) :
          Send(<<[kind |-> kind, key |-> <<m, stream[1]>>]>>)
    /\ UNCHANGED <<files, pems, core, connectors, sessions, display, keyVars>>

\* The watchdog: a book of this market has not changed for long.
BookFrozen(m) ==
    /\ Operation
    /\ connectors[m].link = "up"
    /\ \E stream \in connectors[m].venue : "BookDelta" \in Kinds(stream)
    /\ Send(<<Happened("Resyncing")>>)
    /\ UNCHANGED <<files, pems, core, connectors, sessions, display, keyVars>>

-----------------------------------------------------------------------------
(* The core's life.                                                        *)

\* main up to its acceptor: the configuration, a connector for each market.
Start ==
    /\ core.stage = "down" /\ kept = None
    /\ \E args \in Arguments, env \in Environments :
        LET loaded  == Load(args, env, files, pems)
            config  == loaded.config
            markets == ToSet(config.markets)
        IN  IF loaded.refused = None /\ \A m \in markets : EndpointsFor(m) # None
            THEN /\ core' = [Down EXCEPT !.stage = "loaded", !.config = config]
                 /\ connectors' = [m \in markets |-> NewConnector(config)]
                 /\ pipe' = [NoPipe EXCEPT !.queue = [i \in 1..Cardinality(markets) |->
                                                         Happened("Connecting")],
                                           !.produced = Cardinality(markets)]
                 /\ metrics' = NoMetrics
            ELSE /\ core' = [Down EXCEPT !.refused = Or(loaded.refused, "unsupported")]
                 /\ UNCHANGED <<connectors, pipe, metrics>>
    /\ UNCHANGED <<ops, files, pems, sessions, display, keyVars>>

\* What is left of a process that ended.
Gone(why) ==
    /\ core' = [Down EXCEPT !.refused = why]
    /\ connectors' = <<>> /\ pipe' = NoPipe /\ metrics' = NoMetrics
    /\ sessions' = [t \in Terminal |->
         IF sessions[t].phase \in {"idle", "dialing", "ended"} THEN sessions[t]
         ELSE [NoSession EXCEPT !.phase = "cut"]]

\* The acceptor is made from the files as they are now, and the wire's socket is opened.
Up ==
    /\ core.stage = "loaded"
    /\ LET tls == core.config.tls
           made == IF tls = None THEN [refused |-> None, cert |-> None] ELSE Acceptor(tls, pems)
       IN  IF made.refused = None
           THEN /\ core' = [core EXCEPT !.stage = "up", !.cert = made.cert]
                /\ UNCHANGED <<connectors, pipe, metrics, sessions>>
           ELSE Gone(made.refused)
    /\ UNCHANGED <<ops, files, pems, display, keyVars>>

\* A socket that cannot be bound, ctrl-c, or a crash.
Stop ==
    /\ Operation /\ core.stage # "down"
    /\ Gone(None)
    /\ UNCHANGED <<files, pems, display, keyVars>>

-----------------------------------------------------------------------------
(* Sessions.                                                               *)

Counted == {"open", "live", "subscribed"}     \* past the WebSocket handshake

\* run: a terminal tries, unless it was refused.
Dial(t) ==
    /\ sessions[t].phase = "idle" /\ display[t].status # "refused"
    /\ display[t].connection < MaxDials /\ Calm
    /\ LET said == SetStatus(display[t], "connecting")
       IN  display' = [display EXCEPT ![t] = [said EXCEPT !.connection = said.connection + 1]]
    /\ sessions' = [sessions EXCEPT ![t].phase = "dialing"]
    /\ UNCHANGED <<ops, files, pems, coreVars, keyVars>>

\* serve: accepted, and subscribed to the fanout before the handshakes.
Accept(t) ==
    /\ core.stage = "up" /\ sessions[t].phase = "dialing"
    /\ sessions' = [sessions EXCEPT ![t] =
         [NoSession EXCEPT !.phase = "accepted", !.joined = pipe.head, !.at = pipe.head]]
    /\ UNCHANGED <<ops, files, pems, coreVars, display, keyVars>>

\* A session ends for the core, which counts it out, and for the terminal.
Ended(t, status) ==
    /\ sessions' = [sessions EXCEPT ![t] = [NoSession EXCEPT !.phase = "ended"]]
    /\ metrics' = [metrics EXCEPT
         !.connected = @ - IF sessions[t].phase \in Counted THEN 1 ELSE 0]
    /\ display' = [display EXCEPT ![t] = SetStatus(@, status)]

\* The handshakes: a terminal that does not trust the certificate turns away.
Handshake(t) ==
    /\ sessions[t].phase = "accepted"
    /\ IF core.cert = None \/ VerifyServerCert(pins, core.cert)
       THEN /\ sessions' = [sessions EXCEPT ![t].phase = "open"]
            /\ metrics' = [metrics EXCEPT !.connected = @ + 1, !.total = @ + 1]
            /\ UNCHANGED display
       ELSE Ended(t, "lost")
    /\ UNCHANGED <<ops, files, pems, core, connectors, pipe, keyVars>>

\* Auth::verify.
Verify(secret, candidate) == secret = candidate

\* Session::handle: what it answers a Hello.
Hello(token) == IF Verify(core.config.token, token) THEN "Welcome" ELSE "Unauthorized"

\* ErrorCode::is_fatal: what ends a session, and a terminal's tries.
IsFatal(code) == code \in {"ProtocolMismatch", "Unauthorized", "NotAuthenticated", "TooLarge"}

\* The Hello is answered: Welcome, or Failed.
Greet(t) ==
    /\ sessions[t].phase = "open"
    /\ IF Hello(TOKEN) = "Welcome"
       THEN /\ sessions' = [sessions EXCEPT ![t].phase = "live"]
            /\ display' = [display EXCEPT ![t] = SetStatus(@, "live")]
            /\ UNCHANGED metrics
       ELSE Ended(t, IF IsFatal(Hello(TOKEN)) THEN "refused" ELSE "lost")
    /\ UNCHANGED <<ops, files, pems, core, connectors, pipe, keyVars>>

\* Session::wants, of a session that subscribed to what its terminal watches.
Wants(t, event) ==
    \/ event.key = <<>>
    \/ sessions[t].phase = "subscribed" /\ event.key \in ToSet(Watching)

Shows(t, event, torn) == display' = [display EXCEPT ![t] = Shown(@, event, torn)]

\* Subscribe, and the read-model handed over.
Subscribe(t) ==
    /\ sessions[t].phase = "live"
    /\ sessions' = [sessions EXCEPT ![t].phase = "subscribed", ![t].gap = FALSE]
    /\ display' = [display EXCEPT
         ![t] = Handed(@, {e \in pipe.held : e.key \in ToSet(Watching)})]
    /\ UNCHANGED <<ops, files, pems, coreVars, keyVars>>

\* Mutant: an overrun is counted, not its events.
OverrunOnce(t, missed) == metrics' = [metrics EXCEPT !.lagged = @ + 1]

\* Metrics::events_lagged.
Overrun(t, missed) == metrics' = [metrics EXCEPT !.lagged = @ + missed]

\* The session's turn at the fanout: what it missed, if its next event is gone, else that.
Receive(t) ==
    /\ sessions[t].phase \in Counted /\ sessions[t].at < pipe.head
    /\ LET oldest == pipe.head - Len(pipe.recent)
           s      == sessions[t]
           event  == pipe.recent[s.at - oldest + 1]
       IN  IF s.at < oldest
           THEN /\ sessions' = [sessions EXCEPT ![t] = [s EXCEPT
                     !.at = oldest, !.missed = s.missed + (oldest - s.at), !.gap = TRUE]]
                /\ Overrun(t, oldest - s.at)
                /\ Shows(t, Happened("Resyncing"), FALSE)
           ELSE /\ sessions' = [sessions EXCEPT ![t] = [s EXCEPT
                     !.at    = s.at + 1, !.given = s.given + 1,
                     !.gap   = s.gap /\ event.kind # "BookSnapshot"]]
                /\ IF Wants(t, event) THEN Shows(t, event, s.gap) ELSE UNCHANGED display
                /\ UNCHANGED metrics
    /\ UNCHANGED <<ops, files, pems, core, connectors, pipe, keyVars>>

\* The connection breaks, is closed, or was not made.
Hangup(t) ==
    /\ Operation
    /\ \/ sessions[t].phase \in {"accepted", "cut"} \cup Counted
       \/ sessions[t].phase = "dialing" /\ core.stage # "up"
    /\ Ended(t, "lost")
    /\ UNCHANGED <<files, pems, core, connectors, pipe, keyVars>>

\* run, once a session has ended: what it said is forgotten, unless that was the last.
Forget(t) ==
    /\ sessions[t].phase = "ended"
    /\ sessions' = [sessions EXCEPT ![t].phase = "idle"]
    /\ display' = [display EXCEPT ![t] = IF @.status = "refused" THEN @ ELSE ClearBooks(@)]
    /\ UNCHANGED <<ops, files, pems, coreVars, keyVars>>

-----------------------------------------------------------------------------
(* The operator, and a terminal's keys.                                    *)

Configure ==
    /\ Edit /\ FilesMatter
    /\ \E s \in Settings : files' = [files EXCEPT ![s.path] = s.file]
    /\ UNCHANGED <<pems, coreVars, sessions, display, keyVars>>

\* A rotation is staged: a key is pinned before a certificate of it is written, and a pin
\* removed once neither the core nor its files have that key. A renewal is only written.
AddPin ==
    /\ Edit /\ Undialled
    /\ \E k \in Keys : pins' = pins \cup {PinOf(Cert(k, 1))}
    /\ UNCHANGED <<files, pems, coreVars, sessions, display, kept, known>>

WriteCert ==
    /\ Edit /\ Undialled
    /\ \E k \in Keys, n \in Serials :
          /\ PinOf(Cert(k, 1)) \in pins
          /\ pems' = [pems EXCEPT !["cert"] = Pem(Cert(k, n))]
    /\ UNCHANGED <<files, coreVars, sessions, display, keyVars>>

WriteKey ==
    /\ Edit /\ FilesMatter
    /\ \E k \in Keys : pems' = [pems EXCEPT !["key"] = Pem([kind |-> "PRIVATE KEY", key |-> k])]
    /\ UNCHANGED <<files, coreVars, sessions, display, keyVars>>

\* A file is missing for a while.
RemovePem ==
    /\ Edit /\ FilesMatter
    /\ \E p \in DOMAIN pems : pems' = [pems EXCEPT ![p] = [found |-> FALSE, blocks |-> <<>>]]
    /\ UNCHANGED <<files, coreVars, sessions, display, keyVars>>

RemovePin ==
    /\ Edit /\ Undialled
    /\ core.stage = "up" /\ core.cert # None /\ pems["cert"].found
    /\ pins' = {PinOf(core.cert), PinOf(pems["cert"].blocks[1])}
    /\ UNCHANGED <<files, pems, coreVars, sessions, display, kept, known>>

\* EncryptedFile::store begins: for a key made because there was none, or for the key that
\* was loaded, under another passphrase.
StoreKey ==
    /\ Edit /\ Unused
    /\ \E passphrase, other \in Passphrases :
        LET loaded == LoadKey(kept, passphrase)
        IN  /\ Opens(passphrase) /\ Opens(other)
            /\ loaded.refused \in {None, "NotFound"}
            /\ \E k \in Keys : /\ loaded.refused = None => k = loaded.key
                               /\ kept' = Sealed(k, other)
    /\ UNCHANGED <<files, pems, coreVars, sessions, display, pins, known>>

\* It goes on; a crash is that it does not.
WriteOn ==
    /\ Unused
    /\ kept # None /\ kept.length < FULL_LEN
    /\ \E n \in (kept.length + 1) .. FULL_LEN :
          /\ kept' = [kept EXCEPT !.length = n]
          /\ known' = IF n = FULL_LEN THEN kept.key ELSE known
    /\ UNCHANGED <<ops, files, pems, coreVars, sessions, display, pins>>

\* EncryptedFile::delete.
DeleteKey ==
    /\ Edit /\ Unused
    /\ kept # None
    /\ kept' = None /\ known' = None
    /\ UNCHANGED <<files, pems, coreVars, sessions, display, pins>>

ServiceNext ==
    \/ Start \/ Up \/ Stop \/ Forward \/ PumpDies
    \/ \E m \in DOMAIN connectors :
        \/ VenueAnswers(m) \/ VenueDrops(m) \/ Reconnect(m)
        \/ TakeCommand(m) \/ CommandLost(m) \/ VenueSends(m) \/ BookFrozen(m)
        \/ \E add \in BOOLEAN, subs \in Asks : Ask(m, add, subs)
    \/ \E t \in Terminal :
        \/ Dial(t) \/ Accept(t) \/ Handshake(t) \/ Greet(t) \/ Subscribe(t)
        \/ Receive(t) \/ Hangup(t) \/ Forget(t)
    \/ Configure \/ AddPin \/ WriteCert \/ WriteKey \/ RemovePem \/ RemovePin
    \/ StoreKey \/ WriteOn \/ DeleteKey

ServiceSpec == ServiceInit /\ [][ServiceNext]_serviceVars

-----------------------------------------------------------------------------
(* Properties.                                                             *)

\* "Refusing to serve without TLS" and "a rotation can be staged" (Config::validate, main,
\* PinnedVerifier): a core that is up asks for a token and serves beyond loopback only over
\* TLS, with a certificate every terminal trusts, however its files, its environment and
\* the pins changed while it was starting.
ServesTrusted ==
    core.stage = "up" =>
        /\ core.config.token \notin {None, "short"}
        /\ core.config.bind # "loopback" => core.cert # None
        /\ core.cert # None => VerifyServerCert(pins, core.cert)

Missed == UNION {{t} \X (1..sessions[t].missed) : t \in Terminal}

\* "These are the numbers that say otherwise" (metrics.rs): every event a connector produced
\* is waiting, broadcast, counted as dropped, or lost with a core that says it is not
\* healthy; a session was given every event since it joined but those counted as lagged; and
\* as many terminals are connected as have an open session.
LossesCounted ==
    LET said == Respond("GET", "/metrics").body
    IN  /\ pipe.produced = Len(pipe.queue) + said.broadcast + said.dropped + pipe.stranded
        /\ said.dropped + pipe.stranded > 0 => Respond("GET", "/health").status = 503
        /\ \A t \in Terminal :
              sessions[t].phase \in Counted =>
                  sessions[t].at = sessions[t].joined + sessions[t].given + sessions[t].missed
        /\ Cardinality(Missed) <= said.lagged
        /\ said.connected = Cardinality({t \in Terminal : sessions[t].phase \in Counted})

\* "The venue forgets our subscriptions, we do not" (socket_task): once a connector is up and
\* has nothing left to write, the venue sends the streams that were asked for, whatever
\* broke in between, a write included.
StreamsAsAsked ==
    \A m \in DOMAIN connectors :
        connectors[m].link = "up" /\ connectors[m].commands = <<>> =>
            connectors[m].venue = connectors[m].asked

\* "Books from the old connection describe a stream that no longer exists" (run): whatever is
\* selected, a frame whose status is live shows no book of an earlier connection, and one
\* that says the core refused shows none at all.
Drawn(frame) ==
    {frame.mid, frame.book.book, frame.chart.chart.heat}
    \cup {frame.dock.rows[i].book : i \in DOMAIN frame.dock.rows}

FramesHonest ==
    \A t \in Terminal : \A i \in DOMAIN Watching, d \in DOMAIN Tabs :
        LET frame == Frame([FirstView EXCEPT !.instrument = i, !.dock = d], display[t], Watching)
        IN  /\ frame.bottom.tone = "positive" => Drawn(frame) \subseteq {0, frame.connection}
            /\ frame.bottom.tone = "negative" => Drawn(frame) = {0}

\* "A key half-written across a crash is a terminal that cannot connect": but it is not a
\* terminal that takes itself for a new one. The key a terminal goes by is loaded, or the
\* load says what is wrong; it is NotFound only after a delete (keystore.rs).
IdentityKept ==
    known # None =>
        \A passphrase \in {"old", "new"} :
            LET loaded == LoadKey(kept, passphrase)
            IN  /\ loaded.refused # "NotFound"
                /\ loaded.refused = None => loaded.key = known
=============================================================================
