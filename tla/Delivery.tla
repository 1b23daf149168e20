------------------------------ MODULE Delivery ------------------------------
(***************************************************************************)
(* How what a core publishes reaches a terminal under the new protocol     *)
(* (crates/wire): a terminal subscribes to instruments of the catalogue,   *)
(* is told their short ids, and is sent events of them in frames cut by    *)
(* the batcher; it pages through the catalogue and names instruments by    *)
(* id in its own commands.  The core may be restarted, the connection may  *)
(* be made anew, the venue's list may change, and the core may be newer    *)
(* than the terminal.                                                      *)
(*                                                                         *)
(* The caller of these parts is not in the repository: it is modelled as   *)
(* their documentation asks of it.  A connection is a FIFO queue of        *)
(* frames.                                                                 *)
(***************************************************************************)
EXTENDS Framing, Catalogue, Subscriptions

CONSTANTS
    Requests,       \* the sets of subscriptions a terminal may ask for
    Newer,          \* events only a newer core knows
    Lists,          \* what the venue may answer when asked for its instruments
    Sizes,          \* the sizes of encoded messages
    MaxEpoch, MaxTime, MaxOps    \* bounds of a check

ASSUME DeliveryAssumption ==
    /\ Sizes \subseteq 1..MaxMessage
    /\ \A infos \in Lists : /\ infos \in Seq(Range(infos))
                             /\ \A i \in DOMAIN infos : infos[i].name \in Nat
    /\ None \notin Nat
    /\ \A requested \in Requests : IsFiniteSet(requested)
    /\ \A event \in Newer : Accepted(event) # "known"
    /\ MaxEpoch \in Nat \ {0} /\ MaxTime \in Nat /\ MaxOps \in Nat

VARIABLES
    clock, ops,
    catalogue,   \* the core's list of instruments
    core,        \* the core's lifetime and the symbols it issued ids to, in order
    session,     \* subscriptions, an answer to be announced, the batcher, events sent per channel
    wire,        \* frames on their way to the terminal
    terminal,    \* its dictionary, and how many events of each channel it has seen
    understood,  \* what was understood, on either side, beside what was meant
    paging       \* the pages the terminal has had since it began, if it is at it

vars == <<clock, ops, catalogue, core, session, wire, terminal, understood, paging>>

Symbols == UNION {Names(Listed(Instruments(infos))) : infos \in Lists}
Topics   == UNION Requests
Channels == {"BOOK", "COMMAND", "REFERENCE"}

None0 == [c \in Channels |-> 0]
NewSession(known) == [known |-> known, subs |-> NoSubscriptions, told |-> "nothing", ids |-> {},
                      batcher |-> EmptyBatcher, sent |-> None0]
NotPaging == [on |-> FALSE, cursor |-> None, items |-> <<>>, revs |-> {}, always |-> {}]

Init ==
    /\ clock = 0 /\ ops = 0
    /\ \E infos \in Lists : catalogue = [list |-> Listed(Instruments(infos)), rev |-> 1]
    /\ core = [epoch |-> 1, registry |-> <<>>]
    /\ session = NewSession(TRUE)
    /\ wire = <<>>
    /\ terminal = [epoch |-> 1, dict |-> {}, seen |-> None0]
    /\ understood = {}
    /\ paging = NotPaging

\* What callers do is bounded.
Operation == ops < MaxOps /\ ops' = ops + 1

\* Whether the terminal's connection is one to the core there is.
Connected == terminal.epoch = core.epoch

\* The catalogue meets the rest of the model only where a subscription is checked: to keep
\* the two from multiplying, a check reads and pages it while no event is on its way.
Quiet == wire = <<>> /\ session.batcher.parts = <<>>

-----------------------------------------------------------------------------
(* From the core to the terminal.                                          *)

\* What a terminal acts on.
Known(env) == Accepted(env) = "known"

\* An event in its envelope: `names' is the ids it carries, each with what it means.
Envelope(channel, kind, ver, size, names, n) ==
    [channel |-> channel, kind |-> kind, ver |-> ver, size |-> size, names |-> names, n |-> n,
     at |-> clock]

\* How long its events were kept no longer matters once a batch is cut.
Unstamped(parts) == [i \in DOMAIN parts |-> [parts[i] EXCEPT !.at = 0]]

\* What the batcher cuts is written at once, however well or badly it compresses.
Written(out) ==
    IF out = <<>> THEN wire' = wire
    ELSE \E compressed \in {1, out[1].size} :
            LET frame == Encode(Batch(Unstamped(out[1].parts), out[1].size), compressed)
            IN  wire' = IF frame.ok THEN Append(wire, frame) ELSE wire

Batched(step, changed) ==
    /\ session' = [changed EXCEPT !.batcher = step.batcher]
    /\ Written(step.out)

\* The next event of a channel.
Sent(channel, kind, size, names, changed) ==
    LET n == session.sent[channel] + 1
    IN  Batched(Push(session.batcher, Envelope(channel, kind, KNOWN_VER, size, names, n), clock),
                [changed EXCEPT !.sent[channel] = n])

\* Of a request, what is about an instrument of the catalogue that trades.
Tradable(requested) == {t \in requested : IsTradable(catalogue, t.symbol)}

\* A terminal subscribes; the answer is yet to be written.
Subscribe ==
    \E requested \in Requests, replace \in BOOLEAN :
        LET tradable == Tradable(requested)
        IN  /\ Operation /\ Connected
            /\ session.told = "nothing"
            /\ \E registry \in Interned(core.registry, SymbolsOf(tradable)) :
                 /\ core' = [core EXCEPT !.registry = registry]
                 /\ session' = [session EXCEPT
                      !.subs = Subscribed(@, requested, tradable, replace),
                      !.told = "assigned",
                      !.ids  = {<<IdOf(registry, s), s>> : s \in SymbolsOf(tradable)}]
            /\ UNCHANGED <<clock, catalogue, wire, terminal, understood, paging>>

Announce ==
    /\ session.told = "assigned"
    /\ Sent("REFERENCE", "Subscribed", 1, session.ids, [session EXCEPT !.told = "written", !.ids = {}])
    /\ UNCHANGED <<clock, ops, catalogue, core, terminal, understood, paging>>

Activate ==
    /\ session.told = "written"
    /\ session' = [session EXCEPT !.subs = Activated(@), !.told = "nothing"]
    /\ UNCHANGED <<clock, ops, catalogue, core, wire, terminal, understood, paging>>

Unsubscribe ==
    \E topic \in session.subs.active \cup session.subs.pending :
        /\ Operation
        /\ session' = [session EXCEPT !.subs = Unsubscribed(@, {topic})]
        /\ UNCHANGED <<clock, catalogue, core, wire, terminal, understood, paging>>

\* An event of an instrument the session wants.
Publish ==
    \E symbol \in Symbols, size \in Sizes :
        /\ Operation
        /\ Wants(session.subs, symbol)
        /\ Sent("BOOK", "BookDelta", size, {<<IdOf(core.registry, symbol), symbol>>}, session)
        /\ UNCHANGED <<clock, catalogue, core, terminal, understood, paging>>

\* An urgent event, private to a session that said who it is.
Acknowledge ==
    /\ Operation /\ Connected
    /\ IsPrivate("CommandAck") => session.known
    /\ Sent("COMMAND", "CommandAck", 1, {}, session)
    /\ UNCHANGED <<clock, catalogue, core, terminal, understood, paging>>

\* A newer core's event: of a channel, a version or a kind this build does not know.
Foreign ==
    \E event \in Newer :
        /\ Operation /\ Connected
        /\ Batched(Push(session.batcher,
                        Envelope(event.channel, event.kind, event.ver, 1, {}, 0), clock), session)
        /\ UNCHANGED <<clock, catalogue, core, terminal, understood, paging>>

\* The caller's timer for the batcher's deadline.
Expire ==
    /\ session.batcher.parts # <<>>
    /\ FlushDue(session.batcher, clock).out # <<>>
    /\ Batched(FlushDue(session.batcher, clock), session)
    /\ UNCHANGED <<clock, ops, catalogue, core, terminal, understood, paging>>

\* Time, which matters only while something is kept.
Tick ==
    /\ clock < MaxTime
    /\ session.batcher.parts # <<>>
    /\ clock < Deadline(session.batcher)
    /\ clock' = clock + 1
    /\ UNCHANGED <<ops, catalogue, core, session, wire, terminal, understood, paging>>

-----------------------------------------------------------------------------
(* The terminal.                                                           *)

Meaning(dict, id) ==
    IF \E s \in Symbols : <<id, s>> \in dict
    THEN [is |-> "symbol", symbol |-> CHOOSE s \in Symbols : <<id, s>> \in dict]
    ELSE [is |-> "unknown"]

\* The first parts of a frame teach the terminal what ids mean, ...
Learned(body, count) ==
    UNION {body[k].names : k \in {j \in 1..count : Known(body[j]) /\ body[j].kind = "Subscribed"}}

\* ... and it remembers the last event of each channel.
LastSeen(body, channel) ==
    LET known == {i \in DOMAIN body : Known(body[i]) /\ body[i].channel = channel}
    IN  IF known = {} THEN terminal.seen[channel] ELSE body[Max(known)].n

\* The terminal takes a frame: it learns the ids it is told, and reads the others by its
\* dictionary. What it does not know it skips; a frame it refuses tells it nothing.
Receive ==
    LET frame == Head(wire)
        dict(i) == terminal.dict \cup Learned(frame.body, i)
        read == {i \in DOMAIN frame.body : /\ Known(frame.body[i])
                                           /\ frame.body[i].kind # "Subscribed"}
    IN  /\ wire # <<>>
        /\ wire' = Tail(wire)
        /\ IF Refused(frame) THEN UNCHANGED <<terminal, understood>>
           ELSE /\ terminal' = [terminal EXCEPT
                      !.dict = dict(Len(frame.body)),
                      !.seen = [c \in Channels |-> LastSeen(frame.body, c)]]
                /\ understood' = understood \cup
                     UNION {{[as |-> Meaning(dict(i), name[1]), meant |-> name[2]] :
                               name \in frame.body[i].names} : i \in read}
        /\ UNCHANGED <<clock, ops, catalogue, core, session, paging>>

\* A terminal's command names an instrument by the id and the epoch it holds, and reaches the
\* core there is by then.
Name ==
    \E name \in terminal.dict :
        LET as == Resolve(core.registry, core.epoch, name[1], terminal.epoch)
        IN  /\ understood' = understood \cup {[as |-> as, meant |-> name[2]]}
            /\ UNCHANGED <<clock, ops, catalogue, core, session, wire, terminal, paging>>

\* A new connection, to the core there is: what was on its way is lost, the batcher with it,
\* and a terminal welcomed by another lifetime throws its dictionary away.
Reconnect ==
    \E known \in BOOLEAN :
        /\ Operation
        /\ session' = NewSession(known)
        /\ wire' = <<>>
        /\ terminal' = [epoch |-> core.epoch, seen |-> None0,
                        dict |-> IF core.epoch = terminal.epoch THEN terminal.dict ELSE {}]
        /\ paging' = NotPaging
        /\ UNCHANGED <<clock, catalogue, core, understood>>

\* The session is closed by the core, which writes what is kept.
Close ==
    /\ session.batcher.parts # <<>>
    /\ Operation
    /\ Batched(Flush(session.batcher), [session EXCEPT !.subs = NoSubscriptions])
    /\ UNCHANGED <<clock, catalogue, core, terminal, understood, paging>>

\* The core is started again: ids begin anew, under another epoch, with what other terminals
\* ask for first. What it had written may still arrive.
Restart ==
    /\ Operation
    /\ core.epoch < MaxEpoch
    /\ \E others \in Requests \cup {{}} :
         \E registry \in Interned(<<>>, SymbolsOf(Tradable(others))) :
           core' = [epoch |-> core.epoch + 1, registry |-> registry]
    /\ catalogue' = [catalogue EXCEPT !.rev = 1]
    /\ session' = NewSession(FALSE)
    /\ paging' = NotPaging
    /\ UNCHANGED <<clock, wire, terminal, understood>>

-----------------------------------------------------------------------------
(* The catalogue.                                                          *)

\* The core reads the venue's list again.
Refresh ==
    \E infos \in Lists :
        /\ Operation /\ Quiet
        /\ catalogue' = Replace(catalogue, Instruments(infos))
        /\ paging' = [paging EXCEPT !.always = @ \cap Names(catalogue'.list)]
        /\ UNCHANGED <<clock, core, session, wire, terminal, understood>>

AskPage ==
    LET page == Page(catalogue, paging.cursor)
    IN  /\ ~paging.on \/ paging.cursor # None
        /\ Operation /\ Quiet
        /\ paging' = [on |-> TRUE, cursor |-> page.cursor, items |-> paging.items \o page.items,
                      revs |-> paging.revs \cup {page.rev},
                      always |-> IF paging.on THEN paging.always ELSE Names(catalogue.list)]
        /\ UNCHANGED <<clock, catalogue, core, session, wire, terminal, understood>>

Next ==
    \/ Subscribe \/ Announce \/ Activate \/ Unsubscribe
    \/ Publish \/ Acknowledge \/ Foreign \/ Expire \/ Tick
    \/ Receive \/ Name \/ Reconnect \/ Close \/ Restart
    \/ Refresh \/ AskPage

Spec == Init /\ [][Next]_vars

-----------------------------------------------------------------------------
(* Properties.                                                             *)

\* Types.
TypeOK ==
    /\ clock \in 0..MaxTime /\ ops \in 0..MaxOps
    /\ core.epoch \in 1..MaxEpoch /\ Range(core.registry) \subseteq Symbols
    /\ session.subs.active \subseteq Topics /\ session.subs.pending \subseteq Topics
    /\ session.told \in {"nothing", "assigned", "written"}
    /\ terminal.epoch \in 1..MaxEpoch
    /\ terminal.dict \subseteq Nat \X Symbols

\* A short id is understood as it was meant, whoever reads it: an event is never taken for one
\* of another instrument or of one not announced, and a command given under another core's
\* ids is refused (subscription.rs "an id cannot arrive before its meaning", registry.rs "an id
\* from a foreign epoch is refused rather than resolved").
IdsMeant ==
    \A reading \in understood :
        reading.as = [is |-> "symbol", symbol |-> reading.meant] \/ reading.as.is = "foreign epoch"

\* What is still to arrive, in order: the frames that will be read, then what is kept.
Stream ==
    [f \in 1..Len(wire) + 1 |->
       IF f = Len(wire) + 1 THEN Unstamped(session.batcher.parts)
       ELSE IF Refused(wire[f]) THEN <<>> ELSE wire[f].body]

\* A part of a stream that is an event of this channel.
IsOf(stream, channel, f, i) == Known(stream[f][i]) /\ stream[f][i].channel = channel

\* It holds the events of a channel from one number to another, each once and in order.
Carries(stream, channel, from, to) ==
    /\ \A n \in from..to : \E f \in DOMAIN stream : \E i \in DOMAIN stream[f] :
         IsOf(stream, channel, f, i) /\ stream[f][i].n = n
    /\ \A f \in DOMAIN stream : \A i \in DOMAIN stream[f] :
         IsOf(stream, channel, f, i) => stream[f][i].n \in from..to
    /\ \A f, g \in DOMAIN stream : \A i \in DOMAIN stream[f], j \in DOMAIN stream[g] :
         /\ IsOf(stream, channel, f, i) /\ IsOf(stream, channel, g, j)
         /\ f < g \/ (f = g /\ i < j)
         => stream[f][i].n < stream[g][j].n

\* Every event sent arrives once, in the order of its channel: the batcher loses and reorders
\* nothing, no frame the core writes is refused by the terminal, and events of a newer core
\* disturb nothing (batch.rs push, frame.rs encode and inflate, envelope.rs accept).
InOrder ==
    Connected =>
        \A c \in Channels : Carries(Stream, c, terminal.seen[c] + 1, session.sent[c])

\* No event is kept longer than the flush interval, however many come after it (batch.rs
\* deadline).
WaitBounded ==
    \A i \in DOMAIN session.batcher.parts :
        clock - session.batcher.parts[i].at <= BATCH_FLUSH_MS

\* When the last page has been had, they hold every instrument listed all the while, each
\* once and in order; and pages of one revision are one list (catalogue.rs page, replace).
PagesTrue ==
    LET items == paging.items
    IN  paging.on /\ paging.cursor = None =>
            /\ paging.always \subseteq Names(items)
            /\ \A i, j \in DOMAIN items : i < j => items[i].name < items[j].name
            /\ paging.revs = {catalogue.rev} => items = catalogue.list

=============================================================================
