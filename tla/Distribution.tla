---------------------------- MODULE Distribution ----------------------------
(***************************************************************************)
(* How books travel from a connector to the terminals: the connector's     *)
(* unbounded EventSink, the core's pump that folds every event into the    *)
(* read-model before it broadcasts it (crates/core/src/main.rs), the       *)
(* bounded broadcast, one session task per terminal that hands over the    *)
(* read-model and then forwards (crates/core/src/server.rs), and the       *)
(* terminal's feed (crates/terminal/src/feed.rs).                          *)
(*                                                                         *)
(* The connector is BookFeed, the promise BookSync implements; the events  *)
(* are those of one symbol.  Trades and candles are left out: they share   *)
(* no state with the books.  A terminal's token is good: what a session    *)
(* does with a bad one is a refusal, after which nothing more happens.     *)
(***************************************************************************)
EXTENDS BookFeed, OrderBook, Sequences, FiniteSets

CONSTANTS Terminal,       \* the terminals
          Capacity,       \* FANOUT_CAPACITY, the events a session may be behind
          MaxSession,     \* connections of the connector in one behaviour
          Numbers(_),     \* the venue's numbers during each connection
          MaxSink,        \* bounds the connector's channel, unbounded in the code
          MaxWire,        \* messages a socket holds before send() waits
          MaxConnects,    \* connections of one terminal in one behaviour
          NoEvent

ASSUME DistributionAssumption ==
    /\ Capacity \in Nat \ {0} /\ MaxSession \in Nat \ {0} /\ MaxSink \in Nat /\ MaxWire \in Nat
    /\ MaxConnects \in Nat
    /\ \A e \in 1..MaxSession :
          /\ Numbers(e) \subseteq 1..MaxFeedId
          /\ \A n \in Numbers(e) : VenueBook(e, n) \in [Level -> Qty]

VARIABLES sink,        \* events the connector has sent and the pump has not received
          inHand,      \* the event the pump has folded and not broadcast yet, or NoEvent
          held,        \* the read-model's book
          queue,       \* per terminal: its broadcast receiver's backlog
          missed,      \* per terminal: the receiver has been overrun since it last received
          stage,       \* per terminal: where its session task stands
          subscribed,  \* per terminal: the session has its subscription
          toCore,      \* per terminal: what it has sent and the session has not read
          toTerminal,  \* per terminal: what the session has sent and it has not read
          book,        \* per terminal: the book its feed holds
          lagged,      \* per terminal: this connection has been overrun (history)
          connects     \* per terminal: connections made (history, bounds the model)

coreVars     == <<sink, inHand, held>>
sessionVars  == <<queue, missed, stage, subscribed, lagged>>
terminalVars == <<toCore, toTerminal, book, connects>>
vars         == <<feedVars, coreVars, sessionVars, terminalVars>>

\* A session waits in select!, or is writing the state it hands over after a reply.
Stages == {"none", "select", "handover"}

Reply(kind) == [kind |-> kind]

Init ==
    /\ FeedInit
    /\ sink = <<>>
    /\ inHand = NoEvent
    /\ held = NoBook
    /\ queue = [t \in Terminal |-> <<>>]
    /\ missed = [t \in Terminal |-> FALSE]
    /\ stage = [t \in Terminal |-> "none"]
    /\ subscribed = [t \in Terminal |-> FALSE]
    /\ toCore = [t \in Terminal |-> <<>>]
    /\ toTerminal = [t \in Terminal |-> <<>>]
    /\ book = [t \in Terminal |-> NoBook]
    /\ lagged = [t \in Terminal |-> FALSE]
    /\ connects = [t \in Terminal |-> 0]

-----------------------------------------------------------------------------
(* The connector.                                                          *)

Emit(event) ==
    /\ Len(sink) < MaxSink
    /\ sink' = Append(sink, event)
    /\ UNCHANGED <<inHand, held, sessionVars, terminalVars>>

ConnectorSendsBook(n) ==
    /\ n \in Numbers(session)
    /\ PublishBook(n)
    /\ Emit(SnapshotEvent([levels |-> VenueBook(session, n), last |-> n, synced |-> TRUE]))

ConnectorSendsDelta(n) ==
    /\ n \in Numbers(session)
    /\ PublishDelta(n)
    /\ Emit(DeltaEvent(VenueDelta(session, position, n)))

ConnectorLosesSync ==
    /\ LoseSync
    /\ UNCHANGED <<coreVars, sessionVars, terminalVars>>

ConnectorReconnects ==
    /\ session < MaxSession
    /\ Renew
    /\ UNCHANGED <<coreVars, sessionVars, terminalVars>>

-----------------------------------------------------------------------------
(* The core's pump.                                                        *)

\* folding.apply(&event)
PumpFolds ==
    /\ sink # <<>> /\ inHand = NoEvent
    /\ inHand' = Head(sink)
    /\ sink' = Tail(sink)
    /\ held' = FoldBook(held, Head(sink))
    /\ UNCHANGED <<feedVars, sessionVars, terminalVars>>

Connected(t) == stage[t] # "none"

\* A receiver keeps the newest Capacity events; the oldest is overwritten.
Overrun(t) == Connected(t) /\ Len(queue[t]) = Capacity

\* forward.send(event), to every receiver there is at this instant.
PumpSends ==
    /\ inHand # NoEvent
    /\ inHand' = NoEvent
    /\ queue' = [t \in Terminal |->
                    IF ~Connected(t) THEN queue[t]
                    ELSE Append(IF Overrun(t) THEN Tail(queue[t]) ELSE queue[t], inHand)]
    /\ missed' = [t \in Terminal |-> missed[t] \/ Overrun(t)]
    /\ lagged' = [t \in Terminal |-> lagged[t] \/ Overrun(t)]
    /\ UNCHANGED <<feedVars, sink, held, stage, subscribed, terminalVars>>

-----------------------------------------------------------------------------
(* A terminal's session in the core.                                       *)

Send(t, message) ==
    /\ Len(toTerminal[t]) < MaxWire
    /\ toTerminal' = [toTerminal EXCEPT ![t] = Append(@, message)]

\* One decoded message: Session::handle and the reply. The state is handed over next,
\* before the session goes back to select!.
SessionReplies(t) ==
    /\ stage[t] = "select"
    /\ toCore[t] # <<>>
    /\ toCore' = [toCore EXCEPT ![t] = Tail(@)]
    /\ IF Head(toCore[t]) = "Hello"
       THEN Send(t, Reply("Welcome")) /\ UNCHANGED subscribed
       ELSE Send(t, Reply("Pong")) /\ subscribed' = [subscribed EXCEPT ![t] = TRUE]
    /\ stage' = [stage EXCEPT ![t] = "handover"]
    /\ UNCHANGED <<feedVars, coreVars, queue, missed, lagged, book, connects>>

\* A mutant: the stream alone is served, as before there was a read-model.
SessionHandsOverNothing(t) ==
    /\ stage[t] = "handover"
    /\ stage' = [stage EXCEPT ![t] = "select"]
    /\ UNCHANGED <<feedVars, coreVars, queue, missed, subscribed, lagged, terminalVars>>

\* state.snapshots_for(session.subscriptions()): what the read-model holds at this instant.
SessionHandsOver(t) ==
    /\ stage[t] = "handover"
    /\ stage' = [stage EXCEPT ![t] = "select"]
    /\ IF subscribed[t] /\ held # NoBook /\ held.synced
       THEN Send(t, SnapshotEvent(held))
       ELSE UNCHANGED toTerminal
    /\ UNCHANGED <<feedVars, coreVars, queue, missed, subscribed, lagged, toCore, book, connects>>

\* events.recv() = Ok: forwarded if session.wants(&event), dropped otherwise.
SessionForwards(t) ==
    /\ stage[t] = "select"
    /\ ~missed[t] /\ queue[t] # <<>>
    /\ queue' = [queue EXCEPT ![t] = Tail(@)]
    /\ IF subscribed[t] THEN Send(t, Head(queue[t])) ELSE UNCHANGED toTerminal
    /\ UNCHANGED <<feedVars, coreVars, missed, stage, subscribed, lagged, toCore, book, connects>>

\* events.recv() = Lagged: the terminal is told, and nothing else is done about it.
SessionLags(t) ==
    /\ stage[t] = "select"
    /\ missed[t]
    /\ missed' = [missed EXCEPT ![t] = FALSE]
    /\ Send(t, Reply("Resyncing"))
    /\ UNCHANGED <<feedVars, coreVars, queue, stage, subscribed, lagged, toCore, book, connects>>

-----------------------------------------------------------------------------
(* The terminal's feed.                                                    *)

\* connect_async and Hello; the core subscribes a receiver when it accepts.
TerminalConnects(t) ==
    /\ ~Connected(t)
    /\ connects[t] < MaxConnects
    /\ connects' = [connects EXCEPT ![t] = @ + 1]
    /\ stage' = [stage EXCEPT ![t] = "select"]
    /\ toCore' = [toCore EXCEPT ![t] = <<"Hello">>]
    /\ UNCHANGED <<feedVars, coreVars, queue, missed, subscribed, lagged, toTerminal, book>>

\* Welcome is answered with Subscribe; a book event is applied; the rest changes no book.
TerminalReads(t) ==
    /\ toTerminal[t] # <<>>
    /\ toTerminal' = [toTerminal EXCEPT ![t] = Tail(@)]
    /\ LET message == Head(toTerminal[t])
       IN  /\ toCore' = IF message.kind = "Welcome"
                        THEN [toCore EXCEPT ![t] = Append(@, "Subscribe")] ELSE toCore
           /\ book' = IF message.kind \in {"BookSnapshot", "BookDelta"}
                      THEN [book EXCEPT ![t] = FoldBook(@, message)] ELSE book
    /\ UNCHANGED <<feedVars, coreVars, sessionVars, connects>>

\* The socket dies: both sides end the session, and the terminal clears its books.
ConnectionLost(t) ==
    /\ Connected(t)
    /\ stage' = [stage EXCEPT ![t] = "none"]
    /\ queue' = [queue EXCEPT ![t] = <<>>]
    /\ missed' = [missed EXCEPT ![t] = FALSE]
    /\ lagged' = [lagged EXCEPT ![t] = FALSE]
    /\ subscribed' = [subscribed EXCEPT ![t] = FALSE]
    /\ toCore' = [toCore EXCEPT ![t] = <<>>]
    /\ toTerminal' = [toTerminal EXCEPT ![t] = <<>>]
    /\ book' = [book EXCEPT ![t] = NoBook]
    /\ UNCHANGED <<feedVars, coreVars, connects>>

Next ==
    \/ \E n \in 1..MaxFeedId : ConnectorSendsBook(n) \/ ConnectorSendsDelta(n)
    \/ ConnectorLosesSync
    \/ ConnectorReconnects
    \/ PumpFolds
    \/ PumpSends
    \/ \E t \in Terminal :
          \/ SessionReplies(t) \/ SessionHandsOver(t) \/ SessionForwards(t) \/ SessionLags(t)
          \/ TerminalConnects(t) \/ TerminalReads(t) \/ ConnectionLost(t)

\* The pump, every session and every terminal get to run; nothing makes the venue publish,
\* a connection break, or a terminal come back.
Fairness ==
    /\ WF_vars(PumpFolds) /\ WF_vars(PumpSends)
    /\ \A t \in Terminal :
          /\ WF_vars(SessionReplies(t)) /\ WF_vars(SessionHandsOver(t))
          /\ WF_vars(SessionForwards(t)) /\ WF_vars(SessionLags(t))
          /\ WF_vars(TerminalReads(t))

Spec == Init /\ [][Next]_vars /\ Fairness

-----------------------------------------------------------------------------
(* Properties.                                                             *)

BookEvent ==
    [kind : {"BookSnapshot"}, book : Book] \cup [kind : {"BookDelta"}, delta : Delta]

ASSUME NoEventAssumption == NoEvent \notin BookEvent

Message == BookEvent \cup {Reply(kind) : kind \in {"Welcome", "Pong", "Resyncing"}}

\* Every variable has its type, and no receiver holds more than its capacity.
TypeOK ==
    /\ FeedTypeOK
    /\ sink \in Seq(BookEvent)
    /\ inHand \in BookEvent \cup {NoEvent}
    /\ held \in Book \cup {NoBook}
    /\ queue \in [Terminal -> Seq(BookEvent)]
    /\ \A t \in Terminal : Len(queue[t]) <= Capacity
    /\ missed \in [Terminal -> BOOLEAN]
    /\ stage \in [Terminal -> Stages]
    /\ subscribed \in [Terminal -> BOOLEAN]
    /\ toCore \in [Terminal -> Seq({"Hello", "Subscribe"})]
    /\ toTerminal \in [Terminal -> Seq(Message)]
    /\ book \in [Terminal -> Book \cup {NoBook}]
    /\ lagged \in [Terminal -> BOOLEAN]
    /\ connects \in [Terminal -> Nat]

\* It is the venue's book at the number it bears, on one of the connections so far.
IsVenueBook(b) ==
    \E e \in 1..session : b.last \in Numbers(e) /\ b.levels = VenueBook(e, b.last)

\* What a terminal draws, and what the core would hand to the next one, is a book the venue
\* had: not one merged from a handed-over book and updates queued before, during or after
\* the handover, nor from what is left after an overrun.
TerminalBooksTrue ==
    /\ held # NoBook => IsVenueBook(held)
    /\ \A t \in Terminal : book[t] # NoBook => IsVenueBook(book[t])

\* "The core forwards only chainable updates, so a gap means our copy has drifted from the
\* core's": a terminal that has not been overrun never drops its book.
OnlyLaggingDesyncs ==
    [][\A t \in Terminal :
          book[t] # NoBook /\ book'[t] = NoBook => lagged[t] \/ ~Connected(t)']_vars

\* "Fold before broadcasting, so a session subscribing at this instant is served state that
\* is at least as new as the events already queued for it" (with numbers that go on from one
\* connection to the next).
EventNumber(event) == IF event.kind = "BookSnapshot" THEN event.book.last ELSE event.delta.last

ServedIsFresh ==
    \A t \in Terminal : \A i \in DOMAIN queue[t] :
        held # NoBook /\ EventNumber(queue[t][i]) <= held.last

\* The terminal's copy and the core's are one.
InStep(t) == book[t] = held

\* In the end a terminal that is subscribed and was not overrun has the core's book: the
\* handover closes the gap between the read-model and the stream, whenever it happens.
SubscribersConverge == \A t \in Terminal : <>[](subscribed[t] /\ ~lagged[t] => InStep(t))

\* "Consumers that cannot keep up are dropped instead, and the core resyncs them"
\* (exchange/src/sink.rs:3-6); "a resync is under way and data is stale until the next
\* BookSnapshot" (domain/src/event.rs:62-63): an overrun terminal gets a book again.
LaggingResynced == \A t \in Terminal : <>[](subscribed[t] => InStep(t))
=============================================================================
