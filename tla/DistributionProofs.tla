------------------------- MODULE DistributionProofs -------------------------
(***************************************************************************)
(* Proofs about Distribution, for any number of terminals, any capacity of *)
(* the broadcast and any venue whose connections share no number.          *)
(***************************************************************************)
EXTENDS Distribution, TLAPS

\* No number is used by two connections.
NumbersGoOn ==
    \A e, f \in 1..MaxSession : e # f => Numbers(e) \cap Numbers(f) = {}

-----------------------------------------------------------------------------
(* What travels.                                                           *)

\* The books and updates of the connections up to number s.
BooksOf(s) ==
    {b \in Book : /\ b.synced
                  /\ \E e \in 1..s : b.last \in Numbers(e) /\ b.levels = VenueBook(e, b.last)}

DeltasOf(s) ==
    {d \in Delta : \E e \in 1..s : \E p, q \in Numbers(e) : p < q /\ d = VenueDelta(e, p, q)}

EventsOf(s) ==
    [kind : {"BookSnapshot"}, book : BooksOf(s)] \cup [kind : {"BookDelta"}, delta : DeltasOf(s)]

Replies == {Reply(kind) : kind \in {"Welcome", "Pong", "Resyncing"}}

\* A book of one connection accepts no update of another, and an update of its own makes
\* it the venue's book at the update's number.
LEMMA ApplyTrue ==
    ASSUME NumbersGoOn, NEW s \in 1..MaxSession, NEW b \in BooksOf(s), NEW d \in DeltasOf(s)
    PROVE  ApplyDelta(b, d) \in BooksOf(s)
<1>1. CASE ApplyOutcome(b, d) # "Applied"
    BY <1>1 DEF ApplyDelta
<1>2. CASE ApplyOutcome(b, d) = "Applied"
    <2>1. PICK e \in 1..s : b.last \in Numbers(e) /\ b.levels = VenueBook(e, b.last)
        BY DEF BooksOf
    <2>2. PICK f \in 1..s : \E p, q \in Numbers(f) : p < q /\ d = VenueDelta(f, p, q)
        BY DEF DeltasOf
    <2>3. PICK p \in Numbers(f), q \in Numbers(f) : p < q /\ d = VenueDelta(f, p, q)
        BY <2>2
    <2>4. b \in Book /\ b.synced /\ d \in Delta
        BY DEF BooksOf, DeltasOf
    <2>5. p = b.last
        BY <1>2, <2>3, <2>4 DEF ApplyOutcome, Continues, VenueDelta
    <2>6. e \in 1..MaxSession /\ f \in 1..MaxSession
        BY DistributionAssumption
    <2>7. e = f
        BY <2>1, <2>3, <2>5, <2>6 DEF NumbersGoOn
    <2>8. /\ p \in Nat /\ q \in Nat
          /\ VenueBook(e, p) \in [Level -> Qty] /\ VenueBook(e, q) \in [Level -> Qty]
        BY <2>3, <2>6, <2>7, DistributionAssumption, BookFeedAssumption
    <2>9. Merge(b.levels, d.changes) = VenueBook(e, q)
        <3>1. ASSUME NEW l \in Level
              PROVE  Merge(VenueBook(e, p), d.changes)[l] = VenueBook(e, q)[l]
            <4>1. l \notin Touched(e, p, q) => VenueBook(e, p)[l] = VenueBook(e, q)[l]
                BY <2>3, <2>8 DEF Touched
            <4>. QED BY <2>3, <2>7, <2>8, <4>1 DEF Merge, VenueDelta
        <3>. QED BY <2>1, <2>5, <2>8, <3>1 DEF Merge
    <2>10. ApplyDelta(b, d) = [levels |-> VenueBook(e, q), last |-> q, synced |-> TRUE]
        BY <1>2, <2>3, <2>9 DEF ApplyDelta, VenueDelta
    <2>. QED BY <2>3, <2>7, <2>8, <2>10 DEF BooksOf, Book
<1>. QED BY <1>1, <1>2

\* A consumer that holds a book of the venue, or none, still does after any event.
LEMMA FoldTrue ==
    ASSUME NumbersGoOn, NEW s \in 1..MaxSession,
           NEW b \in BooksOf(s) \cup {NoBook}, NEW ev \in EventsOf(s)
    PROVE  FoldBook(b, ev) \in BooksOf(s) \cup {NoBook}
<1>1. CASE ev \in [kind : {"BookSnapshot"}, book : BooksOf(s)]
    BY <1>1 DEF FoldBook
<1>2. CASE ev \in [kind : {"BookDelta"}, delta : DeltasOf(s)]
    BY <1>2, ApplyTrue DEF FoldBook
<1>. QED BY <1>1, <1>2 DEF EventsOf

\* What was true of the connections so far is true of one more.
LEMMA MoreConnections ==
    ASSUME NEW s \in Nat
    PROVE  /\ BooksOf(s) \subseteq BooksOf(s + 1)
           /\ EventsOf(s) \subseteq EventsOf(s + 1)
<1>1. BooksOf(s) \subseteq BooksOf(s + 1) /\ DeltasOf(s) \subseteq DeltasOf(s + 1)
    BY DEF BooksOf, DeltasOf
<1>. QED BY <1>1 DEF EventsOf

-----------------------------------------------------------------------------
(* The inductive invariant.                                                *)

FeedInv ==
    /\ FeedTypeOK
    /\ session \in 1..MaxSession
    /\ live => position \in Numbers(session)

CoreInv ==
    /\ sink \in Seq(EventsOf(session))
    /\ inHand \in EventsOf(session) \cup {NoEvent}
    /\ held \in BooksOf(session) \cup {NoBook}

SessionInv ==
    /\ queue \in [Terminal -> Seq(EventsOf(session))]
    /\ \A t \in Terminal : Len(queue[t]) <= Capacity
    /\ missed \in [Terminal -> BOOLEAN]
    /\ stage \in [Terminal -> Stages]
    /\ subscribed \in [Terminal -> BOOLEAN]
    /\ lagged \in [Terminal -> BOOLEAN]

TerminalInv ==
    /\ toCore \in [Terminal -> Seq({"Hello", "Subscribe"})]
    /\ toTerminal \in [Terminal -> Seq(EventsOf(session) \cup Replies)]
    /\ book \in [Terminal -> BooksOf(session) \cup {NoBook}]
    /\ connects \in [Terminal -> Nat]

IInv == FeedInv /\ CoreInv /\ SessionInv /\ TerminalInv

\* Nothing travels yet.
LEMMA InitInv == Init => IInv
<1> SUFFICES ASSUME Init PROVE IInv
    OBVIOUS
<1>1. FeedInv
    <2>1. session = 1 /\ live = FALSE /\ position = 0
        BY DEF Init, FeedInit, Nowhere
    <2>2. live \in BOOLEAN
        BY <2>1
    <2>. QED BY <2>1, <2>2, DistributionAssumption, BookFeedAssumption DEF FeedInv, FeedTypeOK
<1>2. CoreInv
    BY DEF Init, CoreInv
<1>3. SessionInv
    BY DistributionAssumption DEF Init, SessionInv, Stages
<1>4. TerminalInv
    BY DEF Init, TerminalInv
<1>. QED BY <1>1, <1>2, <1>3, <1>4 DEF IInv

\* The events the connector sends are true, and the number it is at is one of its own.
LEMMA ConnectorInv ==
    ASSUME IInv, NEW n \in 1..MaxFeedId, ConnectorSendsBook(n) \/ ConnectorSendsDelta(n)
    PROVE  IInv'
<1> USE DEF IInv
<1>1. /\ session' = session /\ session \in 1..MaxSession
      /\ n \in Numbers(session) /\ live' = TRUE /\ position' = n
      /\ UNCHANGED <<inHand, held, sessionVars, terminalVars>>
    BY DEF ConnectorSendsBook, ConnectorSendsDelta, PublishBook, PublishDelta, Emit, FeedInv
<1>2. VenueBook(session, n) \in [Level -> Qty] /\ n \in Nat /\ session \in 1..session
    BY <1>1, DistributionAssumption
<1>3. PICK ev \in EventsOf(session) : sink' = Append(sink, ev)
    <2>1. CASE ConnectorSendsBook(n)
        <3> DEFINE b == [levels |-> VenueBook(session, n), last |-> n, synced |-> TRUE]
        <3>1. b \in BooksOf(session)
            BY <1>1, <1>2 DEF BooksOf, Book
        <3>. QED BY <2>1, <3>1 DEF ConnectorSendsBook, Emit, SnapshotEvent, EventsOf
    <2>2. CASE ConnectorSendsDelta(n)
        <3> DEFINE d == VenueDelta(session, position, n)
        <3>1. position \in Numbers(session) /\ position < n /\ position \in Nat
            BY <2>2, DistributionAssumption DEF ConnectorSendsDelta, PublishDelta, FeedInv, FeedTypeOK
        <3>2. d \in Delta
            <4>1. Touched(session, position, n) \in SUBSET Level
                BY DEF Touched
            <4>. QED BY <1>2, <3>1, <4>1 DEF VenueDelta, Delta
        <3>3. d \in DeltasOf(session)
            BY <1>1, <1>2, <3>1, <3>2 DEF DeltasOf
        <3>. QED BY <2>2, <3>3 DEF ConnectorSendsDelta, Emit, DeltaEvent, EventsOf
    <2>. QED BY <2>1, <2>2
<1>4. sink' \in Seq(EventsOf(session))
    BY <1>3 DEF CoreInv
<1>5. FeedInv'
    BY <1>1 DEF FeedInv, FeedTypeOK
<1>. QED
    BY <1>1, <1>4, <1>5
    DEF CoreInv, SessionInv, TerminalInv, sessionVars, terminalVars

\* Losing sync publishes nothing; a new connection adds its numbers to those there were.
LEMMA ConnectorChangesInv ==
    ASSUME IInv, ConnectorLosesSync \/ ConnectorReconnects
    PROVE  IInv'
<1> USE DEF IInv
<1>1. UNCHANGED <<coreVars, sessionVars, terminalVars>> /\ live' = FALSE
    BY DEF ConnectorLosesSync, ConnectorReconnects, LoseSync, Renew
<1>2. /\ session' \in 1..MaxSession
      /\ session' = session \/ session' = session + 1
      /\ position' \in 0..MaxFeedId
    BY DistributionAssumption, BookFeedAssumption
    DEF ConnectorLosesSync, ConnectorReconnects, LoseSync, Renew, FeedInv, FeedTypeOK, Nowhere
<1>3. BooksOf(session) \subseteq BooksOf(session') /\ EventsOf(session) \subseteq EventsOf(session')
    BY <1>2, MoreConnections DEF FeedInv
<1>4. FeedInv'
    <2>1. live' \in BOOLEAN
        BY <1>1
    <2>. QED BY <1>1, <1>2, <2>1 DEF FeedInv, FeedTypeOK
<1>5. ASSUME NEW seq \in Seq(EventsOf(session)) PROVE seq \in Seq(EventsOf(session'))
    BY <1>3
<1>6. ASSUME NEW seq \in Seq(EventsOf(session) \cup Replies)
      PROVE  seq \in Seq(EventsOf(session') \cup Replies)
    BY <1>3
<1>7. CoreInv'
    BY <1>1, <1>3, <1>5 DEF CoreInv, coreVars
<1>8. SessionInv'
    BY <1>1, <1>5 DEF SessionInv, sessionVars
<1>9. TerminalInv'
    BY <1>1, <1>3, <1>6 DEF TerminalInv, terminalVars
<1>. QED BY <1>4, <1>7, <1>8, <1>9

\* The pump folds a true event into a true book, and passes it on.
LEMMA PumpInv ==
    ASSUME NumbersGoOn, IInv, PumpFolds \/ PumpSends
    PROVE  IInv'
<1> USE DEF IInv
<1>1. session' = session /\ FeedInv' /\ TerminalInv'
    BY DEF PumpFolds, PumpSends, feedVars, terminalVars, FeedInv, FeedTypeOK, TerminalInv
<1>2. CASE PumpFolds
    <2>1. Head(sink) \in EventsOf(session) /\ Tail(sink) \in Seq(EventsOf(session))
        BY <1>2 DEF PumpFolds, CoreInv
    <2>2. FoldBook(held, Head(sink)) \in BooksOf(session) \cup {NoBook}
        BY <2>1, FoldTrue DEF CoreInv, FeedInv
    <2>. QED BY <1>1, <1>2, <2>1, <2>2 DEF PumpFolds, CoreInv, SessionInv, sessionVars
<1>3. CASE PumpSends
    <2>1. inHand \in EventsOf(session)
        BY <1>3 DEF PumpSends, CoreInv
    <2>2. ASSUME NEW t \in Terminal
          PROVE  queue'[t] \in Seq(EventsOf(session)) /\ Len(queue'[t]) <= Capacity
        <3>1. /\ queue[t] \in Seq(EventsOf(session))
              /\ Len(queue[t]) \in Nat /\ Len(queue[t]) <= Capacity
            BY DEF SessionInv
        <3>2. queue'[t] = IF ~Connected(t) THEN queue[t]
                          ELSE Append(IF Overrun(t) THEN Tail(queue[t]) ELSE queue[t], inHand)
            BY <1>3 DEF PumpSends
        <3>3. CASE ~Connected(t)
            BY <3>1, <3>2, <3>3
        <3>4. CASE Connected(t) /\ Len(queue[t]) = Capacity
            <4>1. queue[t] # <<>>
                BY <3>4, DistributionAssumption
            <4>2. Tail(queue[t]) \in Seq(EventsOf(session)) /\ Len(Tail(queue[t])) = Capacity - 1
                BY <3>1, <3>4, <4>1
            <4>3. queue'[t] = Append(Tail(queue[t]), inHand)
                BY <3>2, <3>4 DEF Overrun
            <4>. QED BY <2>1, <4>2, <4>3, DistributionAssumption
        <3>5. CASE Connected(t) /\ Len(queue[t]) # Capacity
            <4>1. queue'[t] = Append(queue[t], inHand)
                BY <3>2, <3>5 DEF Overrun
            <4>. QED BY <2>1, <3>1, <3>5, <4>1, DistributionAssumption
        <3>. QED BY <3>3, <3>4, <3>5
    <2>3. queue' \in [Terminal -> Seq(EventsOf(session))]
        <3>1. queue' = [t \in Terminal |-> queue'[t]]
            BY <1>3 DEF PumpSends
        <3>. QED BY <2>2, <3>1
    <2>4. missed' \in [Terminal -> BOOLEAN] /\ lagged' \in [Terminal -> BOOLEAN]
        BY <1>3 DEF PumpSends, SessionInv, Overrun
    <2>5. SessionInv'
        BY <1>1, <1>3, <2>2, <2>3, <2>4 DEF SessionInv, PumpSends
    <2>6. CoreInv'
        BY <1>1, <1>3 DEF CoreInv, PumpSends
    <2>. QED BY <1>1, <2>5, <2>6
<1>. QED BY <1>2, <1>3

\* A session sends replies, the read-model's book, and the events it was sent.
LEMMA SessionStepInv ==
    ASSUME IInv, NEW t \in Terminal,
           \/ SessionReplies(t) \/ SessionHandsOver(t)
           \/ SessionForwards(t) \/ SessionLags(t)
    PROVE  IInv'
<1> USE DEF IInv
<1>1. /\ session' = session /\ FeedInv' /\ CoreInv'
      /\ UNCHANGED <<lagged, book, connects>>
    BY DEF SessionReplies, SessionHandsOver, SessionForwards, SessionLags, feedVars, coreVars,
           terminalVars, FeedInv, FeedTypeOK, CoreInv
<1>2. ASSUME NEW m \in EventsOf(session) \cup Replies, Send(t, m)
      PROVE  toTerminal' \in [Terminal -> Seq(EventsOf(session) \cup Replies)]
    BY <1>2 DEF Send, TerminalInv
<1>3. Reply("Welcome") \in Replies /\ Reply("Pong") \in Replies /\ Reply("Resyncing") \in Replies
    BY DEF Replies
<1>4. stage' \in [Terminal -> Stages]
    BY DEF SessionReplies, SessionHandsOver, SessionForwards, SessionLags, SessionInv, Stages
<1>5. CASE SessionReplies(t)
    <2>1. toTerminal' \in [Terminal -> Seq(EventsOf(session) \cup Replies)]
        BY <1>2, <1>3, <1>5 DEF SessionReplies
    <2>2. toCore' \in [Terminal -> Seq({"Hello", "Subscribe"})]
        BY <1>5 DEF SessionReplies, TerminalInv
    <2>3. subscribed' \in [Terminal -> BOOLEAN]
        BY <1>5 DEF SessionReplies, SessionInv
    <2>4. UNCHANGED <<queue, missed>>
        BY <1>5 DEF SessionReplies
    <2>. QED BY <1>1, <1>4, <2>1, <2>2, <2>3, <2>4 DEF SessionInv, TerminalInv
<1>6. CASE SessionHandsOver(t)
    <2>1. held # NoBook => SnapshotEvent(held) \in EventsOf(session)
        BY DEF CoreInv, SnapshotEvent, EventsOf
    <2>2. toTerminal' \in [Terminal -> Seq(EventsOf(session) \cup Replies)]
        <3>1. CASE subscribed[t] /\ held # NoBook /\ held.synced
            BY <1>2, <1>6, <2>1, <3>1 DEF SessionHandsOver
        <3>2. CASE ~(subscribed[t] /\ held # NoBook /\ held.synced)
            BY <1>6, <3>2 DEF SessionHandsOver, TerminalInv
        <3>. QED BY <3>1, <3>2
    <2>3. UNCHANGED <<queue, missed, subscribed, toCore>>
        BY <1>6 DEF SessionHandsOver
    <2>. QED BY <1>1, <1>4, <2>2, <2>3 DEF SessionInv, TerminalInv
<1>7. CASE SessionForwards(t)
    <2>1. /\ Head(queue[t]) \in EventsOf(session)
          /\ Tail(queue[t]) \in Seq(EventsOf(session))
          /\ Len(Tail(queue[t])) <= Capacity
        <3>1. queue[t] \in Seq(EventsOf(session)) /\ queue[t] # <<>> /\ Len(queue[t]) <= Capacity
            BY <1>7 DEF SessionForwards, SessionInv
        <3>. QED BY <3>1, DistributionAssumption
    <2>2. /\ queue' \in [Terminal -> Seq(EventsOf(session))]
          /\ \A u \in Terminal : Len(queue'[u]) <= Capacity
        BY <1>7, <2>1 DEF SessionForwards, SessionInv
    <2>3. toTerminal' \in [Terminal -> Seq(EventsOf(session) \cup Replies)]
        BY <1>2, <1>7, <2>1 DEF SessionForwards, TerminalInv
    <2>4. UNCHANGED <<missed, subscribed, toCore>>
        BY <1>7 DEF SessionForwards
    <2>. QED BY <1>1, <1>4, <2>2, <2>3, <2>4 DEF SessionInv, TerminalInv
<1>8. CASE SessionLags(t)
    <2>1. toTerminal' \in [Terminal -> Seq(EventsOf(session) \cup Replies)]
        BY <1>2, <1>3, <1>8 DEF SessionLags
    <2>2. missed' \in [Terminal -> BOOLEAN]
        BY <1>8 DEF SessionLags, SessionInv
    <2>3. UNCHANGED <<queue, subscribed, toCore>>
        BY <1>8 DEF SessionLags
    <2>. QED BY <1>1, <1>4, <2>1, <2>2, <2>3 DEF SessionInv, TerminalInv
<1>. QED BY <1>5, <1>6, <1>7, <1>8

\* A terminal applies what it is sent, and starts again with no book.
LEMMA TerminalStepInv ==
    ASSUME NumbersGoOn, IInv, NEW t \in Terminal,
           TerminalConnects(t) \/ TerminalReads(t) \/ ConnectionLost(t)
    PROVE  IInv'
<1> USE DEF IInv
<1>1. session' = session /\ FeedInv' /\ CoreInv'
    BY DEF TerminalConnects, TerminalReads, ConnectionLost, feedVars, coreVars, FeedInv,
           FeedTypeOK, CoreInv
<1>2. CASE TerminalConnects(t)
    <2>1. /\ stage' \in [Terminal -> Stages]
          /\ UNCHANGED <<queue, missed, subscribed, lagged, toTerminal, book>>
          /\ connects' \in [Terminal -> Nat]
        BY <1>2 DEF TerminalConnects, SessionInv, TerminalInv, Stages
    <2>2. toCore' \in [Terminal -> Seq({"Hello", "Subscribe"})]
        <3>1. <<"Hello">> \in Seq({"Hello", "Subscribe"})
            OBVIOUS
        <3>. QED BY <1>2, <3>1 DEF TerminalConnects, TerminalInv
    <2>. QED BY <1>1, <2>1, <2>2 DEF SessionInv, TerminalInv
<1>3. CASE TerminalReads(t)
    <2> DEFINE message == Head(toTerminal[t])
    <2>1. /\ toTerminal[t] \in Seq(EventsOf(session) \cup Replies) /\ toTerminal[t] # <<>>
          /\ toTerminal' = [toTerminal EXCEPT ![t] = Tail(@)]
          /\ toCore' = IF message.kind = "Welcome"
                       THEN [toCore EXCEPT ![t] = Append(@, "Subscribe")] ELSE toCore
          /\ book' = IF message.kind \in {"BookSnapshot", "BookDelta"}
                     THEN [book EXCEPT ![t] = FoldBook(@, message)] ELSE book
          /\ UNCHANGED <<sessionVars, connects>>
        BY <1>3 DEF TerminalReads, TerminalInv
    <2>2. /\ message \in EventsOf(session) \cup Replies
          /\ Tail(toTerminal[t]) \in Seq(EventsOf(session) \cup Replies)
        BY <2>1
    <2> HIDE DEF message
    <2>3. book' \in [Terminal -> BooksOf(session) \cup {NoBook}]
        <3>1. CASE message.kind \in {"BookSnapshot", "BookDelta"}
            <4>1. message \in EventsOf(session)
                BY <2>2, <3>1 DEF Replies, Reply
            <4>2. FoldBook(book[t], message) \in BooksOf(session) \cup {NoBook}
                BY <4>1, FoldTrue DEF FeedInv, TerminalInv
            <4>. QED BY <2>1, <3>1, <4>2 DEF TerminalInv
        <3>2. CASE message.kind \notin {"BookSnapshot", "BookDelta"}
            BY <2>1, <3>2 DEF TerminalInv
        <3>. QED BY <3>1, <3>2
    <2>4. toCore' \in [Terminal -> Seq({"Hello", "Subscribe"})]
        BY <2>1 DEF TerminalInv
    <2>5. toTerminal' \in [Terminal -> Seq(EventsOf(session) \cup Replies)]
        BY <2>1, <2>2 DEF TerminalInv
    <2>6. SessionInv'
        BY <1>1, <2>1 DEF SessionInv, sessionVars
    <2>. QED BY <1>1, <2>1, <2>3, <2>4, <2>5, <2>6 DEF TerminalInv
<1>4. CASE ConnectionLost(t)
    <2>1. SessionInv'
        <3>1. \A S : <<>> \in Seq(S)
            OBVIOUS
        <3>2. /\ queue' \in [Terminal -> Seq(EventsOf(session))]
              /\ \A u \in Terminal : Len(queue'[u]) <= Capacity
            BY <1>4, <3>1, DistributionAssumption DEF ConnectionLost, SessionInv
        <3>. QED BY <1>1, <1>4, <3>2 DEF ConnectionLost, SessionInv, Stages
    <2>2. TerminalInv'
        <3>1. \A S : <<>> \in Seq(S)
            OBVIOUS
        <3>. QED BY <1>1, <1>4, <3>1 DEF ConnectionLost, TerminalInv
    <2>. QED BY <1>1, <2>1, <2>2
<1>. QED BY <1>2, <1>3, <1>4

\* The invariant is inductive.
LEMMA NextInv ==
    ASSUME NumbersGoOn
    PROVE  IInv /\ [Next]_vars => IInv'
<1> SUFFICES ASSUME IInv, [Next]_vars PROVE IInv'
    OBVIOUS
<1>1. ASSUME NEW n \in 1..MaxFeedId, ConnectorSendsBook(n) \/ ConnectorSendsDelta(n) PROVE IInv'
    BY <1>1, ConnectorInv
<1>2. CASE ConnectorLosesSync \/ ConnectorReconnects
    BY <1>2, ConnectorChangesInv
<1>3. CASE PumpFolds \/ PumpSends
    BY <1>3, PumpInv
<1>4. ASSUME NEW t \in Terminal,
             \/ SessionReplies(t) \/ SessionHandsOver(t)
             \/ SessionForwards(t) \/ SessionLags(t)
      PROVE  IInv'
    BY <1>4, SessionStepInv
<1>5. ASSUME NEW t \in Terminal, TerminalConnects(t) \/ TerminalReads(t) \/ ConnectionLost(t)
      PROVE  IInv'
    BY <1>5, TerminalStepInv
<1>6. CASE UNCHANGED vars
    BY <1>6
    DEF vars, feedVars, coreVars, sessionVars, terminalVars, IInv, FeedInv, FeedTypeOK, CoreInv,
        SessionInv, TerminalInv
<1>. QED BY <1>1, <1>2, <1>3, <1>4, <1>5, <1>6 DEF Next

-----------------------------------------------------------------------------
(* The theorems.                                                           *)

\* The invariant gives what the properties state.
LEMMA InvImplies == IInv => TypeOK /\ TerminalBooksTrue
<1> SUFFICES ASSUME IInv PROVE TypeOK /\ TerminalBooksTrue
    OBVIOUS
<1> USE DEF IInv
<1>1. BooksOf(session) \subseteq Book /\ EventsOf(session) \subseteq BookEvent
    BY DEF BooksOf, DeltasOf, EventsOf, BookEvent
<1>2. EventsOf(session) \cup Replies \subseteq Message
    BY <1>1 DEF Replies, Message
<1>3. /\ Seq(EventsOf(session)) \subseteq Seq(BookEvent)
      /\ Seq(EventsOf(session) \cup Replies) \subseteq Seq(Message)
    BY <1>1, <1>2
<1>4. TypeOK
    BY <1>1, <1>3 DEF TypeOK, FeedInv, CoreInv, SessionInv, TerminalInv
<1>5. TerminalBooksTrue
    BY NoBookAssumption DEF TerminalBooksTrue, IsVenueBook, CoreInv, TerminalInv, BooksOf
<1>. QED BY <1>4, <1>5

\* The invariant holds of every behaviour.
LEMMA Invariance ==
    ASSUME NumbersGoOn
    PROVE  Spec => []IInv
BY InitInv, NextInv, PTL DEF Spec

\* The variables keep their types, and no receiver holds more than the broadcast's capacity.
THEOREM DistributionTyped ==
    ASSUME NumbersGoOn
    PROVE  Spec => []TypeOK
BY Invariance, InvImplies, PTL

\* What any terminal draws, and what the core hands over, is a book the venue had.
THEOREM TerminalsTrue ==
    ASSUME NumbersGoOn
    PROVE  Spec => []TerminalBooksTrue
BY Invariance, InvImplies, PTL

-----------------------------------------------------------------------------
(* The order of what travels: for a venue whose numbers go on rising from  *)
(* one connection to the next.                                             *)

NumbersRise ==
    \A e, f \in 1..MaxSession : e < f => \A m \in Numbers(e), n \in Numbers(f) : m < n

IsBookEvent(m) == m.kind \in {"BookSnapshot", "BookDelta"}

IsDelta(m) == m.kind = "BookDelta"

\* The number published last, as the core will see it.
Latest ==
    IF sink # <<>> THEN EventNumber(sink[Len(sink)]) ELSE IF held # NoBook THEN held.last ELSE 0

\* What the pump has not received yet rises from the read-model's number to the
\* connector's, and each update is on top of the one before it.
StreamInv ==
    /\ position # 0 => position \in Numbers(session) /\ Latest = position
    /\ position = 0 => \A e \in session..MaxSession : \A n \in Numbers(e) : Latest < n
    /\ \A i \in DOMAIN sink : held # NoBook => held.last < EventNumber(sink[i])
    /\ \A i, j \in DOMAIN sink : i < j => EventNumber(sink[i]) < EventNumber(sink[j])
    /\ \A i \in DOMAIN sink : IsDelta(sink[i]) =>
         IF i = 1 THEN held # NoBook /\ sink[i].delta.prev = held.last
         ELSE sink[i].delta.prev = EventNumber(sink[i - 1])

\* A connection in which numbers rise has no number of another.
LEMMA RisingGoOn == NumbersRise => NumbersGoOn
<1> SUFFICES ASSUME NumbersRise,
                    NEW e \in 1..MaxSession, NEW f \in 1..MaxSession, e # f,
                    NEW n \in Numbers(e) \cap Numbers(f)
             PROVE  FALSE
    BY DEF NumbersGoOn
<1>1. n \in Nat
    BY DistributionAssumption
<1>2. e < f \/ f < e
    BY DistributionAssumption
<1>. QED BY <1>1, <1>2 DEF NumbersRise

\* What the books and the events of the connections are.
LEMMA BookFacts ==
    ASSUME NEW s \in 1..MaxSession, NEW b \in BooksOf(s)
    PROVE  b # NoBook /\ b.last \in Nat \ {0} /\ b.synced
<1>1. PICK e \in 1..s : b.last \in Numbers(e)
    BY DEF BooksOf
<1>2. e \in 1..MaxSession
    BY DistributionAssumption
<1>3. b.last \in 1..MaxFeedId
    BY <1>1, <1>2, DistributionAssumption
<1>. QED BY <1>3, NoBookAssumption, BookFeedAssumption DEF BooksOf

LEMMA EventFacts ==
    ASSUME NEW s \in 1..MaxSession, NEW ev \in EventsOf(s)
    PROVE  /\ ev # NoEvent /\ IsBookEvent(ev)
           /\ EventNumber(ev) \in Nat \ {0}
           /\ ~IsDelta(ev) => ev.book \in BooksOf(s) /\ EventNumber(ev) = ev.book.last
                              /\ ev.kind = "BookSnapshot"
           /\ IsDelta(ev) => /\ ev.delta \in DeltasOf(s) /\ EventNumber(ev) = ev.delta.last
                             /\ ev.delta.prev \in Nat \ {0} /\ ev.delta.prev < ev.delta.last
<1>1. ev \in BookEvent
    BY DEF BookEvent, EventsOf, BooksOf, DeltasOf
<1>2. CASE ev \in [kind : {"BookSnapshot"}, book : BooksOf(s)]
    <2>1. ev.kind = "BookSnapshot" /\ ev.book \in BooksOf(s)
        BY <1>2
    <2>. QED BY <1>1, <2>1, BookFacts, NoEventAssumption DEF EventNumber, IsDelta, IsBookEvent
<1>3. CASE ev \in [kind : {"BookDelta"}, delta : DeltasOf(s)]
    <2>1. ev.kind = "BookDelta" /\ ev.delta \in DeltasOf(s)
        BY <1>3
    <2>2. PICK e \in 1..s : \E p, q \in Numbers(e) : p < q /\ ev.delta = VenueDelta(e, p, q)
        BY <2>1 DEF DeltasOf
    <2>3. PICK p \in Numbers(e), q \in Numbers(e) : p < q /\ ev.delta = VenueDelta(e, p, q)
        BY <2>2
    <2>4. e \in 1..MaxSession
        BY DistributionAssumption
    <2>5. p \in 1..MaxFeedId /\ q \in 1..MaxFeedId
        BY <2>4, DistributionAssumption
    <2>6. ev.delta.prev = p /\ ev.delta.last = q
        BY <2>3 DEF VenueDelta
    <2>. QED BY <1>1, <2>1, <2>3, <2>5, <2>6, NoEventAssumption, BookFeedAssumption
             DEF EventNumber, IsDelta, IsBookEvent
<1>. QED BY <1>2, <1>3 DEF EventsOf

\* What the connector publishes is newer than all before, and an update is on top of it.
LEMMA PublishFacts ==
    ASSUME IInv, StreamInv, NEW n \in 1..MaxFeedId,
           ConnectorSendsBook(n) \/ ConnectorSendsDelta(n)
    PROVE  /\ Latest \in Nat /\ Latest < n /\ position' = n /\ n \in Numbers(session)
           /\ UNCHANGED <<session, inHand, held, sessionVars, terminalVars>>
           /\ \E ev \in BookEvent :
                /\ sink' = Append(sink, ev) /\ EventNumber(ev) = n
                /\ IsDelta(ev) => /\ ev.delta.prev = Latest /\ ev.delta.last = n
                                  /\ sink = <<>> => held # NoBook
<1>1. /\ session' = session /\ session \in 1..MaxSession /\ n \in Numbers(session)
      /\ position' = n /\ position < n
      /\ UNCHANGED <<inHand, held, sessionVars, terminalVars>>
    BY DEF ConnectorSendsBook, ConnectorSendsDelta, PublishBook, PublishDelta, Emit, IInv, FeedInv
<1>2. position \in Nat /\ n \in Nat /\ n \in 1..MaxFeedId
    BY BookFeedAssumption DEF IInv, FeedInv, FeedTypeOK
<1>3. Latest < n
    <2>1. CASE position = 0
        BY <1>1, <2>1, DistributionAssumption DEF StreamInv
    <2>2. CASE position # 0
        BY <1>1, <2>2 DEF StreamInv
    <2>. QED BY <2>1, <2>2
<1>4. Latest \in Nat
    <2>1. sink # <<>> => EventNumber(sink[Len(sink)]) \in Nat
        <3>1. sink # <<>> => sink[Len(sink)] \in EventsOf(session)
            BY DEF IInv, CoreInv
        <3>. QED BY <1>1, <3>1, EventFacts
    <2>2. held # NoBook => held.last \in Nat
        BY <1>1, BookFacts DEF IInv, CoreInv
    <2>. QED BY <2>1, <2>2 DEF Latest
<1>5. CASE ConnectorSendsBook(n)
    <2> DEFINE b  == [levels |-> VenueBook(session, n), last |-> n, synced |-> TRUE]
               ev == SnapshotEvent(b)
    <2>1. b \in Book
        BY <1>1, <1>2, DistributionAssumption DEF Book
    <2>2. ev \in BookEvent /\ ev.kind = "BookSnapshot" /\ EventNumber(ev) = n
        BY <2>1 DEF BookEvent, SnapshotEvent, EventNumber
    <2>3. sink' = Append(sink, ev)
        BY <1>5 DEF ConnectorSendsBook, Emit
    <2>. QED BY <1>1, <1>3, <1>4, <2>2, <2>3 DEF IsDelta
<1>6. CASE ConnectorSendsDelta(n)
    <2> DEFINE d  == VenueDelta(session, position, n)
               ev == DeltaEvent(d)
    <2>1. position \in Numbers(session)
        BY <1>6 DEF ConnectorSendsDelta, PublishDelta, IInv, FeedInv
    <2>2. position # 0 /\ Latest = position
        BY <1>1, <2>1, DistributionAssumption DEF StreamInv
    <2>3. d \in Delta
        <3>1. Touched(session, position, n) \in SUBSET Level
            BY DEF Touched
        <3>2. VenueBook(session, n) \in [Level -> Qty]
            BY <1>1, DistributionAssumption
        <3>. QED BY <1>2, <3>1, <3>2 DEF VenueDelta, Delta
    <2>4. ev \in BookEvent /\ ev.kind = "BookDelta" /\ ev.delta = d
        BY <2>3 DEF BookEvent, DeltaEvent
    <2>5. d.prev = position /\ d.last = n
        BY DEF VenueDelta
    <2>6. EventNumber(ev) = n /\ ev.delta.prev = Latest /\ ev.delta.last = n
        BY <2>2, <2>4, <2>5 DEF EventNumber
    <2>7. sink = <<>> => held # NoBook
        BY <2>2 DEF Latest
    <2>8. sink' = Append(sink, ev)
        BY <1>6 DEF ConnectorSendsDelta, Emit
    <2>. QED BY <1>1, <1>3, <1>4, <2>4, <2>6, <2>7, <2>8
<1>. QED BY <1>5, <1>6

\* The connector keeps the stream in order.
LEMMA PublishStream ==
    ASSUME IInv, StreamInv, NEW n \in 1..MaxFeedId,
           ConnectorSendsBook(n) \/ ConnectorSendsDelta(n)
    PROVE  StreamInv' /\ Latest' = n
<1>1. /\ Latest \in Nat /\ Latest < n /\ position' = n /\ n \in Numbers(session) /\ n # 0
      /\ session' = session /\ held' = held
    BY PublishFacts
<1>2. PICK ev \in BookEvent :
            /\ sink' = Append(sink, ev) /\ EventNumber(ev) = n
            /\ IsDelta(ev) => /\ ev.delta.prev = Latest
                              /\ sink = <<>> => held # NoBook
    BY PublishFacts
<1> DEFINE k == Len(sink)
<1>3. sink \in Seq(EventsOf(session)) /\ k \in Nat /\ DOMAIN sink = 1..k
    BY DEF IInv, CoreInv
<1>4. /\ DOMAIN sink' = 1..(k + 1) /\ Len(sink') = k + 1 /\ sink' # <<>>
      /\ sink'[k + 1] = ev /\ \A i \in 1..k : sink'[i] = sink[i]
    BY <1>2, <1>3
<1>5. sink # <<>> <=> k # 0
    BY <1>3
<1> HIDE DEF k
<1>6. Latest = IF k # 0 THEN EventNumber(sink[k]) ELSE IF held # NoBook THEN held.last ELSE 0
    BY <1>5 DEF Latest, k
<1>7. Latest' = n
    BY <1>2, <1>4 DEF Latest, EventNumber
<1>8. \A i \in 1..k : EventNumber(sink[i]) \in Nat /\ EventNumber(sink[i]) <= Latest
    <2>1. \A i \in 1..k : EventNumber(sink[i]) \in Nat
        BY <1>3, EventFacts DEF IInv, FeedInv
    <2>2. \A i \in 1..k : i < k => EventNumber(sink[i]) < EventNumber(sink[k])
        BY <1>3 DEF StreamInv
    <2>. QED BY <1>3, <1>6, <2>1, <2>2
<1>9. held # NoBook => held.last \in Nat /\ held.last <= Latest
    <2>1. held # NoBook => held.last \in Nat
        BY BookFacts DEF IInv, CoreInv, FeedInv
    <2>2. held # NoBook /\ k # 0 => held.last < EventNumber(sink[k])
        BY <1>3 DEF StreamInv
    <2>. QED BY <1>1, <1>6, <2>1, <2>2
<1>10. \A i \in DOMAIN sink' : held' # NoBook => held'.last < EventNumber(sink'[i])
    BY <1>1, <1>2, <1>3, <1>4, <1>9 DEF StreamInv
<1>11. \A i, j \in DOMAIN sink' : i < j => EventNumber(sink'[i]) < EventNumber(sink'[j])
    BY <1>1, <1>2, <1>3, <1>4, <1>8 DEF StreamInv
<1>12. \A i \in DOMAIN sink' : IsDelta(sink'[i]) =>
         IF i = 1 THEN held' # NoBook /\ sink'[i].delta.prev = held'.last
         ELSE sink'[i].delta.prev = EventNumber(sink'[i - 1])
    <2>1. ASSUME NEW i \in 1..k, IsDelta(sink'[i])
          PROVE  IF i = 1 THEN held' # NoBook /\ sink'[i].delta.prev = held'.last
                 ELSE sink'[i].delta.prev = EventNumber(sink'[i - 1])
        <3>1. IsDelta(sink[i]) /\ sink'[i] = sink[i] /\ (i # 1 => sink'[i - 1] = sink[i - 1])
            BY <1>3, <1>4, <2>1
        <3>. QED BY <1>1, <1>3, <3>1 DEF StreamInv
    <2>2. ASSUME IsDelta(ev)
          PROVE  IF k + 1 = 1 THEN held' # NoBook /\ ev.delta.prev = held'.last
                 ELSE ev.delta.prev = EventNumber(sink'[k])
        BY <1>1, <1>2, <1>3, <1>4, <1>5, <1>6, <2>2
    <2>. QED BY <1>3, <1>4, <2>1, <2>2
<1>. QED BY <1>1, <1>7, <1>10, <1>11, <1>12 DEF StreamInv

\* Losing sync or the connection leaves what travels in order.
LEMMA ConnectorStream ==
    ASSUME NumbersRise, IInv, StreamInv, ConnectorLosesSync \/ ConnectorReconnects
    PROVE  StreamInv' /\ Latest' = Latest
<1>1. sink' = sink /\ held' = held
    BY DEF ConnectorLosesSync, ConnectorReconnects, coreVars
<1>2. Latest' = Latest
    BY <1>1 DEF Latest, EventNumber
<1>3. /\ position' # 0 => position' \in Numbers(session') /\ Latest' = position'
      /\ position' = 0 => \A e \in session'..MaxSession : \A n \in Numbers(e) : Latest' < n
    <2>1. CASE ConnectorLosesSync
        BY <1>2, <2>1 DEF ConnectorLosesSync, LoseSync, StreamInv
    <2>2. CASE ConnectorReconnects
        <3>1. session' = session + 1 /\ position' = 0 /\ session \in 1..MaxSession
            BY <2>2 DEF ConnectorReconnects, Renew, Nowhere, IInv, FeedInv
        <3>2. ASSUME NEW e \in (session + 1)..MaxSession, NEW n \in Numbers(e) PROVE Latest < n
            <4>1. CASE position = 0
                BY <3>1, <3>2, <4>1, DistributionAssumption DEF StreamInv
            <4>2. CASE position # 0
                BY <3>1, <3>2, <4>2, DistributionAssumption DEF StreamInv, NumbersRise
            <4>. QED BY <4>1, <4>2
        <3>. QED BY <1>2, <3>1, <3>2
    <2>. QED BY <2>1, <2>2
<1>. QED BY <1>1, <1>2, <1>3 DEF StreamInv, EventNumber

\* The read-model takes every event: it moves on to the event's number, and never drops
\* its book.
LEMMA FoldFacts ==
    ASSUME NumbersRise, IInv, StreamInv, PumpFolds
    PROVE  /\ Head(sink) \in EventsOf(session) /\ inHand' = Head(sink) /\ inHand = NoEvent
           /\ held' \in BooksOf(session) /\ held'.last = EventNumber(Head(sink))
           /\ held # NoBook => held.last \in Nat /\ held.last < held'.last
           /\ IsDelta(Head(sink)) => held # NoBook /\ Head(sink).delta.prev = held.last
           /\ UNCHANGED <<feedVars, sessionVars, terminalVars>>
<1> DEFINE ev == Head(sink)
<1>1. /\ ev \in EventsOf(session) /\ ev = sink[1] /\ 1 \in DOMAIN sink
      /\ inHand' = ev /\ held' = FoldBook(held, ev) /\ inHand = NoEvent
      /\ UNCHANGED <<feedVars, sessionVars, terminalVars>>
    BY DEF PumpFolds, IInv, CoreInv
<1> HIDE DEF ev
<1>2. session \in 1..MaxSession /\ held \in BooksOf(session) \cup {NoBook}
    BY DEF IInv, FeedInv, CoreInv
<1>3. held # NoBook => held.last \in Nat /\ held.last < EventNumber(ev) /\ held.synced
    BY <1>1, <1>2, BookFacts DEF StreamInv
<1>4. IsDelta(ev) => held # NoBook /\ ev.delta.prev = held.last
    BY <1>1 DEF StreamInv
<1>5. held' \in BooksOf(session) /\ held'.last = EventNumber(ev)
    <2>1. CASE ~IsDelta(ev)
        BY <1>1, <1>2, <2>1, EventFacts DEF FoldBook
    <2>2. CASE IsDelta(ev)
        <3>1. /\ ev.delta.prev < ev.delta.last /\ EventNumber(ev) = ev.delta.last
              /\ ev.delta.last \in Nat /\ ev.delta \in DeltasOf(session)
            BY <1>1, <1>2, <2>2, EventFacts
        <3>2. ApplyOutcome(held, ev.delta) = "Applied"
            BY <1>3, <1>4, <2>2, <3>1 DEF ApplyOutcome, IsStale, Continues
        <3>3. held' = ApplyDelta(held, ev.delta) /\ held'.last = ev.delta.last
            BY <1>1, <1>4, <2>2, <3>2 DEF FoldBook, ApplyDelta, IsDelta
        <3>4. held' # NoBook
            <4>1. held' \in Book
                <5>1. held \in Book /\ ev.delta \in Delta
                    BY <1>2, <1>4, <2>2, <3>1 DEF BooksOf, DeltasOf
                <5>2. Merge(held.levels, ev.delta.changes) \in [Level -> Qty]
                    BY <5>1 DEF Book, Delta, Merge
                <5>. QED BY <3>1, <3>2, <3>3, <5>2 DEF ApplyDelta, Book
            <4>. QED BY <4>1, NoBookAssumption
        <3>5. held' \in BooksOf(session) \cup {NoBook}
            BY <1>1, <1>2, RisingGoOn, FoldTrue
        <3>. QED BY <3>1, <3>3, <3>4, <3>5
    <2>. QED BY <2>1, <2>2
<1>. QED BY <1>1, <1>3, <1>4, <1>5 DEF ev

\* The pump leaves the rest of the stream in order.
LEMMA FoldStream ==
    ASSUME NumbersRise, IInv, StreamInv, PumpFolds
    PROVE  StreamInv' /\ Latest' = Latest
<1> DEFINE k == Len(sink)
<1>1. /\ sink \in Seq(EventsOf(session)) /\ sink # <<>> /\ sink' = Tail(sink)
      /\ UNCHANGED <<session, position>> /\ session \in 1..MaxSession
    BY DEF PumpFolds, feedVars, IInv, CoreInv, FeedInv
<1>2. /\ k \in Nat \ {0} /\ DOMAIN sink = 1..k /\ DOMAIN sink' = 1..(k - 1)
      /\ Len(sink') = k - 1 /\ \A i \in 1..(k - 1) : sink'[i] = sink[i + 1]
      /\ Head(sink) = sink[1] /\ sink[k] = sink[Len(sink)]
    BY <1>1
<1>3. sink' # <<>> <=> k - 1 # 0
    BY <1>1, <1>2
<1> HIDE DEF k
<1>4. held' # NoBook /\ held'.last = EventNumber(sink[1])
    BY <1>1, <1>2, FoldFacts, BookFacts
<1>5. Latest = EventNumber(sink[k])
    BY <1>1, <1>2 DEF Latest
<1>6. Latest' = Latest
    <2>1. CASE k = 1
        BY <1>2, <1>3, <1>4, <1>5, <2>1 DEF Latest
    <2>2. CASE k # 1
        <3>1. sink'[k - 1] = sink[k]
            BY <1>2, <2>2
        <3>2. Latest' = EventNumber(sink'[k - 1])
            BY <1>2, <1>3, <2>2 DEF Latest, EventNumber
        <3>. QED BY <1>5, <3>1, <3>2
    <2>. QED BY <2>1, <2>2
<1>7. \A i, j \in DOMAIN sink : i < j => EventNumber(sink[i]) < EventNumber(sink[j])
    BY DEF StreamInv
<1>8. \A i \in DOMAIN sink' : held'.last < EventNumber(sink'[i])
    BY <1>2, <1>4, <1>7
<1>9. ASSUME NEW i \in DOMAIN sink', NEW j \in DOMAIN sink', i < j
      PROVE  EventNumber(sink'[i]) < EventNumber(sink'[j])
    <2>1. /\ i + 1 \in DOMAIN sink /\ j + 1 \in DOMAIN sink /\ i + 1 < j + 1
          /\ sink'[i] = sink[i + 1] /\ sink'[j] = sink[j + 1]
        BY <1>2, <1>9
    <2>. QED BY <1>7, <2>1
<1>10. ASSUME NEW i \in DOMAIN sink', IsDelta(sink'[i])
       PROVE  IF i = 1 THEN held' # NoBook /\ sink'[i].delta.prev = held'.last
              ELSE sink'[i].delta.prev = EventNumber(sink'[i - 1])
    <2>1. i + 1 \in DOMAIN sink /\ i + 1 # 1 /\ sink'[i] = sink[i + 1] /\ i \in 1..(k - 1)
        BY <1>2
    <2>2. sink'[i].delta.prev = EventNumber(sink[i])
        BY <1>10, <2>1 DEF StreamInv
    <2>3. i # 1 => sink'[i - 1] = sink[i]
        BY <1>2, <2>1
    <2>. QED BY <1>4, <2>1, <2>2, <2>3
<1>11. /\ position' # 0 => position' \in Numbers(session') /\ Latest' = position'
       /\ position' = 0 => \A e \in session'..MaxSession : \A n \in Numbers(e) : Latest' < n
    BY <1>1, <1>6 DEF StreamInv
<1>. QED BY <1>6, <1>8, <1>9, <1>10, <1>11 DEF StreamInv

\* Every other step leaves it alone.
LEMMA StillStream ==
    ASSUME StreamInv, UNCHANGED <<feedVars, sink, held>>
    PROVE  StreamInv' /\ Latest' = Latest
BY DEF StreamInv, feedVars, Latest, EventNumber

-----------------------------------------------------------------------------
(* The receivers' backlogs.                                                *)

\* The event in hand is the one the read-model took last, and none in a backlog is newer.
FreshInv ==
    /\ inHand # NoEvent => held # NoBook /\ EventNumber(inHand) = held.last
    /\ ServedIsFresh

\* In a backlog each update is on top of the one before it, the last is the one the
\* read-model took last, and an update in hand is on top of it.
Backlog(q, hand, b) ==
    /\ \A i \in DOMAIN q : i # 1 /\ IsDelta(q[i]) => q[i].delta.prev = EventNumber(q[i - 1])
    /\ q # <<>> =>
         IF hand = NoEvent THEN EventNumber(q[Len(q)]) = b.last
         ELSE IsDelta(hand) => EventNumber(q[Len(q)]) = hand.delta.prev

\* A terminal that is not connected has none.
QueueInv ==
    \A t \in Terminal :
        /\ Backlog(queue[t], inHand, held)
        /\ ~Connected(t) => queue[t] = <<>> /\ ~subscribed[t]

\* The pump takes an event: it is newer than every backlog.
LEMMA FoldQueues ==
    ASSUME NumbersRise, IInv, StreamInv, FreshInv, QueueInv, PumpFolds
    PROVE  FreshInv' /\ QueueInv'
<1>1. /\ queue' = queue /\ inHand' = Head(sink) /\ inHand = NoEvent
      /\ Head(sink) \in EventsOf(session) /\ session \in 1..MaxSession
      /\ held'.last = EventNumber(Head(sink)) /\ held' \in BooksOf(session)
      /\ held # NoBook => held.last \in Nat /\ held.last < held'.last
      /\ IsDelta(Head(sink)) => Head(sink).delta.prev = held.last
    BY FoldFacts DEF sessionVars, IInv, FeedInv
<1>2. held' # NoBook /\ held'.last \in Nat /\ inHand' # NoEvent
    BY <1>1, BookFacts, EventFacts
<1>3. ASSUME NEW t \in Terminal, NEW i \in DOMAIN queue[t]
      PROVE  EventNumber(queue[t][i]) <= held'.last
    <2>1. held # NoBook /\ EventNumber(queue[t][i]) <= held.last
        BY DEF FreshInv, ServedIsFresh
    <2>2. queue[t][i] \in EventsOf(session)
        BY DEF IInv, SessionInv
    <2>3. EventNumber(queue[t][i]) \in Nat
        BY <1>1, <2>2, EventFacts
    <2>. QED BY <1>1, <1>2, <2>1, <2>3
<1>4. FreshInv'
    <2>1. EventNumber(inHand)' = EventNumber(Head(sink))
        BY <1>1 DEF EventNumber
    <2>2. ServedIsFresh'
        BY <1>1, <1>2, <1>3 DEF ServedIsFresh, EventNumber
    <2>. QED BY <1>1, <1>2, <2>1, <2>2 DEF FreshInv
<1>5. ASSUME NEW t \in Terminal PROVE Backlog(queue[t], inHand', held')
    <2>1. Backlog(queue[t], NoEvent, held)
        BY <1>1 DEF QueueInv
    <2>2. queue[t] # <<>> => EventNumber(queue[t][Len(queue[t])]) = held.last
        BY <2>1 DEF Backlog
    <2>. QED BY <1>1, <1>2, <2>1, <2>2 DEF Backlog
<1>6. QueueInv'
    <2>1. UNCHANGED sessionVars
        BY FoldFacts
    <2>. QED BY <1>5, <2>1 DEF QueueInv, Connected, sessionVars
<1>. QED BY <1>4, <1>6

\* A backlog without its oldest event is a backlog.
LEMMA BacklogTail ==
    ASSUME NEW S, NEW q \in Seq(S), q # <<>>, NEW hand, NEW b, Backlog(q, hand, b)
    PROVE  /\ Tail(q) \in Seq(S) /\ Backlog(Tail(q), hand, b)
           /\ \A i \in DOMAIN Tail(q) : i + 1 \in DOMAIN q /\ Tail(q)[i] = q[i + 1]
<1>1. /\ Tail(q) \in Seq(S) /\ Len(q) \in Nat \ {0} /\ DOMAIN q = 1..Len(q)
      /\ DOMAIN Tail(q) = 1..(Len(q) - 1) /\ Len(Tail(q)) = Len(q) - 1
      /\ \A i \in 1..(Len(q) - 1) : Tail(q)[i] = q[i + 1]
    OBVIOUS
<1>2. ASSUME NEW i \in DOMAIN Tail(q), i # 1, IsDelta(Tail(q)[i])
      PROVE  Tail(q)[i].delta.prev = EventNumber(Tail(q)[i - 1])
    <2>1. /\ i + 1 \in DOMAIN q /\ i + 1 # 1 /\ Tail(q)[i] = q[i + 1]
          /\ Tail(q)[i - 1] = q[i] /\ (i + 1) - 1 = i
        BY <1>1, <1>2
    <2>2. q[i + 1].delta.prev = EventNumber(q[(i + 1) - 1])
        BY <1>2, <2>1 DEF Backlog
    <2>. QED BY <2>1, <2>2
<1>3. Tail(q) # <<>> => Tail(q)[Len(Tail(q))] = q[Len(q)]
    BY <1>1
<1>. QED BY <1>1, <1>2, <1>3 DEF Backlog

\* A backlog and the event in hand after it are a backlog once nothing is in hand.
LEMMA BacklogAppend ==
    ASSUME NEW S, NEW q \in Seq(S), NEW hand \in S, NEW b, hand # NoEvent,
           Backlog(q, hand, b), EventNumber(hand) = b.last
    PROVE  /\ Append(q, hand) \in Seq(S) /\ Backlog(Append(q, hand), NoEvent, b)
           /\ \A i \in DOMAIN Append(q, hand) :
                \/ Append(q, hand)[i] = hand
                \/ i \in DOMAIN q /\ Append(q, hand)[i] = q[i]
<1> DEFINE all == Append(q, hand)
<1>1. /\ all \in Seq(S) /\ Len(q) \in Nat /\ DOMAIN q = 1..Len(q)
      /\ DOMAIN all = 1..(Len(q) + 1) /\ Len(all) = Len(q) + 1 /\ all[Len(q) + 1] = hand
      /\ \A i \in 1..Len(q) : all[i] = q[i]
    OBVIOUS
<1> HIDE DEF all
<1>2. ASSUME NEW i \in DOMAIN all, i # 1, IsDelta(all[i])
      PROVE  all[i].delta.prev = EventNumber(all[i - 1])
    <2>1. CASE i = Len(q) + 1
        <3>1. all[i] = hand /\ q # <<>> /\ all[i - 1] = q[Len(q)]
            BY <1>1, <1>2, <2>1
        <3>. QED BY <1>2, <3>1 DEF Backlog
    <2>2. CASE i # Len(q) + 1
        <3>1. i \in DOMAIN q /\ all[i] = q[i] /\ all[i - 1] = q[i - 1]
            BY <1>1, <1>2, <2>2
        <3>. QED BY <1>2, <3>1 DEF Backlog
    <2>. QED BY <2>1, <2>2
<1>3. EventNumber(all[Len(all)]) = b.last
    BY <1>1
<1>4. Backlog(all, NoEvent, b)
    BY <1>2, <1>3 DEF Backlog
<1>. QED BY <1>1, <1>4 DEF all

\* The pump sends: a receiver that is full loses its oldest event.
LEMMA SendQueues ==
    ASSUME IInv, FreshInv, QueueInv, PumpSends
    PROVE  /\ FreshInv' /\ QueueInv'
           /\ \A t \in Terminal : \A i \in DOMAIN queue'[t] :
                queue'[t][i] = inHand \/ \E j \in DOMAIN queue[t] : queue'[t][i] = queue[t][j]
<1>1. /\ inHand # NoEvent /\ inHand' = NoEvent /\ held' = held /\ inHand \in EventsOf(session)
      /\ held # NoBook /\ EventNumber(inHand) = held.last
    BY DEF PumpSends, FreshInv, IInv, CoreInv
<1>2. session \in 1..MaxSession /\ held.last \in Nat
    BY <1>1, BookFacts DEF IInv, FeedInv, CoreInv
<1>3. ASSUME NEW t \in Terminal
      PROVE  /\ Backlog(queue'[t], NoEvent, held)
             /\ \A i \in DOMAIN queue'[t] :
                  queue'[t][i] = inHand \/ \E j \in DOMAIN queue[t] : queue'[t][i] = queue[t][j]
    <2>1. /\ queue[t] \in Seq(EventsOf(session)) /\ Backlog(queue[t], inHand, held)
          /\ Len(queue[t]) \in Nat /\ Len(queue[t]) <= Capacity
        BY DEF IInv, SessionInv, QueueInv
    <2>2. queue'[t] = IF ~Connected(t) THEN queue[t]
                      ELSE Append(IF Overrun(t) THEN Tail(queue[t]) ELSE queue[t], inHand)
        BY DEF PumpSends
    <2>3. CASE Connected(t) /\ Overrun(t)
        <3> DEFINE rest == Tail(queue[t])
        <3>1. queue[t] # <<>>
            BY <2>1, <2>3, DistributionAssumption DEF Overrun
        <3>2. /\ rest \in Seq(EventsOf(session)) /\ Backlog(rest, inHand, held)
              /\ \A i \in DOMAIN rest : \E j \in DOMAIN queue[t] : rest[i] = queue[t][j]
            BY <2>1, <3>1, BacklogTail
        <3>3. queue'[t] = Append(rest, inHand)
            BY <2>2, <2>3
        <3> HIDE DEF rest
        <3>4. Backlog(Append(rest, inHand), NoEvent, held)
            BY <1>1, <3>2, BacklogAppend
        <3>5. \A i \in DOMAIN Append(rest, inHand) :
                \/ Append(rest, inHand)[i] = inHand
                \/ i \in DOMAIN rest /\ Append(rest, inHand)[i] = rest[i]
            BY <1>1, <3>2, BacklogAppend
        <3>. QED BY <3>2, <3>3, <3>4, <3>5
    <2>4. CASE Connected(t) /\ ~Overrun(t)
        <3>1. queue'[t] = Append(queue[t], inHand)
            BY <2>2, <2>4
        <3>. QED BY <1>1, <2>1, <3>1, BacklogAppend
    <2>5. CASE ~Connected(t)
        <3>1. queue'[t] = queue[t]
            BY <2>2, <2>5
        <3>2. queue[t] = <<>>
            BY <2>5 DEF QueueInv
        <3>. QED BY <2>1, <3>1, <3>2 DEF Backlog
    <2>. QED BY <2>3, <2>4, <2>5
<1>4. QueueInv'
    <2>1. ASSUME NEW t \in Terminal, ~Connected(t)' PROVE queue'[t] = <<>> /\ ~subscribed'[t]
        <3>1. stage' = stage /\ subscribed' = subscribed
            BY DEF PumpSends
        <3>2. ~Connected(t)
            BY <2>1, <3>1 DEF Connected
        <3>. QED BY <3>1, <3>2 DEF QueueInv, PumpSends
    <2>. QED BY <1>1, <1>3, <2>1 DEF QueueInv
<1>5. ServedIsFresh'
    <2>1. ASSUME NEW t \in Terminal, NEW i \in DOMAIN queue'[t]
          PROVE  EventNumber(queue'[t][i]) <= held.last
        BY <1>1, <1>2, <1>3 DEF FreshInv, ServedIsFresh
    <2>. QED BY <1>1, <2>1 DEF ServedIsFresh, EventNumber
<1>. QED BY <1>1, <1>3, <1>4, <1>5 DEF FreshInv

\* Every other step leaves a backlog, takes its oldest event or drops it.
LEMMA OtherQueues ==
    ASSUME IInv, FreshInv, QueueInv, [Next]_vars, ~PumpFolds, ~PumpSends
    PROVE  /\ FreshInv' /\ QueueInv'
           /\ \A t \in Terminal : \A i \in DOMAIN queue'[t] :
                \E j \in DOMAIN queue[t] : queue'[t][i] = queue[t][j]
<1>1. UNCHANGED <<inHand, held>>
    BY DEF Next, vars, coreVars, ConnectorSendsBook, ConnectorSendsDelta, Emit, ConnectorLosesSync,
           ConnectorReconnects, SessionReplies, SessionHandsOver, SessionForwards, SessionLags,
           TerminalConnects, TerminalReads, ConnectionLost
<1>2. ASSUME NEW t \in Terminal
      PROVE  /\ \/ queue'[t] = queue[t]
                \/ queue[t] # <<>> /\ queue'[t] = Tail(queue[t])
                \/ queue'[t] = <<>>
             /\ stage'[t] = "none" => queue'[t] = <<>> /\ ~subscribed'[t]
    <2>1. /\ queue \in [Terminal -> Seq(EventsOf(session))] /\ stage \in [Terminal -> Stages]
          /\ subscribed \in [Terminal -> BOOLEAN]
          /\ stage[t] = "none" => queue[t] = <<>> /\ ~subscribed[t]
        BY DEF IInv, SessionInv, QueueInv, Connected
    <2>2. CASE UNCHANGED <<queue, stage, subscribed>>
        BY <2>1, <2>2
    <2>3. ASSUME NEW u \in Terminal, SessionReplies(u)
          PROVE  /\ queue' = queue /\ stage[u] # "none" /\ stage' = [stage EXCEPT ![u] = "handover"]
                 /\ \A v \in Terminal : v # u => subscribed'[v] = subscribed[v]
        BY <2>1, <2>3 DEF SessionReplies
    <2>4. ASSUME NEW u \in Terminal, SessionForwards(u)
          PROVE  /\ queue[u] # <<>> /\ queue' = [queue EXCEPT ![u] = Tail(@)]
                 /\ stage[u] # "none" /\ UNCHANGED <<stage, subscribed>>
        BY <2>4 DEF SessionForwards
    <2>5. ASSUME NEW u \in Terminal, ConnectionLost(u)
          PROVE  /\ queue' = [queue EXCEPT ![u] = <<>>] /\ stage' = [stage EXCEPT ![u] = "none"]
                 /\ subscribed' = [subscribed EXCEPT ![u] = FALSE]
        BY <2>5 DEF ConnectionLost
    <2>6. ASSUME NEW u \in Terminal, TerminalConnects(u) \/ SessionHandsOver(u)
          PROVE  stage' = [stage EXCEPT ![u] = "select"] /\ UNCHANGED <<queue, subscribed>>
        BY <2>6 DEF TerminalConnects, SessionHandsOver
    <2>7. \/ UNCHANGED <<queue, stage, subscribed>>
          \/ \E u \in Terminal : \/ SessionReplies(u) \/ SessionForwards(u) \/ ConnectionLost(u)
                                 \/ TerminalConnects(u) \/ SessionHandsOver(u)
        BY DEF Next, vars, sessionVars, ConnectorSendsBook, ConnectorSendsDelta, Emit,
               ConnectorLosesSync, ConnectorReconnects, SessionLags, TerminalReads
    <2>8. ASSUME NEW u \in Terminal, SessionReplies(u)
          PROVE  queue'[t] = queue[t] /\ (stage'[t] = "none" => queue'[t] = <<>> /\ ~subscribed'[t])
        BY <2>1, <2>3, <2>8
    <2>. QED BY <2>1, <2>2, <2>4, <2>5, <2>6, <2>7, <2>8
<1>3. ASSUME NEW t \in Terminal
      PROVE  /\ Backlog(queue'[t], inHand, held)
             /\ \A i \in DOMAIN queue'[t] : \E j \in DOMAIN queue[t] : queue'[t][i] = queue[t][j]
    <2>1. queue[t] \in Seq(EventsOf(session)) /\ Backlog(queue[t], inHand, held)
        BY DEF IInv, SessionInv, QueueInv
    <2>2. CASE queue'[t] = queue[t]
        BY <2>1, <2>2
    <2>3. CASE queue[t] # <<>> /\ queue'[t] = Tail(queue[t])
        BY <2>1, <2>3, BacklogTail
    <2>4. CASE queue'[t] = <<>>
        BY <2>4 DEF Backlog
    <2>. QED BY <1>2, <2>2, <2>3, <2>4
<1>4. QueueInv'
    BY <1>1, <1>2, <1>3 DEF QueueInv, Connected
<1>5. ServedIsFresh'
    BY <1>1, <1>3 DEF FreshInv, ServedIsFresh, EventNumber
<1>6. FreshInv'
    BY <1>1, <1>5 DEF FreshInv, EventNumber
<1>. QED BY <1>3, <1>4, <1>6

OrderInv == IInv /\ StreamInv /\ FreshInv /\ QueueInv

LEMMA InitOrder == Init => OrderInv
<1> SUFFICES ASSUME Init PROVE OrderInv
    OBVIOUS
<1>1. IInv
    BY InitInv
<1>2. Latest = 0 /\ position = 0 /\ session = 1
    BY DEF Init, Latest, FeedInit, Nowhere
<1>3. \A e \in session..MaxSession : \A n \in Numbers(e) : Latest < n
    BY <1>2, DistributionAssumption, BookFeedAssumption
<1>4. StreamInv
    BY <1>2, <1>3 DEF StreamInv, Init
<1>5. FreshInv /\ QueueInv
    BY DEF Init, FreshInv, ServedIsFresh, QueueInv, Backlog
<1>. QED BY <1>1, <1>4, <1>5 DEF OrderInv

LEMMA NextOrder ==
    ASSUME NumbersRise
    PROVE  OrderInv /\ [Next]_vars => OrderInv'
<1> SUFFICES ASSUME OrderInv, [Next]_vars PROVE OrderInv'
    OBVIOUS
<1> USE DEF OrderInv
<1>1. IInv'
    BY RisingGoOn, NextInv
<1>2. FreshInv' /\ QueueInv'
    BY FoldQueues, SendQueues, OtherQueues
<1>3. StreamInv'
    <2>1. ASSUME NEW n \in 1..MaxFeedId, ConnectorSendsBook(n) \/ ConnectorSendsDelta(n)
          PROVE  StreamInv'
        BY <2>1, PublishStream
    <2>2. CASE ConnectorLosesSync \/ ConnectorReconnects
        BY <2>2, ConnectorStream
    <2>3. CASE PumpFolds
        BY <2>3, FoldStream
    <2>4. CASE UNCHANGED <<feedVars, sink, held>>
        BY <2>4, StillStream
    <2>5. PumpSends => UNCHANGED <<feedVars, sink, held>>
        BY DEF PumpSends
    <2>6. ASSUME NEW t \in Terminal,
                 \/ SessionReplies(t) \/ SessionHandsOver(t)
                 \/ SessionForwards(t) \/ SessionLags(t)
                 \/ TerminalConnects(t) \/ TerminalReads(t) \/ ConnectionLost(t)
          PROVE  UNCHANGED <<feedVars, sink, held>>
        BY <2>6 DEF SessionReplies, SessionHandsOver, SessionForwards, SessionLags, coreVars,
                    TerminalConnects, TerminalReads, ConnectionLost
    <2>7. UNCHANGED vars => UNCHANGED <<feedVars, sink, held>>
        BY DEF vars, coreVars
    <2>. QED BY <2>1, <2>2, <2>3, <2>4, <2>5, <2>6, <2>7 DEF Next
<1>. QED BY <1>1, <1>2, <1>3

\* A session that subscribes at any instant is served state as new as the events queued
\* for it: the pump folds before it broadcasts (crates/core/src/main.rs).
THEOREM ServedFresh ==
    ASSUME NumbersRise
    PROVE  Spec => []ServedIsFresh
<1>1. OrderInv => ServedIsFresh
    BY DEF OrderInv, FreshInv
<1>. QED BY <1>1, InitOrder, NextOrder, PTL DEF Spec

-----------------------------------------------------------------------------
(* No update spans a number that anyone has reached.                       *)

\* The events on their way, the books kept, and the numbers of both.
Travelling ==
    {sink[i] : i \in DOMAIN sink} \cup ({inHand} \ {NoEvent})
    \cup {ev \in BookEvent : \E t \in Terminal :
             \/ \E i \in DOMAIN queue[t] : ev = queue[t][i]
             \/ \E i \in DOMAIN toTerminal[t] : ev = toTerminal[t][i]}

Kept == ({held} \cup {book[t] : t \in Terminal}) \ {NoBook}

Reached == {EventNumber(ev) : ev \in Travelling} \cup {b.last : b \in Kept}

Skips(d, n) == n <= d.delta.prev \/ d.delta.last <= n

WholeInv ==
    \A n \in Reached : n <= Latest /\ \A d \in Travelling : IsDelta(d) => Skips(d, n)

\* What is on its way are events of the connections so far.
LEMMA TravellingEvents ==
    ASSUME IInv
    PROVE  /\ \A ev \in Travelling : ev \in EventsOf(session)
           /\ \A n \in Reached : n \in Nat
<1>1. session \in 1..MaxSession
    BY DEF IInv, FeedInv
<1>2. \A m \in Replies : m \notin BookEvent
    BY DEF Replies, Reply, BookEvent
<1>3. \A i \in DOMAIN sink : sink[i] \in EventsOf(session)
    BY DEF IInv, CoreInv
<1>4. inHand \in EventsOf(session) \cup {NoEvent}
    BY DEF IInv, CoreInv
<1>5. \A t \in Terminal : \A i \in DOMAIN queue[t] : queue[t][i] \in EventsOf(session)
    BY DEF IInv, SessionInv
<1>6. \A t \in Terminal : \A i \in DOMAIN toTerminal[t] :
        toTerminal[t][i] \in EventsOf(session) \cup Replies
    BY DEF IInv, TerminalInv
<1>7. \A ev \in Travelling : ev \in EventsOf(session)
    BY <1>2, <1>3, <1>4, <1>5, <1>6 DEF Travelling
<1>8. \A b \in Kept : b \in BooksOf(session)
    BY DEF Kept, IInv, CoreInv, TerminalInv
<1>9. \A n \in Reached : n \in Nat
    BY <1>1, <1>7, <1>8, EventFacts, BookFacts DEF Reached
<1>. QED BY <1>7, <1>9

\* A step that brings no new update and no new number keeps it.
LEMMA WholeMoves ==
    ASSUME WholeInv, Latest' = Latest, Reached' \subseteq Reached,
           \A d \in Travelling' : IsDelta(d) => d \in Travelling
    PROVE  WholeInv'
BY DEF WholeInv, Skips, IsDelta

\* A new event, newer than all, keeps it.
LEMMA WholePublish ==
    ASSUME IInv, WholeInv, StreamInv, NEW n \in 1..MaxFeedId,
           ConnectorSendsBook(n) \/ ConnectorSendsDelta(n)
    PROVE  WholeInv'
<1>1. /\ Latest \in Nat /\ Latest < n /\ Latest' = n /\ n \in Nat
      /\ UNCHANGED <<session, inHand, held, sessionVars, terminalVars>>
    BY PublishFacts, PublishStream
<1>2. PICK ev \in BookEvent :
            /\ sink' = Append(sink, ev) /\ EventNumber(ev) = n
            /\ IsDelta(ev) => ev.delta.prev = Latest /\ ev.delta.last = n
    BY PublishFacts
<1>3. sink \in Seq(EventsOf(session))
    BY DEF IInv, CoreInv
<1>4. \A i \in DOMAIN sink' : sink'[i] = ev \/ (i \in DOMAIN sink /\ sink'[i] = sink[i])
    BY <1>2, <1>3
<1>5. Travelling' \subseteq Travelling \cup {ev}
    BY <1>1, <1>4 DEF Travelling, sessionVars, terminalVars
<1>6. Kept' = Kept
    BY <1>1 DEF Kept, terminalVars
<1>7. Reached' \subseteq Reached \cup {n}
    BY <1>2, <1>5, <1>6 DEF Reached, EventNumber
<1>8. \A m \in Reached : m \in Nat /\ m <= Latest
    BY TravellingEvents DEF WholeInv
<1>9. \A d \in Travelling : IsDelta(d) => d.delta.last \in Reached
    BY TravellingEvents, EventFacts DEF Reached, IInv, FeedInv
<1>10. ASSUME NEW m \in Reached', NEW d \in Travelling', IsDelta(d) PROVE Skips(d, m)
    <2>1. CASE d = ev
        BY <1>1, <1>2, <1>7, <1>8, <1>10, <2>1 DEF Skips
    <2>2. CASE d \in Travelling /\ m \in Reached
        BY <1>10, <2>2 DEF WholeInv
    <2>3. CASE d \in Travelling /\ m = n
        BY <1>1, <1>8, <1>9, <1>10, <2>3 DEF Skips
    <2>. QED BY <1>5, <1>7, <2>1, <2>2, <2>3
<1>11. \A m \in Reached' : m <= Latest'
    BY <1>1, <1>7, <1>8
<1>. QED BY <1>10, <1>11 DEF WholeInv, Skips, IsDelta

\* A book after an event bears its own number or the event's.
LEMMA FoldNumber ==
    ASSUME NEW s \in 1..MaxSession, NEW b \in BooksOf(s) \cup {NoBook}, NEW ev \in EventsOf(s)
    PROVE  LET after == FoldBook(b, ev)
           IN  \/ after = NoBook
               \/ after.last = EventNumber(ev)
               \/ b # NoBook /\ after.last = b.last
<1>1. CASE ~IsDelta(ev)
    BY <1>1, EventFacts DEF FoldBook
<1>2. CASE IsDelta(ev)
    <2>1. EventNumber(ev) = ev.delta.last
        BY <1>2, EventFacts
    <2>2. ev.kind # "BookSnapshot"
        BY <1>2 DEF IsDelta
    <2>3. CASE b = NoBook \/ ApplyOutcome(b, ev.delta) = "Gap"
        BY <2>2, <2>3 DEF FoldBook
    <2>4. CASE b # NoBook /\ ApplyOutcome(b, ev.delta) # "Gap"
        <3>1. FoldBook(b, ev) = ApplyDelta(b, ev.delta)
            BY <2>2, <2>4 DEF FoldBook
        <3>2. ApplyDelta(b, ev.delta) = b \/ ApplyDelta(b, ev.delta).last = ev.delta.last
            BY DEF ApplyDelta
        <3>. QED BY <2>1, <2>4, <3>1, <3>2
    <2>. QED BY <2>3, <2>4
<1>. QED BY <1>1, <1>2

\* The pump brings nothing new.
LEMMA WholePump ==
    ASSUME NumbersRise, OrderInv, WholeInv, PumpFolds \/ PumpSends
    PROVE  WholeInv'
<1> USE DEF OrderInv
<1>1. Latest' = Latest
    BY FoldStream, StillStream DEF PumpSends
<1>2. Travelling' \subseteq Travelling
    <2>1. CASE PumpFolds
        <3>1. /\ sink \in Seq(EventsOf(session)) /\ sink # <<>> /\ sink' = Tail(sink)
              /\ inHand' = sink[1] /\ 1 \in DOMAIN sink
              /\ UNCHANGED <<queue, toTerminal>>
            BY <2>1 DEF PumpFolds, IInv, CoreInv, sessionVars, terminalVars
        <3>2. \A i \in DOMAIN sink' : \E k \in DOMAIN sink : sink'[i] = sink[k]
            BY <3>1
        <3>. QED BY <3>1, <3>2 DEF Travelling
    <2>2. CASE PumpSends
        <3>1. /\ UNCHANGED <<sink, toTerminal>> /\ inHand' = NoEvent /\ inHand # NoEvent
            BY <2>2 DEF PumpSends, terminalVars
        <3>2. \A t \in Terminal : \A i \in DOMAIN queue'[t] :
                queue'[t][i] = inHand \/ \E k \in DOMAIN queue[t] : queue'[t][i] = queue[t][k]
            BY <2>2, SendQueues
        <3>. QED BY <3>1, <3>2 DEF Travelling
    <2>. QED BY <2>1, <2>2
<1>3. \A b \in Kept' : b.last \in Reached
    <2>1. CASE PumpFolds
        <3>1. book' = book /\ held'.last = EventNumber(Head(sink)) /\ Head(sink) \in Travelling
            <4>1. Head(sink) = sink[1] /\ 1 \in DOMAIN sink
                BY <2>1 DEF PumpFolds, IInv, CoreInv
            <4>. QED BY <2>1, <4>1, FoldFacts DEF Travelling, terminalVars
        <3>. QED BY <3>1 DEF Kept, Reached
    <2>2. CASE PumpSends
        BY <2>2 DEF PumpSends, terminalVars, Kept, Reached
    <2>. QED BY <2>1, <2>2
<1>4. Reached' \subseteq Reached
    BY <1>2, <1>3 DEF Reached, EventNumber
<1>. QED BY <1>1, <1>2, <1>4, WholeMoves

\* Neither does a session, which sends its backlog and the read-model's book, nor a terminal.
LEMMA WholeSessions ==
    ASSUME OrderInv, WholeInv, [Next]_vars, NEW t \in Terminal,
           \/ SessionReplies(t) \/ SessionHandsOver(t) \/ SessionForwards(t) \/ SessionLags(t)
           \/ TerminalConnects(t) \/ TerminalReads(t) \/ ConnectionLost(t)
    PROVE  WholeInv'
<1> USE DEF OrderInv
<1>1. UNCHANGED <<feedVars, sink, inHand, held>> /\ session \in 1..MaxSession
    BY DEF SessionReplies, SessionHandsOver, SessionForwards, SessionLags, coreVars, TerminalConnects,
           TerminalReads, ConnectionLost, IInv, FeedInv
<1>2. Latest' = Latest
    BY <1>1, StillStream
<1>3. ~PumpFolds /\ ~PumpSends
    BY <1>1, FoldFacts, EventFacts DEF PumpFolds, PumpSends
<1>4. \A u \in Terminal : \A i \in DOMAIN queue'[u] :
        \E k \in DOMAIN queue[u] : queue'[u][i] = queue[u][k]
    BY <1>3, OtherQueues
<1>5. toTerminal \in [Terminal -> Seq(EventsOf(session) \cup Replies)]
    BY DEF IInv, TerminalInv
<1>6. ASSUME NEW u \in Terminal, NEW i \in DOMAIN toTerminal'[u], toTerminal'[u][i] \in BookEvent
      PROVE  \/ toTerminal'[u][i] \in Travelling
             \/ toTerminal'[u][i] = SnapshotEvent(held) /\ held # NoBook
    <2>1. \A k \in DOMAIN toTerminal[u] : toTerminal[u][k] \in BookEvent =>
            toTerminal[u][k] \in Travelling
        BY DEF Travelling
    <2>2. ASSUME NEW m, Send(t, m)
          PROVE  \/ toTerminal'[u][i] = m
                 \/ i \in DOMAIN toTerminal[u] /\ toTerminal'[u][i] = toTerminal[u][i]
        <3>1. toTerminal' = [toTerminal EXCEPT ![t] = Append(@, m)]
            BY <2>2 DEF Send
        <3>2. u # t => toTerminal'[u] = toTerminal[u]
            BY <1>5, <3>1
        <3>3. u = t => toTerminal'[u] = Append(toTerminal[u], m)
            BY <1>5, <3>1
        <3>. QED BY <1>5, <3>2, <3>3
    <2>3. ASSUME NEW kind, Send(t, Reply(kind)) PROVE toTerminal'[u][i] \in Travelling
        <3>1. Reply(kind) \notin BookEvent
            BY DEF Reply, BookEvent
        <3>. QED BY <1>6, <2>1, <2>2, <2>3, <3>1
    <2>4. CASE SessionReplies(t) \/ SessionLags(t)
        BY <2>3, <2>4 DEF SessionReplies, SessionLags
    <2>5. CASE toTerminal' = toTerminal
        BY <1>6, <2>1, <2>5
    <2>6. CASE SessionHandsOver(t)
        BY <1>6, <2>1, <2>2, <2>5, <2>6 DEF SessionHandsOver
    <2>7. CASE SessionForwards(t)
        <3>1. Head(queue[t]) \in Travelling
            <4>1. queue[t] \in Seq(EventsOf(session)) /\ queue[t] # <<>>
                BY <2>7 DEF SessionForwards, IInv, SessionInv
            <4>2. Head(queue[t]) = queue[t][1] /\ 1 \in DOMAIN queue[t]
                BY <4>1
            <4>3. queue[t][1] \in BookEvent
                BY <4>1, <4>2 DEF EventsOf, BooksOf, DeltasOf, BookEvent
            <4>. QED BY <4>2, <4>3 DEF Travelling
        <3>. QED BY <1>6, <2>1, <2>2, <2>5, <2>7, <3>1 DEF SessionForwards
    <2>8. CASE TerminalConnects(t)
        BY <2>5, <2>8 DEF TerminalConnects
    <2>9. CASE TerminalReads(t)
        <3>1. /\ toTerminal' = [toTerminal EXCEPT ![t] = Tail(@)] /\ toTerminal[t] # <<>>
            BY <2>9 DEF TerminalReads
        <3>2. \E k \in DOMAIN toTerminal[u] : toTerminal'[u][i] = toTerminal[u][k]
            <4>1. CASE u = t
                <5>1. /\ toTerminal[u] \in Seq(EventsOf(session) \cup Replies)
                      /\ toTerminal[u] # <<>> /\ toTerminal'[u] = Tail(toTerminal[u])
                    BY <1>5, <3>1, <4>1
                <5>2. i + 1 \in DOMAIN toTerminal[u] /\ toTerminal'[u][i] = toTerminal[u][i + 1]
                    BY <5>1
                <5>. QED BY <5>2
            <4>2. CASE u # t
                BY <1>5, <3>1, <4>2
            <4>. QED BY <4>1, <4>2
        <3>. QED BY <1>6, <2>1, <3>2
    <2>10. CASE ConnectionLost(t)
        <3>1. toTerminal' = [toTerminal EXCEPT ![t] = <<>>]
            BY <2>10 DEF ConnectionLost
        <3>2. u # t /\ toTerminal'[u] = toTerminal[u]
            BY <1>5, <3>1
        <3>. QED BY <1>6, <2>1, <3>2
    <2>. QED BY <2>4, <2>6, <2>7, <2>8, <2>9, <2>10
<1>7. \A ev \in Travelling' : ev \in Travelling \/ (ev = SnapshotEvent(held) /\ held # NoBook)
    BY <1>1, <1>4, <1>6 DEF Travelling
<1>8. \A ev \in Travelling' : EventNumber(ev) \in Reached /\ (IsDelta(ev) => ev \in Travelling)
    BY <1>7 DEF Reached, Kept, SnapshotEvent, EventNumber, IsDelta
<1>9. ASSUME NEW b \in Kept' PROVE b.last \in Reached
    <2>1. CASE b \in Kept
        BY <2>1 DEF Reached
    <2>2. CASE b \notin Kept
        <3>1. PICK u \in Terminal : b = book'[u] /\ book'[u] # NoBook /\ book'[u] # book[u]
            BY <1>1, <1>9, <2>2 DEF Kept
        <3>2. TerminalReads(t) \/ ConnectionLost(t)
            BY <3>1 DEF SessionReplies, SessionHandsOver, SessionForwards, SessionLags,
                        TerminalConnects
        <3>3. book \in [Terminal -> BooksOf(session) \cup {NoBook}]
            BY DEF IInv, TerminalInv
        <3>4. ~ConnectionLost(t)
            BY <3>1, <3>3 DEF ConnectionLost
        <3>5. /\ u = t /\ toTerminal[t] # <<>> /\ book'[t] = FoldBook(book[t], Head(toTerminal[t]))
              /\ Head(toTerminal[t]).kind \in {"BookSnapshot", "BookDelta"}
            BY <3>1, <3>2, <3>3, <3>4 DEF TerminalReads
        <3>6. /\ Head(toTerminal[t]) = toTerminal[t][1] /\ 1 \in DOMAIN toTerminal[t]
              /\ toTerminal[t][1] \in EventsOf(session) \cup Replies
            BY <1>5, <3>5
        <3>7. Head(toTerminal[t]) \in EventsOf(session)
            BY <3>5, <3>6 DEF Replies, Reply
        <3>8. Head(toTerminal[t]) \in Travelling
            BY <3>6, <3>7 DEF Travelling, EventsOf, BooksOf, DeltasOf, BookEvent
        <3>9. \/ b.last = EventNumber(Head(toTerminal[t]))
              \/ book[t] # NoBook /\ b.last = book[t].last
            BY <1>1, <3>1, <3>3, <3>5, <3>7, FoldNumber
        <3>. QED BY <3>8, <3>9 DEF Reached, Kept
    <2>. QED BY <2>1, <2>2
<1>10. Reached' \subseteq Reached
    BY <1>8, <1>9 DEF Reached, EventNumber
<1>. QED BY <1>2, <1>8, <1>10, WholeMoves

-----------------------------------------------------------------------------
(* What a terminal that is not overrun will read.                          *)

\* The number reached after message m, from number n (0: no book, updates are ignored).
After(n, m) ==
    IF ~IsBookEvent(m) THEN n ELSE IF IsDelta(m) /\ n = 0 THEN 0 ELSE EventNumber(m)

\* An update is not beyond the number reached.
Takes(n, m) == IsDelta(m) /\ n # 0 => m.delta.prev <= n

\* Reading the messages q with book b reaches number n, and none is beyond what was reached
\* before it; a book may be ahead of this, when it was handed over.
Trace(b, q, at) ==
    /\ at[0] = 0 <=> b = NoBook
    /\ b # NoBook => at[0] <= b.last
    /\ \A i \in DOMAIN q : at[i] = After(at[i - 1], q[i]) /\ Takes(at[i - 1], q[i])

Ends(b, q, n) == \E at \in [0..Len(q) -> Nat] : Trace(b, q, at) /\ at[Len(q)] = n

\* A message more.
LEMMA EndsAppend ==
    ASSUME NEW S, NEW b, NEW q \in Seq(S), NEW n \in Nat, NEW m \in S,
           Ends(b, q, n), Takes(n, m), After(n, m) \in Nat
    PROVE  Ends(b, Append(q, m), After(n, m))
<1>1. PICK at \in [0..Len(q) -> Nat] : Trace(b, q, at) /\ at[Len(q)] = n
    BY DEF Ends
<1> DEFINE all == Append(q, m)
           k   == Len(q)
           on  == [i \in 0..(k + 1) |-> IF i = k + 1 THEN After(n, m) ELSE at[i]]
<1>2. /\ k \in Nat /\ DOMAIN q = 1..k /\ DOMAIN all = 1..(k + 1) /\ Len(all) = k + 1
      /\ all[k + 1] = m /\ \A i \in 1..k : all[i] = q[i]
    OBVIOUS
<1>3. /\ on \in [0..(k + 1) -> Nat] /\ on[k + 1] = After(n, m) /\ at[k] = n
      /\ \A i \in 0..k : on[i] = at[i]
    BY <1>1, <1>2
<1> HIDE DEF all, k, on
<1>4. ASSUME NEW i \in 1..(k + 1)
      PROVE  on[i] = After(on[i - 1], all[i]) /\ Takes(on[i - 1], all[i])
    <2>1. CASE i = k + 1
        <3>1. on[i - 1] = n /\ all[i] = m
            BY <1>2, <1>3, <2>1
        <3>. QED BY <1>3, <2>1, <3>1
    <2>2. CASE i # k + 1
        <3>1. /\ i \in DOMAIN q /\ all[i] = q[i] /\ on[i] = at[i] /\ on[i - 1] = at[i - 1]
            BY <1>2, <1>3, <2>2
        <3>. QED BY <1>1, <3>1 DEF Trace
    <2>. QED BY <2>1, <2>2
<1>5. 0 \in 0..k /\ on[0] = at[0]
    BY <1>2, <1>3
<1>6. Trace(b, all, on)
    BY <1>1, <1>2, <1>4, <1>5 DEF Trace
<1>7. Ends(b, all, After(n, m))
    BY <1>2, <1>3, <1>6 DEF Ends
<1>. QED BY <1>7 DEF all

\* A message read, by a terminal that then has book c.
LEMMA EndsTail ==
    ASSUME NEW S, NEW b, NEW q \in Seq(S), q # <<>>, NEW n \in Nat, Ends(b, q, n)
    PROVE  \E k \in Nat :
             /\ k = 0 <=> b = NoBook
             /\ b # NoBook => k <= b.last
             /\ Takes(k, Head(q))
             /\ \A c : /\ After(k, Head(q)) = 0 <=> c = NoBook
                       /\ c # NoBook => After(k, Head(q)) <= c.last
                       => Ends(c, Tail(q), n)
<1>1. PICK at \in [0..Len(q) -> Nat] : Trace(b, q, at) /\ at[Len(q)] = n
    BY DEF Ends
<1> DEFINE rest == Tail(q)
           l    == Len(q)
           on   == [i \in 0..(l - 1) |-> at[i + 1]]
<1>2. /\ l \in Nat \ {0} /\ DOMAIN q = 1..l /\ DOMAIN rest = 1..(l - 1) /\ Len(rest) = l - 1
      /\ Head(q) = q[1] /\ \A i \in 1..(l - 1) : rest[i] = q[i + 1]
    OBVIOUS
<1>3. /\ on \in [0..(l - 1) -> Nat] /\ on[l - 1] = n /\ \A i \in 0..(l - 1) : on[i] = at[i + 1]
      /\ at[0] \in Nat
    BY <1>1, <1>2
<1> HIDE DEF rest, l, on
<1>4. \A i \in 1..l : at[i] = After(at[i - 1], q[i]) /\ Takes(at[i - 1], q[i])
    BY <1>1, <1>2 DEF Trace
<1>5. at[1] = After(at[0], Head(q)) /\ Takes(at[0], Head(q)) /\ on[0] = at[1]
    <2>1. 1 \in 1..l /\ 0 \in 0..(l - 1)
        BY <1>2
    <2>. QED BY <1>2, <1>3, <1>4, <2>1
<1>6. ASSUME NEW i \in 1..(l - 1)
      PROVE  on[i] = After(on[i - 1], rest[i]) /\ Takes(on[i - 1], rest[i])
    <2>1. i + 1 \in 1..l /\ i \in 0..(l - 1) /\ i - 1 \in 0..(l - 1) /\ (i + 1) - 1 = (i - 1) + 1
        BY <1>2
    <2>2. on[i] = at[i + 1] /\ on[i - 1] = at[(i + 1) - 1] /\ rest[i] = q[i + 1]
        BY <1>2, <1>3, <2>1
    <2>. QED BY <1>4, <2>1, <2>2
<1>7. ASSUME NEW c, After(at[0], Head(q)) = 0 <=> c = NoBook,
             c # NoBook => After(at[0], Head(q)) <= c.last
      PROVE  Ends(c, rest, n)
    <2>1. Trace(c, rest, on)
        BY <1>2, <1>5, <1>6, <1>7 DEF Trace
    <2>. QED BY <1>2, <1>3, <2>1 DEF Ends
<1>8. /\ at[0] = 0 <=> b = NoBook
      /\ b # NoBook => at[0] <= b.last
    BY <1>1 DEF Trace
<1>. QED BY <1>3, <1>5, <1>7, <1>8 DEF rest

\* Nothing to read.
LEMMA EndsEmpty == Ends(NoBook, <<>>, 0)
<1> DEFINE at == [i \in 0..0 |-> 0]
<1>1. at \in [0..Len(<<>>) -> Nat] /\ at[0] = 0 /\ Len(<<>>) = 0
    OBVIOUS
<1> HIDE DEF at
<1>2. Trace(NoBook, <<>>, at)
    BY <1>1 DEF Trace
<1>. QED BY <1>1, <1>2 DEF Ends

\* A book is not dropped for an update that is not beyond it and does not span its number.
LEMMA FoldKeeps ==
    ASSUME NumbersGoOn, NEW s \in 1..MaxSession, NEW b \in BooksOf(s), NEW ev \in EventsOf(s),
           IsDelta(ev) => ev.delta.prev <= b.last /\ Skips(ev, b.last)
    PROVE  FoldBook(b, ev) # NoBook /\ EventNumber(ev) <= FoldBook(b, ev).last
<1>1. b # NoBook /\ b.last \in Nat /\ b.synced /\ EventNumber(ev) \in Nat
    BY BookFacts, EventFacts
<1>2. CASE ~IsDelta(ev)
    BY <1>1, <1>2, EventFacts, BookFacts DEF FoldBook
<1>3. CASE IsDelta(ev)
    <2>1. /\ EventNumber(ev) = ev.delta.last /\ ev.delta.prev \in Nat /\ ev.delta.last \in Nat
          /\ ev.delta \in DeltasOf(s)
        BY <1>3, EventFacts
    <2>2. CASE ev.delta.last <= b.last
        <3>1. ApplyOutcome(b, ev.delta) = "Stale"
            BY <2>2 DEF ApplyOutcome, IsStale
        <3>2. FoldBook(b, ev) = b
            BY <1>1, <1>3, <3>1 DEF FoldBook, ApplyDelta, IsDelta
        <3>. QED BY <1>1, <2>1, <2>2, <3>2
    <2>3. CASE ~(ev.delta.last <= b.last)
        <3>1. ev.delta.prev = b.last
            BY <1>1, <1>3, <2>1, <2>3 DEF Skips
        <3>2. ApplyOutcome(b, ev.delta) = "Applied"
            BY <1>1, <2>3, <3>1 DEF ApplyOutcome, IsStale, Continues
        <3>3. FoldBook(b, ev) = ApplyDelta(b, ev.delta) /\ FoldBook(b, ev).last = ev.delta.last
            BY <1>1, <1>3, <3>2 DEF FoldBook, ApplyDelta, IsDelta
        <3>4. FoldBook(b, ev) \in Book
            <4>1. b \in Book /\ ev.delta \in Delta
                BY <2>1 DEF BooksOf, DeltasOf
            <4>2. Merge(b.levels, ev.delta.changes) \in [Level -> Qty]
                BY <4>1 DEF Book, Delta, Merge
            <4>. QED BY <2>1, <3>2, <3>3, <4>2 DEF ApplyDelta, Book
        <3>. QED BY <2>1, <3>3, <3>4, NoBookAssumption
    <2>. QED BY <2>2, <2>3
<1>. QED BY <1>2, <1>3

\* What comes next for a terminal - out of its backlog, out of the pump's hand, or on top of
\* the read-model's book - is not beyond the number it will have reached.
Coming(q, hand, b, n) ==
    IF q # <<>> THEN Takes(n, Head(q))
    ELSE IF hand # NoEvent THEN Takes(n, hand)
    ELSE n # 0 /\ b # NoBook => b.last <= n

Chain(b, wire, wants, q, hand, h) ==
    \E n \in Nat : Ends(b, wire, n) /\ (~wants => n = 0) /\ Coming(q, hand, h, n)

ChainInv ==
    \A t \in Terminal : ~lagged[t] =>
        Chain(book[t], toTerminal[t], subscribed[t], queue[t], inHand, held)

\* The first of a sequence and one more.
LEMMA AppendHead ==
    ASSUME NEW S, NEW q \in Seq(S), NEW e \in S
    PROVE  Append(q, e) # <<>> /\ Head(Append(q, e)) = IF q = <<>> THEN e ELSE Head(q)
<1>1. /\ Len(q) \in Nat /\ Append(q, e) \in Seq(S) /\ Len(Append(q, e)) = Len(q) + 1
      /\ q = <<>> <=> Len(q) = 0
    OBVIOUS
<1>2. Append(q, e) # <<>> /\ Head(Append(q, e)) = Append(q, e)[1]
    BY <1>1
<1>3. Append(q, e)[1] = IF q = <<>> THEN e ELSE q[1]
    BY <1>1
<1>. QED BY <1>1, <1>2, <1>3

LEMMA TailEmpty ==
    ASSUME NEW S, NEW q \in Seq(S), q # <<>>, Tail(q) = <<>>
    PROVE  Len(q) = 1
<1>1. Len(q) \in Nat /\ Len(Tail(q)) = Len(q) - 1 /\ Len(Tail(q)) = 0
    <2>1. Len(q) \in Nat /\ Len(Tail(q)) = Len(q) - 1
        OBVIOUS
    <2>2. Len(<<>>) = 0
        OBVIOUS
    <2>. QED BY <2>1, <2>2
<1>. QED BY <1>1

\* The pump takes the update that is next, or a whole book.
LEMMA FoldChain ==
    ASSUME NumbersRise, OrderInv, ChainInv, PumpFolds
    PROVE  ChainInv'
<1>1. /\ inHand' = Head(sink) /\ inHand = NoEvent /\ inHand' # NoEvent
      /\ IsDelta(inHand') => held # NoBook /\ inHand'.delta.prev = held.last
      /\ UNCHANGED <<lagged, book, toTerminal, subscribed, queue>>
    BY FoldFacts, EventFacts DEF OrderInv, IInv, FeedInv, sessionVars, terminalVars
<1>2. ASSUME NEW t \in Terminal, ~lagged[t]
      PROVE  Chain(book[t], toTerminal[t], subscribed[t], queue[t], inHand', held')
    <2>1. PICK n \in Nat : /\ Ends(book[t], toTerminal[t], n) /\ (~subscribed[t] => n = 0)
                           /\ Coming(queue[t], inHand, held, n)
        BY <1>2 DEF ChainInv, Chain
    <2>2. Coming(queue[t], inHand', held', n)
        BY <1>1, <2>1 DEF Coming, Takes
    <2>. QED BY <2>1, <2>2 DEF Chain
<1>. QED BY <1>1, <1>2 DEF ChainInv

\* The pump sends: what a receiver that is not full has next stays what it was.
LEMMA SendChain ==
    ASSUME OrderInv, ChainInv, PumpSends
    PROVE  ChainInv'
<1>1. /\ inHand # NoEvent /\ inHand' = NoEvent
      /\ UNCHANGED <<held, book, toTerminal, subscribed>>
    BY DEF PumpSends, terminalVars
<1>2. ASSUME NEW t \in Terminal, ~lagged'[t]
      PROVE  Chain(book[t], toTerminal[t], subscribed[t], queue'[t], NoEvent, held)
    <2>1. /\ queue[t] \in Seq(EventsOf(session)) /\ inHand \in EventsOf(session)
          /\ ~Connected(t) => queue[t] = <<>> /\ ~subscribed[t]
        BY <1>1 DEF OrderInv, IInv, SessionInv, CoreInv, QueueInv
    <2>2. ~lagged[t] /\ ~Overrun(t)
        BY <1>2 DEF PumpSends
    <2>3. PICK n \in Nat : /\ Ends(book[t], toTerminal[t], n) /\ (~subscribed[t] => n = 0)
                           /\ Coming(queue[t], inHand, held, n)
        BY <2>2 DEF ChainInv, Chain
    <2>4. CASE ~Connected(t)
        <3>1. queue'[t] = <<>> /\ n = 0
            BY <2>1, <2>3, <2>4 DEF PumpSends
        <3>. QED BY <2>3, <3>1 DEF Chain, Coming
    <2>5. CASE Connected(t)
        <3>1. queue'[t] = Append(queue[t], inHand)
            BY <2>2, <2>5 DEF PumpSends
        <3>2. queue'[t] # <<>> /\ Head(queue'[t]) = IF queue[t] = <<>> THEN inHand ELSE Head(queue[t])
            BY <2>1, <3>1, AppendHead
        <3>3. Coming(queue'[t], NoEvent, held, n)
            BY <1>1, <2>3, <3>2 DEF Coming
        <3>. QED BY <2>3, <3>3 DEF Chain
    <2>. QED BY <2>4, <2>5
<1>. QED BY <1>1, <1>2 DEF ChainInv

\* A session sends the terminal what it has next, the read-model's book, or no book event.
LEMMA SessionChain ==
    ASSUME OrderInv, ChainInv, NEW t \in Terminal, ~lagged[t],
           SessionReplies(t) \/ SessionHandsOver(t) \/ SessionForwards(t) \/ SessionLags(t)
    PROVE  Chain(book[t], toTerminal'[t], subscribed'[t], queue'[t], inHand, held)
<1> USE DEF OrderInv
<1>1. PICK n \in Nat : /\ Ends(book[t], toTerminal[t], n) /\ (~subscribed[t] => n = 0)
                       /\ Coming(queue[t], inHand, held, n)
    BY DEF ChainInv, Chain
<1>2. /\ toTerminal \in [Terminal -> Seq(EventsOf(session) \cup Replies)]
      /\ queue \in [Terminal -> Seq(EventsOf(session))]
      /\ subscribed \in [Terminal -> BOOLEAN] /\ session \in 1..MaxSession
      /\ held \in BooksOf(session) \cup {NoBook} /\ inHand \in EventsOf(session) \cup {NoEvent}
    BY DEF IInv, TerminalInv, SessionInv, CoreInv, FeedInv
<1>3. ASSUME NEW m \in EventsOf(session) \cup Replies, Send(t, m), Takes(n, m), After(n, m) \in Nat
      PROVE  Ends(book[t], toTerminal'[t], After(n, m))
    <2>1. toTerminal'[t] = Append(toTerminal[t], m)
        BY <1>2, <1>3 DEF Send
    <2>2. toTerminal[t] \in Seq(EventsOf(session) \cup Replies)
        BY <1>2
    <2>3. Ends(book[t], Append(toTerminal[t], m), After(n, m))
        BY <1>1, <1>3, <2>2, EndsAppend
    <2>. QED BY <2>1, <2>3
<1>4. ASSUME NEW kind \in {"Welcome", "Pong", "Resyncing"}, Send(t, Reply(kind))
      PROVE  Ends(book[t], toTerminal'[t], n)
    <2>1. /\ Reply(kind) \in Replies /\ Takes(n, Reply(kind)) /\ After(n, Reply(kind)) = n
        BY DEF Replies, Reply, Takes, After, IsDelta, IsBookEvent
    <2>. QED BY <1>1, <1>3, <1>4, <2>1
<1>5. CASE SessionReplies(t)
    <2>1. Ends(book[t], toTerminal'[t], n)
        BY <1>4, <1>5 DEF SessionReplies
    <2>2. queue' = queue /\ (~subscribed'[t] => ~subscribed[t])
        BY <1>2, <1>5 DEF SessionReplies
    <2>. QED BY <1>1, <2>1, <2>2 DEF Chain
<1>6. CASE SessionLags(t)
    <2>1. Ends(book[t], toTerminal'[t], n)
        BY <1>4, <1>6 DEF SessionLags
    <2>2. UNCHANGED <<queue, subscribed>>
        BY <1>6 DEF SessionLags
    <2>. QED BY <1>1, <2>1, <2>2 DEF Chain
<1>7. CASE SessionHandsOver(t)
    <2>1. UNCHANGED <<queue, subscribed>>
        BY <1>7 DEF SessionHandsOver
    <2>2. CASE ~(subscribed[t] /\ held # NoBook /\ held.synced)
        <3>1. toTerminal' = toTerminal
            BY <1>7, <2>2 DEF SessionHandsOver
        <3>. QED BY <1>1, <2>1, <3>1 DEF Chain
    <2>3. CASE subscribed[t] /\ held # NoBook /\ held.synced
        <3> DEFINE m == SnapshotEvent(held)
        <3>1. /\ m \in EventsOf(session) /\ m.kind = "BookSnapshot" /\ EventNumber(m) = held.last
              /\ held.last \in Nat
            BY <1>2, <2>3, BookFacts DEF SnapshotEvent, EventsOf, EventNumber
        <3>2. Send(t, m)
            BY <1>7, <2>3 DEF SessionHandsOver
        <3> HIDE DEF m
        <3>3. Takes(n, m) /\ After(n, m) = held.last
            BY <3>1 DEF Takes, After, IsDelta, IsBookEvent
        <3>4. Ends(book[t], toTerminal'[t], held.last)
            BY <1>3, <3>1, <3>2, <3>3
        <3>5. Coming(queue[t], inHand, held, held.last)
            <4>1. CASE queue[t] # <<>>
                <5>1. /\ Head(queue[t]) = queue[t][1] /\ 1 \in DOMAIN queue[t]
                      /\ Head(queue[t]) \in EventsOf(session)
                    BY <1>2, <4>1
                <5>2. EventNumber(Head(queue[t])) <= held.last
                    BY <5>1 DEF FreshInv, ServedIsFresh
                <5> DEFINE e == Head(queue[t])
                <5> HIDE DEF e
                <5>3. IsDelta(e) => EventNumber(e) = e.delta.last /\ e.delta.prev < e.delta.last
                                    /\ e.delta.prev \in Nat /\ e.delta.last \in Nat
                    BY <1>2, <5>1, EventFacts DEF e
                <5>4. Takes(held.last, e)
                    BY <3>1, <5>2, <5>3 DEF Takes, e
                <5>. QED BY <4>1, <5>4 DEF Coming, e
            <4>2. CASE queue[t] = <<>> /\ inHand # NoEvent
                <5>1. EventNumber(inHand) = held.last /\ inHand \in EventsOf(session)
                    BY <1>2, <4>2 DEF FreshInv
                <5>2. Takes(held.last, inHand)
                    BY <1>2, <3>1, <5>1, EventFacts DEF Takes
                <5>. QED BY <4>2, <5>2 DEF Coming
            <4>3. CASE queue[t] = <<>> /\ inHand = NoEvent
                BY <3>1, <4>3 DEF Coming
            <4>. QED BY <4>1, <4>2, <4>3
        <3>. QED BY <2>1, <2>3, <3>1, <3>4, <3>5 DEF Chain
    <2>. QED BY <2>2, <2>3
<1>8. CASE SessionForwards(t)
    <2> DEFINE m == Head(queue[t])
    <2>1. /\ queue[t] # <<>> /\ queue'[t] = Tail(queue[t]) /\ subscribed' = subscribed
          /\ m \in EventsOf(session) /\ m = queue[t][1]
          /\ Backlog(queue[t], inHand, held)
        BY <1>2, <1>8 DEF SessionForwards, QueueInv
    <2>2. held # NoBook /\ held.last \in Nat
        <3>1. 1 \in DOMAIN queue[t]
            BY <1>2, <2>1
        <3>2. held # NoBook
            BY <3>1 DEF FreshInv, ServedIsFresh
        <3>. QED BY <1>2, <3>2, BookFacts
    <2>3. Takes(n, m)
        BY <1>1, <2>1 DEF Coming
    <2>4. EventNumber(m) \in Nat
        BY <1>2, <2>1, EventFacts
    <2> HIDE DEF m
    <2>5. Coming(Tail(queue[t]), inHand, held, EventNumber(m))
        <3>1. CASE Tail(queue[t]) # <<>>
            <4>1. /\ Head(Tail(queue[t])) = queue[t][2] /\ 2 \in DOMAIN queue[t] /\ 2 - 1 = 1
                BY <1>2, <2>1, <3>1
            <4>2. IsDelta(queue[t][2]) => queue[t][2].delta.prev = EventNumber(m)
                BY <2>1, <4>1 DEF Backlog
            <4>. QED BY <2>4, <3>1, <4>1, <4>2 DEF Coming, Takes
        <3>2. CASE Tail(queue[t]) = <<>>
            <4>1. queue[t][Len(queue[t])] = m
                <5>1. queue[t] \in Seq(EventsOf(session))
                    BY <1>2
                <5>2. Len(queue[t]) = 1
                    BY <2>1, <3>2, <5>1, TailEmpty
                <5>. QED BY <2>1, <5>2
            <4>2. IF inHand = NoEvent THEN EventNumber(m) = held.last
                  ELSE IsDelta(inHand) => EventNumber(m) = inHand.delta.prev
                BY <2>1, <4>1 DEF Backlog
            <4>. QED BY <2>2, <2>4, <3>2, <4>2 DEF Coming, Takes
        <3>. QED BY <3>1, <3>2
    <2>6. Coming(Tail(queue[t]), inHand, held, 0)
        BY DEF Coming, Takes
    <2>7. CASE ~subscribed[t]
        <3>1. toTerminal' = toTerminal /\ n = 0
            BY <1>1, <1>8, <2>7 DEF SessionForwards
        <3>. QED BY <1>1, <2>1, <2>6, <3>1 DEF Chain
    <2>8. CASE subscribed[t]
        <3>1. Send(t, m)
            BY <1>8, <2>8 DEF SessionForwards, m
        <3>2. After(n, m) \in {0, EventNumber(m)} /\ After(n, m) \in Nat
            BY <1>2, <2>1, <2>4, EventFacts DEF After
        <3>3. Ends(book[t], toTerminal'[t], After(n, m))
            BY <1>3, <2>1, <2>3, <3>1, <3>2
        <3>. QED BY <2>1, <2>5, <2>6, <2>8, <3>2, <3>3 DEF Chain
    <2>. QED BY <2>7, <2>8
<1>. QED BY <1>5, <1>6, <1>7, <1>8

\* What a terminal reads leaves it a book when it had one.
LEMMA ReadKeeps ==
    ASSUME NumbersRise, OrderInv, WholeInv, ChainInv, NEW t \in Terminal, ~lagged[t],
           TerminalReads(t)
    PROVE  /\ book[t] # NoBook => book'[t] # NoBook
           /\ Chain(book'[t], toTerminal'[t], subscribed[t], queue[t], inHand, held)
<1> USE DEF OrderInv
<1> DEFINE m == Head(toTerminal[t])
<1>1. PICK n \in Nat : /\ Ends(book[t], toTerminal[t], n) /\ (~subscribed[t] => n = 0)
                       /\ Coming(queue[t], inHand, held, n)
    BY DEF ChainInv, Chain
<1>2. /\ toTerminal \in [Terminal -> Seq(EventsOf(session) \cup Replies)]
      /\ book \in [Terminal -> BooksOf(session) \cup {NoBook}] /\ session \in 1..MaxSession
    BY DEF IInv, TerminalInv, FeedInv
<1>3. /\ toTerminal[t] # <<>> /\ toTerminal'[t] = Tail(toTerminal[t])
      /\ book'[t] = IF m.kind \in {"BookSnapshot", "BookDelta"} THEN FoldBook(book[t], m)
                    ELSE book[t]
    BY <1>2 DEF TerminalReads
<1>4. /\ toTerminal[t] \in Seq(EventsOf(session) \cup Replies) /\ m = toTerminal[t][1]
      /\ 1 \in DOMAIN toTerminal[t] /\ m \in EventsOf(session) \cup Replies
    BY <1>2, <1>3
<1>5. PICK k \in Nat :
            /\ k = 0 <=> book[t] = NoBook
            /\ book[t] # NoBook => k <= book[t].last
            /\ Takes(k, m)
            /\ \A c : /\ After(k, m) = 0 <=> c = NoBook
                      /\ c # NoBook => After(k, m) <= c.last
                      => Ends(c, Tail(toTerminal[t]), n)
    BY <1>1, <1>3, <1>4, EndsTail
<1>6. /\ After(k, m) = 0 <=> book'[t] = NoBook
      /\ book'[t] # NoBook => After(k, m) <= book'[t].last
      /\ book[t] # NoBook => book'[t] # NoBook
    <2> HIDE DEF m
    <2>1. CASE ~IsBookEvent(m)
        BY <1>3, <1>5, <2>1 DEF After, IsBookEvent
    <2>2. CASE IsBookEvent(m)
        <3>1. m \in EventsOf(session) /\ book'[t] = FoldBook(book[t], m)
            BY <1>3, <1>4, <2>2 DEF IsBookEvent, Replies, Reply
        <3>2. EventNumber(m) \in Nat \ {0}
            BY <1>2, <3>1, EventFacts
        <3>3. CASE book[t] = NoBook
            <4>1. CASE IsDelta(m)
                <5>1. After(k, m) = 0
                    BY <1>5, <2>2, <3>3, <4>1 DEF After
                <5>2. FoldBook(book[t], m) = NoBook
                    BY <3>3, <4>1 DEF FoldBook, IsDelta
                <5>. QED BY <3>1, <3>3, <5>1, <5>2
            <4>2. CASE ~IsDelta(m)
                <5>1. After(k, m) = EventNumber(m)
                    BY <2>2, <4>2 DEF After
                <5>2. /\ FoldBook(book[t], m) = m.book /\ m.book # NoBook
                      /\ EventNumber(m) = m.book.last
                    BY <1>2, <3>1, <4>2, EventFacts, BookFacts DEF FoldBook
                <5>. QED BY <3>1, <3>2, <3>3, <5>1, <5>2
            <4>. QED BY <4>1, <4>2
        <3>4. CASE book[t] # NoBook
            <4>1. book[t] \in BooksOf(session) /\ book[t].last \in Nat /\ book[t].last \in Reached
                BY <1>2, <3>4, BookFacts DEF Reached, Kept
            <4>2. m \in Travelling
                BY <1>4, <3>1 DEF Travelling, EventsOf, BooksOf, DeltasOf, BookEvent
            <4>3. IsDelta(m) => Skips(m, book[t].last)
                BY <4>1, <4>2 DEF WholeInv
            <4>4. IsDelta(m) => m.delta.prev <= k /\ m.delta.prev \in Nat
                BY <1>2, <1>5, <3>1, <3>4, EventFacts DEF Takes
            <4>5. IsDelta(m) => m.delta.prev <= book[t].last
                BY <1>5, <3>4, <4>1, <4>4
            <4>6. FoldBook(book[t], m) # NoBook /\ EventNumber(m) <= FoldBook(book[t], m).last
                BY <1>2, <3>1, <4>1, <4>3, <4>5, RisingGoOn, FoldKeeps
            <4>7. After(k, m) = EventNumber(m)
                BY <1>5, <2>2, <3>4 DEF After
            <4>. QED BY <3>1, <3>2, <3>4, <4>6, <4>7
        <3>. QED BY <3>3, <3>4
    <2>. QED BY <2>1, <2>2
<1>7. Ends(book'[t], toTerminal'[t], n)
    BY <1>3, <1>5, <1>6
<1>. QED BY <1>1, <1>6, <1>7 DEF Chain

\* What the terminals read next is kept by every step.
LEMMA NextChain ==
    ASSUME NumbersRise, OrderInv, WholeInv, ChainInv, [Next]_vars
    PROVE  ChainInv'
<1>1. CASE PumpFolds
    BY <1>1, FoldChain
<1>2. CASE PumpSends
    BY <1>2, SendChain
<1>3. CASE UNCHANGED <<inHand, held, sessionVars, terminalVars>>
    BY <1>3 DEF ChainInv, sessionVars, terminalVars
<1>4. ASSUME NEW n \in 1..MaxFeedId, ConnectorSendsBook(n) \/ ConnectorSendsDelta(n)
      PROVE  UNCHANGED <<inHand, held, sessionVars, terminalVars>>
    BY <1>4 DEF ConnectorSendsBook, ConnectorSendsDelta, Emit
<1>5. ConnectorLosesSync \/ ConnectorReconnects \/ UNCHANGED vars
        => UNCHANGED <<inHand, held, sessionVars, terminalVars>>
    BY DEF ConnectorLosesSync, ConnectorReconnects, vars, coreVars
<1>6. ASSUME NEW t \in Terminal,
             \/ SessionReplies(t) \/ SessionHandsOver(t) \/ SessionForwards(t) \/ SessionLags(t)
             \/ TerminalConnects(t) \/ TerminalReads(t) \/ ConnectionLost(t)
      PROVE  ChainInv'
    <2>1. /\ toTerminal \in [Terminal -> Seq(EventsOf(session) \cup Replies)]
          /\ book \in [Terminal -> BooksOf(session) \cup {NoBook}]
          /\ queue \in [Terminal -> Seq(EventsOf(session))]
          /\ subscribed \in [Terminal -> BOOLEAN] /\ lagged \in [Terminal -> BOOLEAN]
        BY DEF OrderInv, IInv, TerminalInv, SessionInv
    <2>2. UNCHANGED <<inHand, held>>
        BY <1>6 DEF SessionReplies, SessionHandsOver, SessionForwards, SessionLags, coreVars,
                    TerminalConnects, TerminalReads, ConnectionLost
    <2>3. ASSUME NEW u \in Terminal, u # t
          PROVE  /\ book'[u] = book[u] /\ toTerminal'[u] = toTerminal[u] /\ queue'[u] = queue[u]
                 /\ subscribed'[u] = subscribed[u] /\ lagged'[u] = lagged[u]
        <3>1. CASE SessionReplies(t)
            <4>1. UNCHANGED <<book, queue, lagged>> BY <3>1 DEF SessionReplies
            <4>2. toTerminal'[u] = toTerminal[u] BY <2>1, <2>3, <3>1 DEF SessionReplies, Send
            <4>3. subscribed'[u] = subscribed[u] BY <2>1, <2>3, <3>1 DEF SessionReplies
            <4>. QED BY <4>1, <4>2, <4>3
        <3>2. CASE SessionHandsOver(t)
            BY <2>1, <2>3, <3>2 DEF SessionHandsOver, Send
        <3>3. CASE SessionForwards(t)
            BY <2>1, <2>3, <3>3 DEF SessionForwards, Send
        <3>4. CASE SessionLags(t)
            BY <2>1, <2>3, <3>4 DEF SessionLags, Send
        <3>5. CASE TerminalConnects(t)
            BY <3>5 DEF TerminalConnects
        <3>6. CASE TerminalReads(t)
            <4>1. UNCHANGED <<subscribed, queue, lagged>>
                BY <3>6 DEF TerminalReads, sessionVars
            <4>2. toTerminal'[u] = toTerminal[u] BY <2>1, <2>3, <3>6 DEF TerminalReads
            <4>3. book'[u] = book[u] BY <2>1, <2>3, <3>6 DEF TerminalReads
            <4>. QED BY <4>1, <4>2, <4>3
        <3>7. CASE ConnectionLost(t)
            BY <2>1, <2>3, <3>7 DEF ConnectionLost
        <3>. QED BY <1>6, <3>1, <3>2, <3>3, <3>4, <3>5, <3>6, <3>7
    <2>4. ASSUME ~lagged'[t]
          PROVE  Chain(book'[t], toTerminal'[t], subscribed'[t], queue'[t], inHand, held)
        <3>1. CASE ConnectionLost(t)
            <4>1. /\ book'[t] = NoBook /\ toTerminal'[t] = <<>> /\ ~subscribed'[t]
                  /\ queue'[t] = <<>>
                BY <2>1, <3>1 DEF ConnectionLost
            <4>2. Coming(<<>>, inHand, held, 0)
                BY DEF Coming, Takes
            <4>. QED BY <4>1, <4>2, EndsEmpty DEF Chain
        <3>2. CASE TerminalConnects(t)
            BY <2>4, <3>2 DEF TerminalConnects, ChainInv
        <3>3. CASE TerminalReads(t)
            <4>1. UNCHANGED <<subscribed, queue, lagged>>
                BY <3>3 DEF TerminalReads, sessionVars
            <4>. QED BY <2>4, <3>3, <4>1, ReadKeeps
        <3>4. CASE SessionReplies(t) \/ SessionHandsOver(t) \/ SessionForwards(t) \/ SessionLags(t)
            <4>1. UNCHANGED <<book, lagged>>
                BY <3>4 DEF SessionReplies, SessionHandsOver, SessionForwards, SessionLags
            <4>. QED BY <2>4, <3>4, <4>1, SessionChain
        <3>. QED BY <1>6, <3>1, <3>2, <3>3, <3>4
    <2>5. ASSUME NEW u \in Terminal, ~lagged'[u]
          PROVE  Chain(book'[u], toTerminal'[u], subscribed'[u], queue'[u], inHand', held')
        BY <2>2, <2>3, <2>4, <2>5 DEF ChainInv
    <2>. QED BY <2>5 DEF ChainInv
<1>. QED BY <1>1, <1>2, <1>3, <1>4, <1>5, <1>6 DEF Next

-----------------------------------------------------------------------------
(* No terminal that keeps up loses its book.                               *)

FlowInv == OrderInv /\ WholeInv /\ ChainInv

LEMMA InitFlow == Init => FlowInv
<1> SUFFICES ASSUME Init PROVE FlowInv
    OBVIOUS
<1>1. Reached = {}
    BY DEF Init, Reached, Travelling, Kept
<1>2. \A t \in Terminal : Chain(book[t], toTerminal[t], subscribed[t], queue[t], inHand, held)
    <2>1. Coming(<<>>, NoEvent, NoBook, 0)
        BY DEF Coming
    <2>. QED BY <2>1, EndsEmpty DEF Init, Chain
<1>. QED BY <1>1, <1>2, InitOrder DEF FlowInv, WholeInv, ChainInv

LEMMA NextFlow ==
    ASSUME NumbersRise
    PROVE  FlowInv /\ [Next]_vars => FlowInv'
<1> SUFFICES ASSUME FlowInv, [Next]_vars PROVE FlowInv'
    OBVIOUS
<1> USE DEF FlowInv
<1>1. OrderInv' /\ ChainInv'
    BY NextOrder, NextChain
<1>2. WholeInv'
    <2>1. ASSUME NEW n \in 1..MaxFeedId, ConnectorSendsBook(n) \/ ConnectorSendsDelta(n)
          PROVE  WholeInv'
        BY <2>1, WholePublish DEF OrderInv
    <2>2. CASE \/ ConnectorLosesSync \/ ConnectorReconnects \/ UNCHANGED vars
        <3>1. UNCHANGED <<coreVars, sessionVars, terminalVars>>
            BY <2>2 DEF ConnectorLosesSync, ConnectorReconnects, vars
        <3>2. Latest' = Latest
            BY <3>1 DEF coreVars, Latest, EventNumber
        <3>3. Travelling' = Travelling /\ Kept' = Kept
            BY <3>1 DEF coreVars, sessionVars, terminalVars, Travelling, Kept
        <3>4. Reached' = Reached
            BY <3>3 DEF Reached, EventNumber
        <3>. QED BY <3>2, <3>3, <3>4, WholeMoves
    <2>3. CASE PumpFolds \/ PumpSends
        BY <2>3, WholePump
    <2>4. ASSUME NEW t \in Terminal,
                 \/ SessionReplies(t) \/ SessionHandsOver(t)
                 \/ SessionForwards(t) \/ SessionLags(t)
                 \/ TerminalConnects(t) \/ TerminalReads(t) \/ ConnectionLost(t)
          PROVE  WholeInv'
        BY <2>4, WholeSessions
    <2>. QED BY <2>1, <2>2, <2>3, <2>4 DEF Next
<1>. QED BY <1>1, <1>2

\* "The core forwards only chainable updates" (crates/terminal/src/feed.rs): a terminal
\* that has not been overrun never drops its book, however its handover falls between the
\* pump's two steps.
THEOREM OnlyLaggingDesync ==
    ASSUME NumbersRise
    PROVE  Spec => OnlyLaggingDesyncs
<1> DEFINE Keeps == \A t \in Terminal :
                       book[t] # NoBook /\ book'[t] = NoBook => lagged[t] \/ ~Connected(t)'
<1>1. FlowInv /\ [Next]_vars => [Keeps]_vars
    <2> SUFFICES ASSUME FlowInv, Next,
                        NEW t \in Terminal, book[t] # NoBook, book'[t] = NoBook, ~lagged[t]
                 PROVE  ~Connected(t)'
        OBVIOUS
    <2>1. book \in [Terminal -> BooksOf(session) \cup {NoBook}] /\ stage \in [Terminal -> Stages]
        BY DEF FlowInv, OrderInv, IInv, TerminalInv, SessionInv
    <2>2. \E u \in Terminal : TerminalReads(u) \/ ConnectionLost(u)
        BY DEF Next, ConnectorSendsBook, ConnectorSendsDelta, Emit, ConnectorLosesSync,
               ConnectorReconnects, PumpFolds, PumpSends, SessionReplies, SessionHandsOver,
               SessionForwards, SessionLags, TerminalConnects, terminalVars
    <2>3. TerminalReads(t) \/ ConnectionLost(t)
        BY <2>1, <2>2 DEF TerminalReads, ConnectionLost
    <2>4. ~TerminalReads(t)
        BY ReadKeeps DEF FlowInv
    <2>5. stage'[t] = "none"
        BY <2>1, <2>3, <2>4 DEF ConnectionLost
    <2>. QED BY <2>5 DEF Connected
<1>2. Spec => [][Keeps]_vars
    BY <1>1, InitFlow, NextFlow, PTL DEF Spec
<1>. QED BY <1>2 DEF OnlyLaggingDesyncs
=============================================================================
