---------------------------- MODULE RateLimiter ----------------------------
(***************************************************************************)
(* The rate limiter (crates/exchange/src/limits.rs) between a caller and a *)
(* venue that counts for itself.                                           *)
(*                                                                         *)
(* Instants are ticks since the machine started.  Nothing calls the        *)
(* limiter yet: the caller (it asks, sends what it may, and hears the      *)
(* replies late and in any order) and the venue are external.              *)
(***************************************************************************)
EXTENDS Integers, Sequences, FiniteSets, FiniteSetsExt, SequencesExt

-----------------------------------------------------------------------------
(* What a venue offers (caps.rs) and how a call fails (lib.rs).  A bitmask *)
(* is the set of its flags.                                                *)

OrderTypes ==
    {"LIMIT", "MARKET", "STOP_MARKET", "STOP_LIMIT", "TAKE_PROFIT", "TRAILING_STOP", "POST_ONLY",
     "IOC", "FOK", "REDUCE_ONLY"}

OrderLifecycle == {"AMEND_IN_PLACE", "CANCEL_ALL", "CLIENT_ORDER_ID", "BATCH_ORDERS"}

PositionsAndMargin ==
    {"HEDGE_MODE", "ISOLATED_MARGIN", "SET_LEVERAGE", "LIQUIDATION_PRICE", "FUNDING"}

MarketDataCaps ==
    {"BOOK_DELTAS", "BOOK_DEPTH_CHOICE", "LIQUIDATION_FEED", "CANDLE_HISTORY", "TRADE_HISTORY",
     "MARK_PRICE"}

AccountCaps == {"WALLET_TRANSFER", "USER_STREAM", "KEY_EXPIRY", "TESTNET"}

\* Caps::all_known.
Caps == OrderTypes \cup OrderLifecycle \cup PositionsAndMargin \cup MarketDataCaps \cup AccountCaps

BINANCE_SPOT ==
    {"LIMIT", "MARKET", "STOP_LIMIT", "POST_ONLY", "IOC", "FOK", "CANCEL_ALL", "CLIENT_ORDER_ID",
     "BOOK_DELTAS", "BOOK_DEPTH_CHOICE", "CANDLE_HISTORY", "TRADE_HISTORY", "WALLET_TRANSFER",
     "USER_STREAM", "TESTNET"}

BINANCE_USDM ==
    BINANCE_SPOT \cup PositionsAndMargin
    \cup {"AMEND_IN_PLACE", "STOP_MARKET", "TAKE_PROFIT", "TRAILING_STOP", "REDUCE_ONLY",
          "BATCH_ORDERS", "LIQUIDATION_FEED", "MARK_PRICE"}

\* Caps::require, without its error: Unsupported.
Supported(caps, needed) == needed \subseteq caps

\* What a call can fail with, and Error::is_retryable.
Errors == {"Transport", "Rejected", "RateLimited", "Auth", "Malformed", "Unsupported"}

IsRetryable(error) == error \in {"Transport", "RateLimited"}

-----------------------------------------------------------------------------
(* The limiter and the calls it sees.                                      *)

CONSTANTS Limit,      \* what each budget allows (Profile)
          Span,       \* for how long
          HeadroomPermille,
          Started,    \* when the limiter was made
          Phase,      \* how far the venue's clock is ahead of the machine's
          Offered,    \* the venue's Caps
          Calls,      \* the calls made: the Caps each needs, its kind and its weight
          Others,     \* weights other processes on the same address use
          MaxTime, MaxReplies

\* The four budgets, in the order in which they are asked.
Budgets == <<"weight", "orders_10s", "orders_1m", "orders_1d">>

ASSUME RateLimiterAssumption ==
    /\ Limit \in [Range(Budgets) -> Nat \ {0}]
    /\ Span \in [Range(Budgets) -> Nat \ {0}]
    /\ HeadroomPermille \in 0..1000
    /\ Started \in Nat /\ Phase \in Nat
    /\ \A c \in Calls : c.kind \in {"Request", "Order"} /\ c.weight \in Nat \ {0} /\ c.needs \subseteq Caps
    /\ Others \subseteq Nat \ {0}
    /\ MaxTime \in Nat /\ MaxReplies \in Nat

VARIABLES now,
          windows,    \* each budget's Window
          count,      \* the weight the venue has counted in its window
          foreign,    \* how much of it others used (history)
          replies,    \* the replies not heard yet
          spent,      \* what each budget spent over the last tick, the last two, .. its span (history)
          hintEnd,    \* until when the last hint said to wait (history)
          hints       \* how many hints were heard over as many ticks (history)

limiterVars == <<now, windows, count, foreign, replies, spent, hintEnd, hints>>

-----------------------------------------------------------------------------
(* One window.                                                             *)

\* Window::roll: whole spans are jumped; an instant before the start counts as the start.
Roll(w, b, t) ==
    IF t - w.started >= Span[b]
    THEN [used |-> 0, started |-> w.started + Span[b] * ((t - w.started) \div Span[b])]
    ELSE w

\* Window::wait_for.
WaitFor(w, b, cost, t) ==
    IF w.used + cost <= Limit[b] THEN 0 ELSE Max({w.started + Span[b] - t, 0})

\* Window::charge.
Charge(w, cost) == [w EXCEPT !.used = @ + cost]

-----------------------------------------------------------------------------
(* The limiter.                                                            *)

\* RateLimiter::with_headroom adds this much to a weight.
Headroom == Max({(Limit["weight"] * HeadroomPermille) \div 1000, 1})

\* RateLimiter::roll.
RollAll(ws, t) == [b \in DOMAIN ws |-> Roll(ws[b], b, t)]

\* The budgets a call draws on, and what it costs there.
Drawn(call) == IF call.kind = "Order" THEN Range(Budgets) ELSE {"weight"}
Asked(call, b) == IF b = "weight" THEN call.weight + Headroom ELSE 1
Cost(call, b) == IF b = "weight" THEN call.weight ELSE 1

\* A mutant: the shortest wait wins.
WaitShortest(ws, call, t) ==
    LET waits == {WaitFor(RollAll(ws, t)[b], b, Asked(call, b), t) : b \in Drawn(call)} \ {0}
    IN  IF waits = {} THEN 0 ELSE Min(waits)

\* How long RateLimiter::check tells a call to wait: the longest wait wins, and no wait sends.
Wait(ws, call, t) ==
    Max({WaitFor(RollAll(ws, t)[b], b, Asked(call, b), t) : b \in Drawn(call)})

\* RateLimiter::check, when it sends.
Charged(ws, call, t) ==
    [b \in DOMAIN ws |-> IF b \in Drawn(call) THEN Charge(RollAll(ws, t)[b], Cost(call, b))
                                              ELSE Roll(ws[b], b, t)]

\* A mutant: any number is adopted.
ObserveUsedEither(ws, used, t) ==
    [RollAll(ws, t) EXCEPT !["weight"].used = used]

\* RateLimiter::observe_used: only upward.
ObserveUsed(ws, used, t) == [RollAll(ws, t) EXCEPT !["weight"].used = Max({@, used})]

\* RateLimiter::observe_rejection, without a hint: no window is rolled first.
ObserveRejection(ws) == [ws EXCEPT !["weight"].used = Limit["weight"]]

\* A mutant: the window is not moved.
ObserveRejectionHereOnly(ws, after, t) == ObserveRejection(ws)

\* The same with a hint: the window is moved to end where the venue says; an instant
\* before the machine started is none, and the window then starts now.
ObserveRejectionUntil(ws, after, t) ==
    LET starts == t + after - Span["weight"]
    IN  [ws EXCEPT !["weight"] = [used    |-> Limit["weight"],
                                  started |-> IF starts >= 0 THEN starts ELSE t]]

-----------------------------------------------------------------------------
LimiterInit ==
    /\ now = Started
    /\ windows = [b \in Range(Budgets) |-> [used |-> 0, started |-> Started]]
    /\ count = 0 /\ foreign = 0
    /\ replies = {}
    /\ spent = [b \in Range(Budgets) |-> [i \in 1..Span[b] |-> 0]]
    /\ hintEnd = 0
    /\ hints = [i \in 1..Span["weight"] |-> 0]

\* The venue's window, when it began, and how much of it is left.
VenueWindow(t) == (t + Phase) \div Span["weight"]
VenueStart(t) == Span["weight"] * VenueWindow(t) - Phase
VenueLeft(t) == Span["weight"] - ((t + Phase) % Span["weight"])

\* What the venue answers: its count, or a rejection, with or without a hint; and what
\* the caller hears of it, which is nothing when the transport fails.
Answers(weight) ==
    IF count + weight <= Limit["weight"]
    THEN {[kind |-> "Ok", used |-> count + weight]}
    ELSE {[kind |-> "RateLimited", hint |-> h] : h \in {0, VenueLeft(now)}}

\* A call the venue does not offer is refused by the connector; nothing is asked or sent.
Unsupported(call) ==
    /\ ~Supported(Offered, call.needs)
    /\ UNCHANGED limiterVars

\* A call is told to wait.
Defer(call) ==
    /\ Supported(Offered, call.needs)
    /\ Wait(windows, call, now) > 0
    /\ windows' = RollAll(windows, now)
    /\ UNCHANGED <<now, count, foreign, replies, spent, hintEnd, hints>>

\* A history of which n more came about in this tick.
More(history, n) == [i \in DOMAIN history |-> history[i] + n]

\* A call is charged and sent, the venue counts it, and the reply is under way or lost.
SendCall(call) ==
    /\ Supported(Offered, call.needs)
    /\ Wait(windows, call, now) = 0
    /\ windows' = Charged(windows, call, now)
    /\ spent' = [b \in Range(Budgets) |->
                    IF b \in Drawn(call) THEN More(spent[b], Cost(call, b)) ELSE spent[b]]
    /\ \E answer \in Answers(call.weight) :
         /\ count' = IF answer.kind = "Ok" THEN answer.used ELSE count
         /\ \/ replies' = replies
            \/ Cardinality(replies) < MaxReplies /\ replies' = replies \cup {answer}
    /\ UNCHANGED <<now, foreign, hintEnd, hints>>

\* A reply is heard.
Hear(reply) ==
    /\ replies' = replies \ {reply}
    /\ CASE reply.kind = "Ok" ->
              /\ windows' = ObserveUsed(windows, reply.used, now)
              /\ UNCHANGED <<hintEnd, hints>>
         [] reply.kind = "RateLimited" /\ reply.hint = 0 ->
              /\ windows' = ObserveRejection(windows)
              /\ UNCHANGED <<hintEnd, hints>>
         [] OTHER ->
              /\ windows' = ObserveRejectionUntil(windows, reply.hint, now)
              /\ hintEnd' = now + reply.hint
              /\ hints' = More(hints, 1)
    /\ UNCHANGED <<now, count, foreign, spent>>

\* Another process on the same address uses some of the venue's budget.
Other(weight) ==
    /\ count + weight <= Limit["weight"]
    /\ count' = count + weight
    /\ foreign' = foreign + weight
    /\ UNCHANGED <<now, windows, replies, spent, hintEnd, hints>>

\* A history one tick later.
Later(history) == [i \in DOMAIN history |-> IF i = 1 THEN 0 ELSE history[i - 1]]

Tick ==
    /\ now < MaxTime
    /\ now' = now + 1
    /\ IF VenueWindow(now + 1) = VenueWindow(now)
       THEN UNCHANGED <<count, foreign>>
       ELSE count' = 0 /\ foreign' = 0
    /\ spent' = [b \in Range(Budgets) |-> Later(spent[b])]
    /\ hints' = Later(hints)
    /\ UNCHANGED <<windows, replies, hintEnd>>

LimiterNext ==
    \/ \E call \in Calls : Unsupported(call) \/ Defer(call) \/ SendCall(call)
    \/ \E reply \in replies : Hear(reply)
    \/ \E weight \in Others : Other(weight)
    \/ Tick

LimiterSpec == LimiterInit /\ [][LimiterNext]_limiterVars

-----------------------------------------------------------------------------
(* Properties.                                                             *)

\* The types of the variables.
LimiterTypeOK ==
    /\ now \in Nat
    /\ windows \in [Range(Budgets) -> [used : Nat, started : Nat]]
    /\ count \in 0..Limit["weight"] /\ foreign \in Nat
    /\ replies \subseteq [kind : {"Ok"}, used : 0..Limit["weight"]]
                     \cup [kind : {"RateLimited"}, hint : 0..Span["weight"]]
    /\ \A b \in Range(Budgets) : spent[b] \in [1..Span[b] -> Nat]
    /\ hintEnd \in Nat
    /\ hints \in [1..Span["weight"] -> Nat]

\* What the limiter lets go, and what the venue would answer to it.
LetGo(call) == Supported(Offered, call.needs) /\ Wait(windows, call, now) = 0
Accepted(call) == count + call.weight <= Limit["weight"]

\* The limiter's window falls together with the venue's.
InPhase == Roll(windows["weight"], "weight", now).started = VenueStart(now)

\* "Nothing is sent that was going to be rejected" (the module's document), and the headroom
\* absorbs what others use (headroom_permille): whatever replies are late, lost or overtaken,
\* the venue accepts every call the limiter lets go, while the limiter's window falls
\* together with the venue's and others stay within the headroom.
NothingRefused ==
    InPhase /\ foreign <= Headroom => \A call \in Calls : LetGo(call) => Accepted(call)

\* What the document says, for windows that need not fall together: Window::new starts one
\* when the limiter is made, and a budget at its end and another at the start of the next
\* fall into one window of the venue's.
NothingEverRefused ==
    foreign <= Headroom => \A call \in Calls : LetGo(call) => Accepted(call)

\* What holds wherever the windows begin: no stretch of a window's length sees more than two
\* windows' budgets, and one more for each hint that moved the window meanwhile
\* (Window::roll jumps whole spans, observe_rejection moves the window).
StretchBounded ==
    \A b \in Range(Budgets) :
        LET budget == IF b = "weight" THEN Limit[b] - Headroom ELSE Limit[b]
            moved  == IF b = "weight" THEN hints[Span[b]] ELSE 0
        IN  spent[b][Span[b]] <= (2 + moved) * budget

\* A call that is told to wait is sent after exactly that wait, and not before, if nobody
\* spends anything in between; unless it is heavier than the whole budget.
WaitExact ==
    \A call \in Calls :
        LET wait == Wait(windows, call, now)
        IN  wait > 0 =>
              /\ \A t \in now .. now + wait - 1 : Wait(windows, call, t) > 0
              /\ call.weight + Headroom <= Limit["weight"] => Wait(windows, call, now + wait) = 0

\* "Treat its own retry hint as authoritative and stop sending until it passes"
\* (observe_rejection): nothing is sent before the end of the last hint heard, whatever
\* replies come in later without one.
HintHonoured == [][spent' # spent /\ now' = now => now >= hintEnd]_limiterVars

=============================================================================
