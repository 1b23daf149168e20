------------------------------ MODULE Framing -------------------------------
(***************************************************************************)
(* From envelopes to frames and back: how small messages are merged        *)
(* (crates/wire/src/batch.rs) and how a body is framed and compressed      *)
(* (crates/wire/src/frame.rs).                                             *)
(*                                                                         *)
(* An envelope has a channel and a size; a batcher has its parts, oldest   *)
(* first, their size together, and the time the first of them came.        *)
(***************************************************************************)
EXTENDS Integers, Sequences, FiniteSetsExt

-----------------------------------------------------------------------------
(* What a core can tell a terminal (crates/wire/src/event.rs), and the     *)
(* channels it travels in (crates/wire/src/envelope.rs).  An event is its  *)
(* kind.                                                                   *)

ControlEvents ==
    {"Challenge", "Welcome", "Resumed", "Enrolled", "SyncComplete", "Ping", "Gap", "Failed",
     "Shutdown", "CoreInfo", "CoreLog"}
AccountEvents ==
    {"AccountSnapshot", "OrderUpdate", "OrderRemoved", "OrdersSnapshot", "Fill", "Balances",
     "Positions", "RiskState", "ApiKeyStatus", "TransferableAssets"}
CommandEvents == {"CommandAck", "CommandProgress"}
BookEvents    == {"BookSnapshot", "BookDelta", "BookResync"}
TapeEvents    == {"Trades", "Liquidations"}
CandleEvents  == {"Candle", "Candles", "CandleSeriesState"}
ReferenceEvents == {"Instruments", "InstrumentsChanged", "Subscribed", "Subscriptions"}
SettingsEvents  == {"Settings", "CoreRuntimeState", "ProfitState"}
AlertEvents ==
    {"Alert", "AlertDeleted", "Alerts", "AlertFired", "ChartAnnotations", "News", "NewListing"}
ReportEvents ==
    {"ReportSchema", "ReportPage", "ReportRow", "ReportRowDeleted", "ReportRowsDeleted",
     "ReportSyncComplete", "ReportQueryResult"}

\* The channels this build knows; a newer peer has others.
Carried == [CONTROL |-> ControlEvents, ACCOUNT |-> AccountEvents, COMMAND |-> CommandEvents,
            BOOK |-> BookEvents, TAPE |-> TapeEvents, CANDLES |-> CandleEvents,
            REFERENCE |-> ReferenceEvents, SETTINGS |-> SettingsEvents, STRATEGY |-> {},
            REPORT |-> ReportEvents, ALERTS |-> AlertEvents, ARB |-> {}]

KnownChannels == DOMAIN Carried
ServerEvents  == UNION {Carried[c] : c \in KnownChannels}

\* ServerEvent::channel.
ChannelOf(kind) == CHOOSE c \in KnownChannels : kind \in Carried[c]

\* Channel::class, 0 the most urgent.
Class(channel) ==
    CASE channel = "CONTROL" -> 0
      [] channel \in {"ACCOUNT", "COMMAND"} -> 1
      [] channel = "BOOK" -> 2
      [] channel \in {"TAPE", "CANDLES", "ARB"} -> 3
      [] OTHER -> 4

\* ServerEvent::is_private: what an unauthenticated session may not be sent.
IsPrivate(kind) ==
    kind \in AccountEvents \cup CommandEvents \cup ReportEvents \cup {"ProfitState", "Settings"}

\* The schema version this build understands.
KNOWN_VER == 0

\* gate, and what an envelope whose message is not understood is: whether it is acted on, or
\* why it is skipped. Whatever the reason, the connection is kept.
Accepted(env) ==
    CASE env.channel \notin KnownChannels -> "unknown channel"
      [] env.channel \in KnownChannels /\ env.ver > KNOWN_VER -> "future version"
      [] env.channel \in KnownChannels /\ env.ver <= KNOWN_VER /\ env.kind \notin ServerEvents ->
           "unknown variant"
      [] OTHER -> "known"

-----------------------------------------------------------------------------
(* What the batcher and the codec are given.                               *)

CONSTANTS BATCH_FLUSH_MS, BATCH_FLUSH_BYTES, BATCH_MAX_ITEMS,
          COMPRESS_MIN_BYTES, MAX_FRAME, MAX_INFLATE_RATIO, MIN_INFLATE_BUDGET, MAX_INFLATED,
          MaxMessage     \* the largest encoded message

\* The last conjunct is what lets every body the batcher makes be inflated again: one that
\* exceeds the floor of the budget may be refused.
ASSUME FramingAssumption ==
    /\ {BATCH_FLUSH_MS, BATCH_FLUSH_BYTES, COMPRESS_MIN_BYTES, MAX_FRAME, MAX_INFLATE_RATIO,
        MIN_INFLATE_BUDGET, MAX_INFLATED, MaxMessage} \subseteq Nat \ {0}
    /\ BATCH_MAX_ITEMS \in Nat \ {0, 1}
    /\ BATCH_FLUSH_BYTES + MaxMessage <= Min({MIN_INFLATE_BUDGET, MAX_FRAME - 2})

-----------------------------------------------------------------------------
(* The batcher.                                                            *)

EmptyBatcher == [parts |-> <<>>, bytes |-> 0, openedAt |-> 0]

\* deadline, of a batcher that is not empty.
Deadline(b) == b.openedAt + BATCH_FLUSH_MS

\* A batch: what is written at once, and its size.
Batch(parts, size) == [parts |-> parts, size |-> size]

\* What an operation returns: the batcher it leaves, and the batches to be written.
Taken(b)        == [batcher |-> EmptyBatcher, out |-> <<Batch(b.parts, b.bytes)>>]
Kept(b)         == [batcher |-> b, out |-> <<>>]
FlushIf(b, due) == IF b.parts # <<>> /\ due THEN Taken(b) ELSE Kept(b)

\* A mutant: the clock starts again with every message.
WithRestarting(b, env, now) ==
    [parts |-> Append(b.parts, env), bytes |-> b.bytes + env.size, openedAt |-> now]

\* The batcher with one more part: the clock runs from the first.
With(b, env, now) ==
    [parts |-> Append(b.parts, env), bytes |-> b.bytes + env.size,
     openedAt |-> IF b.parts = <<>> THEN now ELSE b.openedAt]

\* An urgent message goes out at once, alone, and does not disturb what is kept.
Urgent(b, env) == [batcher |-> b, out |-> <<Batch(<<env>>, env.size)>>]

\* A mutant: what closes a batch stays for the next.
PushHolding(b, env, now) ==
    IF Class(env.channel) <= 1 THEN Urgent(b, env)
    ELSE LET due == FlushIf(b, Len(b.parts) + 1 >= BATCH_MAX_ITEMS)
         IN  [due EXCEPT !.batcher = [parts |-> <<env>> \o @.parts, bytes |-> @.bytes + env.size,
                                      openedAt |-> now]]

\* push: a message that is not urgent is added, and closes the batch when it completes one
\* of the bounds.
Push(b, env, now) ==
    IF Class(env.channel) <= 1 THEN Urgent(b, env)
    ELSE LET more == With(b, env, now)
         IN  FlushIf(more, \/ Len(more.parts) >= BATCH_MAX_ITEMS
                           \/ more.bytes >= BATCH_FLUSH_BYTES
                           \/ now >= Deadline(more))

\* flush_due and flush.
FlushDue(b, now) == FlushIf(b, now >= Deadline(b))
Flush(b)         == FlushIf(b, TRUE)

-----------------------------------------------------------------------------
(* Frames.  A body is compressed when it is long enough and that saves at  *)
(* least one part in twenty; compressed is the length zstd gives it.       *)

\* encode.
Encode(batch, compressed) ==
    LET zstd == batch.size >= COMPRESS_MIN_BYTES /\ 100 * compressed <= 95 * batch.size
        len  == 2 + IF zstd THEN compressed ELSE batch.size
    IN  IF len > MAX_FRAME THEN [ok |-> FALSE]
        ELSE [ok |-> TRUE, fmt |-> 1, zstd |-> zstd, batch |-> Len(batch.parts) # 1,
              reserved |-> FALSE, len |-> len, raw |-> batch.size, body |-> batch.parts]

\* inflate's ceiling.
Budget(len) == Max({MIN_INFLATE_BUDGET, Min({len * MAX_INFLATE_RATIO, MAX_INFLATED})})

\* decode: whether a frame is refused; raw is the length it has uncompressed.
Refused(frame) ==
    \/ frame.len > MAX_FRAME
    \/ frame.len < 2 \/ frame.fmt # 1 \/ frame.reserved
    \/ frame.zstd /\ frame.raw > Budget(frame.len - 2)
=============================================================================
