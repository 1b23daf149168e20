------------------------------ MODULE Startup ------------------------------
(***************************************************************************)
(* What a core starts from, and a terminal: arguments, the environment and *)
(* a file (crates/core/src/config.rs), the venue's endpoints and streams   *)
(* (crates/binance), the certificate and its key (crates/core/src/tls.rs), *)
(* the pins a terminal trusts and the key it keeps (crates/wire/src/pin.rs *)
(* and keystore.rs).                                                       *)
(*                                                                         *)
(* An address is loopback or public, a token one of a few, a ticker its    *)
(* letters and their case, a file its state and what it says; what is      *)
(* refused is the reason, None when it is not.                             *)
(***************************************************************************)
EXTENDS Naturals, Sequences, SequencesExt, FiniteSets, FiniteSetsExt

CONSTANTS
    None,           \* no value
    Supported       \* candle intervals the venue publishes

DEFAULT_BIND        == "loopback"
DEFAULT_CONFIG_PATH == "config.toml"

Or(value, default) == IF value # None THEN value ELSE default

\* Why something may be refused.
Reasons == {"--config needs a path", "unknown flag", "cannot be parsed", "cannot be read",
    "no token", "token is too short", "not an address", "no tickers", "not valid",
    "no markets", "refusing to serve without TLS", "certificate not found",
    "private key not found", "cannot read certificate", "no CERTIFICATE block",
    "cannot read private key", "no PRIVATE KEY block", "not a usable pair",
    "NotFound", "WrongFormat", "WrongLength", "CannotDecrypt"}

\* The first of a list of checks <<fails, why>> that fails.
FirstFailing(checks) ==
    LET failing == {i \in DOMAIN checks : checks[i][1]}
    IN  IF failing = {} THEN None ELSE checks[Min(failing)][2]

-----------------------------------------------------------------------------
(* Configuration.                                                          *)

\* split_args. An argument is a ticker, --config with what follows it (None at the end of
\* the line), or another flag; the last --config counts.
SplitArgs(args) ==
    LET named   == SelectSeq(args, LAMBDA a : a.kind = "--config")
        tickers == SelectSeq(args, LAMBDA a : a.kind = "ticker")
    IN  [refused |-> FirstFailing(<<
             <<\E i \in DOMAIN named : named[i].value = None, "--config needs a path">>,
             <<\E i \in DOMAIN args : args[i].kind = "--", "unknown flag">> >>),
         path    |-> IF named = <<>> THEN None ELSE Last(named).value,
         tickers |-> [i \in DOMAIN tickers |-> tickers[i].value]]

\* FileConfig::default.
FileDefault == [bind |-> None, metricsBind |-> None, token |-> None, markets |-> None,
                tickers |-> None, tls |-> None]
NoFile      == [state |-> "missing", settings |-> FileDefault]

\* load_file. `files' maps a path to its state, "found" when it can be read and parsed, and
\* its settings; a path that is not of a file is missing, and what somebody named must be
\* there.
LoadFile(explicit, env, files) ==
    LET path     == Or(explicit, Or(env.config, DEFAULT_CONFIG_PATH))
        required == explicit # None \/ env.config # None
        file     == IF path \in DOMAIN files THEN files[path] ELSE NoFile
    IN  [refused |-> FirstFailing(<<
             <<file.state = "malformed", "cannot be parsed">>,
             <<file.state = "missing" /\ required, "cannot be read">> >>),
         settings |-> IF file.state = "found" THEN file.settings ELSE FileDefault]

\* Tickers are upper-cased.
Uppercased(tickers) == [i \in DOMAIN tickers |-> tickers[i].letters]

\* Config::assemble, up to its checks: file, then environment, then defaults, but tickers
\* from the command line first.
Settled(file, env, given) ==
    [bind        |-> Or(file.bind, Or(env.bind, DEFAULT_BIND)),
     metricsBind |-> Or(file.metricsBind, env.metricsBind),
     token       |-> Or(file.token, env.token),
     markets     |-> Or(file.markets, <<"spot", "linear_perp">>),
     tickers     |-> Uppercased(IF given # <<>> THEN given
                                ELSE Or(file.tickers, <<[letters |-> "BTCUSDT", upper |-> TRUE]>>)),
     tls         |-> file.tls]

\* Mutant: a public address is served whatever is set.
ValidateAnywhere(config, pems) ==
    FirstFailing(<< <<config.markets = <<>>, "no markets">> >>)

\* Config::validate. `pems' maps a path to what is in that file.
Validate(config, pems) ==
    LET absent(path) == ~pems[path].found
    IN  FirstFailing(<<
            <<config.markets = <<>>, "no markets">>,
            <<config.bind # "loopback" /\ config.tls = None, "refusing to serve without TLS">>,
            <<config.tls # None /\ absent(config.tls.cert), "certificate not found">>,
            <<config.tls # None /\ absent(config.tls.key), "private key not found">> >>)

\* The checks of Config::assemble, in their order; parse_env_addr reads the environment only
\* where the file leaves an address open.
Assemble(file, env, given, pems) ==
    LET config == Settled(file, env, given)
    IN  [refused |-> FirstFailing(<<
             <<config.token = None, "no token">>,
             <<config.token = "short", "token is too short">>,
             <<config.bind = "malformed", "not an address">>,
             <<config.metricsBind = "malformed", "not an address">>,
             <<config.tickers = <<>>, "no tickers">>,
             <<Validate(config, pems) # None, "not valid">> >>),
         config |-> config]

\* Config::load.
Load(args, env, files, pems) ==
    LET split == SplitArgs(args)
        read  == LoadFile(split.path, env, files)
        made  == Assemble(read.settings, env, split.tickers, pems)
    IN  [refused |-> Or(split.refused, Or(read.refused, made.refused)), config |-> made.config]

-----------------------------------------------------------------------------
(* The venue.                                                              *)

\* Endpoints::for_market: the venue's host, None for a market that is not implemented.
EndpointsFor(market) ==
    CASE market = "spot"         -> "api.binance.com"
      [] market = "linear_perp"  -> "fapi.binance.com"
      [] market = "inverse_perp" -> None

\* interval_name and stream_name: refused for an interval the venue does not publish.
HasName(sub) == sub.kind = "Candles" => sub.interval \in Supported

StreamName(sub) ==
    CASE sub.kind = "Trades"  -> <<sub.ticker, "aggTrade">>
      [] sub.kind = "Book"    -> <<sub.ticker, "depth@100ms">>
      [] sub.kind = "Candles" -> <<sub.ticker, "kline", sub.interval>>

\* What a core subscribes to on each of its markets.
Wanted(config) ==
    UNION {{[kind |-> "Trades", ticker |-> t], [kind |-> "Book", ticker |-> t]} :
             t \in ToSet(config.tickers)}

-----------------------------------------------------------------------------
(* The certificate.                                                        *)

Blocks(pem, kind)     == {i \in DOMAIN pem.blocks : pem.blocks[i].kind = kind}
FirstBlock(pem, kind) == pem.blocks[Min(Blocks(pem, kind))]

\* load_certs, load_key, and with_single_cert: the first certificate and the first key must
\* be of one pair.
Acceptor(tls, pems) ==
    LET certs == Blocks(pems[tls.cert], "CERTIFICATE")
        keys  == Blocks(pems[tls.key], "PRIVATE KEY")
        cert  == FirstBlock(pems[tls.cert], "CERTIFICATE")
        why   == FirstFailing(<<
                       <<~pems[tls.cert].found, "cannot read certificate">>,
                       <<certs = {}, "no CERTIFICATE block">>,
                       <<~pems[tls.key].found, "cannot read private key">>,
                       <<keys = {}, "no PRIVATE KEY block">>,
                       <<certs # {} /\ keys # {} /\
                         cert.key # FirstBlock(pems[tls.key], "PRIVATE KEY").key,
                         "not a usable pair">> >>)
    IN  [refused |-> why, cert |-> IF why = None THEN cert ELSE None]

\* SpkiPin::of_certificate: a pin names the public key, whichever certificate carries it.
PinOf(cert) == cert.key

\* PinnedVerifier::verify_server_cert.
VerifyServerCert(accepted, cert) == PinOf(cert) \in accepted

-----------------------------------------------------------------------------
(* The key a terminal keeps.  A file is how much of it is written, in      *)
(* thirds, and the key and passphrase it was sealed with.                  *)

MAGIC_LEN == 1      \* of the file's length; cut anywhere in it, a file has no magic
FULL_LEN  == 3

\* EncryptedFile::new.
Opens(passphrase) == passphrase # "empty"

\* write_private up to its first byte: what was there is gone.
Sealed(key, passphrase) == [length |-> 0, key |-> key, passphrase |-> passphrase]

\* Mutant: what is too short to be a key is no key.
LoadKeyOrNone(file, passphrase) ==
    LET why == IF file = None THEN "NotFound"
               ELSE FirstFailing(<<
                        <<file.length < FULL_LEN, "NotFound">>,
                        <<file.passphrase # passphrase, "CannotDecrypt">> >>)
    IN  [refused |-> why, key |-> IF why = None THEN file.key ELSE None]

\* EncryptedFile::load.
LoadKey(file, passphrase) ==
    LET why == IF file = None THEN "NotFound"
               ELSE FirstFailing(<<
                        <<file.length < MAGIC_LEN, "WrongFormat">>,
                        <<file.length # FULL_LEN, "WrongLength">>,
                        <<file.passphrase # passphrase, "CannotDecrypt">> >>)
    IN  [refused |-> why, key |-> IF why = None THEN file.key ELSE None]
=============================================================================
