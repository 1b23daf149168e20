---------------------------- MODULE MCOperations ----------------------------
(***************************************************************************)
(* Operations for TLC: one terminal, one market, files that are right,     *)
(* unsafe, or for another token.                                           *)
(***************************************************************************)
EXTENDS Operations

Btc(upper) == <<[letters |-> "BTC", upper |-> upper]>>
Found(bind, token, markets, tls) ==
    [state |-> "found",
     settings |-> [bind |-> bind, metricsBind |-> None, token |-> token, markets |-> markets,
                   tickers |-> Btc(FALSE), tls |-> tls]]
Files_ == [cert |-> "cert", key |-> "key"]

In(path, file) == [path |-> path, file |-> file]
Malformed == [state |-> "malformed", settings |-> FileDefault]

MCSettings ==
    {In("config.toml", Found(None, "good", <<"spot">>, None)),
     In("config.toml", Found(None, "other", <<"spot">>, None)),
     In("config.toml", Found("public", None, <<"spot">>, None)),
     In("other.toml", Found("public", "good", <<"spot">>, Files_)),
     In("other.toml", Found("public", "good", <<"inverse_perp">>, Files_)),
     In("other.toml", Malformed)}

Argument(kind, value) == [kind |-> kind, value |-> value]
MCArguments ==
    {<<Argument("ticker", Btc(TRUE)[1])>>, <<Argument("--config", "other.toml")>>,
     <<Argument("--", None)>>}
MCEnvironments ==
    {[config |-> None, token |-> None, bind |-> None, metricsBind |-> None],
     [config |-> None, token |-> "other", bind |-> "malformed", metricsBind |-> "loopback"]}

MCAsks == {{[kind |-> "Trades", ticker |-> "BTC"]},
           {[kind |-> "Candles", ticker |-> "BTC", interval |-> 7]},
           {[kind |-> "Candles", ticker |-> "BTC", interval |-> 60]}}
MCWatching == Watched(<<"BTC">>, <<"spot", "linear_perp">>)
=============================================================================
