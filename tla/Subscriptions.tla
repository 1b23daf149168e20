--------------------------- MODULE Subscriptions ----------------------------
(***************************************************************************)
(* What a session asked for (crates/wire/src/subscription.rs), and the     *)
(* short ids its frames carry (crates/domain/src/registry.rs).             *)
(*                                                                         *)
(* A subscription has a kind and a symbol.  A registry is the sequence of  *)
(* the symbols it has issued ids to, under the epoch of one core.          *)
(***************************************************************************)
EXTENDS Naturals, Sequences, FiniteSets, Functions

NoSubscriptions == [active |-> {}, pending |-> {}]

SymbolsOf(subs) == {sub.symbol : sub \in subs}

\* SymbolRegistry::intern, of every symbol of a request, in some order: one that has an id
\* keeps it, the others get the next ones, and no id is taken back.
Interned(registry, symbols) ==
    LET new == symbols \ Range(registry)
    IN  {registry \o ids : ids \in Bijection(1..Cardinality(new), new)}
IdOf(registry, symbol)    == CHOOSE id \in DOMAIN registry : registry[id] = symbol

\* SymbolRegistry::resolve: an id is only good under the epoch it was issued in.
Resolve(registry, epoch, id, issued) ==
    CASE issued # epoch -> [is |-> "foreign epoch"]
      [] issued = epoch /\ id \in DOMAIN registry -> [is |-> "symbol", symbol |-> registry[id]]
      [] OTHER -> [is |-> "unknown"]

\* Subscriptions::subscribe, of the requests whose instrument is tradable: what is already
\* active is not announced again, and `replace' ends what is not asked for.
Subscribed(subs, requested, tradable, replace) ==
    LET kept == IF replace THEN [active  |-> subs.active \cap requested,
                                 pending |-> subs.pending \cap requested]
                ELSE subs
    IN  [kept EXCEPT !.pending = @ \cup (tradable \ kept.active)]

\* activate.
Activated(subs) == [active |-> subs.active \cup subs.pending, pending |-> {}]

\* unsubscribe.
Unsubscribed(subs, requested) ==
    [active |-> subs.active \ requested, pending |-> subs.pending \ (requested \ subs.active)]

\* A mutant: what is pending is wanted too.
WantsEarly(subs, symbol) == symbol \in SymbolsOf(subs.active \cup subs.pending)

\* wants, of an event of one instrument.
Wants(subs, symbol) == symbol \in SymbolsOf(subs.active)
=============================================================================
