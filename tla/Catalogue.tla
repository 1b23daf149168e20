----------------------------- MODULE Catalogue ------------------------------
(***************************************************************************)
(* A market's instruments: how they are read from what the venue says      *)
(* (crates/binance/src/wire.rs), what their grids mean for an order        *)
(* (crates/domain/src/instrument.rs, scaled.rs), and how the list is       *)
(* replaced and paged (crates/wire/src/catalogue.rs).                      *)
(*                                                                         *)
(* Prices and quantities are whole numbers of a unit finer than any grid;  *)
(* a grid or a minimum of 0 is none.  A name is a number.                  *)
(***************************************************************************)
EXTENDS Integers, Sequences, SequencesExt, FiniteSets, FiniteSetsExt

CONSTANTS None, INSTRUMENTS_PAGE

ASSUME CatalogueAssumption == INSTRUMENTS_PAGE \in Nat \ {0}

-----------------------------------------------------------------------------
(* The venue's answer.  A filter that is missing is None.                  *)

\* SymbolInfo::into_domain, of one that has the filters an instrument needs.
Instrument(info) ==
    [name |-> info.name, tick |-> info.tick, step |-> info.step, minQty |-> info.minQty,
     minNotional |-> IF info.notional = None THEN 0 ELSE info.notional,
     trading |-> (IF info.status # None THEN info.status ELSE info.contractStatus) = "TRADING"]

\* Binance::instruments: one that cannot be read does not cost the list.  Each is at the
\* place the venue named it.
Instruments(infos) ==
    [i \in {k \in DOMAIN infos : infos[k].tick # None /\ infos[k].step # None} |->
       Instrument(infos[i])]

-----------------------------------------------------------------------------
(* The grids.                                                              *)

\* round_to_grid, toward zero.
ToGrid(value, grid) == IF grid = 0 THEN value ELSE (value \div grid) * grid

\* Instrument::check: the first reason for which an order would be refused.
Check(inst, price, qty) ==
    CASE ~inst.trading -> "NotTrading"
      [] inst.trading /\ qty < inst.minQty -> "QtyBelowMin"
      [] OTHER ->
           IF inst.step # 0 /\ qty % inst.step # 0 THEN "QtyOffStep"
           ELSE IF inst.tick # 0 /\ price % inst.tick # 0 THEN "PriceOffTick"
           ELSE IF inst.minNotional # 0 /\ price * qty < inst.minNotional THEN "NotionalBelowMin"
           ELSE "ok"

\* scale and unscale: a value off the grid is refused rather than rounded.
Scalable(value, increment) == increment # 0 /\ value % increment = 0
Scale(value, increment)    == value \div increment
Unscale(scaled, increment) == scaled * increment

-----------------------------------------------------------------------------
(* The list, sorted by name.                                               *)

Names(list) == {list[i].name : i \in DOMAIN list}
Named(list, name) == list[CHOOSE i \in DOMAIN list : list[i].name = name]

\* same_terms.
SameTerms(a, b) == a = b

\* The n-th of some names.
Nth(names, n) == CHOOSE name \in names : Cardinality({other \in names : other <= name}) = n

\* Catalogue::replace: sorted, and the first of those with one name; the revision moves when
\* something was added, removed or altered.
Listed(incoming) ==
    LET first(name) == incoming[Min({i \in DOMAIN incoming : incoming[i].name = name})]
    IN  [n \in 1..Cardinality(Names(incoming)) |-> first(Nth(Names(incoming), n))]

Replace(catalogue, incoming) ==
    LET now     == Listed(incoming)
        changed == \/ Names(now) # Names(catalogue.list)
                   \/ \E name \in Names(now) \cap Names(catalogue.list) :
                        ~SameTerms(Named(catalogue.list, name), Named(now, name))
    IN  [list |-> now, rev |-> IF changed THEN catalogue.rev + 1 ELSE catalogue.rev]

\* A mutant: the cursor is an offset.
StartAtOffset(list, cursor) == IF cursor = None THEN 0 ELSE Min({cursor, Len(list)})

\* How many instruments precede a page: it starts strictly after the cursor, a name.
Start(list, cursor) ==
    IF cursor = None THEN 0 ELSE Cardinality({i \in DOMAIN list : list[i].name <= cursor})

\* Catalogue::page.
Page(catalogue, cursor) ==
    LET list  == catalogue.list
        start == Start(list, cursor)
        end   == Min({start + INSTRUMENTS_PAGE, Len(list)})
        items == SubSeq(list, start + 1, end)
    IN  [items |-> items, rev |-> catalogue.rev,
         cursor |-> IF end < Len(list) THEN Last(items).name ELSE None]

\* is_tradable.
IsTradable(catalogue, name) ==
    \E i \in DOMAIN catalogue.list : catalogue.list[i].name = name /\ catalogue.list[i].trading
=============================================================================
