----------------------------- MODULE MCDelivery -----------------------------
(***************************************************************************)
(* Delivery for TLC: a venue whose list loses an instrument, halts one,    *)
(* and has one that cannot be read.                                        *)
(***************************************************************************)
EXTENDS Delivery

Info(name, tick, status) ==
    [name |-> name, tick |-> tick, step |-> 2, minQty |-> 2, notional |-> None,
     status |-> status, contractStatus |-> None]

Topics_(kind, symbols) == {[kind |-> kind, symbol |-> s] : s \in symbols}
MCRequests == {Topics_("Books", {1, 2}), Topics_("Trades", {3})}
MCNewer == { [channel |-> "NEWER", kind |-> "Trades", ver |-> 0],
             [channel |-> "BOOK", kind |-> "BookDelta", ver |-> 1],
             [channel |-> "BOOK", kind |-> "BookDeltas", ver |-> 0] }
MCLists == { <<Info(3, 3, "TRADING"), Info(1, 2, "TRADING")>>,
             <<Info(2, None, "TRADING"), Info(1, 2, "BREAK"), Info(3, 3, "TRADING")>>,
             <<Info(3, 3, "TRADING"), Info(2, 0, "TRADING")>> }
MCSizes  == {1, 3}

\* An order brought to an instrument's grids never exceeds what was meant, is never refused
\* for being off a grid, and is the same after it is scaled and unscaled (instrument.rs,
\* scaled.rs).
ASSUME OrdersFit ==
    \A infos \in MCLists, price \in 0..7, qty \in 0..4 :
        \A inst \in Range(Instruments(infos)) :
            LET p == ToGrid(price, inst.tick)
                q == ToGrid(qty, inst.step)
            IN  /\ p <= price /\ q <= qty
                /\ Check(inst, p, q) \notin {"QtyOffStep", "PriceOffTick"}
                /\ inst.tick # 0 => /\ Scalable(p, inst.tick)
                                    /\ Unscale(Scale(p, inst.tick), inst.tick) = p
=============================================================================
