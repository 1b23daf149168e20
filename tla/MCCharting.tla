----------------------------- MODULE MCCharting -----------------------------
(***************************************************************************)
(* Charting for TLC: a few prints at two instants, cut into bars by time   *)
(* or by number, and two books to draw beside them.                   *)
(***************************************************************************)
EXTENDS Charting

Size(price, qty, side) == [price |-> price, qty |-> qty, side |-> side]

MCSizes == <<Size(100, 1, "Buy"), Size(103, 2, "Sell"), Size(101, 1, "Buy")>>

MCBucketings == {[kind |-> "Time", size |-> 2], [kind |-> "Ticks", size |-> 2]}

Level(price, qty) == [price |-> price, qty |-> qty]

MCBooks == {[bids |-> <<>>, asks |-> <<Level(102, 3)>>],
            [bids |-> <<Level(99, 2), Level(97, 1)>>, asks |-> <<Level(102, 3), Level(110, 1)>>]}
=============================================================================
