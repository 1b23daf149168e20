------------------------------ MODULE MCLedger ------------------------------
(***************************************************************************)
(* Ledger for TLC: a fresh start, or a file an earlier life left with bars *)
(* past their horizon; times are days.                                     *)
(***************************************************************************)
EXTENDS Ledger

MCPolicy == [minute |-> 2, fiveMinute |-> 1, hourly |-> 9, audit |-> 3]

MCDays == <<0, 2, 4>>

Deal(id, closedAt, realized) ==
    [id |-> id, core |-> 1, phase |-> "closed", closedAt |-> closedAt, realized |-> realized]

MCDeals == {Deal(1, 1, 5), Deal(2, 2, -3), Deal(3, Null, 4)}

Bar(tf, openTime) == [tf |-> tf, openTime |-> openTime]

MCBars == {Bar(60000, 10)}

OldFile ==
    [ApplyMigration(EmptyFile, 1) EXCEPT
        !.candles = {Bar(60000, t) : t \in {4, 5, 6, 8}} \cup {Bar(300000, 8), Bar(3600000, 4)},
        !.audit = {[id |-> 1, at |-> 2]}, !.records = 1,
        !.deals = {Deal(0, 0, 1), Deal(9, 4, 2)}]

NewerFile == ApplyMigration(EmptyFile, 2)

MCLeft == {None, OldFile, NewerFile}
=============================================================================
