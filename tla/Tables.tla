------------------------------- MODULE Tables -------------------------------
(***************************************************************************)
(* Tables: functions from the keys a map holds to its entries.             *)
(***************************************************************************)

\* An entry is put in, or replaced.
Put(table, key, entry) ==
    [k \in DOMAIN table \cup {key} |-> IF k = key THEN entry ELSE table[k]]

\* Some entries are taken out.
Drop(table, keys) == [k \in DOMAIN table \ keys |-> table[k]]

EmptyTable == [k \in {} |-> k]
=============================================================================
