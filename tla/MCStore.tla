------------------------------ MODULE MCStore ------------------------------
(***************************************************************************)
(* Two callers for Store; the first write of one of them has a statement   *)
(* that always fails.                                                      *)
(***************************************************************************)
EXTENDS Store

CONSTANTS c1, c2

MCCaller == {c1, c2}
MCBad    == {<<c1, 1>>}
=============================================================================
