------------------------------- MODULE MCLink -------------------------------
(***************************************************************************)
(* Link for TLC: the account, whose events can be replayed, and the book,  *)
(* whose cannot.                                                           *)
(***************************************************************************)
EXTENDS Link

CONSTANTS account, book

MCChannel      == {account, book}
MCResumable    == {account}
MCRingCapacity == [c \in MCChannel |-> IF c = account THEN 2 ELSE 0]
=============================================================================
