----------------------------- MODULE MCBookSync -----------------------------
(***************************************************************************)
(* A small venue for BookSync: every number rewrites or drops one of two   *)
(* levels, differently in each connection, so that a book merged from two  *)
(* moments or two connections is seen.                                     *)
(***************************************************************************)
EXTENDS BookSync

\* Number n writes level 1 when n is odd and level 2 when it is even; every fourth
\* number drops the level. Quantity 0 is Absent.
MCLevel == {1, 2}
MCQty   == 0..(2 * (MaxId + 1))

LastWrite(l, n) ==
    LET writes == {m \in 1..n : m % 2 = l % 2}
    IN  IF writes = {} THEN 0 ELSE CHOOSE m \in writes : \A k \in writes : k <= m

MCVenueBook(e, n) ==
    [l \in MCLevel |->
        IF LastWrite(l, n) % 4 = 0 THEN 0 ELSE LastWrite(l, n) + (e % 2) * (MaxId + 1)]
=============================================================================
