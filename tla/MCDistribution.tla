-------------------------- MODULE MCDistribution ---------------------------
(***************************************************************************)
(* A small venue for Distribution: as in MCBookSync every number rewrites  *)
(* one of two levels.  The venue's numbers go on from one connection to    *)
(* the next, as DistributionProofs assumes (NumbersGoOn).                  *)
(***************************************************************************)
EXTENDS Distribution

MCLevel == {1, 2}
MCQty   == 0..(2 * (MaxFeedId + 1))

LastWrite(l, n) ==
    LET writes == {m \in 1..n : m % 2 = l % 2}
    IN  IF writes = {} THEN 0 ELSE CHOOSE m \in writes : \A k \in writes : k <= m

MCVenueBook(e, n) ==
    [l \in MCLevel |->
        IF LastWrite(l, n) = 0 THEN 0 ELSE LastWrite(l, n) + (e % 2) * (MaxFeedId + 1)]

MCGoingOn(e) == IF e = 1 THEN 1..3 ELSE 4..MaxFeedId
=============================================================================
