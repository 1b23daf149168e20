------------------------------ MODULE BookFeed ------------------------------
(***************************************************************************)
(* What the connector promises to whoever consumes its book events, and    *)
(* nothing of how: within a connection the first book event is a whole     *)
(* book, an update is published only on top of the number published last,  *)
(* and every whole book is newer than what was published before it.        *)
(* BookSync implements it; Distribution relies on no more than this.       *)
(***************************************************************************)
EXTENDS Naturals

CONSTANT MaxFeedId       \* bounds the venue's numbers
ASSUME BookFeedAssumption == MaxFeedId \in Nat

VARIABLES session,       \* which connection this is
          live,          \* a book is being kept and published
          position       \* the number last published on this connection, or Nowhere

feedVars == <<session, live, position>>

Nowhere == 0

FeedTypeOK ==
    /\ session \in Nat
    /\ live \in BOOLEAN
    /\ position \in 0..MaxFeedId

FeedInit == session = 1 /\ live = FALSE /\ position = Nowhere

\* A book has been built or rebuilt and is published whole.
PublishBook(n) ==
    /\ ~live
    /\ position < n
    /\ live' = TRUE
    /\ position' = n
    /\ UNCHANGED session

\* An update that chains onto the number published last.
PublishDelta(n) ==
    /\ live
    /\ position < n
    /\ position' = n
    /\ UNCHANGED <<session, live>>

\* The book is being rebuilt: a gap, or a late snapshot put in its place.
LoseSync ==
    /\ live
    /\ live' = FALSE
    /\ UNCHANGED <<session, position>>

\* A new connection, on which nothing has been published.
Renew ==
    /\ ~live
    /\ session' = session + 1
    /\ position' = Nowhere
    /\ UNCHANGED live

FeedNext ==
    \/ \E n \in 1..MaxFeedId : PublishBook(n) \/ PublishDelta(n)
    \/ LoseSync
    \/ Renew

FeedSpec == FeedInit /\ [][FeedNext]_feedVars
=============================================================================
