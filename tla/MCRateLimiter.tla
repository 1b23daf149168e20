--------------------------- MODULE MCRateLimiter ---------------------------
(***************************************************************************)
(* RateLimiter for TLC: a spot venue, a light request, a heavy one, an     *)
(* order and an amend (which spot does not offer), and small budgets.      *)
(***************************************************************************)
EXTENDS RateLimiter

Request(weight) == [kind |-> "Request", weight |-> weight, needs |-> {"CANDLE_HISTORY"}]

MCCalls ==
    {Request(1), Request(2), Request(4),
     [kind |-> "Order", weight |-> 1, needs |-> {"LIMIT"}],
     [kind |-> "Order", weight |-> 1, needs |-> {"AMEND_IN_PLACE"}]}

MCLimit == [b \in Range(Budgets) |->
              CASE b = "weight" -> 4 [] b = "orders_10s" -> 1 [] b = "orders_1m" -> 2
                [] b = "orders_1d" -> 3]
MCSpan  == [b \in Range(Budgets) |->
              CASE b = "orders_10s" -> 2 [] b = "orders_1d" -> 4 [] OTHER -> 3]
=============================================================================
