--------------------------- MODULE MCRateLimiting ---------------------------
(* Rules of the four sorts the chain tells apart.  guard has the least     *)
(* order and short-circuits, as the clearing link does; account and plan   *)
(* are scoped and share an order.                                          *)
EXTENDS RateLimiting

MCRule ==
  [guard   |-> [order |-> 0, shortCircuit |-> TRUE, scoped |-> FALSE,
                index |-> 1, policy |-> Global, kind |-> "bucket",
                actions |-> {"skip", "allow", "deny"}],
   default |-> [order |-> 9, shortCircuit |-> FALSE, scoped |-> FALSE,
                index |-> 2, policy |-> Global, kind |-> "concurrency",
                actions |-> {"limit", "deny"}],
   account |-> [order |-> 1, shortCircuit |-> FALSE, scoped |-> TRUE,
                index |-> 3, policy |-> "strict", kind |-> "bucket",
                actions |-> {"limit", "limitAndStop"}],
   plan    |-> [order |-> 1, shortCircuit |-> TRUE, scoped |-> TRUE,
                index |-> 4, policy |-> Global, kind |-> "concurrency",
                actions |-> {"skip", "limit"}]]

MCRules == DOMAIN MCRule

=============================================================================
