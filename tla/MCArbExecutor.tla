--------------------------- MODULE MCArbExecutor ---------------------------
(* Two real pools and three V4 pools over three tokens.                   *)
EXTENDS ArbExecutor

CONSTANTS U, T

MCPools ==
  {[kind |-> "pair", c0 |-> WETH, c1 |-> U],
   [kind |-> "cl", c0 |-> WETH, c1 |-> U],
   [kind |-> "v4", c0 |-> Native, c1 |-> U],
   [kind |-> "v4", c0 |-> WETH, c1 |-> T],
   [kind |-> "v4", c0 |-> U, c1 |-> T]}

=============================================================================
