--------------------------- MODULE ExecutorLedger ---------------------------
(***************************************************************************)
(* What the executor contract promises of its balances: a route it was     *)
(* sent either changes nothing or raises the balance of its anchor by the  *)
(* profit asked for, spending no token the contract held idle.             *)
(***************************************************************************)
EXTENDS Naturals

CONSTANTS Tokens, Anchors, MinProfit

VARIABLE held   \* the contract's balance of each token

Init == held \in [Tokens -> Nat]

Trade(anchor) ==
  /\ held' \in [Tokens -> Nat]
  /\ \A t \in Tokens : held'[t] >= held[t]
  /\ held'[anchor] >= held[anchor] + MinProfit

Withdraw(t) ==
  /\ held' \in [Tokens -> Nat]
  /\ held'[t] <= held[t]
  /\ \A u \in Tokens \ {t} : held'[u] = held[u]

Next == (\E a \in Anchors : Trade(a)) \/ (\E t \in Tokens : Withdraw(t))

Spec == Init /\ [][Next]_held

=============================================================================
