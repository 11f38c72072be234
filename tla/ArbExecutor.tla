----------------------------- MODULE ArbExecutor -----------------------------
(***************************************************************************)
(* The executor contract (contracts/src/ArbExecutor.sol) and the calldata  *)
(* it is sent (src/src/executor/encoder.rs).  A route is encoded against   *)
(* the balance the bot has cached, waits for its block, and is then        *)
(* executed as one transaction, hop by hop; the calls that pools and the   *)
(* pool manager make back into the contract are steps of their own.        *)
(*                                                                         *)
(* A pool has two raw currencies.  Routes see Native as WETH; only a V4    *)
(* pool may have it.  What a swap yields is chosen: the model has no       *)
(* prices.                                                                 *)
(***************************************************************************)
EXTENDS Integers, Sequences, FiniteSets

CONSTANTS
  Tokens,          \* the ERC-20 tokens
  WETH,
  Native,          \* address(0)
  Anchors,         \* the tokens a route may start from
  Pools,           \* [kind, c0, c1]: "pair" (0, 1), "cl" (2, 4) or "v4" (3)
  MaxHops,
  ForceFlashloan,  \* use_flashloan of the configuration
  MinProfit,       \* min_profit, 0 in the code
  Nobody,          \* expectedCaller: address(0)
  MaxIn,           \* bound: amount a route starts with
  MaxOut,          \* bound: output of a swap
  MaxIdle,         \* bound: balances at the start
  MaxTxs           \* bound: transactions

Currencies == Tokens \cup {Native}

\* The token a route sees for a currency.
Norm(c) == IF c = Native THEN WETH ELSE c

\* A native ETH/WETH pool is never listed (discovery.rs).
ASSUME ArbExecutorAssumption ==
  /\ WETH \in Tokens /\ Anchors \subseteq Tokens
  /\ Native \notin Tokens
  /\ \A p \in Pools :
       /\ p \in [kind : {"pair", "cl", "v4"}, c0 : Currencies, c1 : Currencies]
       /\ Norm(p.c0) # Norm(p.c1)
       /\ p.kind # "v4" => Native \notin {p.c0, p.c1}
  /\ Nobody \notin Pools
  /\ ForceFlashloan \in BOOLEAN
  /\ MinProfit \in Nat /\ MaxHops \in Nat /\ MaxIn \in Nat
  /\ MaxOut \in Nat /\ MaxIdle \in Nat /\ MaxTxs \in Nat

VARIABLES
  bal,             \* the contract's balance of each token
  own,             \* the bot's cached balances of the anchors
  sent,            \* transactions encoded and not yet executed
  txs,             \* bound only
  pc,              \* "idle", "hops", "cl", "unlocked"
  tx,              \* the transaction being executed
  saved,           \* bal before it
  start,           \* its `start`
  amount,          \* amount so far
  i,               \* hop to run next, or first of the segment
  k, j,            \* swap of the segment to run next, and the segment's end
  segIn,           \* amount the segment started with
  delta,           \* the pool manager's account of the contract
  fill,            \* what the cl pool has asked for and sent
  expectedCaller, inFlight, inV4,  \* the transient guards
  partial,         \* history: a pool took less than it was offered
  outcome          \* history: how the last transaction ended

vars == <<bal, own, sent, txs, pc, tx, saved, start, amount, i, k, j, segIn, delta,
          fill, expectedCaller, inFlight, inV4, partial, outcome>>

-----------------------------------------------------------------------------
(* Routes and their encoding.                                              *)

Hop == [pool : Pools, zeroForOne : BOOLEAN]

\* The tokens of a hop as the route sees them: order is that of the currencies.
TokenIn(h) == Norm(IF h.zeroForOne THEN h.pool.c0 ELSE h.pool.c1)
TokenOut(h) == Norm(IF h.zeroForOne THEN h.pool.c1 ELSE h.pool.c0)

\* RouteGraph finds cycles without a pool twice.
IsRoute(hops, anchor) ==
  /\ TokenIn(hops[1]) = anchor
  /\ TokenOut(hops[Len(hops)]) = anchor
  /\ \A n \in 1..(Len(hops) - 1) : TokenOut(hops[n]) = TokenIn(hops[n + 1])
  /\ \A m, n \in 1..Len(hops) : m # n => hops[m].pool # hops[n].pool

Routes ==
  [a \in Anchors |->
     {hops \in UNION {[1..n -> Hop] : n \in 2..MaxHops} : IsRoute(hops, a)}]

V4Hops(hops) == {n \in DOMAIN hops : hops[n].pool.kind = "v4"}

\* mutant: every V4 hop gets the first key
KeyIndex_First(hops, n) == 1

\* The index of hop n's key: the last one pushed (counted from 1 here).
KeyIndex(hops, n) == Cardinality({m \in V4Hops(hops) : m <= n})

V4KeyOf(pool) == [c0 |-> pool.c0, c1 |-> pool.c1]

V4Keys(hops) ==
  [x \in 1..Cardinality(V4Hops(hops)) |->
     LET n == CHOOSE m \in V4Hops(hops) : Cardinality({l \in V4Hops(hops) : l <= m}) = x
     IN  V4KeyOf(hops[n].pool)]

UseFlashloan(anchor, amountIn) == ForceFlashloan \/ amountIn > own[anchor]

\* A V4 hop has the index of its key for a fee, and no pool address.
Encoded(hops, anchor, amountIn, useFlashloan) ==
  [hops |-> [n \in DOMAIN hops |->
               [kind |-> hops[n].pool.kind,
                pool |-> IF hops[n].pool.kind = "v4" THEN Nobody ELSE hops[n].pool,
                zeroForOne |-> hops[n].zeroForOne,
                feeBps |-> KeyIndex(hops, n)]],
   v4Keys |-> V4Keys(hops),
   anchor |-> anchor,
   amountIn |-> amountIn,
   useFlashloan |-> useFlashloan]

-----------------------------------------------------------------------------
NoFill == [paid |-> 0, got |-> 0]
NoTx == [hops |-> << >>, v4Keys |-> << >>, anchor |-> WETH, amountIn |-> 0,
         useFlashloan |-> FALSE]
Settled == [c \in Currencies |-> 0]

Init ==
  /\ bal \in [Tokens -> 0..MaxIdle]
  /\ own = [a \in Anchors |-> bal[a]]
  /\ sent = << >>
  /\ txs = 0
  /\ pc = "idle"
  /\ tx = NoTx
  /\ saved = bal
  /\ start = 0
  /\ amount = 0
  /\ i = 1 /\ k = 1 /\ j = 1
  /\ segIn = 0
  /\ delta = Settled
  /\ fill = NoFill
  /\ expectedCaller = Nobody /\ inFlight = FALSE /\ inV4 = FALSE
  /\ partial = FALSE
  /\ outcome = "none"

execution == <<pc, tx, saved, start, amount, i, k, j, segIn, delta, fill,
               expectedCaller, inFlight, inV4, partial, outcome>>

\* The sender encodes an opportunity.
Send(anchor, hops, n) ==
  /\ pc = "idle"
  /\ txs < MaxTxs
  /\ txs' = txs + 1
  /\ sent' = Append(sent, Encoded(hops, anchor, n, UseFlashloan(anchor, n)))
  /\ UNCHANGED <<bal, own, execution>>

\* The sender's balance refresh (Sender).
Refresh(a) ==
  /\ pc = "idle"
  /\ own' = [own EXCEPT ![a] = bal[a]]
  /\ UNCHANGED <<bal, sent, txs, execution>>

\* withdraw, by the owner.
Withdraw(t) ==
  /\ pc = "idle"
  /\ bal[t] > 0
  /\ bal' = [bal EXCEPT ![t] = @ - 1]
  /\ saved' = bal'
  /\ UNCHANGED <<own, sent, txs, pc, tx, start, amount, i, k, j, segIn, delta, fill,
                 expectedCaller, inFlight, inV4, partial, outcome>>

-----------------------------------------------------------------------------
(* The contract.                                                           *)

Ended(how) ==
  /\ pc' = "idle"
  /\ outcome' = how
  /\ tx' = NoTx
  /\ saved' = bal'
  /\ start' = 0 /\ amount' = 0 /\ i' = 1 /\ k' = 1 /\ j' = 1 /\ segIn' = 0
  /\ delta' = Settled
  /\ fill' = NoFill
  /\ partial' = FALSE
  /\ UNCHANGED <<own, sent, txs>>

\* A revert undoes all of the transaction, transient storage included.
Revert(why) ==
  /\ bal' = saved
  /\ Ended(why)
  /\ expectedCaller' = Nobody /\ inFlight' = FALSE /\ inV4' = FALSE

\* executeArb, and with a flash loan Morpho's transfer and onMorphoFlashLoan.
Execute ==
  /\ pc = "idle"
  /\ sent # << >>
  /\ sent' = Tail(sent)
  /\ LET t == Head(sent)
         a == t.anchor
     IN  /\ tx' = t
         /\ inFlight' = t.useFlashloan
         /\ bal' = IF t.useFlashloan THEN [bal EXCEPT ![a] = @ + t.amountIn] ELSE bal
         /\ start' = bal'[a]
         /\ amount' = t.amountIn
  /\ pc' = "hops"
  /\ UNCHANGED <<own, txs, saved, i, k, j, segIn, delta, fill, expectedCaller, inV4,
                 partial, outcome>>

\* Where hop n's currencies are read: _v4InCurrency and _v4OutCurrency look at
\* its key, the other hops ask the pool.
KeyOf(t, n) == IF t.hops[n].kind = "v4" THEN t.v4Keys[t.hops[n].feeBps] ELSE t.hops[n].pool

CurrencyIn(t, n) == IF t.hops[n].zeroForOne THEN KeyOf(t, n).c0 ELSE KeyOf(t, n).c1
CurrencyOut(t, n) == IF t.hops[n].zeroForOne THEN KeyOf(t, n).c1 ELSE KeyOf(t, n).c0

AtHop(kind) == pc = "hops" /\ i <= Len(tx.hops) /\ tx.hops[i].kind = kind

\* _swapV2 and _swapAero: the input is transferred, the output computed.
PairSwap(out) ==
  /\ AtHop("pair")
  /\ amount > 0
  /\ LET tin == CurrencyIn(tx, i)
         tout == CurrencyOut(tx, i)
     IN  IF bal[tin] < amount THEN Revert("funds")
         ELSE /\ bal' = [bal EXCEPT ![tin] = @ - amount, ![tout] = @ + out]
              /\ amount' = out
              /\ i' = i + 1
              /\ UNCHANGED <<own, sent, txs, pc, tx, saved, start, k, j, segIn, delta, fill,
                             expectedCaller, inFlight, inV4, partial, outcome>>

\* _swapV3 up to the callback: the pool sends its output first.
ClSwap(paid, out) ==
  /\ AtHop("cl")
  /\ expectedCaller' = tx.hops[i].pool
  /\ bal' = [bal EXCEPT ![CurrencyOut(tx, i)] = @ + out]
  /\ fill' = [paid |-> paid, got |-> out]
  /\ partial' = (partial \/ paid < amount)
  /\ pc' = "cl"
  /\ UNCHANGED <<own, sent, txs, tx, saved, start, amount, i, k, j, segIn, delta,
                 inFlight, inV4, outcome>>

\* uniswapV3SwapCallback and its two twins, and the rest of _swapV3.
ClCallback ==
  /\ pc = "cl"
  /\ LET tin == CurrencyIn(tx, i)
     IN  IF expectedCaller # tx.hops[i].pool THEN Revert("callback")
         ELSE IF bal[tin] < fill.paid THEN Revert("funds")
         ELSE /\ bal' = [bal EXCEPT ![tin] = @ - fill.paid]
              /\ amount' = fill.got
              /\ i' = i + 1
              /\ fill' = NoFill
              /\ expectedCaller' = Nobody
              /\ pc' = "hops"
              /\ UNCHANGED <<own, sent, txs, tx, saved, start, k, j, segIn, delta,
                             inFlight, inV4, partial, outcome>>

\* mutant: adjacent V4 hops share an unlock whatever joins them
Joined_Always(n) == tx.hops[n].kind = "v4"

\* Hop n goes on where hop n - 1 ends, in the raw currency.
Joined(n) ==
  /\ tx.hops[n].kind = "v4"
  /\ CurrencyOut(tx, n - 1) = CurrencyIn(tx, n)

\* e is the end of the maximal run of V4 hops from i.
IsSegmentEnd(e) ==
  /\ \A n \in (i + 1)..(e - 1) : Joined(n)
  /\ e <= Len(tx.hops) => ~Joined(e)

\* _runV4Segment up to the callback of unlock.
Unlock ==
  /\ AtHop("v4")
  /\ k' = i
  /\ \E e \in (i + 1)..(Len(tx.hops) + 1) : IsSegmentEnd(e) /\ j' = e
  /\ segIn' = amount
  /\ inV4' = TRUE
  /\ pc' = "unlocked"
  /\ UNCHANGED <<bal, own, sent, txs, tx, saved, start, amount, i, delta, fill,
                 expectedCaller, inFlight, partial, outcome>>

HasV4Pool(key) ==
  \E p \in Pools : p.kind = "v4" /\ p.c0 = key.c0 /\ p.c1 = key.c1

\* A swap of unlockCallback: it moves the manager's account only.
V4Swap(paid, out) ==
  /\ pc = "unlocked"
  /\ k < j
  /\ IF ~HasV4Pool(KeyOf(tx, k)) THEN Revert("no pool")
     ELSE /\ delta' = [delta EXCEPT ![CurrencyIn(tx, k)] = @ - paid,
                                   ![CurrencyOut(tx, k)] = @ + out]
          /\ amount' = out
          /\ partial' = (partial \/ paid < amount)
          /\ k' = k + 1
          /\ UNCHANGED <<bal, own, sent, txs, pc, tx, saved, start, i, j, segIn, fill,
                         expectedCaller, inFlight, inV4, outcome>>

\* The rest of unlockCallback: the input is settled, unwrapped if it is native,
\* and the output taken, and wrapped.  The manager then wants its account even.
V4Settle ==
  /\ pc = "unlocked"
  /\ k = j
  /\ LET cin == CurrencyIn(tx, i)
         cout == CurrencyOut(tx, j - 1)
         paid == [bal EXCEPT ![Norm(cin)] = @ - segIn]
         owes == [delta EXCEPT ![cin] = @ + segIn]
     IN  IF bal[Norm(cin)] < segIn THEN Revert("funds")
         ELSE IF [owes EXCEPT ![cout] = @ - amount] # Settled THEN Revert("unsettled")
         ELSE /\ bal' = [paid EXCEPT ![Norm(cout)] = @ + amount]
              /\ delta' = Settled
              /\ inV4' = FALSE
              /\ i' = j
              /\ k' = 1 /\ j' = 1 /\ segIn' = 0
              /\ pc' = "hops"
              /\ UNCHANGED <<own, sent, txs, tx, saved, start, amount, fill,
                             expectedCaller, inFlight, partial, outcome>>

\* A pool or a token refuses, or a V4 swap yields nothing.
PoolFails ==
  /\ \/ pc = "hops" /\ i <= Len(tx.hops)
     \/ pc = "unlocked" /\ k < j
  /\ Revert("pool")

\* mutant: with a loan the balance is compared with the repayment
Bar_Absolute == (IF inFlight THEN tx.amountIn ELSE start) + MinProfit

Bar == start + MinProfit

\* The check at the end, in either mode; Morpho then takes the loan back.
Finish ==
  /\ pc = "hops"
  /\ i > Len(tx.hops)
  /\ IF bal[tx.anchor] < Bar THEN Revert("profit")
     ELSE /\ bal' = IF inFlight THEN [bal EXCEPT ![tx.anchor] = @ - tx.amountIn] ELSE bal
          /\ Ended("done")
          /\ inFlight' = FALSE
          /\ UNCHANGED <<expectedCaller, inV4>>

Next ==
  \/ \E a \in Anchors, n \in 1..MaxIn : \E hops \in Routes[a] : Send(a, hops, n)
  \/ \E a \in Anchors : Refresh(a)
  \/ \E t \in Tokens : Withdraw(t)
  \/ Execute
  \/ \E out \in 1..MaxOut : PairSwap(out)
  \/ \E paid \in 1..amount, out \in 0..MaxOut : ClSwap(paid, out)
  \/ \E paid \in 1..amount, out \in 1..MaxOut : V4Swap(paid, out)
  \/ ClCallback \/ Unlock \/ V4Settle \/ PoolFails \/ Finish

Spec == Init /\ [][Next]_vars

-----------------------------------------------------------------------------
(* Properties.                                                             *)

TypeOK ==
  /\ bal \in [Tokens -> Nat]
  /\ saved \in [Tokens -> Nat]
  /\ own \in [Anchors -> Nat]
  /\ pc \in {"idle", "hops", "cl", "unlocked"}
  /\ start \in Nat /\ amount \in Nat /\ segIn \in Nat
  /\ i \in 1..(MaxHops + 1) /\ k \in 1..(MaxHops + 1) /\ j \in 1..(MaxHops + 1)
  /\ delta \in [Currencies -> Int]
  /\ fill \in [paid : Nat, got : Nat]
  /\ expectedCaller \in Pools \cup {Nobody}
  /\ inFlight \in BOOLEAN /\ inV4 \in BOOLEAN /\ partial \in BOOLEAN

\* "the contract's delta check still refuses any fill that loses principal"
\* (encoder.rs:67-68): whatever pools answer, however the balances moved since the
\* route was encoded, and though idle funds could cover a loss, a transaction
\* reverts without a trace or raises its anchor by the profit asked for, repays
\* the loan and spends no token that was there before.
Ledger == INSTANCE ExecutorLedger WITH held <- IF pc = "idle" THEN bal ELSE saved

KeepsLedger == Ledger!Spec

Ends == pc # "idle" /\ pc' = "idle"

\* When every pool took what it was offered, only the anchor has changed: no
\* token of the way is left in the contract (ArbExecutorV4.t.sol:107, 167).
NothingLeftBehind ==
  [][Ends /\ outcome' = "done" /\ ~partial =>
       \A t \in Tokens \ {tx.anchor} : bal'[t] = saved[t]]_vars

\* The contract never reverts for its own book-keeping: keys, segments, wraps
\* and guards fit each other on every route (ArbExecutor.sol:251-272, 356-404).
\* Without a refusal of a pool or of the profit check, a V4 pool was not filled,
\* or the cached balance that ruled out a loan was too high.
RevertHasCause ==
  [][Ends =>
       \/ outcome' \in {"done", "profit", "pool"}
       \/ outcome' = "unsettled" /\ partial
       \/ outcome' = "funds" /\ ~tx.useFlashloan /\ saved[tx.anchor] < tx.amountIn]_vars

\* A guard is open exactly during the call it is for (ArbExecutor.sol:130-133).
GuardsFollowCalls ==
  /\ expectedCaller # Nobody <=> pc = "cl"
  /\ inV4 <=> pc = "unlocked"
  /\ inFlight <=> pc # "idle" /\ tx.useFlashloan

=============================================================================
