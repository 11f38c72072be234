------------------------- MODULE ArbExecutorProofs -------------------------
(***************************************************************************)
(* Proofs about ArbExecutor: each hop finds its own key in the calldata,   *)
(* the balances keep their types, the contract keeps its ledger, and a     *)
(* transaction that reverts has a cause outside its book-keeping.          *)
(***************************************************************************)
EXTENDS ArbExecutor, FiniteSetTheorems, TLAPS

-----------------------------------------------------------------------------
(* The encoder.                                                            *)

\* A V4 hop's index points at the key of its own pool.
LEMMA KeyFits ==
  ASSUME NEW len \in Nat, NEW hops \in [1..len -> Hop], NEW n \in V4Hops(hops)
  PROVE  /\ KeyIndex(hops, n) \in 1..Cardinality(V4Hops(hops))
         /\ V4Keys(hops)[KeyIndex(hops, n)] = V4KeyOf(hops[n].pool)
<1> DEFINE V == V4Hops(hops)
           Upto(m) == {l \in V : l <= m}
<1>1. V \subseteq 1..len /\ IsFiniteSet(V)
  <2>1. V \subseteq 1..len
    BY DEF V4Hops
  <2> QED
    BY <2>1, FS_Interval, FS_Subset, SMTT(20)
<1>2. ASSUME NEW m \in V
      PROVE  /\ IsFiniteSet(Upto(m))
             /\ Cardinality(Upto(m)) \in 1..Cardinality(V)
  <2>1. Upto(m) \subseteq V /\ m \in Upto(m)
    BY <1>1
  <2>2. IsFiniteSet(Upto(m)) /\ Cardinality(Upto(m)) <= Cardinality(V)
    BY <2>1, <1>1, FS_Subset
  <2>3. Cardinality(Upto(m)) \in Nat /\ Cardinality(V) \in Nat
    BY <2>2, <1>1, FS_CardinalityType
  <2>4. Cardinality(Upto(m)) # 0
    BY <2>1, <2>2, FS_EmptySet
  <2> QED
    BY <2>2, <2>3, <2>4
<1>3. ASSUME NEW m \in V, NEW q \in V, m < q
      PROVE  Cardinality(Upto(m)) # Cardinality(Upto(q))
  <2>1. Upto(m) \subseteq Upto(q) /\ q \in Upto(q) /\ q \notin Upto(m)
    BY <1>1, <1>3
  <2> QED
    BY <2>1, <1>2, FS_Subset
<1>4. ASSUME NEW m \in V, NEW q \in V, Cardinality(Upto(m)) = Cardinality(Upto(q))
      PROVE  m = q
  <2>1. ~(m < q) /\ ~(q < m)
    BY <1>3, <1>4
  <2>2. m \in 1..len /\ q \in 1..len
    BY <1>1
  <2> QED
    BY <2>1, <2>2
<1> DEFINE x == Cardinality(Upto(n))
           c == CHOOSE m \in V : Cardinality(Upto(m)) = x
<1>5. c = n
  BY <1>4
<1>6. x = KeyIndex(hops, n) /\ x \in 1..Cardinality(V)
  BY <1>2 DEF KeyIndex
<1>7. V4Keys(hops)[x] = V4KeyOf(hops[c].pool)
  BY <1>6 DEF V4Keys
<1> QED
  BY <1>5, <1>6, <1>7

LEMMA NormType ==
  /\ \A c \in Currencies : Norm(c) \in Tokens
  /\ \A c \in Tokens : Norm(c) = c
BY ArbExecutorAssumption DEF Norm, Currencies

\* What the sender may send.
AllRoutes == UNION {Routes[a] : a \in Anchors}
GoodTx == {Encoded(h, TokenIn(h[1]), n, f) : h \in AllRoutes, n \in Nat, f \in BOOLEAN}

\* A transaction's hops lead from its anchor back to it.
ClosesCycle(t) ==
  /\ Len(t.hops) \in 1..MaxHops
  /\ \A n \in 1..Len(t.hops) :
       /\ CurrencyIn(t, n) \in Currencies
       /\ CurrencyOut(t, n) \in Currencies
       /\ t.hops[n].kind # "v4" =>
            /\ t.hops[n].pool \in Pools
            /\ CurrencyIn(t, n) \in Tokens /\ CurrencyOut(t, n) \in Tokens
       /\ t.hops[n].kind = "v4" => HasV4Pool(KeyOf(t, n))
       /\ Norm(CurrencyIn(t, n)) # Norm(CurrencyOut(t, n))
  /\ Norm(CurrencyIn(t, 1)) = t.anchor
  /\ Norm(CurrencyOut(t, Len(t.hops))) = t.anchor
  /\ \A n \in 1..(Len(t.hops) - 1) :
       Norm(CurrencyOut(t, n)) = Norm(CurrencyIn(t, n + 1))

LEMMA SendsGood ==
  ASSUME NEW a \in Anchors, NEW h \in Routes[a], NEW n \in Nat, NEW f \in BOOLEAN
  PROVE  Encoded(h, a, n, f) \in GoodTx
<1>1. TokenIn(h[1]) = a
  BY DEF Routes, IsRoute
<1>2. h \in AllRoutes
  BY DEF AllRoutes
<1> QED
  BY <1>1, <1>2 DEF GoodTx

\* What the encoder makes of a route follows that route.
LEMMA GoodCloses ==
  ASSUME NEW t \in GoodTx
  PROVE  /\ ClosesCycle(t)
         /\ t.anchor \in Anchors /\ t.amountIn \in Nat /\ t.useFlashloan \in BOOLEAN
<1>1. PICK h \in AllRoutes, n \in Nat, f \in BOOLEAN : t = Encoded(h, TokenIn(h[1]), n, f)
  BY DEF GoodTx
<1>1a. PICK a \in Anchors : h \in Routes[a]
  BY DEF AllRoutes
<1>2. IsRoute(h, a)
  BY <1>1a DEF Routes
<1>3. PICK len \in 2..MaxHops : h \in [1..len -> Hop]
  BY <1>1a DEF Routes
<1>4. len \in Nat /\ len \in 1..MaxHops /\ h \in Seq(Hop) /\ Len(h) = len
  BY <1>3, ArbExecutorAssumption
<1>5. /\ t.anchor = a /\ t.amountIn = n /\ t.useFlashloan = f
      /\ t.v4Keys = V4Keys(h)
      /\ t.hops = [m \in 1..len |-> [kind |-> h[m].pool.kind,
                                    pool |-> IF h[m].pool.kind = "v4" THEN Nobody
                                             ELSE h[m].pool,
                                    zeroForOne |-> h[m].zeroForOne,
                                    feeBps |-> KeyIndex(h, m)]]
  BY <1>1, <1>2, <1>3 DEF Encoded, IsRoute
<1>6. Len(t.hops) = len
  BY <1>4, <1>5
<1>7. ASSUME NEW m \in 1..len
      PROVE  /\ h[m] \in Hop
             /\ t.hops[m].kind = h[m].pool.kind
             /\ t.hops[m].kind # "v4" => t.hops[m].pool = h[m].pool
             /\ t.hops[m].kind = "v4" => HasV4Pool(KeyOf(t, m))
             /\ CurrencyIn(t, m) = IF h[m].zeroForOne THEN h[m].pool.c0 ELSE h[m].pool.c1
             /\ CurrencyOut(t, m) = IF h[m].zeroForOne THEN h[m].pool.c1 ELSE h[m].pool.c0
  <2>1. /\ t.hops[m].kind = h[m].pool.kind
        /\ t.hops[m].kind # "v4" => t.hops[m].pool = h[m].pool
        /\ t.hops[m].zeroForOne = h[m].zeroForOne
        /\ t.hops[m].feeBps = KeyIndex(h, m)
    BY <1>5
  <2>2. h[m] \in Hop
    BY <1>3
  <2>3. KeyOf(t, m).c0 = h[m].pool.c0 /\ KeyOf(t, m).c1 = h[m].pool.c1
    <3>1. CASE h[m].pool.kind = "v4"
      <4>1. m \in V4Hops(h)
        BY <1>3, <3>1 DEF V4Hops
      <4>2. V4Keys(h)[KeyIndex(h, m)] = V4KeyOf(h[m].pool)
        BY <4>1, <1>3, <1>4, KeyFits
      <4>3. KeyOf(t, m) = V4KeyOf(h[m].pool)
        BY <3>1, <4>2, <2>1, <1>5 DEF KeyOf
      <4> QED
        BY <4>3 DEF V4KeyOf
    <3>2. CASE h[m].pool.kind # "v4"
      BY <3>2, <2>1 DEF KeyOf
    <3> QED
      BY <3>1, <3>2
  <2>4. t.hops[m].kind = "v4" => HasV4Pool(KeyOf(t, m))
    BY <2>1, <2>2, <2>3 DEF HasV4Pool, Hop
  <2> QED
    BY <2>1, <2>2, <2>3, <2>4 DEF CurrencyIn, CurrencyOut
<1>8. ASSUME NEW m \in 1..len
      PROVE  /\ CurrencyIn(t, m) \in Currencies /\ CurrencyOut(t, m) \in Currencies
             /\ t.hops[m].kind # "v4" =>
                  /\ t.hops[m].pool \in Pools
                  /\ CurrencyIn(t, m) \in Tokens /\ CurrencyOut(t, m) \in Tokens
             /\ Norm(CurrencyIn(t, m)) # Norm(CurrencyOut(t, m))
             /\ Norm(CurrencyIn(t, m)) = TokenIn(h[m])
             /\ Norm(CurrencyOut(t, m)) = TokenOut(h[m])
  <2>1. h[m].pool \in Pools /\ h[m].zeroForOne \in BOOLEAN
    BY <1>7 DEF Hop
  <2>2. /\ h[m].pool.c0 \in Currencies /\ h[m].pool.c1 \in Currencies
        /\ Norm(h[m].pool.c0) # Norm(h[m].pool.c1)
        /\ h[m].pool.kind # "v4" => h[m].pool.c0 \in Tokens /\ h[m].pool.c1 \in Tokens
    BY <2>1, ArbExecutorAssumption DEF Currencies
  <2> QED
    BY <1>7, <2>1, <2>2 DEF TokenIn, TokenOut
<1>9. \A m \in 1..(len - 1) : Norm(CurrencyOut(t, m)) = Norm(CurrencyIn(t, m + 1))
  <2>1. \A m \in 1..(len - 1) : TokenOut(h[m]) = TokenIn(h[m + 1])
    BY <1>2, <1>4 DEF IsRoute
  <2>2. \A m \in 1..(len - 1) : m \in 1..len /\ m + 1 \in 1..len
    BY <1>4
  <2> QED
    BY <2>1, <2>2, <1>8
<1>10. Norm(CurrencyIn(t, 1)) = a /\ Norm(CurrencyOut(t, len)) = a
  <2>1. TokenIn(h[1]) = a /\ TokenOut(h[len]) = a
    BY <1>2, <1>4 DEF IsRoute
  <2>2. 1 \in 1..len /\ len \in 1..len
    BY <1>4
  <2> QED
    BY <2>1, <2>2, <1>8
<1> QED
  BY <1>4, <1>5, <1>6, <1>7, <1>8, <1>9, <1>10 DEF ClosesCycle

-----------------------------------------------------------------------------
(* The invariant.                                                          *)

\* What the contract holds of token t, beyond what it had before.
Claim(t) ==
  IF pc = "cl"
    THEN (IF t = Norm(CurrencyIn(tx, i)) THEN amount ELSE 0)
           + (IF t = Norm(CurrencyOut(tx, i)) THEN fill.got ELSE 0)
  ELSE IF i <= Len(tx.hops) /\ t = Norm(CurrencyIn(tx, i))
    THEN (IF pc = "unlocked" THEN segIn ELSE amount)
  ELSE 0

\* The tokens of the way are where the next hop looks for them.
Accounted ==
  pc # "idle" =>
    \A t \in Tokens \ {tx.anchor} :
      /\ bal[t] >= saved[t] + Claim(t)
      /\ ~partial => bal[t] = saved[t] + Claim(t)

Control ==
  /\ sent \in Seq(GoodTx)
  /\ pc = "idle" => saved = bal /\ i = 1 /\ ~partial /\ ~inFlight
  /\ pc # "idle" =>
       /\ tx \in GoodTx
       /\ i \in 1..(Len(tx.hops) + 1)
       /\ inFlight = tx.useFlashloan
       /\ start = saved[tx.anchor] + (IF tx.useFlashloan THEN tx.amountIn ELSE 0)
  /\ pc = "cl" =>
       /\ i <= Len(tx.hops) /\ tx.hops[i].kind = "cl"
       /\ fill.paid <= amount
       /\ ~partial => fill.paid = amount
  /\ pc = "unlocked" =>
       /\ i <= Len(tx.hops)
       /\ j \in (i + 1)..(Len(tx.hops) + 1)
       /\ k \in i..j

LedgerInv == TypeOK /\ Control /\ Accounted

LEMMA TxFacts ==
  ASSUME Control, pc # "idle"
  PROVE  /\ ClosesCycle(tx) /\ Len(tx.hops) \in Nat /\ Len(tx.hops) <= MaxHops
         /\ tx.anchor \in Anchors /\ tx.anchor \in Tokens
         /\ tx.amountIn \in Nat /\ tx.useFlashloan \in BOOLEAN
         /\ \A n \in 1..Len(tx.hops) :
              /\ CurrencyIn(tx, n) \in Currencies /\ CurrencyOut(tx, n) \in Currencies
              /\ Norm(CurrencyIn(tx, n)) \in Tokens /\ Norm(CurrencyOut(tx, n)) \in Tokens
              /\ Norm(CurrencyIn(tx, n)) # Norm(CurrencyOut(tx, n))
              /\ tx.hops[n].kind # "v4" =>
                   /\ tx.hops[n].pool \in Pools
                   /\ CurrencyIn(tx, n) = Norm(CurrencyIn(tx, n))
                   /\ CurrencyOut(tx, n) = Norm(CurrencyOut(tx, n))
              /\ tx.hops[n].kind = "v4" => HasV4Pool(KeyOf(tx, n))
              /\ n < Len(tx.hops) =>
                   Norm(CurrencyOut(tx, n)) = Norm(CurrencyIn(tx, n + 1))
              /\ n = Len(tx.hops) => Norm(CurrencyOut(tx, n)) = tx.anchor
<1>1. tx \in GoodTx
  BY DEF Control
<1>2. ClosesCycle(tx)
  BY <1>1, GoodCloses
<1> QED
  BY <1>1, <1>2, GoodCloses, NormType, ArbExecutorAssumption DEF ClosesCycle

LEMMA RevertKeeps ==
  ASSUME LedgerInv, NEW why, Revert(why)
  PROVE  LedgerInv'
<1>1. TypeOK'
  <2>1. Settled \in [Currencies -> Int] /\ NoFill \in [paid : Nat, got : Nat]
    BY DEF Settled, NoFill
  <2>2. 1 \in 1..(MaxHops + 1)
    BY ArbExecutorAssumption
  <2>3. /\ bal' = saved /\ saved' = saved /\ pc' = "idle"
        /\ start' = 0 /\ amount' = 0 /\ segIn' = 0 /\ i' = 1 /\ k' = 1 /\ j' = 1
        /\ delta' = Settled /\ fill' = NoFill /\ partial' = FALSE
        /\ expectedCaller' = Nobody /\ inFlight' = FALSE /\ inV4' = FALSE
        /\ own' = own
    BY DEF Revert, Ended
  <2> QED
    BY <2>1, <2>2, <2>3 DEF LedgerInv, TypeOK
<1>2. Control'
  BY DEF LedgerInv, Control, Revert, Ended
<1>3. Accounted'
  BY DEF Accounted, Revert, Ended
<1> QED
  BY <1>1, <1>2, <1>3 DEF LedgerInv

LEMMA ExecuteKeeps ==
  ASSUME LedgerInv, Execute
  PROVE  LedgerInv'
<1> DEFINE t == Head(sent)
           a == t.anchor
<1>1. /\ t \in GoodTx /\ Tail(sent) \in Seq(GoodTx)
      /\ tx' = t /\ sent' = Tail(sent)
  BY DEF LedgerInv, Control, Execute
<1>2. /\ ClosesCycle(t) /\ a \in Anchors /\ a \in Tokens
      /\ t.amountIn \in Nat /\ t.useFlashloan \in BOOLEAN
  BY <1>1, GoodCloses, ArbExecutorAssumption
<1>3. /\ bal' = IF t.useFlashloan THEN [bal EXCEPT ![a] = @ + t.amountIn] ELSE bal
      /\ start' = bal'[a] /\ amount' = t.amountIn /\ inFlight' = t.useFlashloan
      /\ pc' = "hops" /\ i' = i
      /\ UNCHANGED <<own, txs, saved, i, k, j, segIn, delta, fill, expectedCaller, inV4,
                     partial, outcome>>
  BY DEF Execute
<1>4. pc = "idle" /\ saved = bal /\ i = 1 /\ ~partial
  BY DEF Execute, LedgerInv, Control
<1>5. bal \in [Tokens -> Nat]
  BY DEF LedgerInv, TypeOK
<1>6. /\ bal' \in [Tokens -> Nat]
      /\ bal'[a] = bal[a] + (IF t.useFlashloan THEN t.amountIn ELSE 0)
      /\ \A u \in Tokens \ {a} : bal'[u] = bal[u]
  BY <1>2, <1>3, <1>5
<1>7. TypeOK'
  BY <1>2, <1>3, <1>6 DEF LedgerInv, TypeOK
<1>8. Control'
  <2>1. 1 \in 1..(Len(t.hops) + 1)
    BY <1>2 DEF ClosesCycle
  <2> QED
    BY <1>1, <1>2, <1>3, <1>4, <1>6, <2>1 DEF Control
<1>9. Accounted'
  <2>1. Norm(CurrencyIn(t, 1)) = a
    BY <1>2 DEF ClosesCycle
  <2>2. \A u \in Tokens \ {a} : Claim(u)' = 0
    BY <1>1, <1>3, <1>4, <2>1 DEF Claim
  <2> QED
    BY <1>1, <1>3, <1>4, <1>5, <1>6, <2>2 DEF Accounted
<1> QED
  BY <1>7, <1>8, <1>9 DEF LedgerInv

\* Which token the next hop looks for.
LEMMA NextHop ==
  ASSUME Control, pc # "idle", NEW n \in 1..Len(tx.hops), NEW u \in Tokens \ {tx.anchor}
  PROVE  (n + 1 <= Len(tx.hops) /\ u = Norm(CurrencyIn(tx, n + 1)))
           <=> u = Norm(CurrencyOut(tx, n))
BY TxFacts

LEMMA PairSwapKeeps ==
  ASSUME LedgerInv, NEW out \in 1..MaxOut, PairSwap(out)
  PROVE  LedgerInv'
<1> DEFINE tin == CurrencyIn(tx, i)
           tout == CurrencyOut(tx, i)
<1>1. CASE bal[tin] < amount
  BY <1>1, RevertKeeps DEF PairSwap
<1>2. CASE ~(bal[tin] < amount)
  <2>1. /\ pc = "hops" /\ i <= Len(tx.hops) /\ tx.hops[i].kind = "pair"
        /\ bal' = [bal EXCEPT ![tin] = @ - amount, ![tout] = @ + out]
        /\ amount' = out /\ i' = i + 1
        /\ UNCHANGED <<own, sent, txs, pc, tx, saved, start, k, j, segIn, delta, fill,
                       expectedCaller, inFlight, inV4, partial, outcome>>
    BY <1>2 DEF PairSwap, AtHop
  <2>2. Control /\ Accounted /\ bal \in [Tokens -> Nat] /\ amount \in Nat
        /\ saved \in [Tokens -> Nat]
    BY DEF LedgerInv, TypeOK
  <2>3. i \in 1..Len(tx.hops) /\ Len(tx.hops) \in Nat /\ Len(tx.hops) <= MaxHops
    BY <2>1, <2>2, TxFacts DEF Control
  <2>4. /\ tin \in Tokens /\ tout \in Tokens /\ tin # tout
        /\ tin = Norm(tin) /\ tout = Norm(tout)
    BY <2>1, <2>2, <2>3, TxFacts
  <2>5. out \in Nat
    BY ArbExecutorAssumption
  <2>6. /\ bal' \in [Tokens -> Nat]
        /\ \A u \in Tokens :
             bal'[u] = IF u = tin THEN bal[u] - amount ELSE IF u = tout THEN bal[u] + out
                       ELSE bal[u]
    BY <1>2, <2>1, <2>2, <2>4, <2>5, SMTT(20)
  <2>7. TypeOK'
    <3>1. i' \in 1..(MaxHops + 1)
      BY <2>1, <2>3, ArbExecutorAssumption
    <3> QED
      BY <2>1, <2>5, <2>6, <3>1 DEF LedgerInv, TypeOK
  <2>8. Control'
    BY <2>1, <2>2, <2>3 DEF Control
  <2>9. Accounted'
    <3>1. SUFFICES ASSUME NEW u \in Tokens \ {tx.anchor}
                   PROVE  /\ bal'[u] >= saved[u] + Claim(u)'
                          /\ ~partial => bal'[u] = saved[u] + Claim(u)'
      BY <2>1 DEF Accounted
    <3>2. Claim(u) = IF u = tin THEN amount ELSE 0
      BY <2>1, <2>3, <2>4 DEF Claim
    <3>3. Claim(u)' = IF u = tout THEN out ELSE 0
      <4>1. (i + 1 <= Len(tx.hops) /\ u = Norm(CurrencyIn(tx, i + 1))) <=> u = Norm(tout)
        BY <2>1, <2>2, <2>3, NextHop
      <4> QED
        BY <4>1, <2>1, <2>4 DEF Claim
    <3>4. /\ bal[u] >= saved[u] + Claim(u)
          /\ ~partial => bal[u] = saved[u] + Claim(u)
      BY <2>1, <2>2 DEF Accounted
    <3>5. bal[u] \in Nat /\ saved[u] \in Nat
      BY <2>2
    <3> QED
      BY <2>2, <2>4, <2>5, <2>6, <3>2, <3>3, <3>4, <3>5
  <2> QED
    BY <2>7, <2>8, <2>9 DEF LedgerInv
<1> QED
  BY <1>1, <1>2

LEMMA ClSwapKeeps ==
  ASSUME LedgerInv, NEW paid \in 1..amount, NEW out \in 0..MaxOut, ClSwap(paid, out)
  PROVE  LedgerInv'
<1> DEFINE tin == CurrencyIn(tx, i)
           tout == CurrencyOut(tx, i)
<1>1. /\ pc = "hops" /\ i <= Len(tx.hops) /\ tx.hops[i].kind = "cl"
      /\ expectedCaller' = tx.hops[i].pool
      /\ bal' = [bal EXCEPT ![tout] = @ + out]
      /\ fill' = [paid |-> paid, got |-> out]
      /\ partial' = (partial \/ paid < amount)
      /\ pc' = "cl"
      /\ UNCHANGED <<own, sent, txs, tx, saved, start, amount, i, k, j, segIn, delta,
                     inFlight, inV4, outcome>>
  BY DEF ClSwap, AtHop
<1>2. /\ Control /\ Accounted /\ bal \in [Tokens -> Nat] /\ amount \in Nat
      /\ saved \in [Tokens -> Nat] /\ partial \in BOOLEAN
  BY DEF LedgerInv, TypeOK
<1>3. i \in 1..Len(tx.hops) /\ Len(tx.hops) \in Nat
  BY <1>1, <1>2, TxFacts DEF Control
<1>4. /\ tin \in Tokens /\ tout \in Tokens /\ tin # tout
      /\ tin = Norm(tin) /\ tout = Norm(tout)
      /\ tx.hops[i].pool \in Pools
  BY <1>1, <1>2, <1>3, TxFacts
<1>5. out \in Nat /\ paid \in Nat /\ paid <= amount
  BY <1>2, ArbExecutorAssumption
<1>6. /\ bal' \in [Tokens -> Nat]
      /\ \A u \in Tokens : bal'[u] = IF u = tout THEN bal[u] + out ELSE bal[u]
  BY <1>1, <1>2, <1>4, <1>5
<1>7. TypeOK'
  <2>1. fill' \in [paid : Nat, got : Nat] /\ partial' \in BOOLEAN
    BY <1>1, <1>2, <1>5
  <2> QED
    BY <1>1, <1>4, <1>6, <2>1 DEF LedgerInv, TypeOK
<1>8. Control'
  <2>1. fill'.paid = paid /\ amount' = amount
    BY <1>1
  <2>2. ~partial' => ~(paid < amount)
    BY <1>1
  <2>3. fill'.paid <= amount' /\ (~partial' => fill'.paid = amount')
    BY <1>2, <1>5, <2>1, <2>2
  <2> QED
    BY <1>1, <1>2, <2>3 DEF Control
<1>9. Accounted'
  <2>1. SUFFICES ASSUME NEW u \in Tokens \ {tx.anchor}
                 PROVE  /\ bal'[u] >= saved[u] + Claim(u)'
                        /\ ~partial' => bal'[u] = saved[u] + Claim(u)'
    BY <1>1 DEF Accounted
  <2>2. Claim(u) = IF u = tin THEN amount ELSE 0
    BY <1>1, <1>3, <1>4 DEF Claim
  <2>3. Claim(u)' = (IF u = tin THEN amount ELSE 0) + (IF u = tout THEN out ELSE 0)
    BY <1>1, <1>4 DEF Claim
  <2>4. /\ bal[u] >= saved[u] + Claim(u)
        /\ ~partial => bal[u] = saved[u] + Claim(u)
    BY <1>1, <1>2 DEF Accounted
  <2>5. bal[u] \in Nat /\ saved[u] \in Nat
    BY <1>2
  <2>6. ~partial' => ~partial
    BY <1>1
  <2> QED
    BY <1>2, <1>4, <1>5, <1>6, <2>2, <2>3, <2>4, <2>5, <2>6
<1> QED
  BY <1>7, <1>8, <1>9 DEF LedgerInv

LEMMA CallbackKeeps ==
  ASSUME LedgerInv, ClCallback
  PROVE  LedgerInv'
<1> DEFINE tin == CurrencyIn(tx, i)
           tout == CurrencyOut(tx, i)
<1>1. CASE expectedCaller # tx.hops[i].pool \/ bal[tin] < fill.paid
  BY <1>1, RevertKeeps DEF ClCallback
<1>2. CASE ~(expectedCaller # tx.hops[i].pool \/ bal[tin] < fill.paid)
  <2>1. /\ pc = "cl"
        /\ bal' = [bal EXCEPT ![tin] = @ - fill.paid]
        /\ amount' = fill.got /\ i' = i + 1 /\ fill' = NoFill
        /\ expectedCaller' = Nobody /\ pc' = "hops"
        /\ UNCHANGED <<own, sent, txs, tx, saved, start, k, j, segIn, delta,
                       inFlight, inV4, partial, outcome>>
    BY <1>2 DEF ClCallback
  <2>2. /\ Control /\ Accounted /\ bal \in [Tokens -> Nat] /\ amount \in Nat
        /\ saved \in [Tokens -> Nat] /\ fill.paid \in Nat /\ fill.got \in Nat
    BY DEF LedgerInv, TypeOK
  <2>3. i \in 1..Len(tx.hops) /\ Len(tx.hops) \in Nat /\ Len(tx.hops) <= MaxHops
    BY <2>1, <2>2, TxFacts DEF Control
  <2>4. tx.hops[i].kind = "cl"
    BY <2>1, <2>2 DEF Control
  <2>5. /\ tin \in Tokens /\ tout \in Tokens /\ tin # tout
        /\ tin = Norm(tin) /\ tout = Norm(tout)
    BY <2>1, <2>2, <2>3, <2>4, TxFacts
  <2>6. /\ bal' \in [Tokens -> Nat]
        /\ \A u \in Tokens : bal'[u] = IF u = tin THEN bal[u] - fill.paid ELSE bal[u]
    BY <1>2, <2>1, <2>2, <2>5
  <2>7. TypeOK'
    <3>1. i' \in 1..(MaxHops + 1)
      BY <2>1, <2>3, ArbExecutorAssumption
    <3>2. NoFill \in [paid : Nat, got : Nat]
      BY DEF NoFill
    <3> QED
      BY <2>1, <2>2, <2>6, <3>1, <3>2 DEF LedgerInv, TypeOK
  <2>8. Control'
    BY <2>1, <2>2, <2>3 DEF Control
  <2>9. Accounted'
    <3>1. SUFFICES ASSUME NEW u \in Tokens \ {tx.anchor}
                   PROVE  /\ bal'[u] >= saved[u] + Claim(u)'
                          /\ ~partial => bal'[u] = saved[u] + Claim(u)'
      BY <2>1 DEF Accounted
    <3>2. Claim(u) = (IF u = tin THEN amount ELSE 0) + (IF u = tout THEN fill.got ELSE 0)
      BY <2>1, <2>5 DEF Claim
    <3>3. Claim(u)' = IF u = tout THEN fill.got ELSE 0
      <4>1. (i + 1 <= Len(tx.hops) /\ u = Norm(CurrencyIn(tx, i + 1))) <=> u = Norm(tout)
        BY <2>1, <2>2, <2>3, NextHop
      <4> QED
        BY <4>1, <2>1, <2>5 DEF Claim
    <3>4. /\ bal[u] >= saved[u] + Claim(u)
          /\ ~partial => bal[u] = saved[u] + Claim(u)
      BY <2>1, <2>2 DEF Accounted
    <3>5. bal[u] \in Nat /\ saved[u] \in Nat
      BY <2>2
    <3>6. fill.paid <= amount /\ (~partial => fill.paid = amount)
      BY <2>1, <2>2 DEF Control
    <3> QED
      BY <2>2, <2>5, <2>6, <3>2, <3>3, <3>4, <3>5, <3>6
  <2> QED
    BY <2>7, <2>8, <2>9 DEF LedgerInv
<1> QED
  BY <1>1, <1>2

LEMMA UnlockKeeps ==
  ASSUME LedgerInv, Unlock
  PROVE  LedgerInv'
<1>1. /\ pc = "hops" /\ i <= Len(tx.hops) /\ pc' = "unlocked"
      /\ k' = i /\ segIn' = amount /\ inV4' = TRUE
      /\ j' \in (i + 1)..(Len(tx.hops) + 1)
      /\ UNCHANGED <<bal, own, sent, txs, tx, saved, start, amount, i, delta, fill,
                     expectedCaller, inFlight, partial, outcome>>
  BY DEF Unlock, AtHop
<1>2. Control /\ Accounted /\ amount \in Nat
  BY DEF LedgerInv, TypeOK
<1>3. i \in 1..Len(tx.hops) /\ Len(tx.hops) \in Nat /\ Len(tx.hops) <= MaxHops
  BY <1>1, <1>2, TxFacts DEF Control
<1>4. TypeOK'
  <2>1. j' \in 1..(MaxHops + 1) /\ k' \in 1..(MaxHops + 1)
    BY <1>1, <1>3, ArbExecutorAssumption
  <2> QED
    BY <1>1, <1>2, <2>1 DEF LedgerInv, TypeOK
<1>5. Control'
  <2>1. k' \in i..j'
    BY <1>1, <1>3
  <2> QED
    BY <1>1, <1>2, <2>1 DEF Control
<1>6. Accounted'
  BY <1>1, <1>2 DEF Accounted, Claim
<1> QED
  BY <1>4, <1>5, <1>6 DEF LedgerInv

LEMMA V4SwapKeeps ==
  ASSUME LedgerInv, NEW paid \in 1..amount, NEW out \in 1..MaxOut, V4Swap(paid, out)
  PROVE  LedgerInv'
<1>1. CASE ~HasV4Pool(KeyOf(tx, k))
  BY <1>1, RevertKeeps DEF V4Swap
<1>2. CASE HasV4Pool(KeyOf(tx, k))
  <2>1. /\ pc = "unlocked" /\ k < j
        /\ delta' = [delta EXCEPT ![CurrencyIn(tx, k)] = @ - paid,
                                 ![CurrencyOut(tx, k)] = @ + out]
        /\ amount' = out /\ partial' = (partial \/ paid < amount) /\ k' = k + 1
        /\ UNCHANGED <<bal, own, sent, txs, pc, tx, saved, start, i, j, segIn, fill,
                       expectedCaller, inFlight, inV4, outcome>>
    BY <1>2 DEF V4Swap
  <2>2. /\ Control /\ Accounted /\ amount \in Nat /\ partial \in BOOLEAN
        /\ delta \in [Currencies -> Int] /\ out \in Nat /\ paid \in Nat
    BY ArbExecutorAssumption DEF LedgerInv, TypeOK
  <2>3. /\ i \in 1..Len(tx.hops) /\ Len(tx.hops) \in Nat /\ Len(tx.hops) <= MaxHops
        /\ j \in (i + 1)..(Len(tx.hops) + 1) /\ k \in i..j
    BY <2>1, <2>2, TxFacts DEF Control
  <2>4. TypeOK'
    <3>1. k' \in 1..(MaxHops + 1)
      BY <2>1, <2>3, ArbExecutorAssumption
    <3>2. delta' \in [Currencies -> Int]
      <4>1. k \in 1..Len(tx.hops) /\ pc # "idle"
        BY <2>1, <2>3
      <4>2. CurrencyIn(tx, k) \in Currencies /\ CurrencyOut(tx, k) \in Currencies
        BY <2>2, <4>1, TxFacts
      <4> QED
        BY <2>1, <2>2, <4>2
    <3>3. partial' \in BOOLEAN
      BY <2>1
    <3> QED
      BY <2>1, <2>2, <3>1, <3>2, <3>3 DEF LedgerInv, TypeOK
  <2>5. Control'
    <3>1. k' \in i..j
      BY <2>1, <2>3
    <3> QED
      BY <2>1, <2>2, <3>1 DEF Control
  <2>6. Accounted'
    BY <2>1, <2>2 DEF Accounted, Claim
  <2> QED
    BY <2>4, <2>5, <2>6 DEF LedgerInv
<1> QED
  BY <1>1, <1>2

LEMMA SettleKeeps ==
  ASSUME LedgerInv, V4Settle
  PROVE  LedgerInv'
<1> DEFINE tin == Norm(CurrencyIn(tx, i))
           tout == Norm(CurrencyOut(tx, j - 1))
<1>1. CASE Revert("funds") \/ Revert("unsettled")
  BY <1>1, RevertKeeps
<1>2. CASE ~(Revert("funds") \/ Revert("unsettled"))
  <2>1. /\ pc = "unlocked" /\ ~(bal[tin] < segIn)
        /\ bal' = [[bal EXCEPT ![tin] = @ - segIn] EXCEPT ![tout] = @ + amount]
        /\ delta' = Settled /\ inV4' = FALSE /\ pc' = "hops"
        /\ i' = j /\ k' = 1 /\ j' = 1 /\ segIn' = 0
        /\ UNCHANGED <<own, sent, txs, tx, saved, start, amount, fill,
                       expectedCaller, inFlight, partial, outcome>>
    BY <1>2 DEF V4Settle
  <2>2. /\ Control /\ Accounted /\ bal \in [Tokens -> Nat] /\ amount \in Nat
        /\ saved \in [Tokens -> Nat] /\ segIn \in Nat
    BY DEF LedgerInv, TypeOK
  <2>3. /\ i \in 1..Len(tx.hops) /\ Len(tx.hops) \in Nat /\ Len(tx.hops) <= MaxHops
        /\ j \in (i + 1)..(Len(tx.hops) + 1)
    BY <2>1, <2>2, TxFacts DEF Control
  <2>4. j - 1 \in 1..Len(tx.hops) /\ (j - 1) + 1 = j /\ j \in 1..(Len(tx.hops) + 1)
    BY <2>3
  <2>5. tin \in Tokens /\ tout \in Tokens
    BY <2>1, <2>2, <2>3, <2>4, TxFacts
  <2>6. /\ bal' \in [Tokens -> Nat]
        /\ \A u \in Tokens :
             bal'[u] = bal[u] - (IF u = tin THEN segIn ELSE 0)
                              + (IF u = tout THEN amount ELSE 0)
    BY <2>1, <2>2, <2>5
  <2>7. TypeOK'
    <3>1. i' \in 1..(MaxHops + 1) /\ 1 \in 1..(MaxHops + 1)
      BY <2>1, <2>3, ArbExecutorAssumption
    <3>2. Settled \in [Currencies -> Int]
      BY DEF Settled
    <3> QED
      BY <2>1, <2>6, <3>1, <3>2 DEF LedgerInv, TypeOK
  <2>8. Control'
    BY <2>1, <2>2, <2>4 DEF Control
  <2>9. Accounted'
    <3>1. SUFFICES ASSUME NEW u \in Tokens \ {tx.anchor}
                   PROVE  /\ bal'[u] >= saved[u] + Claim(u)'
                          /\ ~partial => bal'[u] = saved[u] + Claim(u)'
      BY <2>1 DEF Accounted
    <3>2. Claim(u) = IF u = tin THEN segIn ELSE 0
      BY <2>1, <2>3 DEF Claim
    <3>3. Claim(u)' = IF u = tout THEN amount ELSE 0
      <4>1. (j <= Len(tx.hops) /\ u = Norm(CurrencyIn(tx, j))) <=> u = tout
        BY <2>1, <2>2, <2>4, NextHop
      <4> QED
        BY <4>1, <2>1 DEF Claim
    <3>4. /\ bal[u] >= saved[u] + Claim(u)
          /\ ~partial => bal[u] = saved[u] + Claim(u)
      BY <2>1, <2>2 DEF Accounted
    <3>5. bal[u] \in Nat /\ saved[u] \in Nat
      BY <2>2
    <3> QED
      BY <2>2, <2>6, <3>2, <3>3, <3>4, <3>5
  <2> QED
    BY <2>7, <2>8, <2>9 DEF LedgerInv
<1> QED
  BY <1>1, <1>2

\* A route that ends well: what the contract then holds.
LEMMA FinishFacts ==
  ASSUME LedgerInv, Finish, ~Revert("profit")
  PROVE  /\ pc = "hops" /\ pc' = "idle" /\ outcome' = "done" /\ tx.anchor \in Anchors
         /\ bal' \in [Tokens -> Nat]
         /\ bal'[tx.anchor] >= saved[tx.anchor] + MinProfit
         /\ \A u \in Tokens \ {tx.anchor} :
              bal'[u] >= saved[u] /\ (~partial => bal'[u] = saved[u])
<1> DEFINE a == tx.anchor
           lent == IF tx.useFlashloan THEN tx.amountIn ELSE 0
<1>1. /\ pc = "hops" /\ pc' = "idle" /\ outcome' = "done" /\ i > Len(tx.hops)
      /\ ~(bal[a] < start + MinProfit)
      /\ bal' = IF inFlight THEN [bal EXCEPT ![a] = @ - tx.amountIn] ELSE bal
  BY DEF Finish, Ended, Bar
<1>2. Control /\ Accounted /\ bal \in [Tokens -> Nat] /\ saved \in [Tokens -> Nat]
  BY DEF LedgerInv, TypeOK
<1>3. /\ a \in Anchors /\ a \in Tokens /\ tx.amountIn \in Nat /\ tx.useFlashloan \in BOOLEAN
      /\ Len(tx.hops) \in Nat
  BY <1>1, <1>2, TxFacts
<1>4. start = saved[a] + lent /\ inFlight = tx.useFlashloan
  BY <1>1, <1>2 DEF Control
<1>5. lent \in Nat /\ MinProfit \in Nat /\ bal[a] \in Nat /\ saved[a] \in Nat
  BY <1>2, <1>3, ArbExecutorAssumption
<1>6. bal[a] - lent >= saved[a] + MinProfit
  BY <1>1, <1>4, <1>5, SMTT(20)
<1>7. /\ bal' \in [Tokens -> Nat]
      /\ bal'[a] = bal[a] - lent
      /\ \A u \in Tokens \ {a} : bal'[u] = bal[u]
  BY <1>1, <1>2, <1>3, <1>4, <1>5, <1>6, SMTT(40)
<1>8. ASSUME NEW u \in Tokens \ {a}
      PROVE  bal'[u] >= saved[u] /\ (~partial => bal'[u] = saved[u])
  <2>1. i \in 1..(Len(tx.hops) + 1)
    BY <1>1, <1>2 DEF Control
  <2>2. Claim(u) = 0
    BY <1>1, <1>3, <2>1 DEF Claim
  <2>3. bal[u] \in Nat /\ saved[u] \in Nat
    BY <1>2
  <2>4. /\ bal[u] >= saved[u] + Claim(u)
        /\ ~partial => bal[u] = saved[u] + Claim(u)
    BY <1>1, <1>2 DEF Accounted
  <2> QED
    BY <1>7, <2>2, <2>3, <2>4
<1> QED
  BY <1>1, <1>3, <1>6, <1>7, <1>8

LEMMA FinishKeeps ==
  ASSUME LedgerInv, Finish
  PROVE  LedgerInv'
<1>1. CASE Revert("profit")
  BY <1>1, RevertKeeps
<1>2. CASE ~Revert("profit")
  <2>1. bal' \in [Tokens -> Nat] /\ pc' = "idle"
    BY <1>2, FinishFacts
  <2>2. /\ saved' = bal' /\ start' = 0 /\ amount' = 0 /\ segIn' = 0
        /\ i' = 1 /\ k' = 1 /\ j' = 1 /\ delta' = Settled /\ fill' = NoFill
        /\ partial' = FALSE /\ inFlight' = FALSE
        /\ UNCHANGED <<own, sent, txs, expectedCaller, inV4>>
    BY <1>2 DEF Finish, Ended
  <2>3. TypeOK'
    <3>1. Settled \in [Currencies -> Int] /\ NoFill \in [paid : Nat, got : Nat]
      BY DEF Settled, NoFill
    <3>2. 1 \in 1..(MaxHops + 1)
      BY ArbExecutorAssumption
    <3> QED
      BY <2>1, <2>2, <3>1, <3>2 DEF LedgerInv, TypeOK
  <2>4. Control'
    BY <2>1, <2>2 DEF LedgerInv, Control
  <2>5. Accounted'
    BY <2>1 DEF Accounted
  <2> QED
    BY <2>3, <2>4, <2>5 DEF LedgerInv
<1> QED
  BY <1>1, <1>2

-----------------------------------------------------------------------------
(* The invariant holds.                                                    *)

LEMMA BetweenKeeps ==
  ASSUME LedgerInv,
         \/ \E a \in Anchors, n \in 1..MaxIn : \E hops \in Routes[a] : Send(a, hops, n)
         \/ \E a \in Anchors : Refresh(a)
         \/ \E t \in Tokens : Withdraw(t)
  PROVE  LedgerInv'
<1>1. ASSUME NEW a \in Anchors, NEW n \in 1..MaxIn, NEW hops \in Routes[a], Send(a, hops, n)
      PROVE  LedgerInv'
  <2> DEFINE e == Encoded(hops, a, n, UseFlashloan(a, n))
  <2>1. /\ sent' = Append(sent, e)
        /\ UNCHANGED <<bal, own, pc, tx, saved, start, amount, i, k, j, segIn, delta, fill,
                       expectedCaller, inFlight, inV4, partial>>
    BY <1>1 DEF Send, execution
  <2>2. n \in Nat /\ UseFlashloan(a, n) \in BOOLEAN
    BY ArbExecutorAssumption DEF UseFlashloan
  <2>3. e \in GoodTx
    BY <2>2, SendsGood
  <2>4. sent' \in Seq(GoodTx)
    BY <2>1, <2>3 DEF LedgerInv, Control
  <2>5. TypeOK'
    BY <2>1 DEF LedgerInv, TypeOK
  <2>6. Control'
    BY <2>1, <2>4 DEF LedgerInv, Control
  <2>7. Accounted'
    BY <2>1 DEF LedgerInv, Accounted, Claim
  <2> QED
    BY <2>5, <2>6, <2>7 DEF LedgerInv
<1>2. ASSUME NEW a \in Anchors, Refresh(a)
      PROVE  LedgerInv'
  <2>1. /\ own' = [own EXCEPT ![a] = bal[a]]
        /\ UNCHANGED <<bal, sent, pc, tx, saved, start, amount, i, k, j, segIn, delta, fill,
                       expectedCaller, inFlight, inV4, partial>>
    BY <1>2 DEF Refresh, execution
  <2>2. TypeOK'
    <3>1. bal[a] \in Nat
      BY ArbExecutorAssumption DEF LedgerInv, TypeOK
    <3>2. own' \in [Anchors -> Nat]
      BY <2>1, <3>1 DEF LedgerInv, TypeOK
    <3> QED
      BY <2>1, <3>2 DEF LedgerInv, TypeOK
  <2>3. Control'
    BY <2>1 DEF LedgerInv, Control
  <2>4. Accounted'
    BY <2>1 DEF LedgerInv, Accounted, Claim
  <2> QED
    BY <2>2, <2>3, <2>4 DEF LedgerInv
<1>3. ASSUME NEW t \in Tokens, Withdraw(t)
      PROVE  LedgerInv'
  <2>1. /\ pc = "idle" /\ bal[t] > 0
        /\ bal' = [bal EXCEPT ![t] = @ - 1] /\ saved' = bal'
        /\ UNCHANGED <<own, sent, pc, tx, start, amount, i, k, j, segIn, delta, fill,
                       expectedCaller, inFlight, inV4, partial>>
    BY <1>3 DEF Withdraw
  <2>2. bal' \in [Tokens -> Nat]
    BY <2>1 DEF LedgerInv, TypeOK
  <2>3. TypeOK'
    BY <2>1, <2>2 DEF LedgerInv, TypeOK
  <2>4. Control'
    BY <2>1 DEF LedgerInv, Control
  <2>5. Accounted'
    BY <2>1 DEF Accounted
  <2> QED
    BY <2>3, <2>4, <2>5 DEF LedgerInv
<1> QED
  BY <1>1, <1>2, <1>3

LEMMA LedgerInit == Init => LedgerInv
<1> SUFFICES ASSUME Init PROVE LedgerInv
  OBVIOUS
<1>1. bal \in [Tokens -> Nat]
  BY ArbExecutorAssumption DEF Init
<1>2. TypeOK
  <2>1. Settled \in [Currencies -> Int] /\ NoFill \in [paid : Nat, got : Nat]
    BY DEF Settled, NoFill
  <2>2. 1 \in 1..(MaxHops + 1)
    BY ArbExecutorAssumption
  <2>3. own \in [Anchors -> Nat]
    BY <1>1, ArbExecutorAssumption DEF Init
  <2> QED
    BY <1>1, <2>1, <2>2, <2>3 DEF Init, TypeOK
<1>3. Control
  BY DEF Init, Control
<1>4. Accounted
  BY DEF Init, Accounted
<1> QED
  BY <1>2, <1>3, <1>4 DEF LedgerInv

LEMMA LedgerStep == LedgerInv /\ [Next]_vars => LedgerInv'
<1> SUFFICES ASSUME LedgerInv, [Next]_vars PROVE LedgerInv'
  OBVIOUS
<1>1. CASE \/ \E a \in Anchors, n \in 1..MaxIn : \E hops \in Routes[a] : Send(a, hops, n)
           \/ \E a \in Anchors : Refresh(a)
           \/ \E t \in Tokens : Withdraw(t)
  BY <1>1, BetweenKeeps
<1>2. CASE Execute
  BY <1>2, ExecuteKeeps
<1>3. CASE \E out \in 1..MaxOut : PairSwap(out)
  BY <1>3, PairSwapKeeps
<1>4. CASE \E paid \in 1..amount, out \in 0..MaxOut : ClSwap(paid, out)
  BY <1>4, ClSwapKeeps
<1>5. CASE \E paid \in 1..amount, out \in 1..MaxOut : V4Swap(paid, out)
  BY <1>5, V4SwapKeeps
<1>6. CASE ClCallback
  BY <1>6, CallbackKeeps
<1>7. CASE Unlock
  BY <1>7, UnlockKeeps
<1>8. CASE V4Settle
  BY <1>8, SettleKeeps
<1>9. CASE PoolFails
  BY <1>9, RevertKeeps DEF PoolFails
<1>10. CASE Finish
  BY <1>10, FinishKeeps
<1>11. CASE UNCHANGED vars
  <2>1. UNCHANGED <<bal, own, sent, pc, tx, saved, start, amount, i, k, j, segIn, delta, fill,
                    expectedCaller, inFlight, inV4, partial>>
    BY <1>11 DEF vars
  <2>2. TypeOK'
    BY <2>1 DEF LedgerInv, TypeOK
  <2>3. Control'
    BY <2>1 DEF LedgerInv, Control
  <2>4. Accounted'
    BY <2>1 DEF LedgerInv, Accounted, Claim
  <2> QED
    BY <2>2, <2>3, <2>4 DEF LedgerInv
<1> QED
  BY <1>1, <1>2, <1>3, <1>4, <1>5, <1>6, <1>7, <1>8, <1>9, <1>10, <1>11 DEF Next

LEMMA LedgerAlways == Spec => []LedgerInv
BY LedgerInit, LedgerStep, PTL DEF Spec

-----------------------------------------------------------------------------
(* The theorems.                                                           *)

\* The balances, the counters and the manager's account keep their types: no
\* payment of a hop is ever taken from tokens the contract does not have.
THEOREM TypeCorrect == Spec => []TypeOK
<1>1. LedgerInv => TypeOK
  BY DEF LedgerInv
<1> QED
  BY LedgerAlways, <1>1, PTL

\* A step of a transaction reverts it, completes it, or leaves it running.
LEMMA StepOfTx ==
  ASSUME LedgerInv, Next, pc # "idle"
  PROVE  \/ Finish /\ ~Revert("profit")
         \/ \E why \in {"funds", "callback", "no pool", "unsettled", "pool", "profit"} :
              Revert(why)
         \/ pc' # "idle" /\ saved' = saved
<1>1. CASE \E out \in 1..MaxOut : PairSwap(out)
  BY <1>1 DEF PairSwap
<1>2. CASE \E paid \in 1..amount, out \in 0..MaxOut : ClSwap(paid, out)
  BY <1>2 DEF ClSwap
<1>3. CASE \E paid \in 1..amount, out \in 1..MaxOut : V4Swap(paid, out)
  BY <1>3 DEF V4Swap
<1>4. CASE ClCallback
  BY <1>4 DEF ClCallback
<1>5. CASE Unlock
  BY <1>5 DEF Unlock
<1>6. CASE V4Settle
  BY <1>6 DEF V4Settle
<1>7. CASE PoolFails
  BY <1>7 DEF PoolFails
<1>8. CASE Finish
  BY <1>8
<1>9. ~Execute /\ (\A a, hops, n : ~Send(a, hops, n)) /\ (\A a : ~Refresh(a) /\ ~Withdraw(a))
  BY DEF Execute, Send, Refresh, Withdraw
<1> QED
  BY <1>1, <1>2, <1>3, <1>4, <1>5, <1>6, <1>7, <1>8, <1>9 DEF Next

LEMMA LedgerSteps ==
  ASSUME LedgerInv, [Next]_vars
  PROVE  [Ledger!Next]_(IF pc = "idle" THEN bal ELSE saved)
<1> DEFINE held == IF pc = "idle" THEN bal ELSE saved
<1>1. CASE UNCHANGED vars
  BY <1>1 DEF vars
<1>2. CASE Next /\ pc # "idle"
  <2>1. CASE Finish /\ ~Revert("profit")
    <3> DEFINE a == tx.anchor
    <3>1. /\ pc' = "idle" /\ a \in Anchors
          /\ bal' \in [Tokens -> Nat]
          /\ bal'[a] >= saved[a] + MinProfit
          /\ \A u \in Tokens \ {a} : bal'[u] >= saved[u]
      BY <2>1, FinishFacts
    <3>2. bal'[a] \in Nat /\ saved[a] \in Nat /\ MinProfit \in Nat
      BY <3>1, ArbExecutorAssumption DEF LedgerInv, TypeOK
    <3>3. \A u \in Tokens : bal'[u] >= saved[u]
      BY <3>1, <3>2
    <3>4. held = saved /\ held' = bal'
      BY <1>2, <3>1
    <3>5. Ledger!Trade(a)
      BY <3>1, <3>3, <3>4 DEF Ledger!Trade
    <3> QED
      BY <3>1, <3>5 DEF Ledger!Next
  <2>2. CASE \E why : Revert(why)
    BY <1>2, <2>2 DEF Revert, Ended
  <2>3. CASE pc' # "idle" /\ saved' = saved
    BY <1>2, <2>3
  <2> QED
    BY <1>2, <2>1, <2>2, <2>3, StepOfTx
<1>3. CASE Next /\ pc = "idle"
  <2>1. saved = bal /\ bal \in [Tokens -> Nat]
    BY <1>3 DEF LedgerInv, Control, TypeOK
  <2>2. CASE Execute
    BY <2>1, <2>2 DEF Execute
  <2>3. ASSUME NEW t \in Tokens, Withdraw(t)
        PROVE  Ledger!Withdraw(t)
    <3>1. /\ bal' = [bal EXCEPT ![t] = @ - 1] /\ bal[t] > 0 /\ pc' = pc
      BY <2>3 DEF Withdraw
    <3>2. /\ bal' \in [Tokens -> Nat] /\ bal'[t] <= bal[t]
          /\ \A u \in Tokens \ {t} : bal'[u] = bal[u]
      BY <2>1, <3>1
    <3>3. held = bal /\ held' = bal'
      BY <1>3, <3>1
    <3> QED
      BY <3>2, <3>3 DEF Ledger!Withdraw
  <2>4. CASE \E t \in Tokens : Withdraw(t)
    BY <2>3, <2>4 DEF Ledger!Next
  <2>5. CASE \/ \E a \in Anchors, n \in 1..MaxIn : \E hops \in Routes[a] : Send(a, hops, n)
             \/ \E a \in Anchors : Refresh(a)
    BY <2>5 DEF Send, Refresh, execution
  <2>6. ~(\E out : PairSwap(out)) /\ ~(\E paid, out : ClSwap(paid, out) \/ V4Swap(paid, out))
        /\ ~ClCallback /\ ~Unlock /\ ~V4Settle /\ ~PoolFails /\ ~Finish
    BY <1>3 DEF PairSwap, ClSwap, V4Swap, AtHop, ClCallback, Unlock, V4Settle, PoolFails, Finish
  <2> QED
    BY <1>3, <2>2, <2>4, <2>5, <2>6 DEF Next
<1> QED
  BY <1>1, <1>2, <1>3

\* The contract implements the ledger: a transaction reverts without a trace or
\* raises its anchor by the profit asked for, repays its loan and spends no token
\* that was there before, for every set of pools, length of route, number of
\* transactions and answer of the pools.
THEOREM KeepsLedgerTheorem == Spec => KeepsLedger
<1>1. LedgerInv => TypeOK
  BY DEF LedgerInv
<1>2. Init => Ledger!Init
  BY LedgerInit DEF LedgerInv, TypeOK, Ledger!Init
<1>3. LedgerInv /\ [Next]_vars => [Ledger!Next]_(IF pc = "idle" THEN bal ELSE saved)
  BY LedgerSteps
<1> QED
  BY LedgerAlways, <1>2, <1>3, PTL DEF Spec, KeepsLedger, Ledger!Spec

\* A route every pool filled changes the balance of its anchor and no other: in
\* particular what a V4 segment unwraps, settles, takes and wraps again comes out
\* even, however long the segments are and whichever of their ends is native.
THEOREM NothingLeftBehindTheorem == Spec => NothingLeftBehind
<1>1. LedgerInv /\ [Next]_vars =>
        [Ends /\ outcome' = "done" /\ ~partial =>
           \A t \in Tokens \ {tx.anchor} : bal'[t] = saved[t]]_vars
  <2> SUFFICES ASSUME LedgerInv, Next, Ends, outcome' = "done", ~partial
               PROVE  \A t \in Tokens \ {tx.anchor} : bal'[t] = saved[t]
    OBVIOUS
  <2>1. pc # "idle" /\ pc' = "idle"
    BY DEF Ends
  <2>2. \A why : Revert(why) => why = "done"
    BY DEF Revert, Ended
  <2>3. Finish /\ ~Revert("profit")
    BY <2>1, <2>2, StepOfTx
  <2> QED
    BY <2>3, FinishFacts
<1> QED
  BY LedgerAlways, <1>1, PTL DEF Spec, NothingLeftBehind

LEMMA GuardsStep ==
  ASSUME LedgerInv, GuardsFollowCalls, [Next]_vars
  PROVE  GuardsFollowCalls'
<1>1. CASE UNCHANGED vars
  BY <1>1 DEF vars, GuardsFollowCalls
<1>2. CASE \E why : Revert(why)
  BY <1>2 DEF Revert, Ended, GuardsFollowCalls
<1>3. ASSUME NEW paid \in 1..amount, NEW out \in 0..MaxOut, ClSwap(paid, out)
      PROVE  GuardsFollowCalls'
  <2>1. /\ pc = "hops" /\ pc' = "cl" /\ expectedCaller' = tx.hops[i].pool
        /\ i <= Len(tx.hops) /\ tx.hops[i].kind = "cl"
        /\ UNCHANGED <<tx, inFlight, inV4>>
    BY <1>3 DEF ClSwap, AtHop
  <2>2. Control /\ i \in 1..Len(tx.hops)
    BY <2>1, TxFacts DEF LedgerInv, Control
  <2>3. tx.hops[i].pool # Nobody
    BY <2>1, <2>2, TxFacts, ArbExecutorAssumption
  <2> QED
    BY <2>1, <2>3 DEF GuardsFollowCalls
<1>4. CASE Execute
  BY <1>4 DEF Execute, GuardsFollowCalls
<1>5. CASE Finish
  BY <1>2, <1>5 DEF Finish, Ended, GuardsFollowCalls
<1>6. CASE ClCallback \/ Unlock \/ V4Settle
  BY <1>2, <1>6 DEF ClCallback, Unlock, AtHop, V4Settle, GuardsFollowCalls
<1>7. CASE PoolFails
  BY <1>2, <1>7 DEF PoolFails
<1>8. ASSUME NEW out, PairSwap(out)
      PROVE  GuardsFollowCalls'
  BY <1>2, <1>8 DEF PairSwap, GuardsFollowCalls
<1>9. ASSUME NEW paid, NEW out, V4Swap(paid, out)
      PROVE  GuardsFollowCalls'
  BY <1>2, <1>9 DEF V4Swap, GuardsFollowCalls
<1>10. CASE \/ \E a \in Anchors, n \in 1..MaxIn : \E hops \in Routes[a] : Send(a, hops, n)
            \/ \E a \in Anchors : Refresh(a)
            \/ \E t \in Tokens : Withdraw(t)
  BY <1>10 DEF Send, Refresh, execution, Withdraw, GuardsFollowCalls
<1> QED
  BY <1>1, <1>3, <1>4, <1>5, <1>6, <1>7, <1>8, <1>9, <1>10 DEF Next

\* No callback is open outside the call it is for, whatever reverts in between.
THEOREM GuardsFollowCallsTheorem == Spec => []GuardsFollowCalls
<1>1. Init => GuardsFollowCalls
  BY DEF Init, GuardsFollowCalls
<1>2. LedgerInv /\ GuardsFollowCalls /\ [Next]_vars => GuardsFollowCalls'
  BY GuardsStep
<1> QED
  BY LedgerAlways, <1>1, <1>2, PTL DEF Spec

-----------------------------------------------------------------------------
(* Why a transaction reverts.                                              *)

\* The contract's own tokens cover every hop but for what it lacked at the start.
AnchorCovered ==
  pc # "idle" => bal[tx.anchor] + tx.amountIn >= start + Claim(tx.anchor)

\* The raw currency in which the segment's amount stands.
Standing == IF k = i THEN CurrencyIn(tx, i) ELSE CurrencyOut(tx, k - 1)

\* The manager's account in a segment whose pools took what they were offered.
AccountIs ==
  [c \in Currencies |-> (IF c = Standing THEN amount ELSE 0)
                          - (IF c = CurrencyIn(tx, i) THEN segIn ELSE 0)]

\* The account is even between segments; a segment is a run of V4 hops, each
\* beginning in the raw currency the one before it ends in.
SegmentsJoin ==
  /\ pc # "unlocked" => delta = Settled
  /\ pc = "unlocked" =>
       /\ tx.hops[i].kind = "v4"
       /\ \A n \in (i + 1)..(j - 1) : Joined(n)
       /\ ~partial => delta = AccountIs

CallerIsPool == pc = "cl" => expectedCaller = tx.hops[i].pool

CauseInv == AnchorCovered /\ SegmentsJoin /\ CallerIsPool

LEMMA RevertHasNoMore ==
  ASSUME NEW why, Revert(why)
  PROVE  CauseInv'
<1>1. pc' = "idle" /\ delta' = Settled
  BY DEF Revert, Ended
<1> QED
  BY <1>1 DEF CauseInv, AnchorCovered, SegmentsJoin, CallerIsPool

\* What the anchor's balance is to cover after hop n is what came out of hop n.
LEMMA AnchorNext ==
  ASSUME Control, pc # "idle", NEW n \in 1..Len(tx.hops),
         n + 1 <= Len(tx.hops), tx.anchor = Norm(CurrencyIn(tx, n + 1))
  PROVE  tx.anchor = Norm(CurrencyOut(tx, n))
<1>1. n < Len(tx.hops)
  BY TxFacts
<1> QED
  BY <1>1, TxFacts

LEMMA ExecuteCovers ==
  ASSUME LedgerInv, CauseInv, Execute
  PROVE  CauseInv'
<1>1. /\ pc = "idle" /\ pc' = "hops" /\ tx' = Head(sent) /\ sent # << >>
      /\ amount' = tx'.amountIn /\ start' = bal'[tx'.anchor]
      /\ i' = i /\ delta' = delta
  BY DEF Execute
<1>2. LedgerInv'
  BY ExecuteKeeps
<1>3. /\ Control' /\ bal' \in [Tokens -> Nat] /\ start' \in Nat /\ amount' \in Nat
  BY <1>2 DEF LedgerInv, TypeOK
<1>4. Claim(tx.anchor)' <= amount'
  BY <1>1, <1>3 DEF Claim
<1>5. Claim(tx.anchor)' \in Nat
  BY <1>1, <1>3 DEF Claim
<1>6. AnchorCovered'
  BY <1>1, <1>3, <1>4, <1>5 DEF AnchorCovered
<1> QED
  BY <1>1, <1>6 DEF CauseInv, SegmentsJoin, CallerIsPool

LEMMA PairSwapCovers ==
  ASSUME LedgerInv, CauseInv, NEW out \in 1..MaxOut, PairSwap(out)
  PROVE  CauseInv'
<1> DEFINE tin == CurrencyIn(tx, i)
           tout == CurrencyOut(tx, i)
           a == tx.anchor
<1>1. CASE bal[tin] < amount
  BY <1>1, RevertHasNoMore DEF PairSwap
<1>2. CASE ~(bal[tin] < amount)
  <2>1. /\ pc = "hops" /\ i <= Len(tx.hops) /\ tx.hops[i].kind = "pair"
        /\ bal' = [bal EXCEPT ![tin] = @ - amount, ![tout] = @ + out]
        /\ amount' = out /\ i' = i + 1
        /\ UNCHANGED <<pc, tx, start, delta>>
    BY <1>2 DEF PairSwap, AtHop
  <2>2. Control /\ bal \in [Tokens -> Nat] /\ amount \in Nat /\ start \in Nat
    BY DEF LedgerInv, TypeOK
  <2>3. i \in 1..Len(tx.hops) /\ a \in Tokens /\ tx.amountIn \in Nat
    BY <2>1, <2>2, TxFacts DEF Control
  <2>4. /\ tin \in Tokens /\ tout \in Tokens /\ tin # tout
        /\ tin = Norm(tin) /\ tout = Norm(tout)
    BY <2>1, <2>2, <2>3, TxFacts
  <2>5. out \in Nat
    BY ArbExecutorAssumption
  <2>6. bal'[a] = IF a = tin THEN bal[a] - amount ELSE IF a = tout THEN bal[a] + out
                  ELSE bal[a]
    BY <2>1, <2>2, <2>3, <2>4, <2>5
  <2>7. Claim(a) = IF a = tin THEN amount ELSE 0
    BY <2>1, <2>3, <2>4 DEF Claim
  <2>8. Claim(a)' = 0 \/ (Claim(a)' = out /\ a = tout)
    <3>1. i + 1 <= Len(tx.hops) /\ a = Norm(CurrencyIn(tx, i + 1)) => a = tout
      BY <2>1, <2>2, <2>3, <2>4, AnchorNext
    <3> QED
      BY <2>1, <3>1 DEF Claim
  <2>9. bal[a] + tx.amountIn >= start + Claim(a) /\ bal[a] \in Nat
    BY <2>1, <2>2, <2>3 DEF CauseInv, AnchorCovered
  <2>10. bal'[a] + tx.amountIn >= start + Claim(a)'
    BY <2>2, <2>3, <2>4, <2>5, <2>6, <2>7, <2>8, <2>9
  <2>11. AnchorCovered'
    BY <2>1, <2>10 DEF AnchorCovered
  <2> QED
    BY <2>1, <2>11 DEF CauseInv, SegmentsJoin, CallerIsPool
<1> QED
  BY <1>1, <1>2

LEMMA ClSwapCovers ==
  ASSUME LedgerInv, CauseInv, NEW paid \in 1..amount, NEW out \in 0..MaxOut,
         ClSwap(paid, out)
  PROVE  CauseInv'
<1> DEFINE tin == CurrencyIn(tx, i)
           tout == CurrencyOut(tx, i)
           a == tx.anchor
<1>1. /\ pc = "hops" /\ i <= Len(tx.hops) /\ tx.hops[i].kind = "cl"
      /\ expectedCaller' = tx.hops[i].pool
      /\ bal' = [bal EXCEPT ![tout] = @ + out]
      /\ fill' = [paid |-> paid, got |-> out]
      /\ pc' = "cl"
      /\ UNCHANGED <<tx, start, amount, i, delta>>
  BY DEF ClSwap, AtHop
<1>2. Control /\ bal \in [Tokens -> Nat] /\ amount \in Nat /\ start \in Nat
  BY DEF LedgerInv, TypeOK
<1>3. i \in 1..Len(tx.hops) /\ a \in Tokens /\ tx.amountIn \in Nat
  BY <1>1, <1>2, TxFacts DEF Control
<1>4. /\ tin \in Tokens /\ tout \in Tokens /\ tin # tout
      /\ tin = Norm(tin) /\ tout = Norm(tout)
  BY <1>1, <1>2, <1>3, TxFacts
<1>5. out \in Nat
  BY ArbExecutorAssumption
<1>6. bal'[a] = IF a = tout THEN bal[a] + out ELSE bal[a]
  BY <1>1, <1>2, <1>3, <1>4, <1>5
<1>7. Claim(a) = IF a = tin THEN amount ELSE 0
  BY <1>1, <1>3, <1>4 DEF Claim
<1>8. Claim(a)' = (IF a = tin THEN amount ELSE 0) + (IF a = tout THEN out ELSE 0)
  BY <1>1, <1>4 DEF Claim
<1>9. bal[a] + tx.amountIn >= start + Claim(a) /\ bal[a] \in Nat
  BY <1>1, <1>2, <1>3 DEF CauseInv, AnchorCovered
<1>10. bal'[a] + tx.amountIn >= start + Claim(a)'
  BY <1>2, <1>3, <1>4, <1>5, <1>6, <1>7, <1>8, <1>9
<1>11. AnchorCovered'
  BY <1>1, <1>10 DEF AnchorCovered
<1> QED
  BY <1>1, <1>11 DEF CauseInv, SegmentsJoin, CallerIsPool

LEMMA CallbackCovers ==
  ASSUME LedgerInv, CauseInv, ClCallback
  PROVE  CauseInv'
<1> DEFINE tin == CurrencyIn(tx, i)
           tout == CurrencyOut(tx, i)
           a == tx.anchor
<1>1. CASE expectedCaller # tx.hops[i].pool \/ bal[tin] < fill.paid
  BY <1>1, RevertHasNoMore DEF ClCallback
<1>2. CASE ~(expectedCaller # tx.hops[i].pool \/ bal[tin] < fill.paid)
  <2>1. /\ pc = "cl"
        /\ bal' = [bal EXCEPT ![tin] = @ - fill.paid]
        /\ amount' = fill.got /\ i' = i + 1 /\ pc' = "hops"
        /\ UNCHANGED <<tx, start, delta>>
    BY <1>2 DEF ClCallback
  <2>2. /\ Control /\ bal \in [Tokens -> Nat] /\ amount \in Nat /\ start \in Nat
        /\ fill.paid \in Nat /\ fill.got \in Nat
    BY DEF LedgerInv, TypeOK
  <2>3. /\ i \in 1..Len(tx.hops) /\ a \in Tokens /\ tx.amountIn \in Nat
        /\ tx.hops[i].kind = "cl" /\ fill.paid <= amount
    BY <2>1, <2>2, TxFacts DEF Control
  <2>4. /\ tin \in Tokens /\ tout \in Tokens /\ tin # tout
        /\ tin = Norm(tin) /\ tout = Norm(tout)
    BY <2>1, <2>2, <2>3, TxFacts
  <2>5. bal'[a] = IF a = tin THEN bal[a] - fill.paid ELSE bal[a]
    BY <2>1, <2>2, <2>3, <2>4
  <2>6. Claim(a) = (IF a = tin THEN amount ELSE 0) + (IF a = tout THEN fill.got ELSE 0)
    BY <2>1, <2>4 DEF Claim
  <2>7. Claim(a)' = 0 \/ (Claim(a)' = fill.got /\ a = tout)
    <3>1. i + 1 <= Len(tx.hops) /\ a = Norm(CurrencyIn(tx, i + 1)) => a = tout
      BY <2>1, <2>2, <2>3, <2>4, AnchorNext
    <3> QED
      BY <2>1, <3>1 DEF Claim
  <2>8. bal[a] + tx.amountIn >= start + Claim(a) /\ bal[a] \in Nat
    BY <2>1, <2>2, <2>3 DEF CauseInv, AnchorCovered
  <2>9. bal'[a] + tx.amountIn >= start + Claim(a)'
    BY <2>2, <2>3, <2>4, <2>5, <2>6, <2>7, <2>8, SMTT(40)
  <2>10. AnchorCovered'
    BY <2>1, <2>9 DEF AnchorCovered
  <2> QED
    BY <2>1, <2>10 DEF CauseInv, SegmentsJoin, CallerIsPool
<1> QED
  BY <1>1, <1>2

\* A segment begins with an even account and as much to pay as to receive.
LEMMA UnlockJoins ==
  ASSUME LedgerInv, CauseInv, Unlock
  PROVE  CauseInv'
<1>1. /\ pc = "hops" /\ i <= Len(tx.hops) /\ tx.hops[i].kind = "v4" /\ pc' = "unlocked"
      /\ k' = i /\ segIn' = amount /\ IsSegmentEnd(j')
      /\ UNCHANGED <<bal, tx, start, amount, i, delta, partial>>
  BY DEF Unlock, AtHop
<1>2. amount \in Nat /\ delta = Settled
  BY <1>1 DEF LedgerInv, TypeOK, CauseInv, SegmentsJoin
<1>3. AnchorCovered'
  BY <1>1 DEF CauseInv, AnchorCovered, Claim
<1>4. \A n \in (i + 1)..(j' - 1) : Joined(n)'
  BY <1>1 DEF IsSegmentEnd, Joined, CurrencyIn, CurrencyOut, KeyOf
<1>5. delta' = AccountIs'
  <2>1. \A c \in Currencies :
          (IF c = Standing' THEN amount' ELSE 0)
             - (IF c = CurrencyIn(tx, i)' THEN segIn' ELSE 0) = 0
    BY <1>1, <1>2 DEF Standing
  <2>2. AccountIs' = [c \in Currencies |-> 0]
    BY <2>1 DEF AccountIs
  <2> QED
    BY <1>1, <1>2, <2>2 DEF Settled
<1>6. SegmentsJoin'
  BY <1>1, <1>4, <1>5 DEF SegmentsJoin
<1> QED
  BY <1>1, <1>3, <1>6 DEF CauseInv, CallerIsPool

\* A swap of a segment takes from where the amount stands, and puts it on.
LEMMA V4SwapJoins ==
  ASSUME LedgerInv, CauseInv, NEW paid \in 1..amount, NEW out \in 1..MaxOut,
         V4Swap(paid, out)
  PROVE  CauseInv'
<1>1. CASE ~HasV4Pool(KeyOf(tx, k))
  BY <1>1, RevertHasNoMore DEF V4Swap
<1>2. CASE HasV4Pool(KeyOf(tx, k))
  <2>1. /\ pc = "unlocked" /\ k < j
        /\ delta' = [delta EXCEPT ![CurrencyIn(tx, k)] = @ - paid,
                                 ![CurrencyOut(tx, k)] = @ + out]
        /\ amount' = out /\ partial' = (partial \/ paid < amount) /\ k' = k + 1
        /\ UNCHANGED <<bal, pc, tx, start, i, j, segIn>>
    BY <1>2 DEF V4Swap
  <2>2. /\ Control /\ amount \in Nat /\ segIn \in Nat /\ delta \in [Currencies -> Int]
        /\ out \in Nat /\ paid \in Nat /\ paid <= amount
    BY ArbExecutorAssumption DEF LedgerInv, TypeOK
  <2>3. /\ i \in 1..Len(tx.hops) /\ Len(tx.hops) \in Nat
        /\ j \in (i + 1)..(Len(tx.hops) + 1) /\ k \in i..j
    BY <2>1, <2>2, TxFacts DEF Control
  <2>4. k \in 1..Len(tx.hops)
    BY <2>1, <2>3
  <2>5. /\ CurrencyIn(tx, k) \in Currencies /\ CurrencyOut(tx, k) \in Currencies
        /\ CurrencyIn(tx, k) # CurrencyOut(tx, k)
    BY <2>1, <2>2, <2>4, TxFacts
  <2>6. Standing = CurrencyIn(tx, k)
    <3>1. CASE k = i
      BY <3>1 DEF Standing
    <3>2. CASE k # i
      <4>1. k \in (i + 1)..(j - 1)
        BY <2>1, <2>3, <3>2
      <4>2. Joined(k)
        BY <2>1, <4>1 DEF CauseInv, SegmentsJoin
      <4> QED
        BY <3>2, <4>2 DEF Joined, Standing
    <3> QED
      BY <3>1, <3>2
  <2>7. Standing' = CurrencyOut(tx, k)
    <3>1. k' # i' /\ k' - 1 = k
      BY <2>1, <2>3
    <3>2. Standing' = CurrencyOut(tx', k' - 1)
      BY <3>1 DEF Standing
    <3> QED
      BY <2>1, <3>1, <3>2
  <2>8. ~partial' => delta' = AccountIs'
    <3>1. SUFFICES ASSUME ~partial' PROVE delta' = AccountIs'
      OBVIOUS
    <3>2. delta = AccountIs /\ paid = amount
      <4>1. ~partial /\ ~(paid < amount)
        BY <2>1, <3>1
      <4> QED
        BY <2>1, <2>2, <4>1 DEF CauseInv, SegmentsJoin
    <3>3. CurrencyIn(tx, i)' = CurrencyIn(tx, i)
      BY <2>1 DEF CurrencyIn, KeyOf
    <3>4. AccountIs' = [c \in Currencies |->
                          (IF c = CurrencyOut(tx, k) THEN out ELSE 0)
                            - (IF c = CurrencyIn(tx, i) THEN segIn ELSE 0)]
      BY <2>1, <2>7, <3>3 DEF AccountIs
    <3>5. \A c \in Currencies :
            delta[c] = (IF c = CurrencyIn(tx, k) THEN amount ELSE 0)
                         - (IF c = CurrencyIn(tx, i) THEN segIn ELSE 0)
      BY <2>6, <3>2 DEF AccountIs
    <3>6. \A c \in Currencies :
            delta'[c] = IF c = CurrencyIn(tx, k) THEN delta[c] - amount
                        ELSE IF c = CurrencyOut(tx, k) THEN delta[c] + out ELSE delta[c]
      BY <2>1, <2>2, <2>5, <3>2
    <3>7. \A c \in Currencies :
            delta'[c] = (IF c = CurrencyOut(tx, k) THEN out ELSE 0)
                          - (IF c = CurrencyIn(tx, i) THEN segIn ELSE 0)
      BY <2>2, <2>5, <3>5, <3>6
    <3>8. delta' = [c \in Currencies |-> delta'[c]]
      BY <2>1, <2>2
    <3> QED
      BY <3>4, <3>7, <3>8
  <2>9. SegmentsJoin'
    <3>1. \A n : Joined(n)' = Joined(n)
      <4>1. tx' = tx
        BY <2>1
      <4> QED
        BY <4>1, ZenonT(60) DEF Joined, CurrencyIn, CurrencyOut, KeyOf
    <3> QED
      BY <2>1, <2>8, <3>1 DEF CauseInv, SegmentsJoin
  <2>10. AnchorCovered'
    BY <2>1 DEF CauseInv, AnchorCovered, Claim, CurrencyIn, KeyOf
  <2> QED
    BY <2>1, <2>9, <2>10 DEF CauseInv, CallerIsPool
<1> QED
  BY <1>1, <1>2

LEMMA SettleCovers ==
  ASSUME LedgerInv, CauseInv, V4Settle
  PROVE  CauseInv'
<1> DEFINE tin == Norm(CurrencyIn(tx, i))
           tout == Norm(CurrencyOut(tx, j - 1))
           a == tx.anchor
<1>1. CASE Revert("funds") \/ Revert("unsettled")
  BY <1>1, RevertHasNoMore
<1>2. CASE ~(Revert("funds") \/ Revert("unsettled"))
  <2>1. /\ pc = "unlocked"
        /\ bal' = [[bal EXCEPT ![tin] = @ - segIn] EXCEPT ![tout] = @ + amount]
        /\ delta' = Settled /\ pc' = "hops" /\ i' = j
        /\ UNCHANGED <<tx, start, amount>>
    BY <1>2 DEF V4Settle
  <2>2. /\ Control /\ bal \in [Tokens -> Nat] /\ amount \in Nat /\ start \in Nat
        /\ segIn \in Nat
    BY DEF LedgerInv, TypeOK
  <2>3. /\ i \in 1..Len(tx.hops) /\ a \in Tokens /\ tx.amountIn \in Nat
        /\ Len(tx.hops) \in Nat /\ j \in (i + 1)..(Len(tx.hops) + 1)
    BY <2>1, <2>2, TxFacts DEF Control
  <2>4. j - 1 \in 1..Len(tx.hops) /\ (j - 1) + 1 = j
    BY <2>3
  <2>5. tin \in Tokens /\ tout \in Tokens
    BY <2>1, <2>2, <2>3, <2>4, TxFacts
  <2>6. bal'[a] = bal[a] - (IF a = tin THEN segIn ELSE 0) + (IF a = tout THEN amount ELSE 0)
    BY <2>1, <2>2, <2>3, <2>5
  <2>7. Claim(a) = IF a = tin THEN segIn ELSE 0
    BY <2>1, <2>3 DEF Claim
  <2>8. Claim(a)' = 0 \/ (Claim(a)' = amount /\ a = tout)
    <3>1. j <= Len(tx.hops) /\ a = Norm(CurrencyIn(tx, j)) => a = tout
      BY <2>1, <2>2, <2>4, AnchorNext
    <3> QED
      BY <2>1, <3>1 DEF Claim
  <2>9. bal[a] + tx.amountIn >= start + Claim(a) /\ bal[a] \in Nat
    BY <2>1, <2>2, <2>3 DEF CauseInv, AnchorCovered
  <2>10. bal'[a] + tx.amountIn >= start + Claim(a)'
    BY <2>2, <2>3, <2>6, <2>7, <2>8, <2>9, SMTT(40)
  <2>11. AnchorCovered'
    BY <2>1, <2>10 DEF AnchorCovered
  <2> QED
    BY <2>1, <2>11 DEF CauseInv, SegmentsJoin, CallerIsPool
<1> QED
  BY <1>1, <1>2

LEMMA CauseStep == LedgerInv /\ CauseInv /\ [Next]_vars => CauseInv'
<1> SUFFICES ASSUME LedgerInv, CauseInv, [Next]_vars PROVE CauseInv'
  OBVIOUS
<1>1. CASE UNCHANGED vars
  <2>1. UNCHANGED <<bal, pc, tx, start, amount, i, k, j, segIn, delta, fill,
                    expectedCaller, partial>>
    BY <1>1 DEF vars
  <2>2. AnchorCovered'
    BY <2>1 DEF CauseInv, AnchorCovered, Claim
  <2>3. SegmentsJoin'
    BY <2>1 DEF CauseInv, SegmentsJoin, Joined, AccountIs, Standing
  <2>4. CallerIsPool'
    BY <2>1 DEF CauseInv, CallerIsPool
  <2> QED
    BY <2>2, <2>3, <2>4 DEF CauseInv
<1>2. CASE \/ \E a \in Anchors, n \in 1..MaxIn : \E hops \in Routes[a] : Send(a, hops, n)
           \/ \E a \in Anchors : Refresh(a)
           \/ \E t \in Tokens : Withdraw(t)
  <2>1. pc = "idle" /\ pc' = "idle" /\ delta' = delta
    BY <1>2 DEF Send, Refresh, Withdraw, execution
  <2> QED
    BY <2>1 DEF CauseInv, AnchorCovered, SegmentsJoin, CallerIsPool
<1>3. CASE Execute
  BY <1>3, ExecuteCovers
<1>4. CASE \E out \in 1..MaxOut : PairSwap(out)
  BY <1>4, PairSwapCovers
<1>5. CASE \E paid \in 1..amount, out \in 0..MaxOut : ClSwap(paid, out)
  BY <1>5, ClSwapCovers
<1>6. CASE \E paid \in 1..amount, out \in 1..MaxOut : V4Swap(paid, out)
  BY <1>6, V4SwapJoins
<1>7. CASE ClCallback
  BY <1>7, CallbackCovers
<1>8. CASE Unlock
  BY <1>8, UnlockJoins
<1>9. CASE V4Settle
  BY <1>9, SettleCovers
<1>10. CASE PoolFails
  BY <1>10, RevertHasNoMore DEF PoolFails
<1>11. CASE Finish
  <2>1. pc' = "idle" /\ delta' = Settled
    BY <1>11 DEF Finish, Revert, Ended
  <2> QED
    BY <2>1 DEF CauseInv, AnchorCovered, SegmentsJoin, CallerIsPool
<1> QED
  BY <1>1, <1>2, <1>3, <1>4, <1>5, <1>6, <1>7, <1>8, <1>9, <1>10, <1>11 DEF Next

\* A hop of which the contract has not enough is one that starts from the anchor's
\* own tokens, and they are fewer than the route was encoded for.
LEMMA ShortOfFunds ==
  ASSUME LedgerInv, CauseInv, pc # "idle", NEW t \in Tokens, bal[t] < Claim(t),
         Claim(t) \in Nat
  PROVE  ~ tx.useFlashloan /\ saved[tx.anchor] < tx.amountIn
<1>1. /\ Control /\ Accounted /\ bal[t] \in Nat /\ saved[t] \in Nat /\ start \in Nat
  BY DEF LedgerInv, TypeOK
<1>2. t = tx.anchor
  BY <1>1 DEF Accounted
<1>3. /\ tx.amountIn \in Nat /\ tx.useFlashloan \in BOOLEAN
      /\ start = saved[t] + (IF tx.useFlashloan THEN tx.amountIn ELSE 0)
  BY <1>1, <1>2, TxFacts DEF Control
<1>4. bal[t] + tx.amountIn >= start + Claim(t)
  BY <1>2 DEF CauseInv, AnchorCovered
<1>5. start < tx.amountIn
  BY <1>1, <1>3, <1>4
<1> QED
  BY <1>1, <1>2, <1>3, <1>5

\* The account of a segment every pool of which was filled is even at its end.
LEMMA FilledIsSettled ==
  ASSUME LedgerInv, CauseInv, pc = "unlocked", k = j, ~partial
  PROVE  [[delta EXCEPT ![CurrencyIn(tx, i)] = @ + segIn]
            EXCEPT ![CurrencyOut(tx, j - 1)] = @ - amount] = Settled
<1> DEFINE cin == CurrencyIn(tx, i)
           cout == CurrencyOut(tx, j - 1)
<1>1. Control /\ amount \in Nat /\ segIn \in Nat /\ delta \in [Currencies -> Int]
  BY DEF LedgerInv, TypeOK
<1>2. /\ i \in 1..Len(tx.hops) /\ Len(tx.hops) \in Nat
      /\ j \in (i + 1)..(Len(tx.hops) + 1)
  BY <1>1, TxFacts DEF Control
<1>3. j - 1 \in 1..Len(tx.hops) /\ k # i
  BY <1>2
<1>4. cin \in Currencies /\ cout \in Currencies
  BY <1>1, <1>2, <1>3, TxFacts
<1>5. delta = AccountIs /\ Standing = cout
  BY <1>3 DEF CauseInv, SegmentsJoin, Standing
<1>6. \A c \in Currencies :
        delta[c] = (IF c = cout THEN amount ELSE 0) - (IF c = cin THEN segIn ELSE 0)
  BY <1>5 DEF AccountIs
<1> HIDE DEF cin, cout
<1>7. \A c \in Currencies :
        [[delta EXCEPT ![cin] = @ + segIn] EXCEPT ![cout] = @ - amount][c] = 0
  BY <1>1, <1>4, <1>6
<1>8. [[delta EXCEPT ![cin] = @ + segIn] EXCEPT ![cout] = @ - amount]
        = [c \in Currencies |-> 0]
  BY <1>1, <1>4, <1>7
<1> QED
  BY <1>8 DEF Settled, cin, cout

LEMMA CauseOfEnd ==
  ASSUME LedgerInv, CauseInv, Next, Ends
  PROVE  \/ outcome' \in {"done", "profit", "pool"}
         \/ outcome' = "unsettled" /\ partial
         \/ outcome' = "funds" /\ ~tx.useFlashloan /\ saved[tx.anchor] < tx.amountIn
<1> USE DEF Ends
<1>1. \A why : Revert(why) => outcome' = why
  BY DEF Revert, Ended
<1>2. Control /\ amount \in Nat /\ segIn \in Nat /\ fill \in [paid : Nat, got : Nat]
      /\ bal \in [Tokens -> Nat]
  BY DEF LedgerInv, TypeOK
<1>3. ASSUME NEW out \in 1..MaxOut, PairSwap(out)
      PROVE  outcome' = "funds" /\ ~tx.useFlashloan /\ saved[tx.anchor] < tx.amountIn
  <2>1. /\ pc = "hops" /\ i <= Len(tx.hops) /\ tx.hops[i].kind = "pair"
        /\ bal[CurrencyIn(tx, i)] < amount /\ Revert("funds")
    BY <1>3 DEF PairSwap, AtHop
  <2>2. i \in 1..Len(tx.hops)
    BY <1>2, <2>1, TxFacts DEF Control
  <2>3. CurrencyIn(tx, i) \in Tokens /\ CurrencyIn(tx, i) = Norm(CurrencyIn(tx, i))
    BY <1>2, <2>1, <2>2, TxFacts
  <2>4. Claim(CurrencyIn(tx, i)) = amount
    BY <2>1, <2>3 DEF Claim
  <2> QED
    BY <1>1, <1>2, <2>1, <2>3, <2>4, ShortOfFunds
<1>4. ASSUME ClCallback
      PROVE  outcome' = "funds" /\ ~tx.useFlashloan /\ saved[tx.anchor] < tx.amountIn
  <2>1. /\ pc = "cl" /\ bal[CurrencyIn(tx, i)] < fill.paid /\ Revert("funds")
    BY <1>4 DEF ClCallback, CauseInv, CallerIsPool
  <2>2. i \in 1..Len(tx.hops) /\ tx.hops[i].kind = "cl" /\ fill.paid <= amount
    BY <1>2, <2>1, TxFacts DEF Control
  <2>3. /\ CurrencyIn(tx, i) \in Tokens /\ CurrencyIn(tx, i) = Norm(CurrencyIn(tx, i))
        /\ CurrencyIn(tx, i) # Norm(CurrencyOut(tx, i))
    BY <1>2, <2>1, <2>2, TxFacts
  <2>4. Claim(CurrencyIn(tx, i)) = amount
    BY <1>2, <2>1, <2>3 DEF Claim
  <2> QED
    BY <1>1, <1>2, <2>1, <2>2, <2>3, <2>4, ShortOfFunds
<1>5. ASSUME V4Settle
      PROVE  \/ outcome' = "unsettled" /\ partial
             \/ outcome' = "funds" /\ ~tx.useFlashloan /\ saved[tx.anchor] < tx.amountIn
  <2>1. pc = "unlocked" /\ k = j
    BY <1>5 DEF V4Settle
  <2>2. i \in 1..Len(tx.hops)
    BY <1>2, <2>1, TxFacts DEF Control
  <2>3. CASE bal[Norm(CurrencyIn(tx, i))] < segIn
    <3>1. Revert("funds") /\ Norm(CurrencyIn(tx, i)) \in Tokens
      BY <1>2, <1>5, <2>1, <2>2, <2>3, TxFacts DEF V4Settle
    <3>2. Claim(Norm(CurrencyIn(tx, i))) = segIn
      BY <1>2, <2>1, <2>2 DEF Claim, Control
    <3> QED
      BY <1>1, <1>2, <2>1, <2>3, <3>1, <3>2, ShortOfFunds
  <2>4. CASE ~ (bal[Norm(CurrencyIn(tx, i))] < segIn)
    <3>1. Revert("unsettled") /\ partial
      BY <1>5, <2>1, <2>4, FilledIsSettled DEF V4Settle, LedgerInv, TypeOK
    <3> QED
      BY <1>1, <3>1
  <2> QED
    BY <2>3, <2>4
<1>6. ASSUME NEW paid \in 1..amount, NEW out \in 1..MaxOut, V4Swap(paid, out)
      PROVE  FALSE
  <2>1. pc = "unlocked" /\ k < j
    BY <1>6 DEF V4Swap
  <2>2. /\ i \in 1..Len(tx.hops) /\ Len(tx.hops) \in Nat
        /\ j \in (i + 1)..(Len(tx.hops) + 1) /\ k \in i..j
    BY <1>2, <2>1, TxFacts DEF Control
  <2>3. k \in 1..Len(tx.hops) /\ (k = i \/ k \in (i + 1)..(j - 1))
    BY <2>1, <2>2
  <2>4. tx.hops[k].kind = "v4"
    BY <2>1, <2>3 DEF CauseInv, SegmentsJoin, Joined
  <2>5. HasV4Pool(KeyOf(tx, k))
    BY <1>2, <2>1, <2>3, <2>4, TxFacts
  <2> QED
    BY <1>6, <2>1, <2>5 DEF V4Swap
<1>7. ASSUME NEW paid, NEW out, ClSwap(paid, out) PROVE FALSE
  BY <1>7 DEF ClSwap
<1>8. CASE Unlock
  BY <1>8 DEF Unlock
<1>9. CASE PoolFails
  BY <1>1, <1>9 DEF PoolFails
<1>10. CASE Finish
  BY <1>1, <1>10 DEF Finish, Ended
<1>11. ~Execute /\ (\A a, hops, n : ~Send(a, hops, n)) /\ (\A a : ~Refresh(a) /\ ~Withdraw(a))
  BY DEF Execute, Send, Refresh, Withdraw
<1> QED
  BY <1>3, <1>4, <1>5, <1>6, <1>7, <1>8, <1>9, <1>10, <1>11 DEF Next

\* No transaction reverts for the contract's own book-keeping, on any route, with
\* any mix of native and wrapped V4 ends and any segments: keys fit their hops, the
\* callback finds its caller, a filled segment leaves the manager's account even,
\* and what a hop is to pay is there, unless the cached balance was too high.
THEOREM RevertHasCauseTheorem == Spec => RevertHasCause
<1>1. Init => CauseInv
  BY DEF Init, CauseInv, AnchorCovered, SegmentsJoin, CallerIsPool
<1>2. Spec => []CauseInv
  BY LedgerAlways, <1>1, CauseStep, PTL DEF Spec
<1>3. LedgerInv /\ CauseInv /\ [Next]_vars =>
        [Ends => \/ outcome' \in {"done", "profit", "pool"}
                 \/ outcome' = "unsettled" /\ partial
                 \/ outcome' = "funds" /\ ~tx.useFlashloan
                      /\ saved[tx.anchor] < tx.amountIn]_vars
  BY CauseOfEnd
<1> QED
  BY LedgerAlways, <1>2, <1>3, PTL DEF Spec, RevertHasCause

=============================================================================
