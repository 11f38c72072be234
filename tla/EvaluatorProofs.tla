-------------------------- MODULE EvaluatorProofs --------------------------
(***************************************************************************)
(* Proofs about Evaluator: what a pass sends shares no pool, is the best   *)
(* there is to send, and pays for its gas in the block after the one it    *)
(* was priced in; and that the fee poller announces to the evaluator every *)
(* fee it has written.                                                     *)
(***************************************************************************)
EXTENDS Evaluator, FeePoller, FiniteSetTheorems, TLAPS

\* The pools of what was sent are all marked as used.
DisjointInv == SentDisjoint /\ \A o \in sent : o.route \subseteq used

\* Outside of emit nothing is sent or left out; every used pool is one of
\* something sent; and what was sent is worth no less than what is left.
GreedyInv ==
  /\ pc # "emit" => sent = {} /\ skipped = {}
  /\ \A p \in used : \E q \in sent : p \in q.route
  /\ \A q \in sent, o \in left : RankKey(q) >= RankKey(o)
  /\ LeftOutForBetter

\* The fees of the chain rise by an eighth at most and never reach zero, and
\* unless a poll has put an older one back, the fee stored is of no older block
\* than the last header handled.
FeesClimb ==
  /\ GasTypeOK
  /\ \A k \in 1..Len(fees) : fees[k] > 0
  /\ \A k \in 1..Len(fees) - 1 : fees[k + 1] <= fees[k] + fees[k] \div 8
  /\ poll.pc = "store" => poll.block > 0
  /\ ~putBack => feeBlock >= told

\* The opportunity is one of a route, and if the station knew the prices, it
\* was gated with the fee of the newest block raised by an eighth.
Priced(o) ==
  /\ o.route \in Routes /\ o.gross \in Nat /\ o.unit \in Nat
  /\ o.mined \in 1..Len(fees)
  /\ o.known =>
       o.gross - Charged(o, fees[o.mined] + fees[o.mined] \div 8) >= MinProfit[Anchor[o.route]]

PricedInv == FeesClimb /\ \A o \in left \cup sent : Priced(o)

-----------------------------------------------------------------------------
(* What is sent.                                                           *)

\* "Emit disjoint-pool opportunities" (evaluator.rs:180-192): no two
\* opportunities of a pass share a pool.
THEOREM SentIsDisjoint == Spec => []SentDisjoint
<1>1. Init => DisjointInv
  BY DEF Init, DisjointInv, SentDisjoint
<1>2. DisjointInv /\ [Next]_vars => DisjointInv'
  <2> SUFFICES ASSUME DisjointInv, [Next]_vars PROVE DisjointInv'
    OBVIOUS
  <2> USE DEF DisjointInv, SentDisjoint
  <2>1. ASSUME NEW o \in left, Emit(o) PROVE DisjointInv'
    <3>1. sent' = sent \cup {o} /\ used' = used \cup o.route
      BY <2>1 DEF Emit
    <3>2. \A q \in sent : o.route \cap q.route = {}
      BY <2>1 DEF Emit, Conflicts
    <3> QED
      BY <3>1, <3>2
  <2>2. ASSUME NEW o \in left, Skip(o) PROVE DisjointInv'
    BY <2>2 DEF Skip
  <2>3. ASSUME sent' = {} PROVE DisjointInv'
    BY <2>3
  <2>4. ASSUME UNCHANGED <<used, sent>> PROVE DisjointInv'
    BY <2>4
  <2>5. CASE Receive \/ Gate \/ EndTier2 \/ Finish
    BY <2>3, <2>4, <2>5 DEF Receive, Gate, EndTier2, Finish, EndPass
  <2>6. CASE Tick \/ TakeOpportunity \/ \E S \in Changes, ts \in 0..MaxTime : AnnounceBatch(S, ts)
    BY <2>4, <2>6 DEF Tick, TakeOpportunity, AnnounceBatch
  <2>7. CASE \E S \in SUBSET Routes : Tier1(S)
    BY <2>3, <2>4, <2>7 DEF Tier1, EndPass
  <2>8. CASE \E r \in Routes : \E gross \in Grosses[Anchor[r]] \cup {0} : Tier2(r, gross)
    BY <2>4, <2>8 DEF Tier2
  <2>9. CASE UNCHANGED evalVars
    BY <2>4, <2>9 DEF evalVars
  <2> QED
    BY <2>1, <2>2, <2>5, <2>6, <2>7, <2>8, <2>9 DEF Next, Evaluate, vars
<1> QED
  BY <1>1, <1>2, PTL DEF Spec, DisjointInv

\* "Best first" (evaluator.rs:176-192): whatever is left out shares a pool with
\* an opportunity of the pass that is sent and worth no less.
THEOREM SentIsBest == Spec => []LeftOutForBetter
<1>1. Init => GreedyInv
  BY DEF Init, GreedyInv, LeftOutForBetter
<1>2. GreedyInv /\ [Next]_vars => GreedyInv'
  <2> SUFFICES ASSUME GreedyInv, [Next]_vars PROVE GreedyInv'
    OBVIOUS
  <2> USE DEF GreedyInv, LeftOutForBetter, RankKey
  <2>1. ASSUME NEW o \in left, Emit(o) PROVE GreedyInv'
    <3>1. /\ sent' = sent \cup {o} /\ used' = used \cup o.route
          /\ left' = left \ {o} /\ UNCHANGED <<pc, skipped>> /\ pc = "emit"
      BY <2>1 DEF Emit
    <3>2. \A q \in left' : RankKey(o) >= RankKey(q)
      BY <2>1, <3>1 DEF Emit, Leads
    <3> QED
      BY <3>1, <3>2
  <2>2. ASSUME NEW o \in left, Skip(o) PROVE GreedyInv'
    <3>1. /\ left' = left \ {o} /\ skipped' = skipped \cup {o}
          /\ UNCHANGED <<pc, used, sent>> /\ pc = "emit"
      BY <2>2 DEF Skip
    <3>2. \E q \in sent : o.route \cap q.route # {} /\ RankKey(q) >= RankKey(o)
      <4>1. PICK p \in o.route : p \in used
        BY <2>2 DEF Skip, Conflicts
      <4>2. PICK q \in sent : p \in q.route
        BY <4>1
      <4> QED
        BY <4>1, <4>2
    <3> QED
      BY <3>1, <3>2
  <2>3. ASSUME EndPass PROVE GreedyInv'
    BY <2>3 DEF EndPass
  <2>4. ASSUME UNCHANGED <<left, used, sent, skipped>>, pc' # "emit" => pc' = pc \/ pc # "emit"
        PROVE GreedyInv'
    BY <2>4
  <2>5. CASE Receive \/ Gate \/ EndTier2 \/ Finish
    BY <2>3, <2>4, <2>5 DEF Receive, Gate, EndTier2, Finish
  <2>6. CASE Tick \/ TakeOpportunity \/ \E S \in Changes, ts \in 0..MaxTime : AnnounceBatch(S, ts)
    BY <2>4, <2>6 DEF Tick, TakeOpportunity, AnnounceBatch
  <2>7. CASE \E S \in SUBSET Routes : Tier1(S)
    BY <2>3, <2>4, <2>7 DEF Tier1
  <2>8. CASE \E r \in Routes : \E gross \in Grosses[Anchor[r]] \cup {0} : Tier2(r, gross)
    <3>1. pc = "tier2" /\ UNCHANGED <<pc, used, sent, skipped>>
      BY <2>8 DEF Tier2
    <3> QED
      BY <3>1
  <2>9. CASE UNCHANGED evalVars
    BY <2>4, <2>9 DEF evalVars
  <2> QED
    BY <2>1, <2>2, <2>5, <2>6, <2>7, <2>8, <2>9 DEF Next, Evaluate, vars
<1> QED
  BY <1>1, <1>2, PTL DEF Spec, GreedyInv

-----------------------------------------------------------------------------
(* Integer division.                                                       *)

\* Rounding down keeps the order.
LEMMA DivMonotone ==
  ASSUME NEW a \in Nat, NEW b \in Nat, NEW n \in Nat \ {0}, a <= b
  PROVE  /\ a \div n \in Nat /\ b \div n \in Nat
         /\ a \div n <= b \div n
<1> DEFINE q == a \div n
           s == b \div n
<1>1. q \in Int /\ n * q <= a /\ a < n * q + n
  OBVIOUS
<1>2. s \in Int /\ n * s <= b /\ b < n * s + n
  OBVIOUS
<1> HIDE DEF q, s
<1>3. q >= 0 /\ s >= 0
  <2>1. ASSUME NEW x \in Int, NEW y \in Nat, y < n * x + n PROVE x >= 0
    <3>1. SUFFICES ASSUME x + 1 <= 0 PROVE FALSE
      BY <2>1
    <3>2. n * (x + 1) <= 0
      BY <3>1
    <3> QED
      BY <2>1, <3>2
  <2> QED
    BY <1>1, <1>2, <2>1
<1>4. q <= s
  <2>1. SUFFICES ASSUME s + 1 <= q PROVE FALSE
    BY <1>1, <1>2
  <2>2. n * (s + 1) <= n * q
    BY <1>1, <1>2, <2>1
  <2> QED
    BY <1>1, <1>2, <2>2
<1> QED
  BY <1>1, <1>2, <1>3, <1>4 DEF q, s

\* A factor that is not negative keeps the order.
LEMMA TimesMonotone ==
  ASSUME NEW a \in Nat, NEW b \in Nat, NEW c \in Nat, a <= b
  PROVE  a * c \in Nat /\ b * c \in Nat /\ a * c <= b * c
OBVIOUS

\* A margin of one or more, rounded down, is no less than what it is of.
LEMMA MarginCovers ==
  ASSUME NEW a \in Nat, Margin.num >= Margin.den
  PROVE  (a * Margin.num) \div Margin.den \in Nat /\ a <= (a * Margin.num) \div Margin.den
<1> DEFINE n == Margin.num
           d == Margin.den
           q == (a * n) \div d
<1>1. n \in Nat /\ d \in Nat \ {0} /\ n >= d
  BY GasAssumption
<1> HIDE DEF n, d
<1>2. a * d \in Nat /\ a * n \in Nat /\ a * d <= a * n
  BY <1>1
<1>3. q \in Int /\ d * q <= a * n /\ a * n < d * q + d
  BY <1>1, <1>2
<1> HIDE DEF q
<1>4. a <= q
  <2>1. SUFFICES ASSUME q + 1 <= a PROVE FALSE
    BY <1>3
  <2>2. d * (q + 1) <= d * a
    BY <1>1, <1>3, <2>1
  <2> QED
    BY <1>1, <1>2, <1>3, <2>2
<1> QED
  BY <1>3, <1>4 DEF q, n, d

-----------------------------------------------------------------------------
(* Gas and prices.                                                         *)

\* Every route has a size, and uses gas.
LEMMA RouteNumbers ==
  ASSUME NEW r \in Routes
  PROVE  /\ RouteGasUnits(r, Kind) \in Nat \ {0}
         /\ CalldataLen(r, Kind) \in Nat
<1>1. \A S \in SUBSET r : Cardinality(S) \in Nat
  BY EvaluatorAssumption, FS_Subset, FS_CardinalityType
<1>2. \A k : HopsOf(k, r, Kind) \in Nat
  BY <1>1 DEF HopsOf
<1>3. Cardinality(r) \in Nat
  BY <1>1
<1>4. /\ HopGas.v2 = 9 /\ HopGas.v3 = 15 /\ HopGas.stable = 12 /\ HopGas.v4 = 25
  BY DEF HopGas
<1>5. RouteGasUnits(r, Kind) \in Nat \ {0}
  BY <1>2, <1>4 DEF RouteGasUnits
<1> QED
  BY <1>2, <1>3, <1>5 DEF CalldataLen

\* The rate of a route's anchor.
LEMMA RouteRate ==
  ASSUME NEW r \in Routes
  PROVE  /\ Rate[Anchor[r]].num \in Nat \ {0} /\ Rate[Anchor[r]].den \in Nat \ {0}
         /\ MinProfit[Anchor[r]] \in Nat
         /\ Grosses[Anchor[r]] \subseteq Nat
<1>1. Anchor[r] \in Anchors
  BY DEF Anchors
<1> QED
  BY <1>1, EvaluatorAssumption

\* The greater and the smaller of two numbers is one of them.
LEMMA MaxOfTwo ==
  ASSUME NEW a \in Nat, NEW b \in Nat
  PROVE  Max({a, b}) \in {a, b} /\ Min({a, b}) \in {a, b}
<1>1. \E x \in {a, b} : \A y \in {a, b} : x >= y
  OBVIOUS
<1>2. \E x \in {a, b} : \A y \in {a, b} : x =< y
  OBVIOUS
<1> QED
  BY <1>1, <1>2 DEF Max, Min

\* The tip of a route is a number, whatever the route would gain.
LEMMA TipType ==
  ASSUME NEW r \in Routes, NEW gross \in Nat
  PROVE  TipOf(r, gross) \in Nat
<1> DEFINE wei == ToWei(Anchor[r], gross)
           gas == RouteGasUnits(r, Kind)
           budget == (wei * Prio.share) \div (Prio.of * gas)
<1>1. wei \in Nat
  <2>1. gross * Rate[Anchor[r]].num \in Nat
    BY RouteRate
  <2> QED
    BY <2>1, RouteRate, DivMonotone DEF ToWei
<1>2. gas \in Nat \ {0}
  BY RouteNumbers
<1>3. Prio.share \in Nat /\ Prio.of \in Nat \ {0} /\ Prio.min \in Nat /\ Prio.max \in Nat
  BY GasAssumption
<1> HIDE DEF wei, gas
<1>4. wei * Prio.share \in Nat /\ Prio.of * gas \in Nat \ {0}
  BY <1>1, <1>2, <1>3
<1>5. budget \in Nat
  BY <1>4, DivMonotone
<1> HIDE DEF budget
<1>6. Min({Prio.max, budget}) \in Nat
  BY <1>3, <1>5, MaxOfTwo
<1>7. Max({Prio.min, Min({Prio.max, budget})}) \in Nat
  BY <1>3, <1>6, MaxOfTwo
<1> QED
  BY <1>7 DEF TipOf, PriorityFee, wei, gas, budget

\* A price in wei, rounded down in the units of an anchor.
LEMMA ToAnchorMonotone ==
  ASSUME NEW r \in Routes, NEW a \in Nat, NEW b \in Nat, a <= b
  PROVE  /\ ToAnchor(Anchor[r], a) \in Nat /\ ToAnchor(Anchor[r], b) \in Nat
         /\ ToAnchor(Anchor[r], a) <= ToAnchor(Anchor[r], b)
<1> DEFINE d == Rate[Anchor[r]].den
           n == Rate[Anchor[r]].num
<1>1. d \in Nat /\ n \in Nat \ {0}
  BY RouteRate
<1> HIDE DEF d, n
<1>2. a * d \in Nat /\ b * d \in Nat /\ a * d <= b * d
  BY <1>1, TimesMonotone
<1> QED
  BY <1>1, <1>2, DivMonotone DEF ToAnchor, d, n

\* A higher base fee makes a transaction dearer, never cheaper.
LEMMA ChargedMonotone ==
  ASSUME NEW o, o.route \in Routes, o.gross \in Nat, o.unit \in Nat,
         NEW f \in Nat, NEW g \in Nat, f <= g
  PROVE  /\ Charged(o, f) \in Nat /\ Charged(o, g) \in Nat
         /\ Charged(o, f) <= Charged(o, g)
<1> DEFINE gas == RouteGasUnits(o.route, Kind)
           tip == TipOf(o.route, o.gross)
           data == CalldataLen(o.route, Kind) * o.unit
<1>1. gas \in Nat /\ tip \in Nat /\ data \in Nat
  BY RouteNumbers, TipType
<1> HIDE DEF gas, tip, data
<1>2. /\ (f + tip) * gas \in Nat /\ (g + tip) * gas \in Nat
      /\ (f + tip) * gas <= (g + tip) * gas
  BY <1>1, TimesMonotone
<1>3. /\ (f + tip) * gas + data \in Nat /\ (g + tip) * gas + data \in Nat
      /\ (f + tip) * gas + data <= (g + tip) * gas + data
  BY <1>1, <1>2
<1> QED
  BY <1>3, ToAnchorMonotone DEF Charged, gas, tip, data

\* What the gate counts is what a transaction costs at the highest base fee the
\* next block can have, or more.
LEMMA GateCoversNextBlock ==
  ASSUME Margin.num >= Margin.den, FeesClimb, feeBlock > 0,
         NEW o, o.route \in Routes, o.gross \in Nat, o.unit = perUnit
  PROVE  LET f == fees[feeBlock]
         IN /\ GasCost(o.route, o.gross) \in Nat
            /\ Charged(o, f + f \div 8) \in Nat
            /\ Charged(o, f + f \div 8) <= GasCost(o.route, o.gross)
<1> DEFINE f == fees[feeBlock]
           gas == RouteGasUnits(o.route, Kind)
           tip == TipOf(o.route, o.gross)
           len == CalldataLen(o.route, Kind)
           l1 == EstimateL1Fee(len)
<1>1. f \in Nat /\ perUnit \in Nat
  <2>1. fees \in Seq(Nat) /\ feeBlock \in 1..Len(fees)
    BY DEF FeesClimb, GasTypeOK
  <2>2. perUnit \in Nat
    BY GasAssumption DEF FeesClimb, GasTypeOK
  <2> QED
    BY <2>1, <2>2
<1>2. gas \in Nat /\ tip \in Nat /\ len \in Nat
  BY RouteNumbers, TipType
<1>3. baseFee = f
  BY DEF baseFee
<1> HIDE DEF f, gas, tip, len
<1>4. (f * 9) \div 8 = f + f \div 8 /\ (f * 9) \div 8 \in Nat
  BY <1>1
<1>5. len * perUnit \in Nat
  BY <1>1, <1>2
<1>6. l1 \in Nat /\ len * perUnit <= l1
  BY <1>5, MarginCovers DEF EstimateL1Fee
<1> HIDE DEF l1
<1>7. ((f * 9) \div 8 + tip) * gas \in Nat
  BY <1>2, <1>4, TimesMonotone
<1>8. /\ ((f * 9) \div 8 + tip) * gas + len * perUnit \in Nat
      /\ ((f * 9) \div 8 + tip) * gas + l1 \in Nat
      /\ ((f * 9) \div 8 + tip) * gas + len * perUnit <= ((f * 9) \div 8 + tip) * gas + l1
  BY <1>5, <1>6, <1>7
<1>9. Charged(o, f + f \div 8) = ToAnchor(Anchor[o.route], ((f * 9) \div 8 + tip) * gas + len * perUnit)
  BY <1>4 DEF Charged, gas, tip, len
<1>10. GasCost(o.route, o.gross) = ToAnchor(Anchor[o.route], ((f * 9) \div 8 + tip) * gas + l1)
  BY <1>3 DEF GasCost, TotalGasCost, gas, tip, len, l1
<1> QED
  BY <1>8, <1>9, <1>10, ToAnchorMonotone DEF f

\* The chain starts with one block.
LEMMA FeesClimbInit == Init => FeesClimb
<1> SUFFICES ASSUME Init PROVE FeesClimb
  OBVIOUS
<1>1. fees = <<FirstFee>> /\ Len(fees) = 1 /\ fees[1] > 0
  BY GasAssumption DEF Init, GasInit
<1>2. poll \in [pc : {"block"}, block : {0}, tick : 0..PollsPerL1 - 1]
  BY GasAssumption DEF Init, GasInit
<1>3. fees \in Seq(Nat) /\ Len(fees) \in 1..MaxBlock
  BY <1>1, GasAssumption
<1>4. GasTypeOK
  <2>1. poll \in [pc : {"block", "store", "prices"}, block : 0..Len(fees),
                  tick : 0..PollsPerL1 - 1]
    BY <1>1, <1>2
  <2>2. told \in 0..Len(fees) /\ feeBlock \in 0..Len(fees)
    BY <1>1 DEF Init, GasInit
  <2>3. perUnit \in UnitPrices \cup {0} /\ l1Price \in UnitPrices /\ putBack \in BOOLEAN
    BY DEF Init, GasInit
  <2> QED
    BY <1>3, <2>1, <2>2, <2>3 DEF GasTypeOK
<1> QED
  BY <1>1, <1>2, <1>4 DEF Init, GasInit, FeesClimb

\* The poll goes on in its round.
LEMMA PollGoesOn ==
  ASSUME FeesClimb
  PROVE  /\ NextPoll \in [pc : {"block"}, block : {0}, tick : 0..PollsPerL1 - 1]
         /\ AfterBlock \in [pc : {"block", "prices"}, block : {0}, tick : 0..PollsPerL1 - 1]
<1>1. poll.tick \in Nat /\ PollsPerL1 \in Nat \ {0}
  BY GasAssumption DEF FeesClimb, GasTypeOK
<1>2. (poll.tick + 1) % PollsPerL1 \in 0..PollsPerL1 - 1
  BY <1>1
<1>3. NextPoll \in [pc : {"block"}, block : {0}, tick : 0..PollsPerL1 - 1]
  BY <1>2 DEF NextPoll
<1>4. [poll EXCEPT !.pc = "prices", !.block = 0]
        \in [pc : {"prices"}, block : {0}, tick : 0..PollsPerL1 - 1]
  BY DEF FeesClimb, GasTypeOK
<1> QED
  BY <1>3, <1>4 DEF AfterBlock

\* A step of the gas station, or of the chain, keeps the fees in order.
LEMMA FeesClimbOn == FeesClimb /\ [Next]_vars => FeesClimb'
<1> SUFFICES ASSUME FeesClimb, [Next]_vars PROVE FeesClimb'
  OBVIOUS
<1> USE DEF FeesClimb, GasTypeOK
<1>1. CASE Mine
  <2> DEFINE last == fees[Len(fees)]
  <2>1. last \in Nat /\ last > 0 /\ last \div 8 \in Nat /\ last \div 8 < last
    <3>1. last \in Nat /\ last > 0
      OBVIOUS
    <3> HIDE DEF last, FeesClimb, GasTypeOK
    <3> QED
      BY <3>1
  <2>2. PICK f \in {last - last \div 8, last, last + last \div 8} : fees' = Append(fees, f)
    BY <1>1 DEF Mine
  <2>3. f \in Nat /\ f > 0 /\ f <= last + last \div 8
    <3> HIDE DEF last, FeesClimb, GasTypeOK
    <3> QED
      BY <2>1, <2>2
  <2>4. Len(fees) < MaxBlock /\ UNCHANGED <<l1Price, told, feeBlock, perUnit, poll, putBack>>
    BY <1>1 DEF Mine
  <2>5. fees' \in Seq(Nat) /\ Len(fees') = Len(fees) + 1 /\ Len(fees') \in 1..MaxBlock
    BY <2>2, <2>3, <2>4, GasAssumption, SMTT(20)
  <2>6. \A k \in 1..Len(fees) : fees'[k] = fees[k]
    BY <2>2, <2>3
  <2>7. fees'[Len(fees) + 1] = f
    BY <2>2, <2>3
  <2>8. \A k \in 1..Len(fees') - 1 : fees'[k + 1] <= fees'[k] + fees'[k] \div 8
    <3> SUFFICES ASSUME NEW k \in 1..Len(fees)
                 PROVE  fees'[k + 1] <= fees'[k] + fees'[k] \div 8
      BY <2>5
    <3>1. CASE k = Len(fees)
      BY <3>1, <2>3, <2>6, <2>7
    <3>2. CASE k < Len(fees)
      <4>1. k \in 1..Len(fees) - 1 /\ k + 1 \in 1..Len(fees)
        BY <3>2
      <4> QED
        BY <4>1, <2>6
    <3> QED
      BY <3>1, <3>2
  <2>9. GasTypeOK'
    BY <2>4, <2>5
  <2>10. \A k \in 1..Len(fees') : fees'[k] > 0
    <3> SUFFICES ASSUME NEW k \in 1..Len(fees) + 1 PROVE fees'[k] > 0
      BY <2>5
    <3>1. CASE k = Len(fees) + 1
      BY <3>1, <2>3, <2>7
    <3>2. CASE k \in 1..Len(fees)
      BY <3>2, <2>6
    <3> QED
      BY <3>1, <3>2
  <2> QED
    BY <2>4, <2>8, <2>9, <2>10
<1>2. CASE OnNewHead
  <2>1. told + 1 \in 1..Len(fees)
    BY <1>2 DEF OnNewHead
  <2>2. StoredOf(told + 1) = told + 1
    BY <2>1 DEF StoredOf
  <2>3. /\ told' = told + 1 /\ feeBlock' = told + 1 /\ putBack' = FALSE
        /\ UNCHANGED <<fees, l1Price, perUnit, poll>>
    BY <1>2, <2>2 DEF OnNewHead
  <2>4. GasTypeOK'
    <3>1. told + 1 \in 0..Len(fees)
      BY <2>1
    <3> QED
      BY <2>3, <3>1
  <2>5. feeBlock' >= told'
    BY <2>1, <2>3
  <2> QED
    BY <2>3, <2>4, <2>5
<1>3. CASE PollBlock
  <2>1. /\ poll' = [poll EXCEPT !.pc = "store", !.block = Len(fees)]
        /\ UNCHANGED <<fees, l1Price, told, feeBlock, perUnit, putBack>>
    BY <1>3 DEF PollBlock
  <2>2. Len(fees) \in 0..Len(fees) /\ Len(fees) > 0
    OBVIOUS
  <2>3. poll' \in [pc : {"block", "store", "prices"}, block : 0..Len(fees),
                  tick : 0..PollsPerL1 - 1]
    BY <2>1, <2>2
  <2>4. poll'.block = Len(fees)
    BY <2>1
  <2> QED
    BY <2>1, <2>2, <2>3, <2>4
<1>4. CASE PollFails
  BY <1>4, PollGoesOn DEF PollFails
<1>5. CASE PollStore
  <2>1. poll.block \in 1..Len(fees)
    BY <1>5 DEF PollStore
  <2>2. StoredOf(poll.block) = poll.block
    BY <2>1 DEF StoredOf
  <2>3. feeBlock' = poll.block /\ putBack' = (putBack \/ poll.block < told)
    BY <1>5, <2>2 DEF PollStore
  <2>4. poll' = AfterBlock /\ UNCHANGED <<fees, l1Price, told, perUnit>>
    BY <1>5 DEF PollStore
  <2>5. GasTypeOK' /\ poll'.pc # "store"
    BY <2>1, <2>3, <2>4, PollGoesOn
  <2>6. ~putBack' => feeBlock' >= told'
    <3>1. poll.block \in Nat /\ told \in Nat
      BY <2>1
    <3>2. putBack' \/ ~(poll.block < told)
      BY <2>3
    <3> HIDE DEF FeesClimb, GasTypeOK
    <3> QED
      BY <2>3, <2>4, <3>1, <3>2
  <2> QED
    BY <2>4, <2>5, <2>6
<1>6. CASE PricesFail
  BY <1>6, PollGoesOn DEF PricesFail
<1>7. CASE PollPrices
  BY <1>7, PollGoesOn DEF PollPrices
<1>9. ASSUME NEW u \in UnitPrices, RepriceL1(u) PROVE FeesClimb'
  BY <1>9 DEF RepriceL1
<1>8. CASE UNCHANGED gasVars
  BY <1>8 DEF gasVars
<1> QED
  BY <1>1, <1>2, <1>3, <1>4, <1>5, <1>6, <1>7, <1>8, <1>9 DEF Next, GasNext, vars

\* No step lowers the number of blocks, or rewrites the fee of one.
LEMMA ChainGrows ==
  ASSUME FeesClimb, [Next]_vars
  PROVE  /\ Len(fees) \in Nat /\ Len(fees') \in Nat /\ Len(fees) <= Len(fees')
         /\ \A k \in 1..Len(fees) : fees'[k] = fees[k]
<1> USE DEF FeesClimb, GasTypeOK
<1>1. CASE Mine
  <2>1. PICK f \in Int : fees' = Append(fees, f)
    BY <1>1 DEF Mine
  <2>2. fees \in Seq(Int)
    OBVIOUS
  <2> QED
    BY <2>1, <2>2
<1>2. CASE UNCHANGED fees
  BY <1>2
<1> QED
  BY <1>1, <1>2 DEF Next, GasNext, OnNewHead, PollBlock, PollFails, PollStore, PricesFail,
                    PollPrices, RepriceL1, gasVars, vars

\* Is of the newest block, and of the price of L1 calldata there, what a gate
\* that knows them reads?
LEMMA KnownIsNewest ==
  ASSUME FeesClimb, UpToDate
  PROVE  feeBlock = Len(fees) /\ feeBlock > 0 /\ perUnit = l1Price
BY DEF FeesClimb, GasTypeOK, UpToDate

\* "Buffer the base fee one block's max increase" (gas_station.rs:130-133):
\* what is sent pays, to its MinProfit, in the block after the newest at the
\* time it was priced, unless the station was then behind the chain: the first
\* fees not fetched, a header not handled, an older fee put back by a poll, or
\* the L1 price moved.  Headers, polls and failures come in any order.
THEOREM SentPaysIfKnownTheorem ==
  ASSUME Margin.num >= Margin.den
  PROVE  Spec => []SentPaysIfKnown
<1>1. Init => PricedInv
  BY FeesClimbInit DEF Init, PricedInv
<1>2. PricedInv /\ [Next]_vars => PricedInv'
  <2> SUFFICES ASSUME PricedInv, [Next]_vars PROVE PricedInv'
    OBVIOUS
  <2>1. FeesClimb /\ FeesClimb'
    BY FeesClimbOn DEF PricedInv
  <2>2. ASSUME NEW o, Priced(o) PROVE Priced(o)'
    BY <2>1, <2>2, ChainGrows DEF Priced, Charged
  <2>3. ASSUME left' \cup sent' \subseteq left \cup sent PROVE PricedInv'
    BY <2>1, <2>2, <2>3 DEF PricedInv
  <2>4. CASE UNCHANGED evalVars
    BY <2>3, <2>4 DEF evalVars
  <2>5. CASE \E r \in Routes : \E gross \in Grosses[Anchor[r]] \cup {0} : Tier2(r, gross)
    <3>0. PICK r \in Routes : \E gross \in Grosses[Anchor[r]] \cup {0} : Tier2(r, gross)
      BY <2>5
    <3>1. PICK gross \in Grosses[Anchor[r]] \cup {0} : Tier2(r, gross)
      BY <3>0
    <3> DEFINE o == [route |-> r, gross |-> gross, net |-> gross - GasCost(r, gross),
                     mined |-> Len(fees), unit |-> l1Price, known |-> UpToDate]
    <3>2. sent' = sent /\ (Pays(r, gross) => left' = left \cup {o})
      BY <3>1 DEF Tier2
    <3>3. ASSUME Pays(r, gross) PROVE Priced(o)
      <4>1. /\ o.route = r /\ o.gross = gross /\ o.unit = l1Price
            /\ o.mined = Len(fees) /\ o.known = UpToDate
        OBVIOUS
      <4> HIDE DEF o
      <4>2. o.gross \in Nat /\ MinProfit[Anchor[r]] \in Nat
        BY <4>1, RouteRate
      <4>3. o.unit \in Nat /\ o.mined \in 1..Len(fees)
        BY <2>1, <4>1, GasAssumption DEF FeesClimb, GasTypeOK
      <4>4. ASSUME UpToDate
            PROVE  o.gross - Charged(o, fees[o.mined] + fees[o.mined] \div 8) >= MinProfit[Anchor[r]]
        <5>1. o.mined = feeBlock /\ feeBlock > 0 /\ o.unit = perUnit
          BY <2>1, <4>1, <4>4, KnownIsNewest
        <5> QED
          BY <2>1, <3>3, <4>1, <4>2, <5>1, GateCoversNextBlock DEF Pays
      <4> QED
        BY <4>1, <4>2, <4>3, <4>4 DEF Priced
    <3> HIDE DEF o
    <3>4. CASE ~Pays(r, gross)
      <4>1. left' = left
        BY <3>1, <3>4 DEF Tier2
      <4> QED
        BY <2>3, <3>2, <4>1
    <3>5. CASE Pays(r, gross)
      <4>1. \A q \in left' \cup sent' : Priced(q)
        BY <3>2, <3>3, <3>5 DEF PricedInv
      <4> QED
        BY <2>1, <2>2, <4>1 DEF PricedInv
    <3> QED
      BY <3>4, <3>5
  <2>6. CASE Receive \/ Gate \/ EndTier2 \/ Finish
    BY <2>3, <2>6 DEF Receive, Gate, EndTier2, Finish, EndPass
  <2>7. CASE Tick \/ TakeOpportunity \/ \E S \in Changes, ts \in 0..MaxTime : AnnounceBatch(S, ts)
    BY <2>3, <2>7 DEF Tick, TakeOpportunity, AnnounceBatch
  <2>8. CASE \E S \in SUBSET Routes : Tier1(S)
    BY <2>3, <2>8 DEF Tier1, EndPass
  <2>9. CASE \E o \in left : Skip(o) \/ Emit(o)
    BY <2>3, <2>9 DEF Skip, Emit
  <2> QED
    BY <2>4, <2>5, <2>6, <2>7, <2>8, <2>9 DEF Next, Evaluate, vars
<1>3. PricedInv => SentPaysIfKnown
  <2> SUFFICES ASSUME PricedInv, NEW o \in sent, o.known, o.mined < Len(fees)
               PROVE  o.gross - Charged(o, fees[o.mined + 1]) >= MinProfit[Anchor[o.route]]
    BY DEF SentPaysIfKnown, PaysNext
  <2> DEFINE f == fees[o.mined]
             g == fees[o.mined + 1]
  <2>1. Priced(o)
    BY DEF PricedInv
  <2>2. f \in Nat /\ g \in Nat /\ f + f \div 8 \in Nat /\ g <= f + f \div 8
    <3>1. fees \in Seq(Nat) /\ o.mined \in 1..Len(fees) - 1 /\ o.mined + 1 \in 1..Len(fees)
      BY <2>1, SMTT(20) DEF PricedInv, FeesClimb, GasTypeOK, Priced
    <3>2. g <= f + f \div 8
      BY <3>1 DEF PricedInv, FeesClimb
    <3>3. f \in Nat /\ g \in Nat
      BY <3>1
    <3> HIDE DEF f, g
    <3> QED
      BY <3>2, <3>3
  <2>3. o.gross - Charged(o, f + f \div 8) >= MinProfit[Anchor[o.route]]
    BY <2>1 DEF Priced
  <2>4. o.route \in Routes /\ o.gross \in Nat /\ o.unit \in Nat
    BY <2>1 DEF Priced
  <2> HIDE DEF f, g
  <2>5. /\ Charged(o, g) \in Nat /\ Charged(o, f + f \div 8) \in Nat
        /\ Charged(o, g) <= Charged(o, f + f \div 8)
    BY <2>2, <2>4, ChargedMonotone
  <2>6. MinProfit[Anchor[o.route]] \in Nat
    BY <2>4, RouteRate
  <2>7. o.gross - Charged(o, g) >= MinProfit[Anchor[o.route]]
    BY <2>3, <2>4, <2>5, <2>6
  <2> QED
    BY <2>7 DEF g
<1> QED
  BY <1>1, <1>2, <1>3, PTL DEF Spec

-----------------------------------------------------------------------------
(* What the fee poller announces to the evaluator.                         *)

\* The first poll of a round is of concentrated-liquidity pools only, so that
\* only those are flagged when it fails.
FirstPollIsCl == stage = "cl" => targets \subseteq Cl

FeeInv == FeeTypeOK /\ FirstPollIsCl /\ WrittenIsAnnounced

LEMMA FeeTypeStep ==
  ASSUME FeeTypeOK, FirstPollIsCl, [FeeNext]_feeVars
  PROVE  FeeTypeOK'
<1>1. CASE UNCHANGED feeVars
  BY <1>1 DEF feeVars, FeeTypeOK
<1>2. ASSUME NEW p \in DynamicPools, NEW f \in Fees, Reprice(p, f)
      PROVE  FeeTypeOK'
  BY <1>2 DEF Reprice, FeeTypeOK
<1>3. ASSUME NEW p \in DynamicPools, HandleLog(p)
      PROVE  FeeTypeOK'
  BY <1>3 DEF HandleLog, FeeTypeOK
<1>4. ASSUME NEW p \in DynamicPools, Answer(p) \/ CallFails(p)
      PROVE  FeeTypeOK'
  BY <1>4 DEF Answer, CallFails, FeeTypeOK
<1>5. CASE TakeBatch
  BY <1>5 DEF TakeBatch, FeeTypeOK
<1>6. CASE Wake
  <2>1. ClTargets \subseteq Cl /\ ClTargets \subseteq DynamicPools
    BY DEF ClTargets, FeeTypeOK, DynamicPools
  <2>2. since' \in 0..SweepRounds
    BY <1>6, FeePollerAssumption DEF Wake, FeeTypeOK, SweepDue
  <2> QED
    BY <1>6, <2>1, <2>2 DEF Wake, FeeTypeOK, SweepDue
<1>7. NoAnswers \in [DynamicPools -> Fees \cup {NoFee}]
  BY DEF NoAnswers
<1>8. ASSUME NEW S \in SUBSET DynamicPools, GoOn(S)
      PROVE  /\ stage' \in {"sleep", "cl", "aero", "announce"}
             /\ targets' \subseteq DynamicPools /\ todo' \subseteq targets'
  BY <1>8 DEF GoOn, DynamicPools
<1>9. CASE Write
  <2>1. News \subseteq DynamicPools /\ \A p \in News : seen[p] \in Fees
    BY DEF News, FeeTypeOK
  <2>2. ChangedBy(News) \subseteq DynamicPools
    BY <2>1 DEF ChangedBy, FeeTypeOK
  <2>3. meta' \in [DynamicPools -> Fees]
    BY <1>9, <2>1 DEF Write, FeeTypeOK
  <2> QED
    BY <1>7, <1>8, <1>9, <2>1, <2>2, <2>3 DEF Write, FeeTypeOK
<1>10. CASE MulticallFails
  <2>1. Rechecked(targets) \subseteq Cl
    BY <1>10 DEF MulticallFails, Rechecked, FeeTypeOK, FirstPollIsCl
  <2> QED
    BY <1>7, <1>8, <1>10, <2>1 DEF MulticallFails, FeeTypeOK
<1>11. CASE Announce
  BY <1>11 DEF Announce, FeeTypeOK
<1> QED
  BY <1>1, <1>2, <1>3, <1>4, <1>5, <1>6, <1>9, <1>10, <1>11 DEF FeeNext
LEMMA FeeStep ==
  ASSUME FeeInv, [FeeNext]_feeVars
  PROVE  FeeInv'
<1> USE DEF FeeInv
<1>1. FeeTypeOK'
  BY FeeTypeStep
<1>2. CASE UNCHANGED feeVars
  BY <1>1, <1>2 DEF feeVars, FirstPollIsCl, WrittenIsAnnounced
<1>3. CASE \/ \E p \in DynamicPools, f \in Fees : Reprice(p, f)
           \/ \E p \in DynamicPools : HandleLog(p) \/ Answer(p) \/ CallFails(p)
           \/ TakeBatch
  <2>1. UNCHANGED <<stage, targets, changed, unsaid>>
    BY <1>3 DEF Reprice, HandleLog, Answer, CallFails, TakeBatch
  <2> QED
    BY <1>1, <2>1 DEF FirstPollIsCl, WrittenIsAnnounced
<1>4. CASE Wake
  BY <1>1, <1>4 DEF Wake, ClTargets, FeeTypeOK, FirstPollIsCl, WrittenIsAnnounced
<1>5. ASSUME NEW S, GoOn(S)
      PROVE  FirstPollIsCl' /\ (stage' = "sleep" => S = {})
  BY <1>5 DEF GoOn, FirstPollIsCl
<1>6. CASE Write
  BY <1>1, <1>5, <1>6 DEF Write, ChangedBy, WrittenIsAnnounced
<1>7. CASE MulticallFails
  BY <1>1, <1>5, <1>7 DEF MulticallFails, WrittenIsAnnounced
<1>8. CASE Announce
  BY <1>1, <1>8 DEF Announce, FirstPollIsCl, WrittenIsAnnounced
<1> QED
  BY <1>2, <1>3, <1>4, <1>6, <1>7, <1>8 DEF FeeNext

\* Every fee the poller has written and not announced is in what it announces at
\* the end of the round, whichever poll of the round fails, for every set of pools
\* and fees and every length of the channel.
THEOREM WrittenIsAnnouncedTheorem == FeeSpec => []WrittenIsAnnounced
<1>1. FeeInit => FeeInv
  <2>1. NoAnswers \in [DynamicPools -> Fees \cup {NoFee}]
    BY DEF NoAnswers
  <2>2. SweepRounds \in 0..SweepRounds
    BY FeePollerAssumption
  <2>3. FeeInit => FeeTypeOK
    <3>1. << >> \in Seq(SUBSET DynamicPools)
      OBVIOUS
    <3>2. {} \subseteq Cl /\ {} \subseteq DynamicPools
      OBVIOUS
    <3> QED
      BY <2>1, <2>2, <3>1, <3>2, Zenon DEF FeeInit, FeeTypeOK
  <2> QED
    BY <2>3 DEF FeeInit, FeeInv, FirstPollIsCl, WrittenIsAnnounced
<1>2. FeeInv /\ [FeeNext]_feeVars => FeeInv'
  BY FeeStep
<1>3. FeeInv => WrittenIsAnnounced
  BY DEF FeeInv
<1> QED
  BY <1>1, <1>2, <1>3, PTL DEF FeeSpec

=============================================================================
