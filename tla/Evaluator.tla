----------------------------- MODULE Evaluator -----------------------------
(***************************************************************************)
(* The evaluator (src/src/routing/evaluator.rs): one task that takes every *)
(* queued ChangedBatch at once, looks up the routes through the changed    *)
(* pools (src/src/routing/store.rs), filters them in two tiers, the second *)
(* with the gas station's prices, and sends the opportunities that share   *)
(* no pool, best first, to the sender, whose channel is bounded: a send    *)
(* may wait.                                                               *)
(*                                                                         *)
(* What a route's quotes come to is data: it is read from a state that     *)
(* changes all the time (StateMemo).  Any routes may pass the spot gate,   *)
(* and any gross profit may be found by the optimizer.                     *)
(***************************************************************************)
EXTENDS GasStation

CONSTANTS
  Pools,
  Kind,       \* of a pool, as HopGasKind tells them apart
  Routes,     \* a route is the set of the pools it trades through
  Anchor,     \* of a route
  Rate,       \* [num, den] of an anchor: wei to its smallest unit (pricing.rs)
  MinProfit,  \* of an anchor, in its smallest unit
  Changes,    \* the sets of pools a batch may list
  Grosses,    \* of an anchor: gross profits the optimizer may find
  TopN,       \* tier2_top_n
  DropAge,    \* drop_ms, in steps of the clock
  InCap,      \* capacity of the ChangedBatch channel
  OutCap,     \* capacity of the opportunity channel
  MaxTime,    \* bound: the clock
  MaxBatches  \* bound: batches announced

Anchors == {Anchor[r] : r \in Routes}

ASSUME EvaluatorAssumption ==
  /\ IsFiniteSet(Pools) /\ Routes \subseteq SUBSET Pools
  /\ Kind \in [Pools -> DOMAIN HopGas]
  /\ DOMAIN Anchor = Routes
  /\ Rate \in [Anchors -> [num : Nat \ {0}, den : Nat \ {0}]]
  /\ MinProfit \in [Anchors -> Nat]
  /\ Changes \subseteq SUBSET Pools
  /\ Grosses \in [Anchors -> SUBSET (Nat \ {0})]
  /\ TopN \in Nat /\ DropAge \in Nat
  /\ InCap \in Nat \ {0} /\ OutCap \in Nat \ {0}
  /\ MaxTime \in Nat /\ MaxBatches \in Nat

VARIABLES
  now,        \* the clock
  inQ,        \* the ChangedBatch channel
  announced,  \* batches announced (bound only)
  pc,         \* "recv", "tier1", "gate", "tier2" or "emit"
  batch,      \* the batch being evaluated
  passed,     \* the routes that go on to the next tier
  left,       \* the opportunities not considered yet
  used,       \* pools of the opportunities sent in this pass
  sent,       \* history: the opportunities sent in this pass
  skipped,    \* history: those that were not
  outQ        \* the opportunity channel

evalVars == <<now, inQ, announced, pc, batch, passed, left, used, sent, skipped, outQ>>
vars == <<evalVars, gasVars>>

Batch == [pools : SUBSET Pools, ts : 0..MaxTime]
NoBatch == [pools |-> {}, ts |-> 0]

\* An EvaluatedOpportunity, and history: the newest block on the chain when it
\* was priced, the price of L1 calldata there, and whether the gas station knew
\* them.
Opportunity ==
  [route : Routes, gross : UNION {Grosses[a] : a \in Anchors}, net : Nat,
   mined : 1..MaxBlock, unit : UnitPrices, known : BOOLEAN]

TypeOK ==
  /\ now \in 0..MaxTime
  /\ inQ \in Seq(Batch)
  /\ Len(inQ) <= InCap
  /\ announced \in 0..MaxBatches
  /\ pc \in {"recv", "tier1", "gate", "tier2", "emit"}
  /\ batch \in Batch
  /\ passed \subseteq Routes
  /\ left \subseteq Opportunity
  /\ used \subseteq Pools
  /\ sent \subseteq Opportunity
  /\ skipped \subseteq Opportunity
  /\ outQ \in Seq(Routes)
  /\ Len(outQ) <= OutCap
  /\ GasTypeOK

Init ==
  /\ GasInit
  /\ now = 0
  /\ inQ = << >>
  /\ announced = 0
  /\ pc = "recv"
  /\ batch = NoBatch
  /\ passed = {}
  /\ left = {}
  /\ used = {}
  /\ sent = {}
  /\ skipped = {}
  /\ outQ = << >>

-----------------------------------------------------------------------------
(* The clock, the pipeline and the sender.                                 *)

Tick ==
  /\ now < MaxTime
  /\ now' = now + 1
  /\ UNCHANGED <<inQ, announced, pc, batch, passed, left, used, sent, skipped, outQ>>

\* A batch is stamped after its prefetch; its send may have waited for room.
AnnounceBatch(S, ts) ==
  /\ announced < MaxBatches
  /\ Len(inQ) < InCap
  /\ ts <= now
  /\ announced' = announced + 1
  /\ inQ' = Append(inQ, [pools |-> S, ts |-> ts])
  /\ UNCHANGED <<now, pc, batch, passed, left, used, sent, skipped, outQ>>

TakeOpportunity ==
  /\ outQ # << >>
  /\ outQ' = Tail(outQ)
  /\ UNCHANGED <<now, inQ, announced, pc, batch, passed, left, used, sent, skipped>>

-----------------------------------------------------------------------------
(* One pass.                                                               *)

\* The queued batches in one, which is as old as the oldest of them.
Coalesced ==
  [pools |-> UNION {inQ[k].pools : k \in 1..Len(inQ)},
   ts |-> Min({inQ[k].ts : k \in 1..Len(inQ)})]

Stale(b) == now - b.ts > DropAge

\* The routes through a changed pool (the reverse index by_pool).
CandidatesOf(b) == {r \in Routes : r \cap b.pools # {}}

\* Nothing is carried from one pass to the next.
EndPass ==
  /\ pc' = "recv"
  /\ batch' = NoBatch
  /\ passed' = {}
  /\ left' = {}
  /\ used' = {}
  /\ sent' = {}
  /\ skipped' = {}

\* A batch that reads too old is dropped, and one without a route is done with.
Receive ==
  /\ pc = "recv"
  /\ inQ # << >>
  /\ inQ' = << >>
  /\ IF Stale(Coalesced) \/ CandidatesOf(Coalesced) = {}
     THEN UNCHANGED <<pc, batch, passed>>
     ELSE /\ pc' = "tier1"
          /\ batch' = Coalesced
          /\ passed' = CandidatesOf(Coalesced)
  /\ UNCHANGED <<now, announced, left, used, sent, skipped, outQ>>

\* The spot products are read: S are the routes above the gate, or the best
\* TopN of them.
Tier1(S) ==
  /\ pc = "tier1"
  /\ S \subseteq passed
  /\ Cardinality(S) <= TopN
  /\ IF S = {} THEN EndPass
     ELSE /\ pc' = "gate"
          /\ passed' = S
          /\ UNCHANGED <<batch, left, used, sent, skipped>>
  /\ UNCHANGED <<now, inQ, announced, outQ>>

\* The batch may have grown too old in tier 1.
Gate ==
  /\ pc = "gate"
  /\ IF Stale(batch) THEN EndPass
     ELSE pc' = "tier2" /\ UNCHANGED <<batch, passed, left, used, sent, skipped>>
  /\ UNCHANGED <<now, inQ, announced, outQ>>

\* anchor_to_weth_wei and weth_wei_to_anchor; both round down.
ToWei(a, x) == (x * Rate[a].num) \div Rate[a].den
ToAnchor(a, wei) == (wei * Rate[a].den) \div Rate[a].num

TipOf(r, gross) == PriorityFee(ToWei(Anchor[r], gross), RouteGasUnits(r, Kind))

\* The cost of a transaction for r, in the units of its anchor.
GasCost(r, gross) ==
  ToAnchor(Anchor[r], TotalGasCost(RouteGasUnits(r, Kind), TipOf(r, gross), CalldataLen(r, Kind)))

Pays(r, gross) ==
  /\ gross > GasCost(r, gross)
  /\ gross - GasCost(r, gross) >= MinProfit[Anchor[r]]

\* A route is sized and priced, with the base fee and the L1 price of this
\* moment: the routes of a pass may read different ones.  The optimizer finds
\* the profit gross, or none (0), and the gate lets it pass or not.
Tier2(r, gross) ==
  /\ pc = "tier2"
  /\ r \in passed
  /\ passed' = passed \ {r}
  /\ IF Pays(r, gross)
     THEN left' = left \cup {[route |-> r, gross |-> gross, net |-> gross - GasCost(r, gross),
                             mined |-> Len(fees), unit |-> l1Price, known |-> UpToDate]}
     ELSE UNCHANGED left
  /\ UNCHANGED <<now, inQ, announced, pc, batch, used, sent, skipped, outQ>>

EndTier2 ==
  /\ pc = "tier2"
  /\ passed = {}
  /\ IF left = {} THEN EndPass
     ELSE pc' = "emit" /\ UNCHANGED <<batch, passed, left, used, sent, skipped>>
  /\ UNCHANGED <<now, inQ, announced, outQ>>

\* mutant: profits are compared in the units of their anchors
RankKey_Native(o) == o.net

\* Profits of different anchors are compared in wei.
RankKey(o) == ToWei(Anchor[o.route], o.net)

\* mutant: the opportunities are sorted the wrong way round
Leads_Worst(o) == \A q \in left : RankKey(o) <= RankKey(q)

\* Opportunities are considered in the order of their profit.
Leads(o) == \A q \in left : RankKey(o) >= RankKey(q)

\* mutant: a route is left out only when all its pools are used
Conflicts_AllPools(r) == r \subseteq used

Conflicts(r) == r \cap used # {}

Skip(o) ==
  /\ pc = "emit"
  /\ o \in left
  /\ Leads(o)
  /\ Conflicts(o.route)
  /\ left' = left \ {o}
  /\ skipped' = skipped \cup {o}
  /\ UNCHANGED <<now, inQ, announced, pc, batch, passed, used, sent, outQ>>

Emit(o) ==
  /\ pc = "emit"
  /\ o \in left
  /\ Leads(o)
  /\ ~Conflicts(o.route)
  /\ Len(outQ) < OutCap
  /\ left' = left \ {o}
  /\ used' = used \cup o.route
  /\ sent' = sent \cup {o}
  /\ outQ' = Append(outQ, o.route)
  /\ UNCHANGED <<now, inQ, announced, pc, batch, passed, skipped>>

Finish ==
  /\ pc = "emit"
  /\ left = {}
  /\ EndPass
  /\ UNCHANGED <<now, inQ, announced, outQ>>

Evaluate ==
  \/ Tick \/ TakeOpportunity \/ Receive \/ Gate \/ EndTier2 \/ Finish
  \/ \E S \in Changes, ts \in 0..MaxTime : AnnounceBatch(S, ts)
  \/ \E S \in SUBSET Routes : Tier1(S)
  \/ \E r \in Routes : \E gross \in Grosses[Anchor[r]] \cup {0} : Tier2(r, gross)
  \/ \E o \in left : Skip(o) \/ Emit(o)

Next ==
  \/ Evaluate /\ UNCHANGED gasVars
  \/ GasNext /\ UNCHANGED evalVars

Spec == Init /\ [][Next]_vars

-----------------------------------------------------------------------------
(* Properties.                                                             *)

\* "Emit disjoint-pool opportunities": no two of one pass trade through the
\* same pool, since the first would move the price under the second.
SentDisjoint ==
  \A o, q \in sent : o # q => o.route \cap q.route = {}

\* "Best first": an opportunity that is left out shares a pool with one that
\* is sent and is worth no less, whatever the anchors of the two.
LeftOutForBetter ==
  \A o \in skipped : \E q \in sent :
    /\ o.route \cap q.route # {}
    /\ ToWei(Anchor[q.route], q.net) >= ToWei(Anchor[o.route], o.net)

\* What a transaction for o costs in a block with that base fee.
Charged(o, fee) ==
  LET gas == RouteGasUnits(o.route, Kind)
  IN ToAnchor(Anchor[o.route],
              (fee + TipOf(o.route, o.gross)) * gas + CalldataLen(o.route, Kind) * o.unit)

PaysNext(o) ==
  o.mined < Len(fees) =>
    o.gross - Charged(o, fees[o.mined + 1]) >= MinProfit[Anchor[o.route]]

\* "Buffer the base fee one block's max increase": what is sent pays in the
\* block after the newest at the time it was priced, whichever routes of its
\* pass were priced in which block and however their conversions round, unless
\* the station did not know the prices of that moment: a header or the first
\* answer was still to come, a poll had put an older fee back, or the L1 price
\* had moved since it was asked for.
SentPaysIfKnown == \A o \in sent : o.known => PaysNext(o)

\* "The profit gate subtracts BOTH L2 execution cost and the L1 calldata fee"
\* (gas_station.rs:2-3): what is sent pays in the next block.  Before the first
\* header, the first poll and the first answer of the oracle the gate subtracts
\* a fee of 0, and a fee that a poll has put back may be too low.
SentPays == \A o \in sent : PaysNext(o)

=============================================================================
