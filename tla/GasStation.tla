----------------------------- MODULE GasStation -----------------------------
(***************************************************************************)
(* The gas station (src/src/gas/gas_station.rs): the base fee, stored by   *)
(* the pipeline from each header and by a poll from the latest block, the  *)
(* price of L1 calldata, polled more rarely, and what a transaction is     *)
(* expected to cost by them.  Gas is counted in tens of thousands and      *)
(* calldata in pieces of eight bytes.                                      *)
(***************************************************************************)
EXTENDS Integers, Sequences, FiniteSets, FiniteSetsExt

CONSTANTS
  FirstFee,   \* base fee of the first block
  UnitPrices, \* what L1 calldata may cost on the chain, per eight bytes
  PollsPerL1, \* polls of the base fee to one of the L1 prices
  Prio,       \* [share, of, min, max]: the tip is a share of the profit, within bounds
  Margin,     \* [num, den]: l1_fee_margin
  MaxBlock    \* bound: blocks

ASSUME GasAssumption ==
  /\ FirstFee \in Nat \ {0}
  /\ UnitPrices \subseteq Nat
  /\ PollsPerL1 \in Nat \ {0} /\ MaxBlock \in Nat \ {0}
  /\ Prio \in [share : Nat, of : Nat \ {0}, min : Nat, max : Nat] /\ Prio.min <= Prio.max
  /\ Margin \in [num : Nat, den : Nat \ {0}]

VARIABLES
  fees,     \* the chain: the base fee of each block
  l1Price,  \* the chain: the price of L1 calldata
  told,     \* the last block whose header the pipeline has handled
  feeBlock, \* the block base_fee was stored from, 0 before the first
  perUnit,  \* per_l1_calldata_unit, 0 before the first answer
  poll,     \* [pc, block, tick]: the poll, and the block its answer is of
  putBack   \* history: since the last header a poll has stored an older fee

gasVars == <<fees, l1Price, told, feeBlock, perUnit, poll, putBack>>

GasTypeOK ==
  /\ fees \in Seq(Nat) /\ Len(fees) \in 1..MaxBlock
  /\ l1Price \in UnitPrices
  /\ told \in 0..Len(fees)
  /\ feeBlock \in 0..Len(fees)
  /\ perUnit \in UnitPrices \cup {0}
  /\ poll \in [pc : {"block", "store", "prices"}, block : 0..Len(fees),
               tick : 0..PollsPerL1 - 1]
  /\ putBack \in BOOLEAN

GasInit ==
  /\ fees = <<FirstFee>>
  /\ l1Price \in UnitPrices
  /\ told = 0
  /\ feeBlock = 0
  /\ perUnit = 0
  /\ poll = [pc |-> "block", block |-> 0, tick |-> 0]
  /\ putBack = FALSE

\* The gate reads 0 until a fee is stored.
baseFee == IF feeBlock = 0 THEN 0 ELSE fees[feeBlock]

-----------------------------------------------------------------------------
\* The base fee moves by an eighth a block at most.
Mine ==
  /\ Len(fees) < MaxBlock
  /\ LET last == fees[Len(fees)]
     IN \E f \in {last - last \div 8, last, last + last \div 8} : fees' = Append(fees, f)
  /\ UNCHANGED <<l1Price, told, feeBlock, perUnit, poll, putBack>>

\* L1 prices move on their own cadence.
RepriceL1(u) ==
  /\ l1Price' = u
  /\ UNCHANGED <<fees, told, feeBlock, perUnit, poll, putBack>>

\* mutant: a fee once stored is kept
StoredOf_First(b) == IF feeBlock = 0 THEN b ELSE feeBlock

\* on_new_head stores what it is given, whatever was stored before, but a zero.
StoredOf(b) == IF fees[b] > 0 THEN b ELSE feeBlock

\* The pipeline handles the next header.
OnNewHead ==
  /\ told < Len(fees)
  /\ told' = told + 1
  /\ feeBlock' = StoredOf(told')
  /\ putBack' = FALSE
  /\ UNCHANGED <<fees, l1Price, perUnit, poll>>

NextPoll == [pc |-> "block", block |-> 0, tick |-> (poll.tick + 1) % PollsPerL1]

\* The L1 prices are asked for after the block, whether that answered or not.
AfterBlock == IF poll.tick = 0 THEN [poll EXCEPT !.pc = "prices", !.block = 0] ELSE NextPoll

\* The node answers with the latest block.
PollBlock ==
  /\ poll.pc = "block"
  /\ poll' = [poll EXCEPT !.pc = "store", !.block = Len(fees)]
  /\ UNCHANGED <<fees, l1Price, told, feeBlock, perUnit, putBack>>

PollFails ==
  /\ poll.pc = "block"
  /\ poll' = AfterBlock
  /\ UNCHANGED <<fees, l1Price, told, feeBlock, perUnit, putBack>>

\* The answer arrives.
PollStore ==
  /\ poll.pc = "store"
  /\ feeBlock' = StoredOf(poll.block)
  /\ putBack' = (putBack \/ poll.block < told)
  /\ poll' = AfterBlock
  /\ UNCHANGED <<fees, l1Price, told, perUnit>>

PollPrices ==
  /\ poll.pc = "prices"
  /\ perUnit' = l1Price
  /\ poll' = NextPoll
  /\ UNCHANGED <<fees, l1Price, told, feeBlock, putBack>>

PricesFail ==
  /\ poll.pc = "prices"
  /\ poll' = NextPoll
  /\ UNCHANGED <<fees, l1Price, told, feeBlock, perUnit, putBack>>

GasNext ==
  \/ Mine \/ OnNewHead \/ PollBlock \/ PollFails \/ PollStore \/ PollPrices \/ PricesFail
  \/ \E u \in UnitPrices : RepriceL1(u)

-----------------------------------------------------------------------------
(* What a transaction costs.                                               *)

\* The station knows the prices of the moment: it has handled the header of
\* the newest block, no poll has put an older fee back since, and the price of
\* L1 calldata it was last answered still stands.
UpToDate == told = Len(fees) /\ ~putBack /\ perUnit = l1Price

HopGas == [v2 |-> 9, v3 |-> 15, stable |-> 12, v4 |-> 25]

\* kind says what each pool is.
HopsOf(k, pools, kind) == Cardinality({p \in pools : kind[p] = k})

\* The loan is always counted.
RouteGasUnits(pools, kind) ==
  9 + HopGas.v2 * HopsOf("v2", pools, kind) + HopGas.v3 * HopsOf("v3", pools, kind)
    + HopGas.stable * HopsOf("stable", pools, kind) + HopGas.v4 * HopsOf("v4", pools, kind) + 9

CalldataLen(pools, kind) == 33 + 20 * Cardinality(pools) + 16 * HopsOf("v4", pools, kind)

PriorityFee(profit, gas) ==
  LET budget == (profit * Prio.share) \div (Prio.of * gas)
  IN Max({Prio.min, Min({Prio.max, budget})})

EstimateL1Fee(len) == (len * perUnit * Margin.num) \div Margin.den

TotalGasCost(gas, prio, len) == ((baseFee * 9) \div 8 + prio) * gas + EstimateL1Fee(len)

-----------------------------------------------------------------------------
\* "Zero-cost and always freshest": what is stored is never replaced by the
\* fee of an older block.
FeeNeverGoesBack == [][feeBlock' >= feeBlock]_gasVars

=============================================================================
