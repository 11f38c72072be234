---------------------------- MODULE SlotLayouts ----------------------------
(***************************************************************************)
(* Where a pool's words live (src/src/ingest/slot_layout.rs) and the read  *)
(* recipes made of it (build_slot_plans in src/src/state.rs).  Nothing is  *)
(* assumed of a dex's contracts: for each tag up to Samples pools are      *)
(* tried; the values their view functions return are looked for among the  *)
(* first words of their storage, and where they are found they are read    *)
(* from then on, for every pool with that tag, whichever dex it is of.     *)
(*                                                                         *)
(* A word is abstracted to the values the decoders can take out of it, one *)
(* for each offset they know: 0, and 48 in an Algebra word.                *)
(***************************************************************************)
EXTENDS Hydration

CONSTANTS
  Words,      \* pool -> slot -> offset -> value; slots are 0 .. ScanSlots - 1
  ScanSlots,  \* SCAN_SLOTS
  View,       \* pool -> the values of its view functions:
              \*   [state, liquidity] or [r0, r1]; fee and lastFee
  TickBases,  \* factory -> the mappings' base slots [ticks, bitmap]
  Samples     \* DISCOVERY_SAMPLES

ASSUME SlotLayoutsAssumption == ScanSlots \in Nat /\ Samples \in Nat

VARIABLES
  layouts,  \* tag -> its layout, at most one
  sampled,  \* history: tag -> the pool it was found in
  probing,  \* tags not probed yet
  plans     \* the plan of each pool of the engine, at most one

layoutVars == <<layouts, sampled, probing, plans>>

Kinds == {"v2", "volatile", "stable", "v3", "algebra"}

LayoutsInit ==
  /\ layouts = [t \in Kinds |-> {}]
  /\ sampled = [t \in Kinds |-> {}]
  /\ probing = {}
  /\ plans = << >>

First(S) == IF S = {} THEN {} ELSE {Min(S)}
Slots == 0 .. ScanSlots - 1

-----------------------------------------------------------------------------
(* One sample pool.                                                         *)

\* mutant: a pool that trades nothing is as good as any
Alive_Any(p) == TRUE

\* A pool without a price, liquidity or reserve reads like an unused slot.
Alive(p) ==
  CASE Info[p].tag \in {"v3", "algebra"} -> View[p].state # 0 /\ View[p].liquidity # 0
    [] OTHER -> View[p].r0 # 0

\* The packed reserves in one word, or the reserves in two that follow.
PackedLayout(p) ==
  {[state |-> s] : s \in First({i \in Slots : Words[p][i][0] = <<View[p].r0, View[p].r1>>})}

TwoSlotLayout(p) ==
  {[state |-> s] : s \in First({i \in Slots \ {ScanSlots - 1} :
                           Words[p][i][0] = View[p].r0 /\ Words[p][i + 1][0] = View[p].r1})}

StateSlot(p) == First({i \in Slots : Words[p][i][0] = View[p].state})

\* The probe tick nominated by the nearest bitmap word that is not empty must
\* hold liquidity; the base slots that reproduce both must differ.
TickMapping(p) ==
  LET bases == TickBases[Info[p].factory]
  IN IF Info[p].ticked /\ bases.ticks # bases.bitmap THEN {bases} ELSE {}

\* Liquidity lies in the low bits of a word other than the state's.
V3LiquiditySlot(p) ==
  First({i \in Slots : Words[p][i][0] = View[p].liquidity}) \ StateSlot(p)

V3Layout(p) ==
  {[state |-> s, liquidity |-> l, shift |-> 0, bases |-> b] :
     s \in StateSlot(p), l \in V3LiquiditySlot(p), b \in TickMapping(p)}

\* Where in a slot an Algebra pool may have its liquidity.
LiquidityIn(p, i) == {o \in {0, 48} : Words[p][i][o] = View[p].liquidity}

\* Liquidity may sit at either offset, in any slot but the state's.
AlgebraLiquiditySlot(p) == First({i \in Slots \ StateSlot(p) : LiquidityIn(p, i) # {}})

\* With the offset of the fee in the state word, if the last swap's fee is there.
AlgebraLayout(p) ==
  {[state |-> s, liquidity |-> l, shift |-> Min(LiquidityIn(p, l)), bases |-> b,
    feeInWord |-> View[p].lastFee # 0] :
     s \in StateSlot(p), l \in AlgebraLiquiditySlot(p), b \in TickMapping(p)}

DiscoverOne(p) ==
  IF ~ Alive(p) THEN {}
  ELSE CASE Info[p].tag = "v2" -> PackedLayout(p)
         [] Info[p].tag \in {"volatile", "stable"} -> TwoSlotLayout(p)
         [] Info[p].tag = "v3" -> V3Layout(p)
         [] OTHER -> AlgebraLayout(p)

-----------------------------------------------------------------------------
(* The layouts and the plans.                                               *)

SamplesOf(t) ==
  LET ns == {n \in DOMAIN engine : engine[n].tag = t}
  IN {n \in ns : Cardinality({m \in ns : m < n}) < Samples}

BeginLayouts ==
  /\ pc = "built"
  /\ pc' = "layouts"
  /\ probing' = {engine[n].tag : n \in DOMAIN engine} \ {"v4"}
  /\ UNCHANGED <<layouts, sampled, plans>>

\* The first sample that gives a layout decides, for all; one whose probe fails is
\* passed over, and so may be one whose spacing is not the one registered.
ProbeKind(t) ==
  /\ pc = "layouts" /\ t \in probing
  /\ \E failed \in SUBSET SamplesOf(t) :
       LET good == {n \in SamplesOf(t) \ failed : DiscoverOne(engine[n].pool) # {}}
       IN /\ layouts' = [layouts EXCEPT ![t] =
                           UNION {DiscoverOne(engine[n].pool) : n \in First(good)}]
          /\ sampled' = [sampled EXCEPT ![t] = {engine[n].pool : n \in First(good)}]
  /\ probing' = probing \ {t}
  /\ UNCHANGED <<pc, plans>>

\* The fee a swap pays must be the one in the word, for this very pool.
FeeTrusted(p, l) ==
  Words[p][l.state][0] = View[p].state /\ View[p].fee = View[p].lastFee

V4Plan == [slots |-> "derived", feeFrom |-> "meta"]

PlanOf(e, answered) ==
  IF e.tag = "v4" THEN {V4Plan}
  ELSE {[slots |-> l,
         feeFrom |-> IF e.tag = "algebra" /\ l.feeInWord /\ answered /\ FeeTrusted(e.pool, l)
                     THEN "word" ELSE "meta"] : l \in layouts[e.tag]}

\* A pool without a plan stays, unquotable; with no layout at all the process
\* ends, whether or not a pool needs one.
BuildPlans ==
  /\ pc = "layouts" /\ probing = {}
  /\ \E t \in Kinds : layouts[t] # {}
  /\ \E failed \in SUBSET {n \in DOMAIN engine : engine[n].tag = "algebra"} :
       plans' = [n \in DOMAIN engine |-> PlanOf(engine[n], n \notin failed)]
  /\ pc' = "planned"
  /\ layouts' = [t \in Kinds |-> {}]
  /\ UNCHANGED <<sampled, probing>>

ForgetLayouts ==
  /\ layouts' = [t \in Kinds |-> {}] /\ sampled' = [t \in Kinds |-> {}]
  /\ probing' = {} /\ plans' = << >>

Layout == BeginLayouts \/ BuildPlans \/ \E t \in Kinds : ProbeKind(t)

-----------------------------------------------------------------------------
(* Properties.                                                             *)

\* What a plan reads of a pool.
ReadBy(p, l) ==
  CASE Info[p].tag = "v2" -> Words[p][l.state][0]
    [] Info[p].tag \in {"volatile", "stable"} -> <<Words[p][l.state][0], Words[p][l.state + 1][0]>>
    [] OTHER -> <<Words[p][l.state][0], Words[p][l.liquidity][l.shift]>>

Owns(p) ==
  CASE Info[p].tag \in {"v3", "algebra"} -> <<View[p].state, View[p].liquidity>>
    [] OTHER -> <<View[p].r0, View[p].r1>>

\* Slot i of the pool reads like its price, or like its reserves.
LikeState(p, i) ==
  CASE Info[p].tag = "v2" -> Words[p][i][0] = <<View[p].r0, View[p].r1>>
    [] Info[p].tag \in {"volatile", "stable"} ->
         i # ScanSlots - 1 /\ Words[p][i][0] = View[p].r0 /\ Words[p][i + 1][0] = View[p].r1
    [] OTHER -> Words[p][i][0] = View[p].state

\* Where its liquidity may be looked for in a slot.
Offsets(p) == CASE Info[p].tag = "v3" -> {0} [] Info[p].tag = "algebra" -> {0, 48} [] OTHER -> {}

\* The pools of one factory are one contract, unless they are of different kinds.
Fork(p) == <<KindOf(Info[p].tag), Info[p].factory>>

\* The pools of a fork have their values at the same slots, and one that is in use
\* has them nowhere else among the words that are scanned.
Home(fork, s, l, o) ==
  \A p \in {q \in Pools : Fork(q) = fork} :
    /\ ReadBy(p, [state |-> s, liquidity |-> l, shift |-> o]) = Owns(p)
    /\ Owns(p)[1] # 0 /\ (Offsets(p) # {} => Owns(p)[2] # 0) => \A i \in Slots :
         /\ LikeState(p, i) => i = s
         /\ \A x \in Offsets(p) : Words[p][i][x] = View[p].liquidity => <<i, x>> = <<l, o>>

\* All the discovery relies on within a fork.  Of two forks it says nothing.
OneHome ==
  \A fork \in {Fork(p) : p \in {q \in Pools : Info[q].tag \in Kinds}} :
    \E s, l \in Slots, o \in {0, 48} : Home(fork, s, l, o)

\* A plan reads of a pool what the pool's own view functions return, and its ticks
\* where the pool keeps them.
ReadsIts(p, l) ==
  /\ ReadBy(p, l) = Owns(p)
  /\ Offsets(p) # {} => l.bases = TickBases[Info[p].factory]

\* The layout found in one sample is right for every pool of the sample's own fork,
\* whichever samples were dead or failed; a pool of another fork that has the same
\* tag is given it too, and nothing is said of that.  And a fee is taken out of the
\* word only where it is the fee a swap pays (discover_layouts, build_slot_plans).
PlansReadTheirPools ==
  pc = "planned" =>
    \A n \in DOMAIN plans : \A plan \in plans[n] :
      LET p == engine[n].pool
      IN /\ engine[n].tag # "v4" =>
              \A q \in sampled[engine[n].tag] : Fork(q) = Fork(p) => ReadsIts(p, plan.slots)
         /\ plan.feeFrom = "word" => View[p].fee = View[p].lastFee

\* "Layouts differ across forks ... every offset here is matched against a real
\* on-chain view call, never assumed" (slot_layout.rs): whatever its fork, a pool
\* with a plan is read where its own values are.
EveryForkMatched ==
  pc = "planned" =>
    \A n \in DOMAIN plans : engine[n].tag # "v4" =>
      \A plan \in plans[n] : ReadsIts(engine[n].pool, plan.slots)

=============================================================================
