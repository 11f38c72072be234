------------------------------ MODULE TickWalk ------------------------------
(***************************************************************************)
(* One exact-input quote of a concentrated-liquidity pool (try_swap_src in *)
(* src/src/math/v3.rs over the ClTickReader of src/src/state.rs), step by  *)
(* step: the walk asks the tick cache for the bitmap word it is in, goes   *)
(* to the next initialised tick of that word or to its edge, and takes in  *)
(* the liquidity that begins or ends there.  The cache knows some words    *)
(* only, and another task may refresh it under the walk.                   *)
(*                                                                         *)
(* A price is counted in Sub units to a tick.  A unit costs the liquidity  *)
(* it passes and pays the less the further the price has moved.            *)
(***************************************************************************)
EXTENDS Integers, FiniteSets, FiniteSetsExt, Functions

CONSTANTS
  Layouts,          \* sets of positions the pool may have: [lo, hi, amount]
  Spacing,          \* tickSpacing: where positions may begin and end
  WordSize,         \* bits of a bitmap word
  MinTick, MaxTick,
  Sub,              \* price units to a tick
  Amounts,          \* amounts to quote
  MaxSteps,         \* the bound on the iterations
  MaxUnknown,       \* bound: bitmap words the cache lacks
  MaxLost,          \* bound: nets that could not be fetched with their words
  MaxChanges        \* bound: refreshes during the walk

Ticks == MinTick .. MaxTick
Prices == MinTick * Sub .. MaxTick * Sub

ASSUME TickWalkAssumption ==
  /\ Spacing \in Nat \ {0} /\ WordSize \in Nat \ {0} /\ Sub \in Nat \ {0}
  /\ MinTick \in Int /\ MaxTick \in Int /\ MinTick < 0 /\ MaxTick > 0
  /\ \A P \in Layouts : IsFiniteSet(P) /\ \A q \in P :
       /\ q.lo < q.hi /\ {q.lo, q.hi} \subseteq Ticks
       /\ q.lo % Spacing = 0 /\ q.hi % Spacing = 0
       /\ q.amount \in Nat
  /\ Amounts \subseteq Nat
  /\ MaxSteps \in Nat /\ MaxUnknown \in Nat /\ MaxLost \in Nat /\ MaxChanges \in Nat

VARIABLES
  codec,      \* "packed" (V3, V4) or "two words" (Algebra)
  positions,  \* the pool's
  start,      \* what was asked: [price, amount, down]
  known,      \* the bitmap words the cache has
  bits,       \* initialised ticks, as the cache has them
  nets,       \* tick -> liquidity net, as the cache has it
  sqrtPrice, tick, liquidity, remaining, out,   \* of the walk
  steps,
  status,     \* "walking", "edge", "bound", "done" or "error"
  changes,    \* refreshes so far
  word        \* the word the reader holds: at most one, [index, ticks]

asked == <<codec, start, known>>
walk == <<sqrtPrice, tick, liquidity, remaining, out, steps, status, word>>
walkVars == <<asked, positions, bits, nets, walk, changes>>

-----------------------------------------------------------------------------
(* The pool.                                                                *)

NetAt(P, t) ==
  MapThenSumSet(LAMBDA q : q.amount, {q \in P : q.lo = t})
  - MapThenSumSet(LAMBDA q : q.amount, {q \in P : q.hi = t})

Edges(P) == {q.lo : q \in P} \cup {q.hi : q \in P}

\* Liquidity that is active from tick t to the next.
ActiveAt(P, t) == MapThenSumSet(LAMBDA q : q.amount, {q \in P : q.lo <= t /\ t < q.hi})

\* Truncation, as the code divides; \div rounds down.
Quot(a, b) == IF a >= 0 THEN a \div b ELSE -((-a) \div b)

\* V3 and V4 index the bitmap by ticks of the spacing, Algebra by raw ticks.
WordSpacing(kind) == IF kind = "packed" THEN Spacing ELSE 1
WordOf(kind, t) == (t \div WordSpacing(kind)) \div WordSize

\* mutant: every walk goes by the pool's spacing
WalkSpacing_Spaced(kind) == Spacing

WalkSpacing(kind) == IF kind = "packed" THEN Spacing ELSE 1

\* mutant: a quotient that is not exact is not rounded down below zero
Compress_Truncate(t, spacing) == Quot(t, spacing)

Compress(t, spacing) ==
  IF t < 0 /\ t % spacing # 0 THEN Quot(t, spacing) - 1 ELSE Quot(t, spacing)

-----------------------------------------------------------------------------
(* The reader and the next tick.                                           *)

\* Bits of one word, by their compressed ticks.
BitsOf(w) ==
  {c \in w * WordSize .. w * WordSize + WordSize - 1 : c * WordSpacing(codec) \in bits}

\* The word just read is kept; one the cache has never had is not a word of zeros.
Read(w) ==
  IF word # {} /\ \A held \in word : held.index = w THEN word
  ELSE IF w \in known THEN {[index |-> w, ticks |-> BitsOf(w)]} ELSE {}

\* The walk's own word, and the next tick in it, initialised or its last.
Probe(down, c) == IF down THEN c \div WordSize ELSE (c + 1) \div WordSize

NextTick(down, c, held) ==
  LET ahead == {b \in held.ticks : IF down THEN b <= c ELSE b > c}
      edge == IF down THEN held.index * WordSize ELSE held.index * WordSize + WordSize - 1
  IN [c |-> IF ahead = {} THEN edge ELSE IF down THEN Max(ahead) ELSE Min(ahead),
      initialized |-> ahead # {}]

Clamp(t) == IF t < MinTick THEN MinTick ELSE IF t > MaxTick THEN MaxTick ELSE t

-----------------------------------------------------------------------------
(* One step of the swap (compute_swap_step of uniswap_v3_math).            *)

Limit(down) == IF down THEN MinTick * Sub + 1 ELSE MaxTick * Sub - 1

\* The first n units from price p: what the n-th pays for each unit of liquidity.
Pay(down, p, n) == IF down THEN (p - n + 1) - MinTick * Sub ELSE MaxTick * Sub - (p + n - 1)

StepTo(down, p, target, l, amount) ==
  LET distance == IF down THEN p - target ELSE target - p
      reach == IF l = 0 \/ amount >= distance * l THEN distance ELSE amount \div l
  IN [price |-> IF down THEN p - reach ELSE p + reach,
      in |-> IF reach = distance THEN distance * l ELSE amount,
      out |-> l * MapThenSumSet(LAMBDA n : Pay(down, p, n), 1 .. reach)]

-----------------------------------------------------------------------------
(* The walk.                                                               *)

WordsOf(kind) == {WordOf(kind, t) : t \in Ticks}

\* At a tick the price may belong to the tick or, after a fall to it, to the one
\* below.
WalkInit ==
  /\ codec \in {"packed", "two words"}
  /\ positions \in Layouts
  /\ known \in {WordsOf(codec) \ u : u \in UNION {kSubset(n, WordsOf(codec)) : n \in 0 .. MaxUnknown}}
  /\ start \in [price : {p \in Prices : Limit(TRUE) <= p /\ p <= Limit(FALSE)},
                amount : Amounts, down : BOOLEAN]
  /\ sqrtPrice = start.price
  /\ tick \in {sqrtPrice \div Sub, (sqrtPrice - 1) \div Sub}
  /\ liquidity = ActiveAt(positions, tick)
  /\ bits = Edges(positions)
  /\ \E lost \in UNION {kSubset(n, Edges(positions)) : n \in 0 .. MaxLost} :
       nets = [t \in Ticks |-> IF t \in lost THEN 0 ELSE NetAt(positions, t)]
  /\ remaining = start.amount
  /\ out = 0 /\ steps = 0 /\ status = "walking" /\ changes = 0 /\ word = {}

More == remaining # 0 /\ sqrtPrice # Limit(start.down)

EndWalk ==
  /\ status = "walking" /\ ~ More
  /\ status' = "done"
  /\ UNCHANGED <<asked, positions, bits, nets, changes>>
  /\ UNCHANGED <<sqrtPrice, tick, liquidity, remaining, out, steps, word>>

\* So many iterations and no more: what has been sold so far is the quote.
GiveUp ==
  /\ status = "walking" /\ More /\ steps = MaxSteps
  /\ status' = "bound"
  /\ UNCHANGED <<asked, positions, bits, nets, changes>>
  /\ UNCHANGED <<sqrtPrice, tick, liquidity, remaining, out, steps, word>>

\* mutant: a word the cache lacks reads as empty
Found_Empty(w) == IF Read(w) = {} THEN {[index |-> w, ticks |-> {}]} ELSE Read(w)

Found(w) == Read(w)

\* mutant: the liquidity that ends below is not taken out on the way down
Delta_Up(t) == nets[t]

Delta(t) == IF start.down THEN -nets[t] ELSE nets[t]

\* mutant: after a fall to a tick the walk is still on it
After_On(t) == t

After(t) == IF start.down THEN t - 1 ELSE t

Iterate ==
  LET down == start.down
      spacing == WalkSpacing(codec)
      c == Compress(tick, spacing)
      w == Probe(down, c)
  IN /\ status = "walking" /\ More /\ steps < MaxSteps
     /\ steps' = steps + 1
     /\ word' = Found(w)
     /\ IF word' = {}
        THEN status' = "edge" /\ UNCHANGED <<sqrtPrice, tick, liquidity, remaining, out>>
        ELSE
          LET found == NextTick(down, c, CHOOSE held \in word' : TRUE)
              next == Clamp(found.c * spacing)
              limit == Limit(down)
              target == IF (down /\ next * Sub < limit) \/ (~ down /\ next * Sub > limit)
                        THEN limit ELSE next * Sub
              step == StepTo(down, sqrtPrice, target, liquidity, remaining)
              crossed == step.price = next * Sub
              after == IF crossed /\ found.initialized THEN liquidity + Delta(next)
                       ELSE liquidity
          IN /\ sqrtPrice' = step.price
             /\ remaining' = remaining - step.in
             /\ out' = out + step.out
             /\ IF after < 0
                THEN status' = "error" /\ UNCHANGED <<tick, liquidity>>
                ELSE /\ liquidity' = after
                     /\ tick' = IF crossed THEN After(next)
                                ELSE IF step.price # sqrtPrice THEN step.price \div Sub ELSE tick
                     /\ UNCHANGED status
     /\ UNCHANGED <<asked, positions, bits, nets, changes>>

\* A position is withdrawn, and the cache is told of one of its ticks: the word
\* or the net, whichever has been read.  Deposits under a walk are left out.
Refresh(q, t) ==
  LET after == positions \ {q}
  IN /\ status = "walking" /\ changes < MaxChanges
     /\ changes' = changes + 1
     /\ positions' = after
     /\ \/ bits' = (bits \ {t}) \cup ({t} \cap Edges(after)) /\ UNCHANGED nets
        \/ nets' = [nets EXCEPT ![t] = NetAt(after, t)] /\ UNCHANGED bits
     /\ UNCHANGED <<asked, walk>>

WalkNext ==
  \/ EndWalk \/ GiveUp \/ Iterate
  \/ \E q \in positions : \E t \in {q.lo, q.hi} : Refresh(q, t)

WalkSpec == WalkInit /\ [][WalkNext]_walkVars

\* An error is no quote.
Quote == IF status = "error" THEN 0 ELSE out

-----------------------------------------------------------------------------
(* Properties.                                                             *)

\* On a cache nobody touches, the walk's liquidity is that of the positions that
\* cover its tick, wherever it has stopped, crossed or turned into a new word.
LiquidityIsActive ==
  changes = 0 => status # "error" /\ liquidity = ActiveAt(positions, tick)

\* What the amount would buy if the pool were taken unit by unit from the start.
Worth ==
  LET down == start.down
      units == IF down THEN start.price - Limit(TRUE) ELSE Limit(FALSE) - start.price
      under(n) == IF down THEN start.price - n ELSE start.price + n - 1
      l(n) == ActiveAt(positions, under(n) \div Sub)
      f[n \in 0 .. units] ==
        IF n = 0 THEN <<start.amount, 0>>   \* what is left, what it has bought
        ELSE LET before == f[n - 1]
             IN IF before[1] >= l(n)
                THEN <<before[1] - l(n), before[2] + l(n) * Pay(down, start.price, n)>>
                ELSE <<0, before[2]>>
  IN f[units][2]

\* A quote is what the pool would pay, and less only where the walk had to stop:
\* "a safe lower-bound quote" (try_swap_src).
QuoteIsTrue ==
  status # "walking" /\ changes = 0 =>
    /\ Quote <= Worth
    /\ status = "done" => Quote = Worth

\* The walk never takes the price past a tick that may be initialised and whose
\* word is not in the cache, whoever refreshes the cache meanwhile.
OnKnownGround ==
  [][\A t \in {u \in Ticks : u % WordSpacing(codec) = 0} :
       LET at == t * Sub
       IN (sqrtPrice < at /\ at < sqrtPrice') \/ (sqrtPrice' < at /\ at < sqrtPrice) =>
            WordOf(codec, t) \in known]_walkVars

=============================================================================
