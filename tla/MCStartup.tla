----------------------------- MODULE MCStartup -----------------------------
(***************************************************************************)
(* Startup with eleven pools.  With discovery on, two of the dexes have       *)
(* created pools by the time the third, whose factory is not scanned, ends *)
(* the process; with discovery off, pools of all families are pinned.  Two *)
(* dexes are of kind v3, and their contracts are laid out differently.     *)
(***************************************************************************)
EXTENDS Startup

CONSTANTS
  univ3, sushi3, univ4, univ2, aero, algebra, unknown,   \* dexes, and no dex
  c1, c2, e1, d1, d2, d3, p2, s2, v2, g1, g2,            \* pools
  WETH, ETH, USD, MEME,                                  \* tokens
  manager

MCPools == {c1, c2, e1, d1, d2, d3, p2, s2, v2, g1, g2}

Depth(n) == (USD :> n) @@ (WETH :> n + 50)

\* USD has six decimals: read as if it had 18, there is next to none of it.
Misread(n) == [Depth(n) EXCEPT ![USD] = 2]

Pool(tag, factory, a, b, fee, n) ==
  [tag |-> tag, factory |-> factory, t0 |-> a, t1 |-> b, fee |-> fee, crossFee |-> fee + 100,
   spacing |-> n \div 50, hooks |-> FALSE, live |-> TRUE, protocolFee |-> FALSE, lpFee |-> fee,
   depth |-> Depth(n), misread |-> Misread(n), ticked |-> TRUE]

MCInfo ==
  (c1 :> Pool("v3", univ3, WETH, USD, 500, 2000)) @@
  (c2 :> Pool("v3", univ3, USD, MEME, 501, 2100)) @@
  (e1 :> Pool("v3", sushi3, WETH, USD, 511, 3000)) @@
  (d1 :> Pool("v4", univ4, ETH, USD, 502, 2200)) @@
  (d2 :> [Pool("v4", univ4, ETH, USD, 503, 2300) EXCEPT !.hooks = TRUE]) @@
  (d3 :> [Pool("v4", univ4, ETH, MEME, 504, 2400) EXCEPT !.lpFee = 505]) @@
  (p2 :> Pool("v2", univ2, WETH, MEME, 25, 2500)) @@
  (s2 :> Pool("stable", aero, WETH, USD, 507, 2600)) @@
  (v2 :> Pool("volatile", aero, WETH, USD, 508, 2700)) @@
  (g1 :> Pool("algebra", algebra, WETH, USD, 509, 2800)) @@
  (g2 :> Pool("algebra", algebra, WETH, USD, 510, 2900))

MCDexes == <<
  [name |-> univ3, kind |-> "v3", fee |-> {}, deploy |-> 1],
  [name |-> univ4, kind |-> "v4", fee |-> {}, deploy |-> 2],
  [name |-> algebra, kind |-> "algebra", fee |-> {}, deploy |-> 4],
  [name |-> sushi3, kind |-> "v3", fee |-> {}, deploy |-> 4],
  [name |-> univ2, kind |-> "v2", fee |-> {25}, deploy |-> 4],
  [name |-> aero, kind |-> "aero", fee |-> {}, deploy |-> 4] >>

MCCreated ==
  (univ3 :> << [block |-> 1, pool |-> c1], [block |-> 3, pool |-> c2] >>) @@
  (univ4 :> << [block |-> 2, pool |-> d1], [block |-> 2, pool |-> d2], [block |-> 3, pool |-> d3] >>) @@
  (algebra :> << >>) @@ (sushi3 :> << >>) @@ (univ2 :> << >>) @@ (aero :> << >>)

MCPins == <<
  [dex |-> univ2, by |-> "address", pool |-> p2],
  [dex |-> univ3, by |-> "address", pool |-> c1],
  [dex |-> univ3, by |-> "address", pool |-> c2],
  [dex |-> sushi3, by |-> "address", pool |-> e1],
  [dex |-> aero, by |-> "address", pool |-> s2],
  [dex |-> univ4, by |-> "key", pool |-> d1],
  [dex |-> algebra, by |-> "address", pool |-> g1],
  [dex |-> algebra, by |-> "address", pool |-> g2],
  [dex |-> univ4, by |-> "id", pool |-> d1],
  [dex |-> univ4, by |-> "id", pool |-> d3],
  [dex |-> univ4, by |-> "key", pool |-> d2] >>

OnePin == << [dex |-> aero, by |-> "address", pool |-> s2] >>

MCSetups ==
  {[enabled |-> TRUE, pins |-> << >>, cmd |-> "discover"],
   [enabled |-> FALSE, pins |-> MCPins, cmd |-> "discover"]} \cup
  {[enabled |-> FALSE, pins |-> OnePin, cmd |-> c] :
     c \in {"verify-state", "verify-math", "verify-quote"}}

MCAnchors == {WETH, USD}
MCMinDepth == Depth(1100)
MCBlacklist == {}
MCWhitelist == {}

\* The manager and the pair are exempt from the fee MEME takes.
MCShortFrom == {<<MEME, c2>>}

\* Where every pool of a fork keeps its values; c1 has no liquidity.
Plain(f) == [j \in 0 .. 2 |-> [o \in {0, 48} |-> IF o = 0 THEN f[j + 1] ELSE 0]]

MCWords ==
  (c1 :> Plain(<<11, 0, 0>>)) @@
  (c2 :> Plain(<<12, 0, 13>>)) @@
  (e1 :> Plain(<<0, 24, 25>>)) @@
  (p2 :> Plain(<< <<0, 0>>, <<14, 15>>, <<0, 0>> >>)) @@
  (s2 :> Plain(<<0, 16, 17>>)) @@ (v2 :> Plain(<<0, 18, 19>>)) @@
  (g1 :> [Plain(<<20, 7, 0>>) EXCEPT ![1] = (0 :> 7) @@ (48 :> 21)]) @@
  (g2 :> [Plain(<<22, 7, 0>>) EXCEPT ![1] = (0 :> 7) @@ (48 :> 23)])

MCView ==
  (c1 :> [state |-> 11, liquidity |-> 0]) @@
  (c2 :> [state |-> 12, liquidity |-> 13]) @@
  (e1 :> [state |-> 24, liquidity |-> 25]) @@
  (p2 :> [r0 |-> 14, r1 |-> 15]) @@
  (s2 :> [r0 |-> 16, r1 |-> 17]) @@ (v2 :> [r0 |-> 18, r1 |-> 19]) @@
  (g1 :> [state |-> 20, liquidity |-> 21, fee |-> 509, lastFee |-> 509]) @@
  (g2 :> [state |-> 22, liquidity |-> 23, fee |-> 510, lastFee |-> 400])

MCTickBases ==
  [f \in {univ3, sushi3, algebra} |-> IF f = sushi3 THEN [ticks |-> 6, bitmap |-> 7]
                                     ELSE [ticks |-> 5, bitmap |-> 6]]

\* The words above are laid out alike within each fork.
ASSUME MCHome == OneHome

=============================================================================
