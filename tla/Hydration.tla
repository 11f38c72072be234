----------------------------- MODULE Hydration -----------------------------
(***************************************************************************)
(* From a list of pools to the engine: pinned pools where discovery is     *)
(* switched off (src/src/ingest/loader.rs), hydration and its filter       *)
(* (src/src/ingest/bootstrap.rs), the fee-on-transfer probe with its cache *)
(* file (src/src/ingest/fee_probe.rs) and Engine::new.                     *)
(*                                                                         *)
(* The decimals of the tokens, and then each family of pools, are read in  *)
(* one flat list of calls, so many to a pool; a call may fail by itself,   *)
(* and the list as a whole, which ends the process.                        *)
(***************************************************************************)
EXTENDS Discovery, FiniteSetsExt

CONSTANTS
  Setups,      \* what the process is started with: discovery.enabled, pools.toml
               \* (in order: [dex, by, pool]) and the command
  Anchors,     \* tokens with an [[anchor]] entry
  MinDepth,    \* Anchors -> min_liquidity
  Blacklist,   \* token_blacklist
  Whitelist,   \* token_whitelist
  Manager,     \* UNIV4_POOL_MANAGER
  ShortFrom,   \* <<token, holder>>: a transfer the holder begins arrives short
  MaxHolders,  \* MAX_HOLDERS_PER_TOKEN
  MaxFailed    \* bound: calls that fail between a start and the engine

Tokens(p) == {IF Info[p].t0 = Native THEN Weth ELSE Info[p].t0, Info[p].t1}
AllTokens == UNION {Tokens(p) : p \in Pools}

Tags == {"v2", "volatile", "stable", "v3", "algebra", "v4"}

\* The kind of dex whose factory makes pools with the tag.
KindOf(tag) == IF tag \in {"volatile", "stable"} THEN "aero" ELSE tag

ASSUME HydrationAssumption ==
  /\ \A p \in Pools :
       /\ Info[p].tag \in Tags
       \* what it holds of each anchor, and what that looks like with 18 decimals
       /\ Info[p].depth \in [Anchors -> Nat] /\ Info[p].misread \in [Anchors -> Nat]
  /\ \A i \in DOMAIN Dexes : Dexes[i].kind \in {"v2", "aero", "v3", "algebra", "v4"}
  \* a log of a factory's is about a pool that names it; a dex's pools are of the
  \* kind it is configured as, and charge the fee configured for it, if any
  /\ \A i \in DOMAIN Dexes :
       /\ \A n \in DOMAIN Created[Dexes[i].name] :
            Info[Created[Dexes[i].name][n].pool].factory = Dexes[i].name
       /\ \A p \in Pools : Info[p].factory = Dexes[i].name =>
            /\ KindOf(Info[p].tag) = Dexes[i].kind
            /\ Dexes[i].kind = "v2" => Dexes[i].fee \subseteq {Info[p].fee}
  /\ \A s \in Setups :
       s.pins \in Seq(Range(s.pins)) /\ \A n \in DOMAIN s.pins : s.pins[n].pool \in Pools

VARIABLES
  setup,    \* one of them, for good: [enabled, pins, cmd]
  unscaled, \* tokens whose decimals could not be read: they count as 18
  regs,     \* the registrations so far: [pool, tag, fee, spacing, gate]
  feeDisk,  \* fee_probe.json: tokens with a verdict, "short" or "fair"
  verdict,  \* the same in memory
  todo,     \* tokens being probed
  heard,    \* history: tokens a probe of this run found short, or the file said so
  engine,   \* Engine::metas: [idx, pool, tag, fee]
  faults    \* calls that have failed

hydrationVars == <<setup, unscaled, regs, feeDisk, verdict, todo, heard, engine, faults>>

NoVerdict == [t \in AllTokens |-> "none"]

HydrationInit ==
  /\ setup \in Setups
  /\ unscaled = {}
  /\ regs = << >>
  /\ feeDisk = NoVerdict
  /\ verdict = NoVerdict
  /\ todo = {}
  /\ heard = {}
  /\ engine = << >>
  /\ faults = 0

-----------------------------------------------------------------------------
(* Lists of calls.                                                          *)

Calls(ps, kinds) ==
  [c \in 1 .. Len(ps) * Len(kinds) |->
     <<ps[(c - 1) \div Len(kinds) + 1], kinds[((c - 1) % Len(kinds)) + 1]>>]

\* An Aerodrome factory is asked for the fee of a pool that is, or is not, stable.
FeeCall(tag) == IF tag = "stable" THEN "stable fee" ELSE "volatile fee"

\* What the chain answers: nothing where the contract has no such function.
Chain(p, what) ==
  CASE what = "fee" -> IF Info[p].tag \in {"v3", "algebra"} THEN {Info[p].fee} ELSE {}
    [] what = "tickSpacing" -> IF Info[p].tag \in {"v3", "algebra"} THEN {Info[p].spacing} ELSE {}
    [] what \in {"stable fee", "volatile fee"} ->
         {IF what = FeeCall(Info[p].tag) THEN Info[p].fee ELSE Info[p].crossFee}
    [] what = "factory" -> {Info[p].factory}
    [] what = "stable" -> IF Info[p].tag \in {"stable", "volatile"} THEN {Info[p].tag} ELSE {}
    [] what = "price" -> IF Info[p].live THEN {1} ELSE {0}
    [] OTHER -> {2}   \* some value

\* Any calls of a list may fail, so many in all.
Failures(S) == {{}} \cup {Range(f) : f \in [1 .. MaxFailed - faults -> S]}

Ask(calls, failed) ==
  [i \in DOMAIN calls |-> IF i \in failed THEN {} ELSE Chain(calls[i][1], calls[i][2])]

\* mutant: the lists of three calls to a pool are read as if there were two
At_Short(n, j, per) == IF per = 3 THEN (n - 1) * 2 + j ELSE (n - 1) * per + j

\* The j-th of the per answers of the n-th pool.
At(n, j, per) == (n - 1) * per + j

OneOf(options, default) == IF options = {} THEN default ELSE CHOOSE v \in options : TRUE

-----------------------------------------------------------------------------
(* pools.toml.                                                              *)

DexOf(name) == {Dexes[j] : j \in {i \in DOMAIN Dexes : Dexes[i].name = name}}

PinCalls == <<"token0", "token1", "factory", "tickSpacing", "fee", "stable">>

\* A pinned pool is what its own factory makes of it.
PinnedAs(d, p, spacing, fee, stable) ==
  [pool |-> p,
   tag |-> CASE d.kind = "aero" -> OneOf(stable, "volatile")
             [] OTHER -> d.kind,
   fee |-> CASE d.kind = "v2" -> d.fee [] d.kind = "v3" -> fee [] OTHER -> {},
   spacing |-> IF d.kind \in {"v3", "algebra"} THEN spacing ELSE {}]

AddressPins(pins, ans) ==
  LET A(n, j) == ans[At(n, j, Len(PinCalls))]
      dex(n) == UNION {DexOf(f) : f \in A(n, 3)}
  IN Some(pins,
          LAMBDA n : A(n, 1) # {} /\ A(n, 2) # {} /\ dex(n) # {}
                     /\ \A d \in dex(n) : d.kind # "v4",
          LAMBDA n : PinnedAs(CHOOSE d \in dex(n) : TRUE, pins[n].pool,
                            A(n, 4), A(n, 5), A(n, 6)))

\* By its key, within the policy, or by its id, if the cache file has it.
V4Candidates(pins) ==
  LET byId(pin) == {i \in DOMAIN disk[pin.dex].pools : disk[pin.dex].pools[i].pool = pin.pool}
  IN Some(pins,
          LAMBDA n : /\ DexOf(pins[n].dex) # {}
                     /\ \/ pins[n].by = "key" /\ PoolFromKey(pins[n].pool)
                        \/ pins[n].by = "id" /\ byId(pins[n]) # {},
          LAMBDA n : [pool |-> pins[n].pool, tag |-> "v4", fee |-> {Info[pins[n].pool].fee},
                      spacing |-> {Info[pins[n].pool].spacing}])

PoolsOf(entries) == [n \in DOMAIN entries |-> entries[n].pool]

LoadPins ==
  LET byAddress == Select(setup.pins, LAMBDA n : setup.pins[n].by = "address")
      others == Select(setup.pins, LAMBDA n : setup.pins[n].by # "address")
      v4 == V4Candidates(others)
      calls == Calls(PoolsOf(byAddress), PinCalls)
      probes == Calls(PoolsOf(v4), <<"price">>)
  IN /\ pc = "pins"
     \* a pin that names both, or neither where it must, is an error
     /\ \A n \in DOMAIN setup.pins : setup.pins[n].by # "mixed"
     /\ \A n \in DOMAIN others : \A d \in DexOf(others[n].dex) : d.kind = "v4"
     /\ \E bad \in Failures(DOMAIN calls), dead \in SUBSET DOMAIN probes :
        /\ faults' = faults + Cardinality(bad)
        /\ all' = AddressPins(byAddress, Ask(calls, bad))
                 \o Some(v4, LAMBDA n : Ask(probes, dead)[n] = {1}, LAMBDA n : v4[n])
     /\ pc' = "hydrate"
     /\ UNCHANGED <<tip, disk, head, k, cache, next>>
     /\ UNCHANGED <<setup, unscaled, regs, feeDisk, verdict, todo, heard, engine>>

-----------------------------------------------------------------------------
(* Hydration.                                                               *)

\* mutant: nothing is left out
FirstOfEach_All(s) == s

\* The first of the elements that have the same pool.
FirstOfEach(s) == Select(s, LAMBDA n : \A i \in 1 .. n - 1 : s[i].pool # s[n].pool)

Of(tags) == Select(all, LAMBDA n : all[n].tag \in tags)

\* Only a pool with ticks has a spacing, 60 where it is not known.
SpacingOf(e) == IF e.tag \in {"v3", "algebra", "v4"} THEN OneOf(e.spacing, 60) ELSE 0

Reg(e, fee, gate) ==
  [pool |-> e.pool, tag |-> e.tag, fee |-> fee, spacing |-> SpacingOf(e), gate |-> gate]

\* Each pool once, and the decimals of every token.
Dedupe ==
  /\ pc = "hydrate"
  /\ all' = FirstOfEach(all)
  /\ \E bad \in Failures(UNION {Tokens(all[n].pool) : n \in DOMAIN all}) :
       /\ unscaled' = bad
       /\ faults' = faults + Cardinality(bad)
  /\ pc' = "v2"
  /\ UNCHANGED <<tip, disk, head, k, cache, next>>
  /\ UNCHANGED <<setup, regs, feeDisk, verdict, todo, heard, engine>>

\* What a pool is taken to hold of an anchor, by the decimals that were read.
Scaled(p, a) == IF a \in unscaled THEN Info[p].misread[a] ELSE Info[p].depth[a]

HydrateStep(from, to, failed, new) ==
  /\ pc = from
  /\ faults' = faults + Cardinality(failed)
  /\ regs' = regs \o new
  /\ pc' = to
  /\ UNCHANGED <<tip, disk, head, k, cache, next, all>>
  /\ UNCHANGED <<setup, unscaled, feeDisk, verdict, todo, heard, engine>>

\* Constant product and Aerodrome: reserves, and for Aerodrome the factory's fee,
\* asked for by what the pool is taken to be.
HydrateV2 ==
  LET ps == Of({"v2", "volatile", "stable"})
      aeroPools == Of({"volatile", "stable"})
      calls == Calls(PoolsOf(ps), <<"reserves">>)
      feeCalls == [m \in DOMAIN aeroPools |-> <<aeroPools[m].pool, FeeCall(aeroPools[m].tag)>>]
      feeAt(e, fees) == UNION {fees[m] : m \in {i \in DOMAIN aeroPools : aeroPools[i] = e}}
  IN \E bad \in Failures(1 .. Len(calls) + Len(feeCalls)) :
       LET ans == Ask(calls \o feeCalls, bad)
           fees == SubSeq(ans, Len(calls) + 1, Len(ans))
       IN HydrateStep("v2", "v3", bad,
            Some(ps, LAMBDA n : ans[n] # {},
                 LAMBDA n : LET e == ps[n] IN Reg(e,
                   CASE e.tag = "v2" -> OneOf(e.fee, 30)
                     [] e.tag = "volatile" -> OneOf(feeAt(e, fees), 30)
                     [] OTHER -> OneOf(feeAt(e, fees), 5),
                   {[a \in Anchors |-> Scaled(e.pool, a)]})))

\* V3 pools, then Algebra's: state, liquidity and fee; an Algebra pool with no
\* price is not initialised.  Their depth is asked for later.
HydrateCl(tag, from, to) ==
  LET ps == Of({tag})
      calls == Calls(PoolsOf(ps), <<"price", "liquidity", "fee">>)
  IN \E bad \in Failures(DOMAIN calls) :
       LET A(n, j) == Ask(calls, bad)[At(n, j, 3)]
       IN HydrateStep(from, to, bad,
            Some(ps,
                 LAMBDA n : /\ A(n, 1) # {} /\ A(n, 2) # {}
                            /\ tag = "algebra" => A(n, 1) # {0},
                 LAMBDA n : Reg(ps[n], OneOf(IF ps[n].fee # {} THEN ps[n].fee ELSE A(n, 3), 3000),
                                {})))

\* V4: a pool with a protocol fee, or whose fee is not its key's, is left out;
\* depth is half of what the liquidity at the price would suggest.
HydrateV4 ==
  LET ps == Of({"v4"})
      calls == Calls(PoolsOf(ps), <<"price", "liquidity">>)
  IN \E bad \in Failures(DOMAIN calls) :
       LET A(n, j) == Ask(calls, bad)[At(n, j, 2)]
       IN HydrateStep("v4", "gate", bad,
            Some(ps,
                 LAMBDA n : LET p == ps[n].pool
                            IN /\ A(n, 1) = {1} /\ A(n, 2) # {}
                               /\ ~ Info[p].protocolFee
                               /\ {Info[p].lpFee} = ps[n].fee,
                 LAMBDA n : Reg(ps[n], OneOf(ps[n].fee, 0),
                                {[a \in Anchors |-> Scaled(ps[n].pool, a) \div 2]})))

-----------------------------------------------------------------------------
(* Depth, transfer fees and the filter.                                     *)

\* Concentrated-liquidity pools hold what balanceOf says, by the decimals the
\* anchor is configured with; no answer, nothing.
\* The verdicts on tokens are read back in from their file.
ReadBalances ==
  LET targets == {c \in (DOMAIN regs) \X Anchors :
                    regs[c[1]].gate = {} /\ c[2] \in Tokens(regs[c[1]].pool)}
  IN /\ pc = "gate"
     /\ \E bad \in Failures(targets) :
        /\ faults' = faults + Cardinality(bad)
        /\ regs' = [n \in DOMAIN regs |->
                     IF regs[n].gate # {} THEN regs[n]
                     ELSE [regs[n] EXCEPT !.gate =
                            {[a \in Anchors |-> IF <<n, a>> \in targets \ bad
                                                THEN Info[regs[n].pool].depth[a] ELSE 0]}]]
     /\ verdict' = feeDisk
     /\ todo' = {t \in UNION {Tokens(all[n].pool) : n \in DOMAIN all} \ Anchors :
                   feeDisk[t] = "none"}
     /\ heard' = {t \in AllTokens : feeDisk[t] = "short"}
     /\ pc' = "probe"
     /\ UNCHANGED <<tip, disk, head, k, cache, next, all, setup, unscaled, feeDisk, engine>>

\* The first few addresses that hold the token: its pools, and for V4 the manager.
Holders(t) ==
  LET with == Select(all, LAMBDA n : t \in Tokens(all[n].pool))
      at == FirstOfEach([n \in DOMAIN with |->
              [pool |-> IF with[n].tag = "v4" THEN Manager ELSE with[n].pool]])
  IN SubSeq(at, 1, IF Len(at) < MaxHolders THEN Len(at) ELSE MaxHolders)

\* mutant: the first holder that can be probed decides
Verdict_First(t, told) ==
  IF told = {} THEN "none"
  ELSE IF <<t, Holders(t)[Min(told)].pool>> \in ShortFrom THEN "short" ELSE "fair"

\* One holder that shows a shortfall is enough; with no answer there is no verdict.
Verdict(t, told) ==
  IF \E n \in told : <<t, Holders(t)[n].pool>> \in ShortFrom THEN "short"
  ELSE IF told # {} THEN "fair" ELSE "none"

\* told are the holders that had the amount to give; the amount asked for goes by
\* the decimals, so with 18 for 6 there may be none.
ProbeToken(t) ==
  /\ pc = "probe" /\ t \in todo
  /\ \E told \in SUBSET DOMAIN Holders(t) :
       /\ verdict' = [verdict EXCEPT ![t] = Verdict(t, told)]
       /\ heard' = heard \cup {u \in {t} : \E n \in told : <<u, Holders(u)[n].pool>> \in ShortFrom}
  /\ todo' = todo \ {t}
  /\ UNCHANGED <<discoveryVars, setup, unscaled, regs, feeDisk, engine, faults>>

\* The file is written, or not, or cut short: only a warning.
SaveVerdicts ==
  /\ pc = "probe" /\ todo = {}
  /\ feeDisk' \in {verdict, feeDisk, NoVerdict}
  /\ pc' = "filter"
  /\ UNCHANGED <<tip, disk, head, k, cache, next, all>>
  /\ UNCHANGED <<setup, unscaled, regs, verdict, todo, heard, engine, faults>>

\* mutant: only the configured tokens are kept out
Unwanted_Configured == Blacklist

Unwanted == Blacklist \cup {t \in AllTokens : verdict[t] = "short"}

DeepEnough(r) ==
  LET touched == Anchors \cap Tokens(r.pool)
  IN touched = {} \/ \E a \in touched : \E depth \in r.gate : depth[a] >= MinDepth[a]

Kept(r) ==
  /\ Tokens(r.pool) \cap Unwanted = {}
  /\ Whitelist # {} => Tokens(r.pool) \subseteq Anchors \cup Whitelist
  /\ DeepEnough(r)

\* The filter, the new indices and the engine's assertions; an empty engine is
\* an error.  What led to it is dropped.
BuildEngine ==
  LET kept == Select(regs, LAMBDA n : Kept(regs[n]))
      twice == \E i, j \in DOMAIN kept : i < j /\ kept[i].pool = kept[j].pool
  IN /\ pc = "filter"
     /\ kept # << >>
     /\ pc' = IF twice THEN "panicked" ELSE "built"
     /\ engine' = [n \in DOMAIN kept |->
                     [idx |-> n - 1, pool |-> kept[n].pool, tag |-> kept[n].tag, fee |-> kept[n].fee]]
     /\ all' = << >> /\ unscaled' = {} /\ regs' = << >>
     /\ verdict' = NoVerdict /\ faults' = 0
     /\ UNCHANGED <<tip, disk, head, k, cache, next, setup, feeDisk, todo, heard>>

ForgetPools ==
  /\ unscaled' = {} /\ regs' = << >> /\ verdict' = NoVerdict /\ todo' = {} /\ heard' = {}
  /\ engine' = << >> /\ faults' = 0

Hydrate ==
  \/ LoadPins
  \/ Dedupe
  \/ HydrateV2
  \/ HydrateCl("v3", "v3", "algebra")
  \/ HydrateCl("algebra", "algebra", "v4")
  \/ HydrateV4
  \/ ReadBalances
  \/ \E t \in AllTokens : ProbeToken(t)
  \/ SaveVerdicts
  \/ BuildEngine

-----------------------------------------------------------------------------
(* Properties.                                                             *)

\* The fees a pool may have been registered with, and the spacings.
FeesOf(r) ==
  {Info[r.pool].fee}
    \cup (CASE r.tag \in {"v2", "volatile"} -> {30}
             [] r.tag = "stable" -> {5}
             [] r.tag = "v4" -> {}
             [] OTHER -> {3000})
    \cup (IF r.tag = Info[r.pool].tag THEN {} ELSE {Info[r.pool].crossFee})

SpacingsOf(r) ==
  CASE r.tag \in {"v3", "algebra"} -> {Info[r.pool].spacing, 60}
    [] r.tag = "v4" -> {Info[r.pool].spacing}
    [] OTHER -> {0}

\* And what it may have been seen to hold of an anchor.
DepthsOf(r, a) ==
  CASE r.tag \in {"v3", "algebra"} -> {0, Info[r.pool].depth[a]}
    [] r.tag = "v4" -> {Scaled(r.pool, a) \div 2}
    [] OTHER -> {Scaled(r.pool, a)}

\* Whichever calls failed, no answer is taken for another's: a pool is registered
\* with its own fee, its own spacing and its own depth, or with what stands in for
\* the very call that failed: the default of its kind for a fee, the fee of the
\* other kind for a stable(), 60 for a spacing, no depth for a balance, and 18
\* decimals, which scale the depth of every pool read by reserves or liquidity,
\* for a decimals().  In the engine it is there once and its index is its place
\* (hydrate, reindex, Engine::new).
RegisteredAsRead ==
  /\ pc # "panicked"
  /\ \A n \in DOMAIN regs :
       /\ regs[n].fee \in FeesOf(regs[n])
       /\ regs[n].spacing \in SpacingsOf(regs[n])
       /\ \A depth \in regs[n].gate : \A a \in Anchors : depth[a] \in DepthsOf(regs[n], a)
  /\ pc = "built" =>
       \A n \in DOMAIN engine :
         /\ engine[n].idx = n - 1
         /\ \A m \in DOMAIN engine : engine[m].pool = engine[n].pool => m = n

\* "Normalized by the token's real on-chain decimals": the depth a pool is filtered
\* by is what it holds, or half of it, or nothing (anchor_sides' comment).
RealDecimals ==
  \A n \in DOMAIN regs : \A depth \in regs[n].gate : \A a \in Anchors :
    LET held == Info[regs[n].pool].depth[a] IN depth[a] \in {0, held, held \div 2}

\* No pool is registered with a token that a probe of this run has seen short,
\* from whichever holder, or that an earlier run has on file (detect).
NoShortToken ==
  pc = "built" => \A n \in DOMAIN engine : Tokens(engine[n].pool) \cap heard = {}

=============================================================================
