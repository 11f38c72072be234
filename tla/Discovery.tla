----------------------------- MODULE Discovery -----------------------------
(***************************************************************************)
(* Factory discovery (src/src/ingest/discovery.rs): for each configured    *)
(* dex in turn, the creation logs from where its cache file ends to the    *)
(* head are read chunk by chunk and decoded, and the cache file, one per   *)
(* dex, is written every ten seconds or so and at the end.  The process    *)
(* may stop anywhere and be started again; the files are what it keeps.    *)
(*                                                                         *)
(* Pools carry what the chain knows of them (Info); this module uses what  *)
(* a creation log says, Hydration the rest.                                *)
(***************************************************************************)
EXTENDS Naturals, Sequences, FiniteSets, SequencesExt

CONSTANTS
  Pools,     \* the pools there are
  Info,      \* Pools -> what the chain says of each
  Dexes,     \* the configured dexes, in order: [name, kind, fee, deploy]
  Created,   \* dex name -> its creation logs in chain order: [block, pool]
  Weth,      \* the token native ETH is routed as
  Native,    \* currency zero: native ETH
  Dynamic,   \* UNIV4_DYNAMIC_FEE_FLAG
  MaxLpFee,  \* UNIV4_MAX_LP_FEE
  Chunk,     \* getlogs_chunk
  MaxBlock   \* bound: the chain's height

Names == {Dexes[k].name : k \in DOMAIN Dexes}

ASSUME DiscoveryAssumption ==
  /\ Chunk \in Nat \ {0} /\ MaxBlock \in Nat \ {0}
  /\ Dexes \in Seq(Range(Dexes))
  /\ \A i, j \in DOMAIN Dexes : Dexes[i].name = Dexes[j].name => i = j
  /\ DOMAIN Created = Names
  /\ \A name \in Names :
       /\ Created[name] \in Seq([block : Nat, pool : Pools])
       /\ \A i, j \in DOMAIN Created[name] :
            i < j => Created[name][i].block <= Created[name][j].block
  \* block zero creates nothing: a cache that ends there means no cache
  /\ \A k \in DOMAIN Dexes : Dexes[k].deploy \in 1..MaxBlock

VARIABLES
  tip,    \* the chain's height
  disk,   \* the cache files: [synced, pools]
  pc,     \* where the process is; "down" when it does not run
  head,   \* the height read at the start
  k,      \* the dex being scanned
  cache,  \* its cache in memory
  next,   \* the next block to ask for
  all     \* the pools found so far

discoveryVars == <<tip, disk, pc, head, k, cache, next, all>>

\* No file, or one that does not parse: a write that was cut short.
NoCache == [synced |-> 0, pools |-> << >>]

NoCaches == [d \in Names |-> NoCache]

Init ==
  /\ pc = "down"
  /\ head = 0
  /\ k = 0
  /\ cache = NoCache
  /\ next = 0
  /\ all = << >>

Mine ==
  /\ pc = "down" /\ tip < MaxBlock   \* what is mined later is not read by this start
  /\ tip' = tip + 1
  /\ UNCHANGED <<disk, pc, head, k, cache, next, all>>

-----------------------------------------------------------------------------
(* What the chain answers and what is made of it.                           *)

\* The members of K from one to n, in order.
InOrder(K, n) ==
  LET f[i \in 0 .. n] ==
        IF i = 0 THEN << >> ELSE IF i \in K THEN Append(f[i - 1], i) ELSE f[i - 1]
  IN f[n]

\* What is made of the elements of s whose places are Ok, in order.
Some(s, Ok(_), Make(_)) ==
  LET picked == InOrder({n \in DOMAIN s : Ok(n)}, Len(s))
  IN [m \in DOMAIN picked |-> Make(picked[m])]

Select(s, Ok(_)) == Some(s, Ok, LAMBDA n : s[n])

CreatedIn(name, a, b) ==
  LET logs == Created[name]
  IN Select(logs, LAMBDA n : a <= logs[n].block /\ logs[n].block <= b)

\* mutant: a block that cannot be read is passed over
Fetch_Skipping(name, from, to, refused) ==
  LET f[r \in (from .. to) \X (from .. to)] ==
        IF r \notin refused THEN {CreatedIn(name, r[1], r[2])}
        ELSE IF r[1] >= r[2] THEN {<< >>}
        ELSE LET mid == r[1] + (r[2] - r[1]) \div 2
             IN {a \o b : a \in f[<<r[1], mid>>], b \in f[<<mid + 1, r[2]>>]}
  IN f[<<from, to>>]

\* A range the node refuses three times over is asked for in halves, down to
\* single blocks.  One answer, or none: a single block was refused.
Fetch(name, from, to, refused) ==
  LET f[r \in (from .. to) \X (from .. to)] ==
        IF r \notin refused THEN {CreatedIn(name, r[1], r[2])}
        ELSE IF r[1] >= r[2] THEN {}
        ELSE LET mid == r[1] + (r[2] - r[1]) \div 2
             IN {a \o b : a \in f[<<r[1], mid>>], b \in f[<<mid + 1, r[2]>>]}
  IN f[<<from, to>>]

\* Vanilla pools only: no hooks, a static fee in range, not ETH against WETH.
PoolFromKey(p) ==
  /\ ~ Info[p].hooks
  /\ Info[p].fee # Dynamic /\ Info[p].fee <= MaxLpFee
  /\ ~ (Info[p].t0 = Native /\ Info[p].t1 = Weth)

\* What is known of a pool that has just been created: the fee and the spacing of
\* a V3 or V4 pool are in the log, the fee of a V2 pool in the configuration, if
\* anywhere.
Decoded(d, p) ==
  [pool |-> p, tag |-> Info[p].tag,
   fee |-> IF Info[p].tag \in {"v3", "v4"} THEN {Info[p].fee}
           ELSE IF Info[p].tag = "v2" THEN d.fee ELSE {},
   spacing |-> IF Info[p].tag \in {"v3", "v4"} THEN {Info[p].spacing} ELSE {}]

Accepted(d, logs) ==
  Some(logs, LAMBDA n : d.kind = "v4" => PoolFromKey(logs[n].pool),
             LAMBDA n : Decoded(d, logs[n].pool))

\* The files of a run that has been through the whole chain.
FullCaches ==
  [name \in Names |->
     LET d == CHOOSE x \in Range(Dexes) : x.name = name
     IN IF d.kind = "algebra" THEN NoCache
        ELSE [synced |-> MaxBlock,
              pools |-> Accepted(d, CreatedIn(name, d.deploy, MaxBlock))]]

-----------------------------------------------------------------------------
(* The scan.                                                                *)

\* The height comes from a node that may lag behind the newest block.
DiscoverAll ==
  /\ pc = "boot"
  /\ head' \in 1 .. tip
  /\ k' = 1
  /\ pc' = "open"
  /\ UNCHANGED <<tip, disk, cache, next, all>>

\* mutant: the last block of the cache is scanned again
ScanStart_Again(c, d) == IF c.synced = 0 THEN d.deploy ELSE c.synced

ScanStart(c, d) == IF c.synced = 0 THEN d.deploy ELSE c.synced + 1

\* mutant: a dex that is up to date adds nothing
FromCache_Nothing(c) == all

FromCache(c) == all \o c.pools

LoadCache ==
  /\ pc = "open" /\ k <= Len(Dexes)
  /\ LET c == disk[Dexes[k].name]
         start == ScanStart(c, Dexes[k])
     IN IF start <= head
        THEN /\ pc' = "scan" /\ cache' = c /\ next' = start
             /\ UNCHANGED <<k, all>>
        ELSE /\ all' = FromCache(c) /\ k' = k + 1
             /\ UNCHANGED <<pc, cache, next>>
  /\ UNCHANGED <<tip, disk, head>>

EndOf(start) == IF start + Chunk - 1 < head THEN start + Chunk - 1 ELSE head

\* One chunk; save says whether ten seconds have passed since the last write.
ScanChunk(refused, save) ==
  /\ pc = "scan"
  /\ Dexes[k].kind # "algebra"   \* an error: its factories are not scanned
  /\ save \/ EndOf(next) # head
  /\ LET d == Dexes[k]
         end == EndOf(next)
     IN \E logs \in Fetch(d.name, next, end, refused) :
          LET c == [synced |-> end, pools |-> cache.pools \o Accepted(d, logs)]
          IN /\ disk' = IF save THEN [disk EXCEPT ![d.name] = c] ELSE disk
             /\ IF end = head
                THEN /\ pc' = "open" /\ k' = k + 1 /\ all' = all \o c.pools
                     /\ cache' = NoCache /\ next' = 0
                ELSE /\ cache' = c /\ next' = end + 1
                     /\ UNCHANGED <<pc, k, all>>
  /\ UNCHANGED <<tip, head>>

\* The file is written in place: one that fails or is cut off leaves no cache.
TearCache ==
  /\ pc = "scan"
  /\ disk' = [disk EXCEPT ![Dexes[k].name] = NoCache]

Discovered ==
  /\ pc = "open" /\ k > Len(Dexes)
  /\ pc' = "hydrate"
  /\ UNCHANGED <<tip, disk, head, k, cache, next, all>>

\* The process ends: an error, a panic or a kill.  Its memory is gone.
Forget ==
  /\ pc' = "down" /\ head' = 0 /\ k' = 0 /\ cache' = NoCache /\ next' = 0 /\ all' = << >>

RangesOf(a, b) == {r \in (a .. b) \X (a .. b) : r[1] <= r[2]}

Discover ==
  \/ DiscoverAll
  \/ LoadCache
  \/ \E refused \in SUBSET RangesOf(next, EndOf(next)), save \in BOOLEAN :
       ScanChunk(refused, save)
  \/ Discovered

-----------------------------------------------------------------------------
(* Properties.                                                             *)

FoundBy(d, b) == Accepted(d, CreatedIn(d.name, d.deploy, b))

\* A readable cache file holds each pool the dex has created up to the block it
\* names that the bot trades, once, in chain order: whatever ranges the node
\* refused, and wherever earlier runs stopped (last_synced_block and pools of
\* DexCache, written together by save_cache).
CheckpointExact ==
  \A j \in DOMAIN Dexes :
    LET c == disk[Dexes[j].name]
    IN c # NoCache => c.pools = FoundBy(Dexes[j], c.synced)

\* What discovery hands to hydration is every such pool of every dex up to the
\* head it has read, or further where a cache was already further, each once
\* (discover_all).
AllDiscovered ==
  pc = "open" /\ k > Len(Dexes) =>
    all = FlattenSeq([j \in DOMAIN Dexes |->
            LET c == disk[Dexes[j].name]
            IN FoundBy(Dexes[j], IF c.synced > head THEN c.synced ELSE head)])

\* "An interrupted run resumes from the last checkpoint instead of restarting
\* from deploy_block": what a cache file has reached is never lost
\* (scan_factory_incremental's comment).
ResumesFromCheckpoint ==
  [][\A name \in Names : disk'[name].synced >= disk[name].synced]_disk

=============================================================================
