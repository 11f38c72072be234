# A verification development of robinarb

robinarb is an arbitrage bot for a chain with one sequencer and no public
mempool. It keeps a mirror of the pools it trades through, re-quotes the routes a
block has changed, and sends the profitable ones to an executor contract. This
directory holds TLA+ modules of the bot's tasks, the TLC configurations that check
them on small instances, and proofs that TLAPS checks for every instance.

Paths are relative to the repository; `rpc_backend.rs:104` is a line of
`src/ingest/rpc_backend.rs`, and so on. `PROJECT.json` maps every definition that
stands for code to its lines.

    tlasany Sender.tla                           parse a module
    tlc -workers 2 -config Sender.cfg Sender     check a configuration
    tlapm SenderProofs.tla                       check the proofs of a module

## 1. The system

Every task is a tokio task; they share memory behind `Arc`s (dashmaps, locks, an
arc-swapped map) and talk over bounded `mpsc` channels. A step of a model is what a
task does between two points at which another task may run: an `await`, or an
access to shared memory.

    node --ws--> backend --IngestEvent--> pipeline --ChangedBatch--> evaluator --Opportunity--> sender --> lanes --> sequencer
                                             |  ^                        ^ |
                            tick re-centre   |  |  memo, tick cache      | | reads slots
                                             v  v                        | v
                                       resync loop ---> ChainState <--- fee poller

| component | source | state | operations | what makes it hard |
|---|---|---|---|---|
| chain client | `ingest/rpc_backend.rs`, `backend.rs` | cursor (block, log index), two subscriptions | connect, subscribe, backfill in chunks, resync, header, log, watchdog, reconnect | drops at any step; headers and logs are two streams merged by `select!` |
| pipeline | `ingest/pipeline.rs` | open block, dirty set, head | log, head, resync, seal, quiet seal, announce | seals on three causes; awaits prefetch and room in a channel with pools becoming dirty behind it |
| block memo | `state.rs` (`memo`, `advance_to`, `prefetch_*`, `read`) | slot -> value of this generation | clear, prefetch, insert, read | cleared by one task while two fill it and one reads it |
| tick cache | `state.rs` (`tick_cache`, `patch_cl_ticks`, `prefetch_cl_tick_windows`) | bitmap words and tick nets, kept across blocks | hydrate, patch, re-centre | two writers in two passes each; every read may fail |
| tick resync loop | `state.rs:281-323` | pools collected, debounce | receive, wait, flush, hydrate | a bounded queue whose sender drops when full; shutdown |
| fee poller | `ingest/fees.rs` | fees in the pool metas, `fee_recheck` | wake, poll, sweep, write, announce | fees move without an event; each call, or a poll as a whole, may fail |
| route graph | `routing/graph.rs`, `types.rs` | adjacency lists, search stack | depth-first search per anchor | backtracking under two caps, one of them on the edges of a token (`pair_fanout` times eight) |
| route store | `routing/store.rs` | pool -> routes | look-up | none |
| evaluator | `routing/evaluator.rs` | queue of batches, candidates | coalesce, drop late, tiers, gas gate, emit disjoint | staleness of coalesced batches; greedy choice while the channel is full |
| pool math | `math/v3.rs`, `math/mod.rs`, `v2.rs`, `stable.rs` | none | quotes; for a concentrated pool a walk over its ticks | the walk knows part of the ticks, and the cache it asks changes under it |
| optimizer | `routing/optimizer.rs` | none | best amount | numeric |
| sender | `executor/sender.rs`, `nonce.rs` | blacklist, in-flight set, next nonce, balances | receive, reserve, sign, fan out, resync, monitor, release | a task per route, all on one nonce counter; a gap left by a rejected transaction stalls every later one |
| lanes | `executor/lanes.rs` | one connection each | submit | a lane may be down |
| encoder | `executor/encoder.rs` | none | route -> calldata, with or without a loan | a V4 hop is addressed by its raw currencies, a route by normalized tokens |
| executor contract | `contracts/src/ArbExecutor.sol` | its balances, three transient slots | flash loan, hops, V4 segment, callbacks, withdraw | runs later than it was encoded for; callbacks re-enter; native ETH and WETH are one token to a route and two to a pool |
| gas station | `gas/gas_station.rs` | base fee, price of L1 calldata | store from a header, poll, cost of a transaction | two writers of the base fee; routes of one pass read it one after the other |
| discovery | `ingest/discovery.rs`, `multicall.rs` | a cache file per dex | scan by chunks, halve a refused range, checkpoint | the process stops anywhere; a file may be half written |
| hydration | `ingest/bootstrap.rs`, `loader.rs`, `fee_probe.rs`, `engine/` | registrations, verdicts on tokens, their file | read pools in flat lists of calls, filter, probe, register | answers belong to pools by position, and any call may fail |
| storage layouts | `ingest/slot_layout.rs`, `state.rs` | a layout per `DexTag`, a plan per pool | search words for values, build plans | equal values make the wrong word look right; forks of one tag share a layout |
| verify commands | `verify.rs` | none | audit plans, compare quotes with the chain | the chain moves between two reads |

The channels have the capacities of `app.rs`; all block their sender when full but
the tick re-centre queue, which is written with `try_send` and may drop. The
models have the same channels with small capacities.

The behaviours worth a model checker are listed in `PROJECT.json` under
`hazards`, each at the line where it bites.

## 2. The modules

| module | models | lines of code it stands for |
|---|---|---|
| `RpcBackend` | the chain client, with the node and its two subscriptions | `rpc_backend.rs` 47-187, `backend.rs` 18-77, `multicall.rs` 57-82 |
| `EventFeed` | what the chain client promises: each watched event is told, or a resync is | abstract |
| `Pipeline` | the block-batching task, its two output channels and the tip | `pipeline.rs` 35-190 |
| `IngestSystem` | extends `RpcBackend` with the event channel and an instance of `Pipeline` behind it | `app.rs` 163-222 |
| `StateMemo` | the memo and the three tasks that share it | `state.rs` 169-248, 454-541; `fees.rs` 168-180; `evaluator.rs` 72-108 |
| `TickCache` | the tick cache of one pool, its two writers and the memo's price | `state.rs` 269-452 |
| `TickResync` | the re-centring queue and its debounce | `state.rs` 281-331 |
| `TickSystem` | `TickCache` and `TickResync` under the pipeline, which patches a log's ticks and then queues its pool | `pipeline.rs` 79-119, `app.rs` 190-222 |
| `FeePoller` | the fee poller's rounds | `fees.rs` 33-182 |
| `RouteGraph`, `MCRouteGraph` | the search for routes, call by call | `graph.rs` 30-161 |
| `GasStation` | the base fee and its two writers, the L1 price, what a transaction costs | `gas_station.rs` 43-160 |
| `Evaluator`, `MCEvaluator` | a pass of the evaluator, from queue to queue, with the gas gate; extends `GasStation` | `evaluator.rs` 26-277, `store.rs` 18-35 |
| `TickWalk`, `MCTickWalk` | a quote's walk through the tick cache, step by step | `math/v3.rs` 23-170, `math/mod.rs` 53-95, `state.rs` 406-604 |
| `Discovery` | incremental scans of the factories and their cache files | `discovery.rs` 54-285, `multicall.rs` 57-100 |
| `Hydration` | extends it: pinned pools, hydration, filter, fee probe, registration | `loader.rs` 34-276, `bootstrap.rs` 31-578, `fee_probe.rs` 69-208, `engine.rs` 57-93 |
| `SlotLayouts` | extends that: where a pool's words are, and the plans made of it | `slot_layout.rs` 28-497, `state.rs` 617-692 |
| `Verify` | extends that: the commands that compare pools with the chain | `verify.rs` 58-603 |
| `Startup`, `MCStartup` | all four as one process, with crashes and restarts | `main.rs` 58-109, `app.rs` 32-80 |
| `Sender` | admission, nonces, lanes, receipts and the balance cache | `sender.rs` 56-291, `nonce.rs` |
| `ArbExecutor`, `MCArbExecutor` | the calldata of a route and its execution by the contract, callbacks included | `encoder.rs` 28-87, `ArbExecutor.sol` 163-438 |
| `ExecutorLedger` | what the contract promises of its balances | abstract |
| `IngestSystemProofs` (with those about `RpcBackend`), `StateMemoProofs`, `TickSystemProofs`, `RouteGraphProofs`, `EvaluatorProofs`, `StartupProofs`, `SenderProofs`, `ArbExecutorProofs` | proofs (section 5) | |

How state and actions correspond, where the name alone does not say it:

- **RpcBackend.** A position is `<<block, index>>`; the cursor is the code's
  `Cursor` with `MaxIdx` for `u64::MAX` ("the whole block"). `chain`, `headQ`,
  `logQ` are the node and its subscriptions; `select!` takes from either, so a header
  may come before logs of older blocks. `TakeHeader`,
  `TakeLog` and `Watchdog` are the arms of the loop, `StartBackfill` and
  `BackfillChunk` are `backfill`, one step per `eth_getLogs`. `delivered` and
  `resynced` are history: what the pipeline was told. So are `overtaken` and
  `unreplayed`: the logs the code gives up, because a header of a later block was
  taken before them or because the replay of their block does not ask for their
  emitter, the V4 manager. The properties name these two ways and exclude any third.
- **Pipeline.** `pc` is `recv` at the `select!`, then `advance`, `prefetch`,
  `send` inside `seal`. `TakeEvent` does what the arm does up to the first await;
  a seal in front of an event keeps the event in `pending`. `due` is history: the
  newest block that made a pool dirty. `InBlockOrder` says whether the events come
  as `backend.rs:18` promises or as the backend delivers them.
- **StateMemo.** A pool's slots are one value, the number of changes the pool had.
  A read is sent, answered with the value of that moment (`Answer`) or lost
  (`Fail`), and inserted later (`Insert`): that split is where the races are.
  `dynamicFee`, chosen at the start, are the pools for which a fee poller runs.
- **TickCache.** One bitmap word stands for the tick in it. `slot0` is the price
  word as the memo has it, or `Unset` just after `advance_to`. `patch` and
  `window` are the writers, each with a bitmap pass and a net-liquidity pass.
  `MissLiquidity` is a change in a gap that ends in a resync, which reads no tick
  (`pipeline.rs:168-176`); `missed` and `outdated` are history: which slots hold an
  answer from before such a change.
- **Sender.** Task t submits the t-th opportunity; its `pc` goes through `submit`,
  the resync, `monitor` and the refresh of the balances. `accepted` counts the
  transactions the sequencer has taken, `known` those the RPC node has seen of
  them. The background loop over balances is task 0 (`BalanceLoop`).
- **RouteGraph.** Pools are numbered most liquid first, which is the order of
  `pool_liq_proxy`; `ByLiquidity` sorts a token's pools by it. A frame is a call of
  `dfs` with the edge its loop is at.
- **ArbExecutor.** A pool is its kind and its two raw currencies; `Norm` is what
  discovery makes of native ETH. `Send` encodes any legal route against the cached
  balances `own`, and `Execute` takes it up later, when `bal` may differ. A swap is
  one step (`PairSwap`), the swap up to its callback and the callback (`ClSwap`,
  `ClCallback`), or `unlock`, its swaps and the settlement (`Unlock`, `V4Swap`,
  `V4Settle`), with the pool manager's account of the contract in `delta`. What a
  pool takes (`paid`, at most what it was offered) and gives (`out`) is chosen:
  there are no prices. `partial` and `outcome` are history.
- **Evaluator.** Spot gates and gross profits are chosen (`Tier1`, `Tier2`); the gas
  gate is computed, with the conversions between an anchor and wei that round down.
  A route is priced in a step of its own, so the gas station may change between two
  routes of a pass. An opportunity carries, as history, the newest block and the L1
  price of the moment it was priced, and whether the gas station then knew both
  (`known`). Before the first fee is stored the gate subtracts a fee of 0, as in the
  code, and what passes it is sent. Gas is counted in tens of thousands and calldata
  in pieces of eight bytes; both keep the proportions of the code.
- **GasStation.** The chain is the list of its base fees. `base_fee` is kept as the
  number of the block it was stored from. `OnNewHead` is the pipeline's write,
  `PollBlock` the node's answer to the poll and `PollStore` its write, later.
- **IngestSystem.** `ordered` is history: whether no header has yet been told after a
  log of a later block (`select!` takes from two streams). What is promised about
  blocks is promised while it holds.
- **TickWalk.** A price is counted in `Sub` units to a tick; a unit costs the liquidity
  it passes and pays less the further the price has gone. `known` are the bitmap words
  of the cache, `nets` what it has of the ticks (zero for one that was not fetched).
  `codec` tells the two encodings apart: V3 and V4 index their bitmap by multiples of
  the spacing, Algebra by single ticks.
  The reference `Worth` takes the pool unit by unit, from the positions themselves.
- **Discovery.** `disk` has one cache file per dex, readable or not. A file is
  written in place: `Crash` in the middle of a write leaves one that does not parse,
  read as none. `Fetch` (a range, asked for in halves when the node refuses it) is a
  recursive function.
- **Hydration.** A family of pools is read in one flat list of calls, and the n-th pool
  finds its answers by position (`At`): the answers are modelled as that list, with the
  failed calls empty. A list that fails as a whole ends the process, as `?` does.
  `unscaled` are the tokens whose `decimals()` failed: they have 18 for the whole start,
  and what a pool read by reserves or liquidity is taken to hold of them (`Scaled`) is
  what `Info` says it is misread as. A registration carries the spacing that was read or
  the 60 that stands in for it, and `FeeCall` asks an Aerodrome factory for the fee of
  the kind the pool was tagged as.
- **SlotLayouts.** A word is the values a decoder finds in it at the offsets it knows.
  The search compares them with what the view functions of the sampled pools return.
  `OneHome` says when that is enough (section 5). A `Fork` is the contract a factory
  makes; a tag may have several. `sampled` is history: the pool a tag's layout was
  found in.
- **Verify.** A pool's value is the block that last changed it. `cause` is history: what
  could explain the mismatch of the last attempt.

## 3. The runs

Twelve runs; `PROJECT.json` lists them with their properties and, for each
property, a mutant of the code that breaks it.

| run | what it asks | bounds, and why they are enough |
|---|---|---|
| `RpcBackend` | is any watched log lost but in the two ways the code has, or handed on twice live; does the backend implement `EventFeed` | a pool and a V4 pool; 3 blocks after the first, with up to 2 logs each and 3 in all (a drop in the middle of a block, a header before the logs of two blocks), 2 drops (a drop during the backfill after a drop), chunks of one block and a backfill of two (several chunks, and a gap too large for them) |
| `IngestSystem` | is a change ever forgotten between node and evaluator, and is each announced in the end; while events come in block order, does a batch cover the logs of its block, and does the tip ever go back | a pool and a V4 pool; 2 blocks after the first, with up to 2 logs each and 2 in all (both in one block, or one in each), 1 drop at any step, a replay of one block or a resync, a tip that starts at the first block, a channel of one |
| `StateMemo` | is what was announced in the memo; is every change read again | 2 pools on one route, each changing once, a poll, every subset of dynamic-fee pools |
| `Sender` | one task per route; who closes a nonce gap; is every route released; is a suppression cut short while opportunities come in order; does the balance cache settle | 2 routes, 2 lanes that accept, reject or fail independently, 2 opportunities, 2 blocks, blacklisting for 2 |
| `SenderNonce` | violation: a nonce reserved twice | as `Sender`, with one lane |
| `TickSystem` | why can a cached tick be wrong; is a queued pool ever forgotten | 2 words, a patch that covers both and a window that covers one; 2 events (one patch after another, a patch before or after a change lost in a gap, or a patch and a log of a second pool), any number of re-centrings they cause, a queue of one, a window of one clock step |
| `FeePoller` | is every written fee announced; is a settled fee followed | one pool of each kind, 2 fees, a sweep every second round |
| `RouteGraph` | does the search find all and only cycles, once | all 243 graphs of 5 pools over 3 tokens, two anchors, 3 hops, at most 4 routes per anchor and 3 edges per token, so both caps cut some of them and leave others alone |
| `ArbExecutor` | does a transaction keep the ledger; does the contract's book-keeping fit every route | every route of 2 or 3 hops from two anchors over a pair, a concentrated pool and three V4 pools that form a triangle in which WETH is native to one and a token to another: segments of up to three hops, native or not at either end, and V4 hops that must not be joined; inputs and outputs of 1 and 2, idle balances of 0 and 1, two transactions |
| `Evaluator` | are a pass's opportunities disjoint and best first, in wei; does what is sent pay for its gas a block later, where the gas station knew the prices | 3 routes in a chain of shared pools, of which the middle one has an anchor of ten wei (so the order in anchor units is the wrong one); a gross profit at the edge of the gate and one beyond it, which a base fee without its buffer lets through; 2 blocks, a base fee of 8 that moves by its eighth, L1 prices at every second poll, one batch (two are coalesced in `StateMemo`), an output channel of 1, a clock of 1 |
| `Startup` | from any earlier files, with failures and stops anywhere: is a checkpoint exact, is every pool found, is a pool registered as read, is a token that pays short traded, does a plan read its pool, is an audit right | 11 pools of 6 dexes, of which one is not scanned and two are forks of kind v3 that are laid out differently; chunks of 2 blocks in a chain of 4 (a range that must be halved, and a last chunk that is short), one failed call, a `decimals()` or any other, 2 holders to a token, 3 words scanned, 2 samples (one pool without liquidity), 2 tries while the chain moves twice. Deadlock is checked |
| `TickWalk` | has the walk the liquidity of its tick; is a quote true, or a lower bound; does it ever cross unknown ground | positions nested, apart and meeting, spacing 2, words of 2 bits over the ticks -7..7 (several words on both sides of zero), both encodings, both directions, amounts that stop inside a range, cross and run out; one unknown word, one refresh under the walk; 6 steps, so that some walks meet that bound |

`CHECK_DEADLOCK FALSE` stands where the bounds end the chain's history; the fee
poller's run keeps the deadlock check, since its task must never stop, and so does
`Startup`, which can always be started again. Each module states the types of its
variables as `TypeOK`; for `RpcBackend`, `StateMemo`, `TickSystem`, `RouteGraph`,
`Sender` and `ArbExecutor` it is a theorem (section 5), for the others a definition that
documents the state and that a run can be given as an invariant.

**Fairness.** Weak fairness of a task's own steps: tokio schedules every ready
task. Of the surroundings: every call ends, in an answer or an error (the
transport closes dead connections; `RpcBackend` also has the watchdog for one that
does not); the consumer of a channel goes on taking. `RpcBackend.FairSpec` and
`FeePoller.FairSpec` need more of the node: drops and whole-poll failures end
some time (the bound `MaxDrops`; `<>[][~MulticallFails]_feeVars`), and a call that is
retried round after round is not answered with an error for ever (strong
fairness). Nothing is assumed of the order of independent tasks.

## 4. Promises the code does not keep

Comments and names state things the code does not do. One is a run; the others
are kept as configurations, and `tlc -config <cfg> <module>` finds the trace. Where two
promises share a configuration TLC reports the one it meets first; with the other
property alone in the file it finds the trace of that one.

| cfg | module | promise | what happens |
|---|---|---|---|
| `RpcBackendOvertake` | `RpcBackend` | "a dropped connection loses no events" (`rpc_backend.rs:11`), as `EveryEventTold` | a header of block n, taken before logs of n-1, moves the cursor past them: dropped live, never replayed |
| `SenderNonce` | `Sender` | "Reserve the next nonce" (`nonce.rs:20`) | a task whose transaction was taken and whose reply was lost resyncs, and reads the count of a node that has not seen the transaction: the counter goes back and the next reserve repeats a nonce |
| `RpcBackendV4` | `RpcBackend` | "it replays the missed range" (`rpc_backend.rs:10`), as `ReplayTellsAll` | the backfill filters by pool address, which is not the emitter of a V4 pool's logs |
| `PipelineDisorder` | `Pipeline` | "Advance ... to a new sealed tip" (`state.rs:533`) | a late log reopens and seals an older block. With `StartBlock = 1` the same property fails on every start, in order or not: the tip starts at the chain's block (`app.rs:104-105`), the head at 0, and the resync of the first connect seals block 0 |
| `StateMemoPromises` | `StateMemo` | "never quote against stale memo entries from the prior block" (`state.rs:534`) | the poller's read of the block before is inserted after the clear |
| `StateMemoPromises` | `StateMemo` | "doesn't read zero" (`fees.rs:170`) | a seal clears the memo between the poller's prefetch and its batch |
| `TickCachePromises` | `TickCache` | "keeps `tick_cache` correct" (`state.rs:402`) | the re-centring loop inserts an answer older than the patch |
| `TickCachePromises` | `TickCache` | "around its CURRENT price" (`state.rs:283`) | the price is read from a memo just cleared: tick 0 |
| `TickResyncStarved` | `TickResync` | "batching arrivals within `batch_window`" (`state.rs:285`) | each arrival renews the wait; steady traffic hydrates nothing |
| `FeePollerFast` | `FeePoller` | "pools the trigger loop just saw change" (`engine.rs:49`) | only a failed poll ever inserts into `fee_recheck` |
| `SenderPromises` | `Sender` | "block until which it's suppressed" (`sender.rs:41`) | the check is not repeated before the send; and a receipt stores the block it computes over whatever is there, so that of an older opportunity cuts a suppression short |
| `SenderPromises` | `Sender` | "also re-fetched after every receipt" (`sender.rs:129`) | two refreshes copy, read and store; the older may store last |
| `RouteGraphCap` | `MCRouteGraph` | "`max_routes` bounds EACH anchor's enumeration" (`graph.rs:28`) | callers' loops go on: up to `max_hops - 2` more, and never more than that (`CapNearlyKept`, section 5) |
| `TickWalkNets` | `MCTickWalk` | "an unquotable pool never looks profitable, never causes a bad trade" (`state.rs:163-165`) | the net of a tick that could not be fetched reads as zero; the walk crosses it as if nothing ended there and the quote is too high |
| `EvaluatorFee` | `MCEvaluator` | "Zero-cost and always freshest" (`gas_station.rs:53-54`), as `FeeNeverGoesBack` | the poll's answer, asked for earlier, replaces a newer header's fee |
| `EvaluatorFee` | `MCEvaluator` | "The profit gate subtracts BOTH L2 execution cost and the L1 calldata fee" (`gas_station.rs:2-3`), as `SentPays` | until the first header or poll the base fee is 0 (`gas_station.rs:46`, `app.rs:157`), and what the gate lets through does not pay; a fee that a poll has put back does the same later |
| `StartupPromises` | `MCStartup` | "An interrupted run resumes from the last checkpoint" (`discovery.rs:113-114`) | the file is written in place: stopped in the middle, it is unreadable and the scan begins again |
| `StartupPromises` | `MCStartup` | "Model + chain must describe the same block" (`verify.rs:338`) | when a read of the tip fails, a difference is counted though the chain may have moved |
| `StartupPromises` | `MCStartup` | "Layouts differ across forks ... never assumed from source" (`slot_layout.rs:1-5`), as `EveryForkMatched` | a layout is kept per `DexTag`, not per fork: with two forks of kind v3 the sample of one decides where the pools of the other are read. `config.toml.example` has three such dexes and two of kind v2 |
| `StartupPromises` | `MCStartup` | "the token's real on-chain decimals" (`bootstrap.rs:562-566`), as `RealDecimals` | a failed `decimals()` counts as 18 for the whole start, and scales what pools of that token are taken to hold |

The passing runs of the same modules state what holds in spite of them.

## 5. The proofs

Each proof module extends the module it is about; its theorems have the form
`Spec => P`, most of them for P a property of a run.

- `IngestSystemProofs` begins with the backend alone (its `Spec` and `Init` are
  `RpcBackend`'s). It proves `TypeOK` outright, and `NoEventLost` and
  `NoGapBeforeStream` for every set of emitters and pools, every chain, chunk size,
  backfill bound, number of drops and set of V4 pools, whichever stream `select!` takes
  first. Both say that a log is told, or covered by a resync, or passed by in one of the
  two ways section 4 shows: what the code loses is what it loses there and nothing else.
  Neither property is inductive. `IInv` adds `QueuesInOrder` (a connection's queues hold
  published events only, logs in the order of the chain; nothing is unpublished between
  subscribing and the end of the backfill), `CursorOnChain`, and `ReplayCovers` (in the
  middle of a backfill, what lies after the cursor and before the next chunk was told
  and what lies above the backfill's end waits in the queue). The step that matters is
  the last chunk: the claim passes from the replay to the stream when the cursor moves
  to the backfill's end. `LiveLogIsNew` and the safety half of `ImplementsFeed` (`Spec
  => Feed!Spec`) rest on `NewInv`, which says that what has been told lies at or before
  the cursor once the stream is live, and at or before the backfill's end until then
  (`ToldPassed`), and that the queues hold positions of the chain.
- Of the composition (`SystemSpec`; a step of it is a step of the backend or leaves the
  backend alone, so that the backend's invariants carry over), `NoChangeForgotten`
  excepts the pools of which the backend has passed a log by (`LogPassedBy`), and
  nothing else. Its invariant adds to itself only `ReadAccounted`: between the read of a
  job and its announcement, a pool that has changed since the read has its notice
  elsewhere, as a log to come, an event in the channel, or in `dirty`, so that ending
  the job forgets nothing. `BatchCoversItsLogs` and `TipNeverRegresses` hold as long as
  events come in block order (`ordered`), the second once a block has been opened:
  before that the tip does go back, from where it starts to the block of the first seal
  (section 4), and `TipBounded` says how far. What is opened is newer than the start,
  since no connection publishes or replays a block from before it (`SinceStart`,
  `EventsSinceStart`). `OrderInv` says that what the pipeline knows is not beyond its
  open block, that no event on its way is ahead of the stream, and that a header is at
  least as new as every event before it, which has to be carried through every
  connection, replay and resync.
- `StateMemoProofs` proves `TypeOK`, `MemoOfThisGeneration` and `SealPrefetchesRoutes`
  for every set of pools and routes and any number of changes. The first needs that
  the pipeline holds no answer older than the memo's generation
  (`OfThisGeneration`: it clears only between two prefetches of its own, and without
  a poller nobody else writes); the second an account of each read of a prefetch
  (`FetchAccounted`): to be answered, held, failed or in the memo.
- `TickSystemProofs` proves `SystemTypeOK`, `StaleHasCause`, `RestingCacheHasNets` and
  `QueuedIsOnItsWay` for every number of words and events and every length of the queue.
  For the first property each slot that a patch wrote last has an account
  (`PatchedBits`, `PatchedNets`): it is the chain's, or an event that changed it is
  still queued, or the patch under way will read it again; and an answer the patch
  holds is the chain's or has been outdated by such an event (`HeldIsCurrent`). For
  the second, `NetAccounted`: a set bit without a net is one that a writer is still to
  read the net of, because the bits a writer inserts lie in the range whose nets it
  will read (`ReadsScanned`). For the third, `LoopInOrder`: the loop ends only with its
  queue closed and empty and nothing collected.
- The second half of `TickSystemProofs` is about `TickWalk`: it proves `OnKnownGround`,
  `LiquidityIsActive` and `QuoteIsTrue` for every set of layouts, spacing, word size,
  amount and number of missing words. `WalkOK` says what a walk knows in every state:
  its price is in its tick, seen from above or from below (`PriceInTick`), and the word
  it holds is the cache's (`WordIsKnown`). With `Compress` shown to be the floor of the
  quotient for negative ticks too, the next tick of a word is given by
  `NextTickIs`, and a tick on the way there is one of the walk's own word (`OnTheWay`):
  this is `OnKnownGround`, whatever is refreshed meanwhile. The other two are about a
  cache that nobody touches and assume `MaxLost = 0`, every net fetched: section 4's
  `TickWalkNets` shows that without it the quote is too high. `WalkFresh` says that the
  cache is then the chain's and the liquidity that of the positions: it can change only
  at a tick where one begins or ends, none lies strictly between two stops
  (`ActiveBetween`, `EdgesAhead`), and at a stop the net is the difference
  (`ActiveAcross`, by splitting the sum into disjoint ones). `OnCurve` says that what
  the walk has left and bought is what the unit-by-unit curve of `Worth` has after as
  many units as the price has gone. A step takes several units at one liquidity, and
  `CurveAlong` shows that the curve does the same; the curve never falls (`CurveGrows`),
  so a walk that stops early quotes too little and never too much. As in
  `StartupProofs`, the sums and the recursive function of `Worth` are first shown to
  have a solution by induction over sets (`SumsExist`, `CurveExists`).
- `RouteGraphProofs` proves, for every set of pools and tokens, every list of anchors
  and every cap, `TypeOK`, `RoutesAreCycles` and `AllCyclesFound`, and `NoRouteTwice`
  for a list that names no anchor twice (named twice, its routes are there twice). The
  search is a depth-first one over edges in a fixed order, so a walk from the anchor is
  behind the point the search has come to, or ahead of it, by the first edge at which
  the two differ. `Walk` says that stack, path, used and visited describe one simple
  walk, so that what is closed is a cycle; `FoundIsBehind` that all found lies behind,
  so that nothing is found twice; `RestIsAhead` that each cycle is found or ahead,
  so that nothing is missing when the stack is empty. Each of the five ways a step
  moves the point keeps all three. `CapNearlyKept` is the bound the code keeps in
  place of the documented one: a call enters its loop only below the cap, and each
  call under way then closes at most one more cycle.
- `SenderProofs` proves `TypeOK`, `OneTaskPerRoute`, `GapHasOwner` and
  `SuppressionKeptInOrder` for every set of routes and lanes, every blacklist length and
  every number of opportunities, without further assumptions. Types need `LoopAhead`:
  the tasks the run loop has not spawned are idle. `OneTaskPerRoute`, whose second half
  says that `in_flight` is exactly the routes of the running tasks, is then inductive.
  `GapHasOwner` (each nonce the sequencer waits for, below the counter, is held by a
  task that may still land it or will resync, or by one whose resync failed) needs
  `LanesAgree` (a task that some lane accepted has a nonce the sequencer has passed; one
  that has not sent has no answers) and `SeenIsPast` (no resync has read a count the
  sequencer has not reached), so that storing that count opens no gap without an owner.
- `ArbExecutorProofs` proves, for every set of pools (native or not), length of route,
  number of transactions and answer of the pools, `TypeOK` (the contract never pays from
  tokens it does not have), `KeepsLedger` (the contract implements `ExecutorLedger`
  under the mapping `held <- IF pc = "idle" THEN bal ELSE saved`: a transaction is one
  step of the ledger, taken when it ends), `NothingLeftBehind`, `GuardsFollowCalls` and
  `RevertHasCause`. The final check looks at the anchor only, so for every other token
  an account of each step is needed: `Accounted` says that the contract holds `saved[t]
  + Claim(t)` of it or more, exactly that when no pool was partly filled, where `Claim`
  is what is on its way at this point of the route (the amount in the token the next hop
  takes, or, inside a callback, also what the pool has sent already). Passing a claim
  from hop to hop needs the hops to fit (`ClosesCycle`), which is proved of the encoder
  (`GoodCloses`): each V4 hop finds its own pool's key under its index (`KeyFits`, by
  counting), and the currencies on both sides of a boundary have the same normalized
  token. `ArbExecutorAssumption` is what discovery and the router guarantee: no pool has
  the same normalized token twice, and only V4 pools hold native ETH. `RevertHasCause`
  says that the contract never stops a route by its own book-keeping: not for want of a
  token it needs, not for an account with the pool manager that is not even, not for a
  callback it did not expect. `CauseInv` is why. `AnchorCovered`: the anchor's balance
  and the input make up the balance at the start and the claim, so only the first hop of
  a route without a loan can lack tokens, when the cached balance was stale; every other
  token's claim is covered by `Accounted`. `SegmentsJoin`: the manager's account is even
  between segments, a segment is a run of V4 hops joined in the raw currency, and as
  long as the pools take all they are offered the account has the amount in the currency
  where it stands less the segment's input in the currency where it began (`AccountIs`),
  so that paying the one and taking the other settles it.

- `EvaluatorProofs` proves, for every set of routes, rates, gas prices and capacities,
  `SentDisjoint`, `LeftOutForBetter` and `SentPaysIfKnown`. The first needs only that
  `used` covers what was sent. The second needs `GreedyInv`: every used pool is one of
  something sent, so a conflict has a culprit, and what was sent is worth no less than
  everything still left, whatever was sent while the channel was full. The third
  compares what is sent with the block after the newest one on the chain when it was
  priced, not with the block of the fee it was gated with; a stale or unset fee
  is thus a fee of the wrong block, and the property excepts what was priced while
  the station was behind (`known`), which section 4's `EvaluatorFee` shows it must.
  It assumes that the margin on the L1 price (`l1_fee_margin`, 1.2 by default) is one or
  more. Its invariant `PricedInv` says of each opportunity priced by a station that knew
  that it clears its MinProfit at the newest base fee raised by an eighth, and of the
  chain that a fee rises by an eighth at most; `9b/8` rounded down is `b` plus `b/8`
  rounded down, and each conversion, though it rounds, keeps the order
  (`ToAnchorMonotone`, from two lemmas on integer division). `KnownIsNewest` says that
  a station that is up to date has a fee at all. That routes of one pass read different fees
  does not matter: each carries its own. The module also has the proof about the task
  that feeds the evaluator: `WrittenIsAnnounced` of `FeePoller`, for every set of pools
  and fees, any rounds between sweeps and whichever calls and polls fail. It is
  inductive but for the types, which need `FirstPollIsCl`: the first poll of a round is
  of concentrated pools only, so that only those are flagged again when it fails.

- `StartupProofs` proves the seven safety properties of the whole start, for any
  dexes, pools, factory logs, pins, answers of the node and interruptions.
  `CheckpointExact` and `AllDiscovered` follow from `ScanInv`: a cache file is exact up
  to the block it names, the cache in memory up to the block before `next`, and the
  dexes before the k-th are through. What carries it is `FetchIs`, that whatever ranges
  a node refuses, an answer put together from halves is the range's logs in order, and
  that a range is its two parts one after the other (`CreatedSplit`, `FoundStep`).
  `Fetch`, `InOrder` and `FlattenSeq` are recursive functions, about which the prover
  knows nothing, not even that the recursion has a solution: this is shown first, by
  induction on the width of the range or the length of the list
  (`StepsExist`, `FlatStepsExist`, `HalvingsExist`, and that two solutions agree).
  The library's induction theorems take an operator, which no prover here can
  instantiate; `LeastNumber` and `Induction` say the same of a set, from the order of
  the natural numbers being well-founded. `RegisteredAsRead` needs `RegInv`: every
  registration is that of an entry of the list, of a family that has been read
  (`ReadAt`), which has each pool once, and made of what `At` finds at its own place
  among the answers (`AnswerAt`, `SecondList`, by arithmetic on places). For every set
  of failed calls it says of the fee, the spacing and the depth which call's failure the
  stand-in comes from; a failed `decimals()` makes the depth that of the misread scale
  (`DepthsOf`), and only of that token. It assumes of
  the chain (`HydrationAssumption`) that a factory's logs are about pools that name it,
  and of the configuration that a fee it gives for a dex is the one that dex charges:
  the code takes both as given. `NoShortToken` adds `ShortInv`: what was heard to arrive
  short has its verdict, and what is being probed is still open. `AuditTrue` adds
  `AuditInv`: as long as the tip is the one read before, the words and the call that an
  audit has are of one state of the pool (`OneBlock`). `PlansReadTheirPools` is not true
  of every storage: the search compares values, so a word that has the value looked for
  by coincidence misleads it. The theorem states what the code relies on as a
  hypothesis, `OneHome`: the pools of one fork, made by one factory, have their values
  at the same slots, and one that is in use has them nowhere else among the words
  scanned (of a pool without price or liquidity nothing is asked, which is why `Alive`
  matters). Nothing is assumed of two forks under one tag, and nothing claimed of a
  pool that was given another fork's layout: the theorem is about the pools of the forks
  that were sampled (`sampled`). That it cannot be more is shown by `EveryForkMatched`
  (section 4). The run's storage meets `OneHome` with two v3 forks laid out differently:
  `MCStartup` has it as an assumption, which TLC evaluates. From it `SampleTellsAll`:
  what the search finds at a sample reads from every pool of its fork what is its own
  (`ReadsFork`), and takes the ticks from where the fork keeps them. `PlanInv` carries
  that from the layouts to the plans, and `EngineKinds` that a pool is registered under
  a tag of its kind (a stable pool may be pinned as a volatile one, when the call that
  tells failed: the two have one contract). For this `HydrationAssumption` says that a
  dex's factory makes pools of the kind the dex is configured as.

Every safety property that a passing run checks is a theorem. Only model-checked is
liveness (`ImplementsFeed`'s fairness, `EveryChangeAnnounced`,
`SealQuotedUnlessOvertaken`, `ChangeIsRead`, `RouteReleased`, `CacheSettles`,
`FeeFollowed`), since the prover has neither fairness nor ENABLED.

## 6. Not modelled

- `optimizer.rs`: a floating-point search for the amount to trade. The evaluator is
  right whatever it finds: the search ends with an exact integer quote of the amount it
  found (`optimizer.rs:140-149`), so a poor amount costs profit only. In `Evaluator` it
  is the choice of a gross profit.
- The quotes of constant-product and stable pools (`v2.rs`, `stable.rs`): closed
  formulas over 256-bit integers and a Newton iteration; the price formulas inside
  one step of the V3 walk, which `TickWalk` replaces by a unit price.
- `pricing.rs`: two web services, asked once; the rates are a constant.
- `abi.rs`, `config.rs`, `constants.rs`, `stats.rs`: layout, parsing, declarations and
  counters. `verify.rs`: the benchmark, the table of balances and all printing. The
  paper logger of `app.rs`.
- Of `ArbExecutor.sol`: owner and executor administration, `approveMorphoMax` (taken
  to have been called for every anchor), calls by strangers, and rescued native ETH.
  The view contracts have no state. The bytes of the calldata are left out. Morpho does
  not refuse the loan or its repayment (`ArbExecutor.sol:196`, `215-223`): with
  `approveMorphoMax` called and the loan available, neither can happen.
- Of `sender.rs`: signing does not fail, so the early return at `sender.rs:186`, after a
  nonce is reserved, is not taken. The key is in memory; were it to fail, it would leave
  a nonce reserved and never sent.
- Of `verify.rs`: the node's tip never lags behind its state, and the third call of an
  Algebra pool, `fee()`, which is compared with its word as the other two are
  (`verify.rs:170-173`), is left out.
- Under a walk of `TickWalk`, positions are withdrawn but none appears.
- The age of a coalesced batch is in no property. `Evaluator` drops a batch by the
  oldest time it carries (`Stale`), `StateMemo` drops any; what is checked is that every
  change is read again, not how late.
- Chain reorganisations: the code has no handling of them and the chain has one
  sequencer; the models' chain only grows.
- The calls `RpcBackend` awaits before its watchdog starts end, in a connection
  or an error.

## 7. The plan

Order of what was built and what comes next, by how much of the system's
correctness rests on it.

1. `RpcBackend`, `EventFeed`, `Pipeline`, `IngestSystem`, `Sender` with the proofs
   of the first and the last. Done.
2. `StateMemo`, `TickCache`, `TickResync`, `FeePoller`, `RouteGraph`, `Evaluator`.
   Done.
3. `ArbExecutor` and `ExecutorLedger` with the encoder, and their proofs. `TickSystem`,
   the composition of pipeline, resync loop and tick cache. Done.
4. `GasStation` with the evaluator's gas gate; `TickWalk` against a reference that
   takes the pool unit by unit; `Discovery`, `Hydration`, `SlotLayouts` and `Verify`
   composed as `Startup`; `EvaluatorProofs`. Done.
5. Proofs of `IngestSystem`, `StateMemo`, `TickSystem` and `RouteGraph`, and the safety
   half of `ImplementsFeed`. Done.
6. Proofs of `Startup`: the scan and its files, registration, probed tokens, plans,
   audits. Proofs of `TickWalk` and `FeePoller`, and of why a transaction of
   `ArbExecutor` reverts. Done.
7. `IsolatedSenderLane`: the lane's thread, its queue and keep-alive.
8. A net that was not fetched, under the quote (`state.rs:164`): how far the quote
   may be wrong.
