------------------------------ MODULE Pipeline ------------------------------
(***************************************************************************)
(* The block-batching ingest pipeline (src/src/ingest/pipeline.rs): one    *)
(* task that takes ingest events, collects the pools that changed in the   *)
(* open block and, when the block is sealed, clears and re-reads the state *)
(* cache and announces the pools to the evaluator as a ChangedBatch.       *)
(*                                                                         *)
(* seal and resync_all suspend twice, in the prefetch and in the send, so  *)
(* they are the steps Advance, Prefetch and Send of a job.  While a job is *)
(* under way the task takes no event; the event that caused a seal is      *)
(* applied when the batch has been sent.                                   *)
(***************************************************************************)
EXTENDS Naturals, Sequences, FiniteSets

CONSTANTS
  Pools,         \* the pools of the engine
  ClPools,       \* the pools with a tick window (SlotPlan::Cl)
  ChangedCap,    \* capacity of the ChangedBatch channel
  TickCap,       \* capacity of the tick resync queue
  InBlockOrder,  \* does the backend deliver its events in block order?
  StartBlock,    \* get_block_number when the program starts
  MaxBlock,      \* bound: block numbers
  MaxEvents      \* bound: events fed

PipelineAssumption ==
  /\ ClPools \subseteq Pools
  /\ ChangedCap \in Nat \ {0}
  /\ TickCap \in Nat
  /\ InBlockOrder \in BOOLEAN
  /\ MaxBlock \in Nat
  /\ StartBlock \in 0..MaxBlock
  /\ MaxEvents \in Nat

VARIABLES
  inQ,        \* the ingest channel
  openBlock,  \* open_block
  haveOpen,   \* have_open
  dirty,      \* the pools changed since the last seal
  head,       \* Engine::head_block
  tip,        \* ChainState::tip
  pc,         \* where the task is
  job,        \* the seal or resync under way: its block and pools
  pending,    \* the event that waits for the seal it caused
  changedQ,   \* the ChangedBatch channel
  tickQ,      \* the tick resync queue
  fed,        \* the newest header and log fed, and how many events (environment)
  due         \* history: the newest log applied of each pool

pipe == <<openBlock, haveOpen, dirty, head, tip, pc, job, pending, tickQ, due>>
vars == <<inQ, openBlock, haveOpen, dirty, head, tip, pc, job, pending,
          changedQ, tickQ, fed, due>>

Blocks == (StartBlock + 1)..MaxBlock
NewHead(n) == [type |-> "NewHead", block |-> n]
PoolLog(b, p) == [type |-> "PoolLog", block |-> b, pool |-> p]
Resync == [type |-> "Resync"]
NoEvent == [type |-> "None"]

Event == [type : {"NewHead"}, block : Nat]
           \cup [type : {"PoolLog"}, block : Nat, pool : Pools]
           \cup {Resync}
Batch == [block : Nat, pools : SUBSET Pools]
NoJob == [block |-> 0, pools |-> {}]

TypeOK ==
  /\ inQ \in Seq(Event)
  /\ openBlock \in Nat
  /\ haveOpen \in BOOLEAN
  /\ dirty \in SUBSET Pools
  /\ head \in Nat
  /\ tip \in Nat
  /\ pc \in {"recv", "advance", "prefetch", "send"}
  /\ job \in Batch
  /\ pending \in Event \cup {NoEvent}
  /\ changedQ \in Seq(Batch)
  /\ tickQ \in Seq(ClPools)
  /\ fed \in [head : Nat, log : Nat, events : Nat]
  /\ due \in [Pools -> Nat]

\* ChainState starts at the chain's block, the engine and the pipeline at 0.
Init ==
  /\ inQ = << >>
  /\ openBlock = 0
  /\ haveOpen = FALSE
  /\ dirty = {}
  /\ head = 0
  /\ tip = StartBlock
  /\ pc = "recv"
  /\ job = NoJob
  /\ pending = NoEvent
  /\ changedQ = << >>
  /\ tickQ = << >>
  /\ fed = [head |-> 0, log |-> 0, events |-> 0]
  /\ due = [p \in Pools |-> 0]

-----------------------------------------------------------------------------
(* The backend, as the pipeline sees it: headers and logs each come in     *)
(* block order, and in any order with respect to one another unless        *)
(* InBlockOrder holds.                                                     *)

Feed(e) ==
  /\ fed.events < MaxEvents
  /\ inQ' = Append(inQ, e)
  /\ UNCHANGED <<pipe, changedQ>>

FeedHead(n) ==
  /\ n > fed.head
  /\ InBlockOrder => n >= fed.log
  /\ Feed(NewHead(n))
  /\ fed' = [fed EXCEPT !.head = n, !.events = @ + 1]

FeedLog(b, p) ==
  /\ b >= fed.log
  /\ InBlockOrder => b >= fed.head
  /\ Feed(PoolLog(b, p))
  /\ fed' = [fed EXCEPT !.log = b, !.events = @ + 1]

FeedResync ==
  /\ Feed(Resync)
  /\ fed' = [fed EXCEPT !.events = @ + 1]

-----------------------------------------------------------------------------
(* Sealing.                                                                *)

\* mutant: only one pool of the block is announced
Drain_OnePool == {CHOOSE p \in dirty : TRUE}

\* seal drains dirty into the batch.
Drain == dirty

BeginSeal(e) ==
  /\ pc' = "advance"
  /\ job' = [block |-> openBlock, pools |-> Drain]
  /\ dirty' = {}
  /\ pending' = e

\* mutant: an event of the next block still belongs to the open one
EndsOpenBlock_Late(e) == e.block > openBlock + 1

\* A newer header or log ends the open block; seal does nothing for a block
\* with no dirty pools.
EndsOpenBlock(e) == e.block > openBlock
MustSeal(e) == haveOpen /\ e.type # "Resync" /\ EndsOpenBlock(e) /\ dirty # {}

-----------------------------------------------------------------------------
(* Applying an event.                                                      *)

ApplyHead(e) ==
  /\ head' = e.block
  /\ openBlock' = e.block
  /\ haveOpen' = TRUE
  /\ UNCHANGED <<dirty, tickQ, due>>

\* try_send: a full queue drops the request.
QueueRecentre(p) ==
  tickQ' = IF p \in ClPools /\ Len(tickQ) < TickCap THEN Append(tickQ, p) ELSE tickQ

\* patch_cl_ticks, which a liquidity event awaits here, is in ChainState.
ApplyLog(e) ==
  /\ IF EndsOpenBlock(e)
       THEN openBlock' = e.block /\ haveOpen' = TRUE
       ELSE UNCHANGED <<openBlock, haveOpen>>
  /\ dirty' = dirty \cup {e.pool}
  /\ due' = [due EXCEPT ![e.pool] = IF @ < e.block THEN e.block ELSE @]
  /\ QueueRecentre(e.pool)
  /\ UNCHANGED head

Apply(e) ==
  \/ e.type = "NewHead" /\ ApplyHead(e)
  \/ e.type = "PoolLog" /\ ApplyLog(e)

\* mutant: the head alone
ResyncBlock_Head == head

\* resync_all.
ResyncBlock == IF head > openBlock THEN head ELSE openBlock
ResyncPools == Pools

TakeEvent ==
  /\ pc = "recv"
  /\ inQ # << >>
  /\ inQ' = Tail(inQ)
  /\ LET e == Head(inQ)
     IN  \/ /\ MustSeal(e)
            /\ BeginSeal(e)
            /\ UNCHANGED <<openBlock, haveOpen, head, tickQ, due>>
         \/ /\ e.type # "Resync"
            /\ ~MustSeal(e)
            /\ Apply(e)
            /\ UNCHANGED <<pc, job, pending>>
         \/ /\ e.type = "Resync"
            /\ pc' = "advance"
            /\ job' = [block |-> ResyncBlock, pools |-> ResyncPools]
            /\ UNCHANGED <<openBlock, haveOpen, dirty, head, pending, tickQ, due>>
  /\ UNCHANGED <<tip, changedQ, fed>>

\* No event for quiet_seal_ms.
QuietSeal ==
  /\ pc = "recv"
  /\ haveOpen
  /\ inQ = << >>
  /\ haveOpen' = FALSE
  /\ IF dirty # {}
       THEN BeginSeal(NoEvent)
       ELSE UNCHANGED <<pc, job, dirty, pending>>
  /\ UNCHANGED <<inQ, openBlock, head, tip, changedQ, tickQ, fed, due>>

\* advance_to: clear the memo and publish the tip.
Advance ==
  /\ pc = "advance"
  /\ tip' = job.block
  /\ pc' = "prefetch"
  /\ UNCHANGED <<inQ, openBlock, haveOpen, dirty, head, job, pending, changedQ,
                 tickQ, fed, due>>

\* prefetch_neighborhood, or prefetch_pools of a resync: see ChainState.
Prefetch ==
  /\ pc = "prefetch"
  /\ pc' = "send"
  /\ UNCHANGED <<inQ, openBlock, haveOpen, dirty, head, tip, job, pending,
                 changedQ, tickQ, fed, due>>

\* changed_tx.send waits for room.
Send ==
  /\ pc = "send"
  /\ Len(changedQ) < ChangedCap
  /\ changedQ' = Append(changedQ, job)
  /\ pc' = "recv"
  /\ job' = NoJob
  /\ pending' = NoEvent
  /\ IF pending = NoEvent
       THEN UNCHANGED <<openBlock, haveOpen, dirty, head, tickQ, due>>
       ELSE Apply(pending)
  /\ UNCHANGED <<inQ, tip, fed>>

Task == TakeEvent \/ QuietSeal \/ Advance \/ Prefetch \/ Send

\* The two consumers: the evaluator and the tick resync loop.
TakeBatch ==
  /\ changedQ # << >>
  /\ changedQ' = Tail(changedQ)
  /\ UNCHANGED <<inQ, pipe, fed>>

TakeTick ==
  /\ tickQ # << >>
  /\ tickQ' = Tail(tickQ)
  /\ UNCHANGED <<inQ, openBlock, haveOpen, dirty, head, tip, pc, job, pending,
                 changedQ, fed, due>>

Next ==
  \/ \E n \in Blocks : FeedHead(n)
  \/ \E b \in Blocks, p \in Pools : FeedLog(b, p)
  \/ FeedResync
  \/ Task \/ TakeBatch \/ TakeTick

Spec == Init /\ [][Next]_vars

\* The task and the evaluator keep running; the feed owes nothing.
FairSpec == Spec /\ WF_vars(Task) /\ WF_vars(TakeBatch)

-----------------------------------------------------------------------------
(* Properties.                                                             *)

\* "Batch per-block dirty pools" (pipeline.rs:1): no pool is announced, and
\* no generation of the state cache published, under a block older than the
\* newest log that made the pool dirty.
BatchCoversItsLogs ==
  pc # "recv" => \A p \in job.pools : due[p] <= job.block

\* The tip is only ever advanced (state.rs:533 "advance the cache generation to
\* a new sealed tip").
TipNeverRegresses == [][tip' >= tip]_vars

Announced(p) == \E k \in 1..Len(changedQ) : p \in changedQ[k].pools

\* The open block will be sealed: it is open, or an event on its way opens one.
WillOpen ==
  \/ haveOpen
  \/ \E k \in 1..Len(inQ) :
       inQ[k].type = "NewHead" \/ (inQ[k].type = "PoolLog" /\ inQ[k].block > openBlock)

ResyncWaiting == \E k \in 1..Len(inQ) : inQ[k] = Resync

\* A changed pool is announced, by a newer event or by the quiet timer, and a
\* Resync announces every pool, also one that nothing touched.  A log that
\* comes after the quiet seal of its block leaves no block open, so it waits
\* for the next event that opens one.
ChangeAnnounced ==
  \A p \in Pools : ((p \in dirty /\ WillOpen) \/ ResyncWaiting) ~> Announced(p)

=============================================================================
