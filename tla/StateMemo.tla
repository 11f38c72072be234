----------------------------- MODULE StateMemo -----------------------------
(***************************************************************************)
(* The block-scoped memo of ChainState (src/src/state.rs) and the three    *)
(* tasks that share it: the pipeline, which opens a generation             *)
(* (advance_to) and fills it; the fee poller, which fills it without       *)
(* opening one; and the evaluator, which reads it slot by slot.            *)
(*                                                                         *)
(* The value of a pool's slots is the number of changes the pool has had.  *)
(* An eth_getStorageAt "at latest" is answered by the node at some moment  *)
(* after it is sent, and the answer is inserted some time later; reads of  *)
(* one prefetch are concurrent and each may fail.                          *)
(***************************************************************************)
EXTENDS Naturals, Sequences, FiniteSets

CONSTANTS
  Pools,
  FeePools,      \* the pools that may have a dynamic fee
  Routes,        \* a route is the set of the pools it trades through
  Unset,         \* a slot the memo has no entry for; read() returns zero
  ChangedCap,    \* capacity of the ChangedBatch channel
  MaxVer,        \* bound: changes of one pool
  MaxPolls       \* bound: fee changes found by the poller

ASSUME MemoAssumption ==
  /\ Routes \subseteq SUBSET Pools
  /\ FeePools \subseteq Pools
  /\ Unset \notin Nat
  /\ ChangedCap \in Nat \ {0}
  /\ MaxVer \in Nat
  /\ MaxPolls \in Nat

Owners == {"pipeline", "poller"}

VARIABLES
  dynamicFee, \* the pools with a dynamic fee; without any the poller exits
  ver,        \* the chain: how often each pool has changed
  dirty,      \* pools whose change no seal has drained yet
  memo,       \* ChainState::memo
  gen,        \* generations opened (advance_to calls)
  genVer,     \* history: the chain when the generation was opened
  pc,         \* each writer: "idle" or "fetch"
  batch,      \* the pools each writer is about to announce
  todo,       \* the reads each writer waits for
  got,        \* the answers each writer has not inserted yet
  failed,     \* history: the reads of the prefetch under way that failed
  changedQ,   \* the ChangedBatch channel (pools only)
  reading,    \* the pools the evaluator has yet to read
  quoted,     \* history: the newest state of each pool the evaluator has read
  dropped,    \* history: pools announced in a batch dropped late, since sealed
  polls       \* fee changes found (bound only)

vars == <<dynamicFee, ver, dirty, memo, gen, genVer, pc, batch, todo, got, failed,
          changedQ, reading, quoted, dropped, polls>>

Value == Nat \cup {Unset}
Nothing == [p \in Pools |-> Unset]

TypeOK ==
  /\ dynamicFee \subseteq FeePools
  /\ ver \in [Pools -> Nat]
  /\ dirty \subseteq Pools
  /\ memo \in [Pools -> Value]
  /\ gen \in Nat
  /\ genVer \in [Pools -> Nat]
  /\ pc \in [Owners -> {"idle", "fetch"}]
  /\ batch \in [Owners -> SUBSET Pools]
  /\ todo \in [Owners -> SUBSET Pools]
  /\ got \in [Owners -> [Pools -> Value]]
  /\ failed \in [Owners -> SUBSET Pools]
  /\ changedQ \in Seq(SUBSET Pools)
  /\ reading \subseteq Pools
  /\ quoted \in [Pools -> Nat]
  /\ dropped \subseteq Pools
  /\ polls \in Nat

\* Bootstrap has prefetched every pool (prefetch_all).
Init ==
  /\ dynamicFee \in SUBSET FeePools
  /\ ver = [p \in Pools |-> 0]
  /\ dirty = {}
  /\ memo = [p \in Pools |-> 0]
  /\ gen = 0
  /\ genVer = ver
  /\ pc = [o \in Owners |-> "idle"]
  /\ batch = [o \in Owners |-> {}]
  /\ todo = [o \in Owners |-> {}]
  /\ got = [o \in Owners |-> Nothing]
  /\ failed = [o \in Owners |-> {}]
  /\ changedQ = << >>
  /\ reading = {}
  /\ quoted = [p \in Pools |-> 0]
  /\ dropped = {}
  /\ polls = 0

\* A swap or a liquidity event; its log will reach the pipeline.
Change(p) ==
  /\ ver[p] < MaxVer
  /\ ver' = [ver EXCEPT ![p] = @ + 1]
  /\ dirty' = dirty \cup {p}
  /\ UNCHANGED <<dynamicFee, memo, gen, genVer, pc, batch, todo, got, failed, changedQ,
                 reading, quoted, dropped, polls>>

-----------------------------------------------------------------------------
(* Prefetching.                                                            *)

\* Every pool of every route through a pool of S: what quoting them reads.
Neighborhood(S) == S \cup UNION {r \in Routes : r \cap S # {}}

StartPrefetch(o, S) ==
  /\ pc' = [pc EXCEPT ![o] = "fetch"]
  /\ batch' = [batch EXCEPT ![o] = S]
  /\ todo' = [todo EXCEPT ![o] = Neighborhood(S)]
  /\ failed' = [failed EXCEPT ![o] = {}]

\* mutant: the tip is published but the previous generation is kept
ClearedMemo_Kept == memo

ClearedMemo == Nothing

\* seal: drain the dirty pools whose logs have arrived, advance_to, and send
\* the reads of their neighborhood.
Seal(S) ==
  /\ pc["pipeline"] = "idle"
  /\ S # {}
  /\ S \subseteq dirty
  /\ dirty' = dirty \ S
  /\ dropped' = dropped \ S
  /\ memo' = ClearedMemo
  /\ gen' = gen + 1
  /\ genVer' = ver
  /\ StartPrefetch("pipeline", S)
  /\ UNCHANGED <<dynamicFee, ver, got, changedQ, reading, quoted, polls>>

\* A poll found new fees: prefetch_neighborhood, which clears nothing.
Poll(S) ==
  /\ S # {}
  /\ S \subseteq dynamicFee
  /\ polls < MaxPolls
  /\ polls' = polls + 1
  /\ pc["poller"] = "idle"
  /\ StartPrefetch("poller", S)
  /\ UNCHANGED <<dynamicFee, ver, dirty, memo, gen, genVer, got, changedQ,
                 reading, quoted, dropped>>

\* The node answers a read with the latest state.
Answer(o, p) ==
  /\ p \in todo[o]
  /\ todo' = [todo EXCEPT ![o] = @ \ {p}]
  /\ got' = [got EXCEPT ![o][p] = ver[p]]
  /\ UNCHANGED <<dynamicFee, ver, dirty, memo, gen, genVer, pc, batch, failed, changedQ,
                 reading, quoted, dropped, polls>>

\* A read fails: the slot stays as it is.
Fail(o, p) ==
  /\ p \in todo[o]
  /\ todo' = [todo EXCEPT ![o] = @ \ {p}]
  /\ failed' = [failed EXCEPT ![o] = @ \cup {p}]
  /\ UNCHANGED <<dynamicFee, ver, dirty, memo, gen, genVer, pc, batch, got, changedQ,
                 reading, quoted, dropped, polls>>

Insert(o, p) ==
  /\ got[o][p] # Unset
  /\ memo' = [memo EXCEPT ![p] = got[o][p]]
  /\ got' = [got EXCEPT ![o][p] = Unset]
  /\ UNCHANGED <<dynamicFee, ver, dirty, gen, genVer, pc, batch, todo, failed, changedQ,
                 reading, quoted, dropped, polls>>

Prefetched(o) == pc[o] = "fetch" /\ todo[o] = {} /\ got[o] = Nothing

\* mutant: the batch is announced while its reads are still under way
MayAnnounce_Early(o) == pc[o] = "fetch" /\ Cardinality(todo[o]) <= 1

MayAnnounce(o) == Prefetched(o)

Announce(o) ==
  /\ MayAnnounce(o)
  /\ Len(changedQ) < ChangedCap
  /\ changedQ' = Append(changedQ, batch[o])
  /\ pc' = [pc EXCEPT ![o] = "idle"]
  /\ batch' = [batch EXCEPT ![o] = {}]
  /\ UNCHANGED <<dynamicFee, ver, dirty, memo, gen, genVer, todo, got, failed, reading,
                 quoted, dropped, polls>>

-----------------------------------------------------------------------------
(* The evaluator.                                                          *)

\* mutant: batches that queued up are dropped but for the first
Coalesced_FirstOnly == changedQ[1]

\* Every batch that has queued up is taken at once.
Coalesced == UNION {changedQ[k] : k \in 1..Len(changedQ)}

\* Coalesce the queue; the routes through its pools will be quoted.
Evaluate ==
  /\ reading = {}
  /\ changedQ # << >>
  /\ changedQ' = << >>
  /\ reading' = Neighborhood(Coalesced)
  /\ UNCHANGED <<dynamicFee, ver, dirty, memo, gen, genVer, pc, batch, todo, got, failed,
                 quoted, dropped, polls>>

\* The coalesced batch carries its oldest timestamp and is too old: dropped.
DropLate ==
  /\ reading = {}
  /\ changedQ # << >>
  /\ changedQ' = << >>
  /\ dropped' = dropped \cup Coalesced
  /\ UNCHANGED <<dynamicFee, ver, dirty, memo, gen, genVer, pc, batch, todo, got, failed,
                 reading, quoted, polls>>

\* One read of a quote, while the writers go on.
Read(p) ==
  /\ p \in reading
  /\ reading' = reading \ {p}
  /\ quoted' = [quoted EXCEPT ![p] =
                  IF memo[p] # Unset /\ memo[p] > @ THEN memo[p] ELSE @]
  /\ UNCHANGED <<dynamicFee, ver, dirty, memo, gen, genVer, pc, batch, todo, got, failed,
                 changedQ, dropped, polls>>

Next ==
  \/ \E p \in Pools : Change(p) \/ Read(p)
  \/ \E S \in SUBSET Pools : Seal(S) \/ Poll(S)
  \/ \E o \in Owners : Announce(o)
  \/ \E o \in Owners, p \in Pools : Answer(o, p) \/ Fail(o, p) \/ Insert(o, p)
  \/ Evaluate \/ DropLate

Spec == Init /\ [][Next]_vars

\* A prefetch goes on: its reads end, in an answer or a failure, the answers are
\* inserted and the batch is announced.
Work(o) ==
  \/ \E p \in Pools : Answer(o, p) \/ Fail(o, p) \/ Insert(o, p)
  \/ Announce(o)

\* Every task goes on; nothing is assumed of the order of its reads.
FairSpec ==
  /\ Spec
  /\ WF_vars(\E S \in SUBSET Pools : Seal(S))
  /\ \A o \in Owners : WF_vars(Work(o))
  /\ WF_vars(Evaluate \/ \E p \in Pools : Read(p))

-----------------------------------------------------------------------------
(* Properties.                                                             *)

\* "Consumers never quote against stale memo entries from the prior block"
\* (state.rs:533-536): where there is no poller, what the memo holds was read
\* after the generation was opened.
MemoOfThisGeneration ==
  dynamicFee = {} => \A p \in Pools : memo[p] # Unset => memo[p] >= genVer[p]

\* The same whether or not the poller runs.
MemoNeverStale == \A p \in Pools : memo[p] # Unset => memo[p] >= genVer[p]

\* When the pipeline announces a batch, everything that quoting it reads is in
\* the memo, but for the reads that failed (pipeline.rs:10-18).
SealPrefetchesRoutes ==
  [][\A p \in Pools :
       pc["pipeline"] = "fetch" /\ pc'["pipeline"] = "idle"
         /\ p \in Neighborhood(batch["pipeline"]) \ failed["pipeline"]
       => memo[p] # Unset]_vars

\* The same of the poller: it prefetches before announcing "so the evaluator's
\* re-quote of these pools' routes doesn't read zero" (fees.rs:171-173).
PollPrefetchesRoutes ==
  [][\A p \in Pools :
       pc["poller"] = "fetch" /\ pc'["poller"] = "idle"
         /\ p \in Neighborhood(batch["poller"]) \ failed["poller"]
       => memo[p] # Unset]_vars

\* "A missed batch (or a pool it forgot to list) only delays a re-evaluation"
\* (engine.rs:16-18) is more than the code keeps to.  What it does promise where
\* there is no poller: a change is quoted as
\* it was when its generation was opened or later, unless a read failed, the
\* batch came too late, or the next generation was opened before the evaluator
\* came to it.
SealQuotedUnlessOvertaken ==
  \A p \in Pools, g \in 1..(MaxVer * Cardinality(Pools)) :
    (dynamicFee = {} /\ gen = g /\ p \in batch["pipeline"])
      ~> \/ gen > g
         \/ quoted[p] >= genVer[p]
         \/ p \in failed["pipeline"] \cup dropped

\* Every change makes the evaluator read its pool again, unless the batch that
\* announced it was dropped late.
ChangeIsRead == \A p \in Pools : (p \in dirty) ~> (p \in reading \cup dropped)

=============================================================================
