----------------------------- MODULE RpcBackend -----------------------------
(***************************************************************************)
(* The WebSocket ingest backend (src/src/ingest/rpc_backend.rs): one task  *)
(* that connects, subscribes to newHeads and to logs, replays what it may  *)
(* have missed while disconnected, and then hands one event at a time to   *)
(* the ingest channel.                                                     *)
(*                                                                         *)
(* A block is the sequence of the addresses that emitted a watched topic   *)
(* in it; a log is named by its position <<block, index>>.  Blocks and log *)
(* indices start at 1 (0 in the code for indices), so <<0, 0>> can stand   *)
(* for the cursor None of the code: it is below every position.            *)
(***************************************************************************)
EXTENDS Naturals, Sequences, FiniteSets

CONSTANTS
  Emitters,      \* who may emit a log whose topic0 the subscription watches
  Pools,         \* the emitters the engine knows (Engine::by_address)
  V4Pools,       \* the pools whose logs the V4 PoolManager singleton emits
  MaxIdx,        \* u64::MAX as a log index: "the whole block is complete"
  MaxBackfill,   \* MAX_BACKFILL_BLOCKS
  Chunk,         \* BACKFILL_CHUNK
  StartBlock,    \* the chain's height when the program starts
  MaxBlock,      \* bound: the chain's height
  MaxLogs,       \* bound: logs on the chain
  MaxDrops       \* bound: connections lost

ASSUME BackendAssumption ==
  /\ V4Pools \subseteq Pools
  /\ Pools \subseteq Emitters
  /\ MaxIdx \in Nat \ {0}
  /\ MaxBackfill \in Nat
  /\ Chunk \in Nat \ {0}
  /\ MaxBlock \in Nat
  /\ MaxLogs \in Nat
  /\ StartBlock \in 0..MaxBlock
  /\ MaxDrops \in Nat

VARIABLES
  chain,         \* the node's chain: a sequence of blocks
  phase,         \* where run_once is
  headQ,         \* block_stream: header numbers not yet taken by select!
  logQ,          \* log_stream: positions not yet taken by select!
  pushed,        \* the last block the node published on this connection
  cursor,        \* position of the last log handed over, see Cursor
  replay,        \* backfill's from_chunk and head
  drops,         \* connections lost so far (bound only)
  out,           \* the events the last step sent into the ingest channel
  delivered,     \* history: positions handed over as PoolLog
  resynced,      \* history: the chain's height at the last Resync
  overtaken,     \* history: logs a header of a later block was taken before
  unreplayed     \* history: logs of a replayed range the node did not return

passed == <<overtaken, unreplayed>>
vars == <<chain, phase, headQ, logQ, pushed, cursor, replay, drops, out,
          delivered, resynced, passed>>

Phases == {"down", "heads", "subs", "replay", "live"}

NoCursor == <<0, 0>>
Lt(p, q) == p[1] < q[1] \/ (p[1] = q[1] /\ p[2] < q[2])
Leq(p, q) == p[1] < q[1] \/ (p[1] = q[1] /\ p[2] <= q[2])

Height == Len(chain)
Block == UNION {[1..n -> Emitters] : n \in 0..(MaxIdx - 1)}
OnChain(p) == p[1] \in 1..Height /\ p[2] \in 1..Len(chain[p[1]])
Emitter(p) == chain[p[1]][p[2]]

\* FilterSet::resolve: is this the log of one of our pools?
Resolves(p) == Emitter(p) \in Pools
Watched(p) == OnChain(p) /\ Resolves(p)

\* The logs an eth_getLogs by address returns.  The filter of backfill lists
\* the keys of by_address; a V4 pool is there under its synthetic address,
\* while its logs carry the address of the PoolManager.
ReturnedByGetLogs(p) == OnChain(p) /\ Emitter(p) \in Pools \ V4Pools

HeadEvent(n) == [type |-> "NewHead", number |-> n]
LogEvent(p) == [type |-> "PoolLog", pos |-> p]
ResyncEvent == [type |-> "Resync"]

TypeOK ==
  /\ chain \in Seq(Block)
  /\ phase \in Phases
  /\ headQ \in Seq(Nat \ {0})
  /\ logQ \in Seq(Nat \X Nat)
  /\ pushed \in Nat
  /\ cursor \in Nat \X Nat
  /\ replay \in [from : Nat, head : Nat]
  /\ drops \in Nat
  /\ delivered \subseteq Nat \X Nat
  /\ resynced \in Nat
  /\ overtaken \subseteq Nat \X Nat
  /\ unreplayed \subseteq Nat \X Nat

\* The logs of the blocks before the start are part of what bootstrap read.
Init ==
  /\ chain = [b \in 1..StartBlock |-> << >>]
  /\ phase = "down"
  /\ headQ = << >>
  /\ logQ = << >>
  /\ pushed = 0
  /\ cursor = NoCursor
  /\ replay = [from |-> 0, head |-> 0]
  /\ drops = 0
  /\ out = << >>
  /\ delivered = {}
  /\ resynced = 0
  /\ overtaken = {}
  /\ unreplayed = {}

Told(p) == p \in delivered \/ p[1] <= resynced

\* Those of S the cursor has yet to pass and that no event has told of.
Untold(S) == {p \in S : Watched(p) /\ Lt(cursor, p) /\ ~Told(p)}

-----------------------------------------------------------------------------
(* The node (external).                                                    *)

LogsMined == {p \in (1..Height) \X (1..MaxIdx) : OnChain(p)}
RoomFor(block) ==
  Height < MaxBlock /\ Cardinality(LogsMined) + Len(block) <= MaxLogs

LogsOf(block) == [i \in 1..Len(block) |-> <<Height + 1, i>>]

\* A block is mined and every subscription the client holds gets it.
MinePublished(block) ==
  /\ RoomFor(block)
  /\ chain' = Append(chain, block)
  /\ IF phase # "down" /\ pushed = Height
       THEN /\ pushed' = Height + 1
            /\ headQ' = Append(headQ, Height + 1)
            /\ logQ' = IF phase = "heads" THEN logQ ELSE logQ \o LogsOf(block)
       ELSE UNCHANGED <<pushed, headQ, logQ>>
  /\ out' = << >>
  /\ UNCHANGED <<phase, cursor, replay, drops, delivered, resynced, passed>>

\* A block is mined and the connection has silently died: from here on it
\* publishes nothing (pushed stays below the height).
MineUnseen(block) ==
  /\ RoomFor(block)
  /\ drops < MaxDrops
  /\ phase = "live"
  /\ chain' = Append(chain, block)
  /\ out' = << >>
  /\ UNCHANGED <<phase, headQ, logQ, pushed, cursor, replay, drops,
                 delivered, resynced, passed>>

HalfOpen == phase = "live" /\ pushed < Height

-----------------------------------------------------------------------------
(* Connecting: run_once up to its loop.                                    *)

\* connect_ws and subscribe_blocks.
Connect ==
  /\ phase = "down"
  /\ phase' = "heads"
  /\ pushed' = Height
  /\ out' = << >>
  /\ UNCHANGED <<chain, headQ, logQ, cursor, replay, drops, delivered, resynced,
                 passed>>

SubscribeLogs ==
  /\ phase = "heads"
  /\ phase' = "subs"
  /\ out' = << >>
  /\ UNCHANGED <<chain, headQ, logQ, pushed, cursor, replay, drops,
                 delivered, resynced, passed>>

SendResync ==
  /\ out' = <<ResyncEvent>>
  /\ resynced' = Height
  /\ delivered' = delivered

\* No cursor yet: one Resync closes the gap since bootstrap.
FirstConnect ==
  /\ phase = "subs"
  /\ cursor = NoCursor
  /\ SendResync
  /\ phase' = "live"
  /\ UNCHANGED <<chain, headQ, logQ, pushed, cursor, replay, drops, passed>>

\* mutant: a block whose logs were only partly seen is taken for complete
ReplayFrom_SkipsPartialBlock == cursor[1] + 1

ReplayFrom == IF cursor[2] = MaxIdx THEN cursor[1] + 1 ELSE cursor[1]

\* get_block_number and the first half of backfill: nothing to replay, too
\* much to replay (Resync), or a replay of ReplayFrom..Height.
StartBackfill ==
  /\ phase = "subs"
  /\ cursor # NoCursor
  /\ \/ /\ ReplayFrom > Height
        /\ phase' = "live"
        /\ out' = << >>
        /\ UNCHANGED <<cursor, replay, delivered, resynced>>
     \/ /\ ReplayFrom <= Height
        /\ Height - ReplayFrom > MaxBackfill
        /\ SendResync
        /\ phase' = "live"
        /\ cursor' = <<Height, MaxIdx>>
        /\ UNCHANGED replay
     \/ /\ ReplayFrom <= Height
        /\ Height - ReplayFrom <= MaxBackfill
        /\ phase' = "replay"
        /\ replay' = [from |-> ReplayFrom, head |-> Height]
        /\ out' = << >>
        /\ UNCHANGED <<cursor, delivered, resynced>>
  /\ UNCHANGED <<chain, headQ, logQ, pushed, drops, passed>>

ChunkEnd == IF replay.from + Chunk - 1 < replay.head
              THEN replay.from + Chunk - 1
              ELSE replay.head

\* mutant: the last block of every chunk is left out of its request
ReplayedLogs_ChunkOffByOne ==
  {p \in (replay.from..(ChunkEnd - 1)) \X (1..MaxIdx) :
     ReturnedByGetLogs(p) /\ Resolves(p) /\ ~Leq(p, cursor)}

ReplayedLogs ==
  {p \in (replay.from..ChunkEnd) \X (1..MaxIdx) :
     ReturnedByGetLogs(p) /\ Resolves(p) /\ ~Leq(p, cursor)}

\* A finite set of positions, in the order of the chain.
RankIn(S, p) == Cardinality({q \in S : Leq(q, p)})
InOrder(S) == [n \in 1..Cardinality(S) |-> CHOOSE p \in S : RankIn(S, p) = n]

\* The logs the cursor passes at the end of a replay that returned none of them.
Unreplayed ==
  Untold({p \in (ReplayFrom..replay.head) \X (1..MaxIdx) :
            OnChain(p) /\ ~ReturnedByGetLogs(p)})

\* One eth_getLogs of the replay and the sends of what it returned.  The
\* cursor moves only when the whole range has been replayed.
BackfillChunk ==
  /\ phase = "replay"
  /\ delivered' = delivered \cup ReplayedLogs
  /\ out' = [n \in 1..Cardinality(ReplayedLogs) |->
               LogEvent(InOrder(ReplayedLogs)[n])]
  /\ IF ChunkEnd = replay.head
       THEN /\ cursor' = <<replay.head, MaxIdx>>
            /\ phase' = "live"
            /\ unreplayed' = unreplayed \cup Unreplayed
            /\ UNCHANGED replay
       ELSE /\ replay' = [replay EXCEPT !.from = ChunkEnd + 1]
            /\ UNCHANGED <<cursor, phase, unreplayed>>
  /\ UNCHANGED <<chain, headQ, logQ, pushed, drops, resynced, overtaken>>

-----------------------------------------------------------------------------
(* Live: the branches of select!.                                          *)

\* mutant: the header's own block is taken for complete
CompletedBy_OwnBlock(n) == <<n, MaxIdx>>

\* What a header proves: every block below it is complete.
CompletedBy(n) == <<n - 1, MaxIdx>>

\* The logs of older blocks that still wait when header n is taken: select!
\* picks any stream that is ready.
Overtaken(n) == Untold({logQ[k] : k \in {i \in 1..Len(logQ) : logQ[i][1] < n}})

TakeHeader ==
  /\ phase = "live"
  /\ headQ # << >>
  /\ LET n == Head(headQ)
     IN  /\ cursor' = IF Lt(cursor, CompletedBy(n)) THEN CompletedBy(n) ELSE cursor
         /\ out' = <<HeadEvent(n)>>
         /\ overtaken' = overtaken \cup Overtaken(n)
  /\ headQ' = Tail(headQ)
  /\ UNCHANGED <<chain, phase, logQ, pushed, replay, drops, delivered, resynced,
                 unreplayed>>

\* mutant: no dedup against the cursor
AlreadyHanded_Never(p) == FALSE

AlreadyHanded(p) == Leq(p, cursor)

TakeLog ==
  /\ phase = "live"
  /\ logQ # << >>
  /\ LET p == Head(logQ)
     IN  IF ~Resolves(p) \/ AlreadyHanded(p)
           THEN /\ out' = << >>
                /\ UNCHANGED <<cursor, delivered>>
           ELSE /\ out' = <<LogEvent(p)>>
                /\ cursor' = p
                /\ delivered' = delivered \cup {p}
  /\ logQ' = Tail(logQ)
  /\ UNCHANGED <<chain, phase, headQ, pushed, replay, drops, resynced, passed>>

CursorKept == cursor

HangUp ==
  /\ phase' = "down"
  /\ headQ' = << >>
  /\ logQ' = << >>
  /\ cursor' = CursorKept
  /\ out' = << >>
  /\ UNCHANGED <<chain, pushed, replay, delivered, resynced, passed>>

\* A stream ends, or any await of run_once fails.
Disconnect ==
  /\ phase # "down"
  /\ drops < MaxDrops
  /\ drops' = drops + 1
  /\ HangUp

\* No header for HEAD_WATCHDOG on a connection that publishes nothing.
Watchdog ==
  /\ HalfOpen
  /\ headQ = << >>
  /\ HangUp
  /\ UNCHANGED drops

Client ==
  \/ Connect \/ SubscribeLogs \/ FirstConnect \/ StartBackfill \/ BackfillChunk
  \/ TakeHeader \/ TakeLog \/ Watchdog

Next ==
  \/ \E block \in Block : MinePublished(block) \/ MineUnseen(block)
  \/ Disconnect
  \/ Client

Spec == Init /\ [][Next]_vars

\* The task always takes a next step; which branch select! picks is left open,
\* since the bounded chain fills no queue for ever.  The node owes nothing and
\* disconnects are its own.
Fairness == WF_vars(Client)

FairSpec == Spec /\ Fairness

-----------------------------------------------------------------------------
(* Properties.                                                             *)

PassedBy(p) == p \in overtaken \cup unreplayed
Accounted(p) == Told(p) \/ PassedBy(p)

\* Every log of one of our pools at or below the cursor has been handed to
\* the pipeline, is covered by a later full refresh, or met one of the two
\* fates the code has for it: a header was taken before it, or its replay
\* asked for other addresses.  The cursor is what the next connection replays
\* from, so a log it passes in any further way is lost for good (rpc_backend.rs
\* 9-12 "so a dropped connection loses no events").
NoEventLost ==
  \A b \in 1..Height : \A i \in 1..Len(chain[b]) :
    Watched(<<b, i>>) /\ Leq(<<b, i>>, cursor) =>
      Accounted(<<b, i>>)

\* While the stream is live nothing falls between the replay and the
\* subscription: a published log was told, is waiting in log_stream, or was
\* passed by in one of the two ways.
NoGapBeforeStream ==
  phase = "live" =>
    \A b \in 1..Height : \A i \in 1..Len(chain[b]) :
      Watched(<<b, i>>) /\ b <= pushed =>
        \/ Accounted(<<b, i>>)
        \/ \E k \in 1..Len(logQ) : logQ[k] = <<b, i>>

\* The promise of rpc_backend.rs:9-12 as it stands: no log below the cursor is
\* untold, whichever stream select! takes first.
EveryEventTold ==
  \A b \in 1..Height : \A i \in 1..Len(chain[b]) :
    Watched(<<b, i>>) /\ Leq(<<b, i>>, cursor) => Told(<<b, i>>)

\* The same of the replay alone (rpc_backend.rs:10 "it replays the missed
\* range"): no log of the range is left out.
ReplayTellsAll == unreplayed = {}

\* The live stream hands over no log twice, whatever was replayed before it
\* (the cursor check of rpc_backend.rs:124).
LiveLogIsNew ==
  [][phase = "live" =>
       \A k \in 1..Len(out') :
         out'[k].type = "PoolLog" => out'[k].pos \notin delivered]_vars

-----------------------------------------------------------------------------
(* The backend implements the abstract feed.                               *)

Positions == ((StartBlock + 1)..MaxBlock) \X (1..(MaxIdx - 1))
Happened == {p \in Positions : Watched(p)}
ToldOf == {p \in Happened : Told(p)}

Lost == {p \in Happened : PassedBy(p)}

Feed == INSTANCE EventFeed WITH happened <- Happened, told <- ToldOf, lost <- Lost

\* Nothing is told before it happened or untold again, what is passed by was
\* untold, and every log is eventually told or passed by in one of the two
\* ways: through any number of lost or half-open connections, as long as they
\* stop happening.
ImplementsFeed == Feed!FairSpec

=============================================================================
