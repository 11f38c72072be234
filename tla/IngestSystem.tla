---------------------------- MODULE IngestSystem ----------------------------
(***************************************************************************)
(* The backend and the pipeline joined by the ingest channel, as           *)
(* App::run spawns them (src/src/app.rs): every event the backend sends is *)
(* appended to the channel the pipeline takes from.                        *)
(*                                                                         *)
(* stale and read are history variables: the pools with a change on the    *)
(* chain that no batch has announced, and those of them whose state the    *)
(* job under way has read since their last change.                         *)
(*                                                                         *)
(* Headers and logs come on two subscriptions and select! takes from       *)
(* either, so the backend may tell a log before the header of an older     *)
(* block.  ordered says that it has not yet done so; what holds only until *)
(* then is stated under it.                                                *)
(***************************************************************************)
EXTENDS RpcBackend

CONSTANT ChangedCap

VARIABLES
  inQ, openBlock, haveOpen, dirty, head, tip, pc, job, pending, changedQ, due,
  stale, read,
  ordered        \* history: no header was told after a log of a later block

\* The pipeline is fed by the backend alone, and its tick queue and the
\* consumers of its channels are out of this composition.
P == INSTANCE Pipeline WITH
       ClPools <- {}, TickCap <- 0, InBlockOrder <- FALSE, MaxEvents <- 0,
       tickQ <- << >>, fed <- [head |-> 0, log |-> 0, events |-> 0]

ASSUME IngestAssumption == P!PipelineAssumption

pipeline == <<openBlock, haveOpen, dirty, head, tip, pc, job, pending, changedQ, due>>
systemVars == <<vars, inQ, pipeline, stale, read, ordered>>

SystemInit ==
  /\ Init
  /\ P!Init
  /\ stale = {}
  /\ read = {}
  /\ ordered = TRUE

\* What the channel carries of an event the backend sent.
AsIngestEvent(e) ==
  CASE e.type = "NewHead" -> P!NewHead(e.number)
    [] e.type = "PoolLog" -> P!PoolLog(e.pos[1], Emitter(e.pos))
    [] e.type = "Resync" -> P!Resync

\* The pools whose state the block mined by this step changed.
ChangedNow ==
  IF chain' = chain THEN {}
  ELSE {chain'[Len(chain')][i] : i \in 1..Len(chain'[Len(chain')])} \cap Pools

\* Does this step tell a header of a block older than the cursor's?
TellsLate ==
  \E k \in 1..Len(out') : out'[k].type = "NewHead" /\ out'[k].number < cursor[1]

BackendStep ==
  /\ Next
  /\ inQ' = inQ \o [k \in 1..Len(out') |-> AsIngestEvent(out'[k])]
  /\ stale' = stale \cup ChangedNow
  /\ read' = read \ ChangedNow
  /\ ordered' = (ordered /\ ~TellsLate)
  /\ UNCHANGED pipeline

PipelineStep ==
  /\ P!Task
  /\ stale' = IF pc = "send" /\ pc' = "recv" THEN stale \ read ELSE stale
  /\ read' = IF pc = "prefetch" /\ pc' = "send" THEN job.pools
             ELSE IF pc = "send" THEN {} ELSE read
  /\ UNCHANGED <<vars, ordered>>

\* The evaluator takes a batch.
TakeBatch ==
  /\ changedQ # << >>
  /\ changedQ' = Tail(changedQ)
  /\ UNCHANGED <<vars, inQ, openBlock, haveOpen, dirty, head, tip, pc, job,
                 pending, due, stale, read, ordered>>

SystemNext == BackendStep \/ PipelineStep \/ TakeBatch

\* The two tasks and the evaluator keep running, and blocks keep coming.
SystemFairness ==
  /\ WF_systemVars(BackendStep /\ chain' # chain)
  /\ WF_systemVars(BackendStep /\ Client)
  /\ WF_systemVars(PipelineStep) /\ WF_systemVars(TakeBatch)

SystemSpec == SystemInit /\ [][SystemNext]_systemVars
FairSystem == SystemSpec /\ SystemFairness

-----------------------------------------------------------------------------
(* Properties of the composition.                                          *)

\* Where the notice of a stale pool can still be: ahead of the cursor, ...
LogPending(p) ==
  \E b \in 1..Len(chain) : \E i \in 1..Len(chain[b]) :
    chain[b][i] = p /\ ~Told(<<b, i>>) /\ Lt(cursor, <<b, i>>)
\* ... given up by the backend in one of the two ways it may, ...
LogPassedBy(p) ==
  \E b \in 1..Len(chain) : \E i \in 1..Len(chain[b]) :
    chain[b][i] = p /\ ~Told(<<b, i>>) /\ PassedBy(<<b, i>>)
\* ... or on this side of it.
InChannel(p) ==
  \E k \in 1..Len(inQ) : inQ[k] = P!Resync \/ (inQ[k].type = "PoolLog" /\ inQ[k].pool = p)
InPipeline(p) ==
  p \in dirty \cup job.pools \/ (pending.type = "PoolLog" /\ pending.pool = p)

\* A change that no batch has announced with a read taken after it is still
\* known to some part of the system: as a log that the backend has not told,
\* an event in the channel, or a pool of the pipeline's; or the backend passed
\* its log by, and no resync has come since.
NoChangeForgotten ==
  \A p \in stale : LogPending(p) \/ LogPassedBy(p) \/ InChannel(p) \/ InPipeline(p)

\* Pipeline's own invariant, with the backend for its feed: no pool is
\* announced under a block older than the newest log that made it dirty
\* (pipeline.rs:1 "batch per-block dirty pools").
BatchCoversItsLogs == ordered => P!BatchCoversItsLogs

\* Once a block has been opened the tip is only ever advanced (state.rs:533),
\* also when a connection drops between any two events and a backfill or a
\* resync makes up for it.  Before that it goes back: it starts at the chain's
\* block, and the resync of the first connect seals at block 0.
TipNeverRegresses == [][ordered /\ openBlock > 0 => tip' >= tip]_systemVars

\* The bounded chain has ended, and with it the headers that open a block.
ChainEnded == Len(chain) = MaxBlock /\ inQ = << >> /\ pc = "recv" /\ ~haveOpen

\* Every change on the chain reaches the evaluator as a batch whose state was
\* read after it, unless the backend passed a log of it by.  A log that comes
\* after the quiet seal of its block waits in dirty for the next header, which
\* after the last block of the model never comes.
EveryChangeAnnounced ==
  \A p \in Pools : (p \in stale) ~>
    (p \notin stale \/ LogPassedBy(p) \/ (ChainEnded /\ p \in dirty))

=============================================================================
