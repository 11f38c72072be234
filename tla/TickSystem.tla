----------------------------- MODULE TickSystem -----------------------------
(***************************************************************************)
(* The way of a tick window from the log to the cache: the pipeline        *)
(* (run_pipeline), which patches the ticks of a liquidity event and then   *)
(* queues the pool, the tick resync loop (TickResync), and the tick cache  *)
(* of one of the pools (TickCache), which both write.                      *)
(***************************************************************************)
EXTENDS TickCache

CONSTANTS
  pool,     \* the pool whose cache is modelled
  Others,   \* other pools with a tick window
  Cap,      \* capacity of the tick resync queue
  Window    \* batch_window, in steps of the clock

VARIABLES queue, closed, pending, age, hydrating, loop, owed

resync == <<queue, closed, pending, age, hydrating, loop, owed>>

R == INSTANCE TickResync WITH Pools <- {pool} \cup Others, pc <- loop

ASSUME TickSystemAssumption == pool \notin Others /\ R!TickResyncAssumption

SystemTypeOK == TypeOK /\ R!TypeOK

SystemInit == Init /\ R!Init

\* The chain and the memo.
Surroundings ==
  /\ \/ \E lo, hi \in Words, n \in 0..MaxLiq :
          ChangeLiquidity(lo, hi, n) \/ MissLiquidity(lo, hi, n)
     \/ \E w \in Words : Swap(w)
     \/ ~closed /\ ClearMemo
     \/ FillMemo
  /\ UNCHANGED resync

BeginLog ==
  /\ ~closed
  /\ StartPatch
  /\ UNCHANGED resync

\* The log is handled, and its pool queued for a re-centring.
EndLog ==
  /\ PassSwap \/ Finish("patch")
  /\ R!Trigger(pool)

\* A log of another pool.  The pipeline awaits a patch before it goes on.
OtherLog(p) ==
  /\ Bounded
  /\ pc["patch"] = "idle"
  /\ R!Trigger(p)
  /\ UNCHANGED <<liq, price, slot0, bitmap, net, logs, pc, touched, todo, got, centre, history>>

\* The pipeline has handled every event and returns.
Close ==
  /\ pc["patch"] = "idle"
  /\ logs = << >>
  /\ R!Close
  /\ UNCHANGED vars

LoopStep ==
  /\ \/ R!Receive \/ R!Wait \/ R!Flush \/ R!Return
     \/ \E p \in Others : R!Hydrate(p)
  /\ UNCHANGED vars

BeginWindow ==
  /\ pool \in hydrating
  /\ StartWindow
  /\ UNCHANGED resync

EndWindow == Finish("window") /\ R!Hydrate(pool)

\* The reads of both writers.
Reads ==
  /\ \E a \in Writers :
       SecondPass(a) \/ \E w \in Words : Answer(a, w) \/ Fail(a, w) \/ Insert(a, w)
  /\ UNCHANGED resync

SystemNext ==
  \/ Surroundings
  \/ BeginLog \/ EndLog \/ Close
  \/ \E p \in Others : OtherLog(p)
  \/ LoopStep \/ BeginWindow \/ EndWindow
  \/ Reads

SystemSpec == SystemInit /\ [][SystemNext]_<<vars, resync>>

-----------------------------------------------------------------------------
(* Properties of the composition.                                          *)

\* When the loop has ended, no window is half read and none is still to be.
EndedLoopOwesNothing == loop = "done" => owed = {} /\ pc["window"] = "idle"

\* An accepted trigger is on its way until its pool's window is read, also when
\* the queue is closed in between (state.rs:286-323).
QueuedIsOnItsWay == R!AcceptedIsOnItsWay /\ EndedLoopOwesNothing

=============================================================================
