----------------------------- MODULE TickResync -----------------------------
(***************************************************************************)
(* The tick resync loop (ChainState::run_tick_resync_loop in               *)
(* src/src/state.rs) and its bounded queue.  The pipeline queues a pool on *)
(* every log of it and drops the trigger when the queue is full            *)
(* (pipeline.rs); the loop collects the queued pools until none has        *)
(* arrived for a whole batch window and then re-hydrates the tick windows  *)
(* of all of them, taking nothing from the queue meanwhile.                *)
(***************************************************************************)
EXTENDS Naturals, Sequences, FiniteSets, SequencesExt

CONSTANTS
  Pools,   \* the pools with a tick window
  Cap,     \* capacity of the queue
  Window   \* batch_window, in steps of the clock

TickResyncAssumption == Cap \in Nat \ {0} /\ Window \in Nat \ {0}

VARIABLES
  queue,      \* the tick resync channel
  closed,     \* the pipeline has returned and dropped its sender
  pending,    \* the pools collected so far
  age,        \* how long the loop has waited since it last took a pool
  hydrating,  \* the pools whose windows are being read
  pc,         \* "recv", "hydrate" or "done"
  owed        \* history: pools with an accepted trigger and no read since

vars == <<queue, closed, pending, age, hydrating, pc, owed>>

TypeOK ==
  /\ queue \in Seq(Pools)
  /\ Len(queue) <= Cap
  /\ closed \in BOOLEAN
  /\ pending \subseteq Pools
  /\ age \in 0..Window
  /\ hydrating \subseteq Pools
  /\ pc \in {"recv", "hydrate", "done"}
  /\ owed \subseteq Pools

Init ==
  /\ queue = << >>
  /\ closed = FALSE
  /\ pending = {}
  /\ age = 0
  /\ hydrating = {}
  /\ pc = "recv"
  /\ owed = {}

-----------------------------------------------------------------------------
(* The pipeline.                                                           *)

\* try_send: a trigger that finds the queue full is dropped.
Trigger(p) ==
  /\ ~closed
  /\ \/ /\ Len(queue) < Cap
        /\ queue' = Append(queue, p)
        /\ owed' = owed \cup {p}
     \/ /\ Len(queue) = Cap
        /\ UNCHANGED <<queue, owed>>
  /\ UNCHANGED <<closed, pending, age, hydrating, pc>>

Close ==
  /\ ~closed
  /\ closed' = TRUE
  /\ UNCHANGED <<queue, pending, age, hydrating, pc, owed>>

-----------------------------------------------------------------------------
(* The loop.                                                               *)

\* mutant: a new arrival takes the place of the collected ones
Collected_Replaced(p) == {p}

Collected(p) == pending \cup {p}

\* The timeout polls the queue first, so a pool that is there is taken even
\* when the window has run out.
Receive ==
  /\ pc = "recv"
  /\ queue # << >>
  /\ queue' = Tail(queue)
  /\ pending' = Collected(Head(queue))
  /\ age' = 0
  /\ UNCHANGED <<closed, hydrating, pc, owed>>

WindowOpen == age < Window

\* Time passes.  The loop waits without a limit while it has collected nothing.
Wait ==
  /\ pc = "recv"
  /\ pending # {}
  /\ ~closed
  /\ WindowOpen
  /\ age' = age + 1
  /\ UNCHANGED <<queue, closed, pending, hydrating, pc, owed>>

\* recv returns None when the queue is closed and empty.
MustFlush == age = Window \/ closed

Flush ==
  /\ pc = "recv"
  /\ queue = << >>
  /\ pending # {}
  /\ MustFlush
  /\ hydrating' = pending
  /\ pending' = {}
  /\ age' = 0
  /\ pc' = "hydrate"
  /\ UNCHANGED <<queue, closed, owed>>

\* The window of one pool is read; up to 16 pools are read at a time.
Hydrate(p) ==
  /\ p \in hydrating
  /\ hydrating' = hydrating \ {p}
  /\ owed' = owed \ ({p} \ ToSet(queue))
  /\ pc' = IF hydrating = {p} THEN "recv" ELSE pc
  /\ UNCHANGED <<queue, closed, pending, age>>

Drained == closed /\ queue = << >> /\ pending = {}

Return ==
  /\ pc = "recv"
  /\ Drained
  /\ pc' = "done"
  /\ UNCHANGED <<queue, closed, pending, age, hydrating, owed>>

Next ==
  \/ \E p \in Pools : Trigger(p) \/ Hydrate(p)
  \/ Close \/ Receive \/ Wait \/ Flush \/ Return

Spec == Init /\ [][Next]_vars

\* The loop is scheduled and its clock runs; nothing is assumed of the logs.
FairSpec ==
  /\ Spec
  /\ WF_vars(Receive)
  /\ WF_vars(Wait)
  /\ WF_vars(Flush)
  /\ \A p \in Pools : WF_vars(Hydrate(p))
  /\ WF_vars(Return)

-----------------------------------------------------------------------------
(* Properties.                                                             *)

\* An accepted trigger stays on its way until its pool is read, whatever
\* triggers, flushes and reads overlap (state.rs:286-323).
AcceptedIsOnItsWay == owed \subseteq ToSet(queue) \cup pending \cup hydrating

\* "For each distinct pool that had a real tick-changing event since the last
\* drain, re-centers + re-hydrates" (state.rs:281-283): a queued pool is in the
\* end read, however the logs arrive.
QueuedIsRead == \A p \in Pools : (p \in owed) ~> (p \in hydrating)

=============================================================================
