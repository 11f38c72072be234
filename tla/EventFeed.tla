------------------------------ MODULE EventFeed ------------------------------
(***************************************************************************)
(* What the ingest backend promises the pipeline, without connections,     *)
(* cursors or replays: whatever happens to a pool is told at least once    *)
(* or counted as lost, never told before it happened, in no promised order.*)
(***************************************************************************)
EXTENDS Naturals

CONSTANT Positions  \* where an event can happen

VARIABLES
  happened,         \* the events of our pools
  told,             \* those the pipeline has been told of
  lost              \* those given up while untold; a full refresh tells them

feedVars == <<happened, told, lost>>

Init ==
  /\ happened = {}
  /\ told = {}
  /\ lost = {}

Happen(S) ==
  /\ happened' = happened \cup S
  /\ UNCHANGED <<told, lost>>

\* By name, or all at once by a full refresh.  Telling and giving up come in
\* one step where a replay ends, but never for the same event.
Tell(S, L) ==
  /\ S \cap L = {}
  /\ told' = told \cup S
  /\ lost' = lost \cup L
  /\ happened' = happened

Next ==
  \/ \E S \in SUBSET (Positions \ happened) : Happen(S)
  \/ \E S, L \in SUBSET (happened \ told) : Tell(S, L)

Spec == Init /\ [][Next]_feedVars

\* No event stays untold without being counted as lost.
FairSpec ==
  Spec /\ \A p \in Positions : (p \in happened) ~> (p \in told \cup lost)

=============================================================================
