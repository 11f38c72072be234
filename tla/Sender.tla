------------------------------- MODULE Sender -------------------------------
(***************************************************************************)
(* The live executor (src/src/executor/sender.rs, nonce.rs, lanes.rs): the *)
(* run loop that takes opportunities, one spawned task per opportunity     *)
(* that signs a transaction, races it over the lanes and then waits for    *)
(* its receipt or resyncs the nonce, and the state they share: the revert  *)
(* blacklist, the set of routes in flight, the nonce counter and the cache *)
(* of the executor's balances, which a loop of its own refreshes too.      *)
(*                                                                         *)
(* Task t is the one of the t-th opportunity the run loop receives.  The   *)
(* loop's blacklist check and its in-flight insert are two steps: the lock *)
(* is released between them and other tasks run on other threads.          *)
(*                                                                         *)
(* The routes have one anchor.  Its balance changes with each transaction  *)
(* the sequencer takes and is told by their number: accepted on the chain, *)
(* known to the node.                                                      *)
(***************************************************************************)
EXTENDS Naturals, Sequences

CONSTANTS
  Routes,
  Lanes,            \* the endpoints a transaction is raced over
  BlacklistBlocks,  \* execution.blacklist_blocks
  MaxBlock,         \* bound: block numbers
  MaxOpps           \* bound: opportunities

ASSUME SenderAssumption ==
  /\ BlacklistBlocks \in Nat
  /\ MaxBlock \in Nat
  /\ MaxOpps \in Nat

VARIABLES
  opps,        \* the opportunities received so far
  loop,        \* the run loop: "recv", or "insert" after the blacklist check
  pc,          \* each task, and the balance loop
  nonce,       \* the nonce each task reserved
  lane,        \* each task's submissions over the lanes, until collected
  seen,        \* the count each task's resync has read (0 when there is none)
  next,        \* NonceManager::next
  blacklist,   \* block until which each route is suppressed (0: no entry)
  inFlight,    \* Sender::in_flight
  accepted,    \* the sequencer: transactions accepted from this account
  known,       \* the node `provider` talks to: those it has seen
  own,         \* Sender::own_balances
  copy,        \* the map each refresh is updating (0 when there is none)
  gaveUp       \* history: the tasks whose resync failed

vars == <<opps, loop, pc, nonce, lane, seen, next, blacklist, inFlight,
          accepted, known, own, copy, gaveUp>>

\* What submit, the nonces and the lanes are about.
run == <<opps, loop>>
tx == <<nonce, lane, seen, next, accepted>>
marks == <<blacklist, inFlight>>
balances == <<own, copy>>

Tasks == 1..MaxOpps
BalanceLoop == 0
Refreshers == Tasks \cup {BalanceLoop}
\* The first batch of a run is sealed at block 0 (Pipeline).
Opp == [route : Routes, block : 0..MaxBlock]

\* spawned: submit has begun.  sent: signed, handed to every lane.
\* resync, store: before and after the read of NonceManager::resync.
\* monitor: waiting for the receipt.  refresh, refreshed: before and after the
\* balanceOf of refresh_own_balances.  release: submit has returned.
Active == {"spawned", "sent", "resync", "store", "monitor", "refresh", "refreshed", "release"}
Control == Active \cup {"idle", "dropped", "done"}

TypeOK ==
  /\ opps \in Seq(Opp) /\ Len(opps) <= MaxOpps
  /\ loop \in {"recv", "insert"}
  /\ loop = "insert" => opps # << >>
  /\ pc \in [Refreshers -> Control]
  /\ pc[BalanceLoop] \in {"idle", "refresh", "refreshed"}
  /\ nonce \in [Tasks -> Nat]
  /\ lane \in [Tasks -> [Lanes -> {"out", "ok", "err"}]]
  /\ seen \in [Tasks -> Nat]
  /\ next \in Nat
  /\ blacklist \in [Routes -> Nat]
  /\ inFlight \subseteq Routes
  /\ accepted \in Nat
  /\ known \in 0..accepted
  /\ own \in 0..known
  /\ copy \in [Refreshers -> 0..known]
  /\ gaveUp \subseteq Tasks

\* NonceManager::new has read the count and build the balance.
Init ==
  /\ opps = << >>
  /\ loop = "recv"
  /\ pc = [t \in Refreshers |-> "idle"]
  /\ nonce = [t \in Tasks |-> 0]
  /\ lane = [t \in Tasks |-> [l \in Lanes |-> "out"]]
  /\ seen = [t \in Tasks |-> 0]
  /\ next = 0
  /\ blacklist = [r \in Routes |-> 0]
  /\ inFlight = {}
  /\ accepted = 0
  /\ known = 0
  /\ own = 0
  /\ copy = [r \in Refreshers |-> 0]
  /\ gaveUp = {}

Step(t, from, to) ==
  /\ pc[t] = from
  /\ pc' = [pc EXCEPT ![t] = to]

-----------------------------------------------------------------------------
(* The run loop.                                                           *)

Suppressed(o) == o.block < blacklist[o.route]

\* The next opportunity and the blacklist check.  A late log, a resync or the
\* fee poller may have announced it under an older block than the one before.
Receive(o) ==
  /\ loop = "recv"
  /\ Len(opps) < MaxOpps
  /\ opps' = Append(opps, o)
  /\ IF Suppressed(o)
       THEN /\ pc' = [pc EXCEPT ![Len(opps) + 1] = "dropped"]
            /\ UNCHANGED loop
       ELSE /\ loop' = "insert"
            /\ UNCHANGED pc
  /\ UNCHANGED <<tx, marks, known, balances, gaveUp>>

\* mutant: the route is marked, but being marked already stops nothing
AlreadyInFlight_Ignored(r) == FALSE

AlreadyInFlight(r) == r \in inFlight

Newest == opps[Len(opps)]

\* The task is spawned with the route already in in_flight.
InsertInFlight ==
  /\ loop = "insert"
  /\ loop' = "recv"
  /\ IF AlreadyInFlight(Newest.route)
       THEN /\ pc' = [pc EXCEPT ![Len(opps)] = "dropped"]
            /\ UNCHANGED inFlight
       ELSE /\ pc' = [pc EXCEPT ![Len(opps)] = "spawned"]
            /\ inFlight' = inFlight \cup {Newest.route}
  /\ UNCHANGED <<opps, tx, blacklist, known, balances, gaveUp>>

-----------------------------------------------------------------------------
(* submit.                                                                 *)

\* The presign staleness gate.
DropStale(t) ==
  /\ Step(t, "spawned", "release")
  /\ UNCHANGED <<run, tx, marks, known, balances, gaveUp>>

\* NonceManager::reserve, sign, hand the bytes to every lane.  Signing does not
\* fail: the key is local, and has no chain id to disagree with.
Send(t) ==
  /\ Step(t, "spawned", "sent")
  /\ nonce' = [nonce EXCEPT ![t] = next]
  /\ next' = next + 1
  /\ UNCHANGED <<run, lane, seen, accepted, marks, known, balances, gaveUp>>

\* The sequencer (external) takes transactions first come, first served, and
\* only with the account's next nonce.  A reply may be lost on the way.
Deliver(t, l, reply) ==
  /\ pc[t] = "sent"
  /\ lane[t][l] = "out"
  /\ lane' = [lane EXCEPT ![t][l] = reply]
  /\ IF nonce[t] = accepted
       THEN accepted' = accepted + 1
       ELSE reply = "err" /\ UNCHANGED accepted
  /\ UNCHANGED <<run, pc, nonce, seen, next, marks, known, balances, gaveUp>>

\* The submission never reaches the sequencer.
LaneDown(t, l) ==
  /\ pc[t] = "sent"
  /\ lane[t][l] = "out"
  /\ lane' = [lane EXCEPT ![t][l] = "err"]
  /\ UNCHANGED <<run, pc, nonce, seen, next, accepted, marks, known, balances, gaveUp>>

\* mutant: the task waits for every lane to accept
AllAnswered_Accepted(t) == \A l \in Lanes : lane[t][l] = "ok"

AllAnswered(t) == \A l \in Lanes : lane[t][l] # "out"

Collect(t) ==
  /\ AllAnswered(t)
  /\ IF \E l \in Lanes : lane[t][l] = "ok"
       THEN Step(t, "sent", "monitor")
       ELSE Step(t, "sent", "resync")
  /\ lane' = [lane EXCEPT ![t] = [l \in Lanes |-> "out"]]
  /\ UNCHANGED <<run, nonce, seen, next, accepted, marks, known, balances, gaveUp>>

ResyncRead(t) ==
  /\ Step(t, "resync", "store")
  /\ seen' = [seen EXCEPT ![t] = known]
  /\ UNCHANGED <<run, nonce, lane, next, accepted, marks, known, balances, gaveUp>>

\* The error of the read is ignored.
ResyncFail(t) ==
  /\ Step(t, "resync", "release")
  /\ gaveUp' = gaveUp \cup {t}
  /\ UNCHANGED <<run, tx, marks, known, balances>>

\* mutant: resync only ever moves the counter forward
Resynced_MaxOnly(t) == IF seen[t] > next THEN seen[t] ELSE next

Resynced(t) == seen[t]

ResyncStore(t) ==
  /\ Step(t, "store", "release")
  /\ next' = Resynced(t)
  /\ seen' = [seen EXCEPT ![t] = 0]
  /\ UNCHANGED <<run, nonce, lane, accepted, marks, known, balances, gaveUp>>

\* The node of `provider` follows the sequencer.
NodeCatchesUp ==
  /\ known < accepted
  /\ known' = known + 1
  /\ UNCHANGED <<run, pc, tx, marks, balances, gaveUp>>

-----------------------------------------------------------------------------
(* refresh_own_balances: clone the map, read the balance, store the map.   *)

\* The refresh begins when its caller comes to it.
BeginRefresh(r, from) ==
  /\ Step(r, from, "refresh")
  /\ copy' = [copy EXCEPT ![r] = own]

\* A failed balanceOf keeps what the map held.
OnFailure(r) == copy[r]

ReadBalance(r) ==
  /\ Step(r, "refresh", "refreshed")
  /\ copy' = [copy EXCEPT ![r] = known]
  /\ UNCHANGED <<run, tx, marks, known, own, gaveUp>>

ReadFails(r) ==
  /\ Step(r, "refresh", "refreshed")
  /\ copy' = [copy EXCEPT ![r] = OnFailure(r)]
  /\ UNCHANGED <<run, tx, marks, known, own, gaveUp>>

\* mutant: the loop ends after one round
AfterStore_Ends(r) == "release"

AfterStore(r) == IF r = BalanceLoop THEN "idle" ELSE "release"

StoreBalance(r) ==
  /\ Step(r, "refreshed", AfterStore(r))
  /\ own' = copy[r]
  /\ copy' = [copy EXCEPT ![r] = 0]
  /\ UNCHANGED <<run, tx, marks, known, gaveUp>>

Refresh(r) == ReadBalance(r) \/ ReadFails(r) \/ StoreBalance(r)

\* The balance loop: every two seconds.
LoopBegins ==
  /\ BeginRefresh(BalanceLoop, "idle")
  /\ UNCHANGED <<run, tx, marks, known, own, gaveUp>>

-----------------------------------------------------------------------------
(* monitor: the receipt, once the node has it, or none in ten polls.       *)

HasReceipt(t) == nonce[t] < known

Landed(t) ==
  /\ HasReceipt(t)
  /\ BeginRefresh(t, "monitor")
  /\ UNCHANGED <<run, tx, marks, known, own, gaveUp>>

Until(t) == opps[t].block + BlacklistBlocks

Reverted(t) ==
  /\ HasReceipt(t)
  /\ BeginRefresh(t, "monitor")
  /\ blacklist' = [blacklist EXCEPT ![opps[t].route] = Until(t)]
  /\ UNCHANGED <<run, tx, inFlight, known, own, gaveUp>>

NoReceipt(t) ==
  /\ Step(t, "monitor", "release")
  /\ UNCHANGED <<run, tx, marks, known, balances, gaveUp>>

\* submit has returned.
Release(t) ==
  /\ Step(t, "release", "done")
  /\ inFlight' = inFlight \ {opps[t].route}
  /\ UNCHANGED <<run, tx, blacklist, known, balances, gaveUp>>

Submit(t) ==
  \/ DropStale(t) \/ Send(t)
  \/ \E l \in Lanes : LaneDown(t, l) \/ \E reply \in {"ok", "err"} : Deliver(t, l, reply)
  \/ Collect(t)
  \/ ResyncRead(t) \/ ResyncFail(t) \/ ResyncStore(t)
  \/ Landed(t) \/ Reverted(t) \/ NoReceipt(t) \/ Refresh(t) \/ Release(t)

Next ==
  \/ \E o \in Opp : Receive(o)
  \/ InsertInFlight
  \/ \E t \in Tasks : Submit(t)
  \/ LoopBegins \/ Refresh(BalanceLoop)
  \/ NodeCatchesUp

Spec == Init /\ [][Next]_vars

\* The loops and the tasks keep running, every RPC ends, in an answer or an
\* error, the node follows the sequencer, and of the balance loop's calls some
\* succeed.
FairSpec ==
  /\ Spec
  /\ WF_vars(InsertInFlight)
  /\ \A t \in Tasks : WF_vars(Submit(t))
  /\ WF_vars(NodeCatchesUp)
  /\ WF_vars(LoopBegins) /\ WF_vars(Refresh(BalanceLoop))
  /\ SF_vars(ReadBalance(BalanceLoop))

-----------------------------------------------------------------------------
(* Properties.                                                             *)

Running(t) == pc[t] \in Active
Route(t) == opps[t].route

\* One transaction per route is under way (sender.rs:43-48: otherwise "the same
\* dead route gets sent several times"), and in_flight is exactly the routes
\* of the running tasks, so no route stays marked for ever.
OneTaskPerRoute ==
  /\ \A t, u \in Tasks : Running(t) /\ Running(u) /\ t # u => Route(t) # Route(u)
  /\ inFlight = {Route(t) : t \in {u \in Tasks : Running(u)}}

\* A gap in the nonces always has someone who will close it: each nonce that
\* was reserved and that the sequencer still waits for is held by a task that
\* is under way and that, if it fails, resyncs, or by one whose resync itself
\* failed.  Otherwise every later transaction would be refused.
GapHasOwner ==
  \A k \in accepted..(next - 1) :
    \E t \in Tasks : (pc[t] \in {"sent", "resync", "store"} \/ t \in gaveUp) /\ nonce[t] = k

\* Did the opportunities of r come in block order?
InBlockOrder(r) ==
  \A j, k \in 1..Len(opps) :
    j < k /\ Route(j) = r /\ Route(k) = r => opps[j].block <= opps[k].block

\* The receipt of an older opportunity never cuts short what a newer one's has
\* suppressed, although each receipt overwrites the entry (sender.rs:281): as
\* long as the opportunities of a route come in block order, in_flight keeps
\* their receipts in that order too.
SuppressionKeptInOrder ==
  [][\A r \in Routes : InBlockOrder(r) => blacklist'[r] >= blacklist[r]]_vars

\* Whatever the lanes, the sequencer and the receipt do, a route in flight is
\* in the end free for its next opportunity.
RouteReleased == \A r \in Routes : (r \in inFlight) ~> (r \notin inFlight)

\* Once transactions stop being accepted, what submit reads as the executor's
\* balance (sender.rs:167) becomes and stays the balance on the chain, however
\* the refreshes overlapped and whichever calls failed.
CacheSettles == <>[](own = accepted)

\* "Kept fresh by spawn_balance_loop", "also re-fetched after every receipt"
\* (sender.rs:49-52, 129-131): a refresh never replaces a balance by an older
\* one.
CacheNeverGoesBack == [][own' >= own]_vars

\* "Suppressed until" a block (sender.rs:41) read for every opportunity: no
\* receipt shortens the suppression of a route.  The run loop lets an older
\* opportunity pass that it checked just before the entry was made.
SuppressionNeverShortened ==
  [][\A r \in Routes : blacklist'[r] >= blacklist[r]]_vars

\* "Increment locally per send" (nonce.rs:1-2): the nonce a task reserves has
\* not been accepted already and no other task under way holds it.
FreshNonce ==
  [][\A t \in Tasks :
       pc[t] = "spawned" /\ pc'[t] = "sent" =>
         /\ nonce'[t] >= accepted
         /\ \A u \in Tasks \ {t} :
              pc[u] \in {"sent", "monitor"} => nonce[u] # nonce'[t]]_vars

\* "Route id -> block until which it's suppressed" (sender.rs:41): no task is
\* spawned for an opportunity its route's blacklist entry suppresses.
SuppressedNotSent ==
  [][\A t \in Tasks :
       pc[t] = "idle" /\ pc'[t] = "spawned" => ~Suppressed(opps[t])]_vars

=============================================================================
