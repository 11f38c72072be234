---------------------------- MODULE SenderProofs ----------------------------
(***************************************************************************)
(* Proofs about Sender: the shared state keeps its types, a route has at   *)
(* most one task under way, a gap in the nonces always has a task that     *)
(* will close it or one whose resync failed, and as long as the            *)
(* opportunities of a route come in block order no receipt shortens its    *)
(* suppression.                                                            *)
(***************************************************************************)
EXTENDS Sender, TLAPS

\* The task the run loop is about to spawn, and those it has not reached, have
\* not begun.
LoopAhead ==
  /\ loop = "insert" => pc[Len(opps)] = "idle"
  /\ \A t \in Tasks : t > Len(opps) => pc[t] = "idle"

Typed == TypeOK /\ LoopAhead

\* A task that has not sent has no answer and has not given up, and one that
\* some lane accepted has a nonce below the sequencer's.
LanesAgree ==
  \A t \in Tasks :
    /\ pc[t] \in {"idle", "spawned"} =>
         t \notin gaveUp /\ \A l \in Lanes : lane[t][l] = "out"
    /\ \A l \in Lanes : lane[t][l] = "ok" => nonce[t] < accepted

\* No resync has read a count the sequencer has not reached.
SeenIsPast == \A t \in Tasks : seen[t] <= accepted

NonceInv == Typed /\ LanesAgree /\ SeenIsPast /\ GapHasOwner

RouteInv == Typed /\ OneTaskPerRoute

-----------------------------------------------------------------------------
(* Type correctness.                                                       *)

\* The task numbers of a well-typed state.
LEMMA Numbers ==
  ASSUME Typed
  PROVE  /\ Len(opps) \in Nat /\ MaxOpps \in Nat
         /\ Len(opps) <= MaxOpps
         /\ Len(opps) < MaxOpps => Len(opps) + 1 \in Tasks
         /\ loop = "insert" => Len(opps) \in Tasks /\ Newest \in Opp
         /\ \A t \in Tasks : t \in Nat /\ t # BalanceLoop
         /\ \A t \in Tasks : pc[t] # "idle" => t <= Len(opps) /\ opps[t] \in Opp
<1>1. opps \in Seq(Opp) /\ Len(opps) \in Nat /\ MaxOpps \in Nat /\ Len(opps) <= MaxOpps
  BY SenderAssumption DEF Typed, TypeOK
<1>2. loop = "insert" => Len(opps) \in 1..MaxOpps
  BY <1>1 DEF Typed, TypeOK
<1>3. \A k \in 1..Len(opps) : opps[k] \in Opp
  BY <1>1
<1>4. \A t \in Tasks : pc[t] # "idle" => t <= Len(opps)
  BY <1>1 DEF Typed, LoopAhead, Tasks
<1> QED
  BY <1>1, <1>2, <1>3, <1>4 DEF Tasks, BalanceLoop, Newest

\* The variables start with their types.
LEMMA TypeInit == Init => Typed
BY SenderAssumption
DEF Init, Typed, TypeOK, LoopAhead, Control, Active, Opp, Tasks, Refreshers, BalanceLoop

\* A step of a task that has begun leaves the loop's order alone.
LEMMA TaskBehind ==
  ASSUME Typed, NEW t \in Tasks, NEW c \in Control \ {"idle"}, pc[t] # "idle",
         pc' = [pc EXCEPT ![t] = c], UNCHANGED run
  PROVE  /\ LoopAhead'
         /\ pc' \in [Refreshers -> Control]
         /\ pc'[BalanceLoop] = pc[BalanceLoop]
<1>1. t # BalanceLoop /\ t \in Refreshers /\ t <= Len(opps)
  BY Numbers DEF Refreshers
<1> QED
  BY <1>1, Numbers DEF Typed, TypeOK, LoopAhead, run, Refreshers

\* The node's count and what refreshes have read of it.
LEMMA BalanceTyped ==
  ASSUME Typed, UNCHANGED <<known, own>>, NEW r \in Refreshers, NEW n \in 0..known,
         copy' = [copy EXCEPT ![r] = n], accepted' = accepted
  PROVE  /\ known' \in 0..accepted' /\ own' \in 0..known'
         /\ copy' \in [Refreshers -> 0..known']
BY DEF Typed, TypeOK

\* A refresh keeps the types, whoever runs it.
LEMMA RefreshTyped ==
  ASSUME Typed, NEW r \in Refreshers, Refresh(r) PROVE Typed'
<1>u. UNCHANGED <<opps, loop, nonce, lane, seen, next, accepted, blacklist, inFlight, known, gaveUp>>
  BY DEF Refresh, ReadBalance, ReadFails, StoreBalance, run, tx, marks
<1>n. 0 \in 0..known /\ known \in 0..known /\ copy[r] \in 0..known /\ own \in 0..known
      /\ copy \in [Refreshers -> 0..known] /\ pc \in [Refreshers -> Control]
  BY DEF Typed, TypeOK
<1>1. copy' \in [Refreshers -> 0..known] /\ own' \in 0..known
  BY <1>n DEF Refresh, ReadBalance, ReadFails, OnFailure, StoreBalance
<1>2. PICK c \in {"refreshed", "idle", "release"} :
        /\ pc' = [pc EXCEPT ![r] = c]
        /\ pc[r] \in {"refresh", "refreshed"}
        /\ c = "idle" => r = BalanceLoop
        /\ c = "release" => r # BalanceLoop
  BY DEF Refresh, ReadBalance, ReadFails, StoreBalance, Step, AfterStore
<1>3. pc' \in [Refreshers -> Control]
  BY <1>n, <1>2 DEF Control, Active
<1>4. pc'[BalanceLoop] \in {"idle", "refresh", "refreshed"}
  BY <1>n, <1>2 DEF Typed, TypeOK, Refreshers
<1>5. LoopAhead'
  <2>1. \A t \in Tasks : t \in Refreshers /\ t # BalanceLoop
    BY Numbers DEF Refreshers
  <2>2. \A t \in Tasks : pc[t] = "idle" => pc'[t] = "idle"
    BY <1>n, <1>2, <2>1
  <2> QED
    BY <1>u, <2>2, Numbers DEF Typed, LoopAhead
<1> QED
  BY <1>u, <1>1, <1>3, <1>4, <1>5 DEF Typed, TypeOK

\* Every step of the loop, of a task and of the sequencer keeps the types.
LEMMA TypeStep == Typed /\ [Next]_vars => Typed'
<1> SUFFICES ASSUME Typed, [Next]_vars PROVE Typed'
  OBVIOUS
<1>n. /\ pc \in [Refreshers -> Control] /\ nonce \in [Tasks -> Nat] /\ next \in Nat
      /\ seen \in [Tasks -> Nat] /\ accepted \in Nat /\ known \in Nat /\ known <= accepted
      /\ lane \in [Tasks -> [Lanes -> {"out", "ok", "err"}]]
      /\ Tasks \subseteq Refreshers
  BY DEF Typed, TypeOK, Refreshers
<1>1. ASSUME NEW o \in Opp, Receive(o) PROVE Typed'
  <2>1. /\ opps \in Seq(Opp) /\ Len(opps) + 1 \in Tasks
        /\ Len(opps') = Len(opps) + 1 /\ opps' \in Seq(Opp) /\ Len(opps') <= MaxOpps
    BY <1>1, Numbers DEF Receive, Typed, TypeOK
  <2>2. \A t \in Tasks : t > Len(opps') => t # Len(opps) + 1 /\ pc[t] = "idle"
    BY <2>1, Numbers
  <2>3. pc[Len(opps) + 1] = "idle" /\ Len(opps) + 1 \in Refreshers /\ Len(opps) + 1 # BalanceLoop
    BY <1>n, <2>1, Numbers
  <2>4. UNCHANGED <<nonce, lane, seen, next, accepted, blacklist, inFlight, known, own, copy, gaveUp>>
    BY <1>1 DEF Receive, tx, marks, balances
  <2>5. CASE Suppressed(o)
    <3>1. pc' = [pc EXCEPT ![Len(opps) + 1] = "dropped"] /\ loop' = "recv"
      BY <1>1, <2>5 DEF Receive
    <3>2. LoopAhead' /\ pc' \in [Refreshers -> Control] /\ pc'[BalanceLoop] = pc[BalanceLoop]
      BY <1>n, <2>1, <2>2, <2>3, <3>1 DEF LoopAhead, Control
    <3> QED
      BY <2>1, <2>4, <3>1, <3>2 DEF Typed, TypeOK
  <2>6. CASE ~Suppressed(o)
    <3>1. pc' = pc /\ loop' = "insert"
      BY <1>1, <2>6 DEF Receive
    <3>2. LoopAhead' /\ opps' # << >>
      BY <2>1, <2>2, <2>3, <3>1 DEF LoopAhead
    <3> QED
      BY <2>1, <2>4, <3>1, <3>2 DEF Typed, TypeOK
  <2> QED
    BY <2>5, <2>6
<1>2. CASE InsertInFlight
  <2>1. Len(opps) \in Tasks /\ Newest \in Opp /\ Newest.route \in Routes
    BY <1>2, Numbers DEF InsertInFlight, Opp
  <2>2. ASSUME NEW c \in {"dropped", "spawned"}, pc' = [pc EXCEPT ![Len(opps)] = c]
        PROVE  LoopAhead' /\ pc' \in [Refreshers -> Control] /\ pc'[BalanceLoop] = pc[BalanceLoop]
    BY <1>2, <1>n, <2>1, <2>2, Numbers DEF InsertInFlight, LoopAhead, Typed, Control, Active
  <2>3. LoopAhead' /\ pc' \in [Refreshers -> Control] /\ pc'[BalanceLoop] = pc[BalanceLoop]
    BY <1>2, <2>2 DEF InsertInFlight
  <2>4. inFlight' \subseteq Routes /\ loop' = "recv"
    BY <1>2, <2>1 DEF InsertInFlight, Typed, TypeOK
  <2> QED
    BY <1>2, <2>3, <2>4 DEF InsertInFlight, Typed, TypeOK, tx, balances
<1>3. ASSUME NEW t \in Tasks, Submit(t) PROVE Typed'
  <2> USE DEF run, tx, marks, balances
  <2>r. t \in Refreshers
    BY <1>n
  <2>1. CASE DropStale(t) \/ Send(t) \/ Collect(t) \/ ResyncRead(t) \/ ResyncStore(t)
             \/ NoReceipt(t) \/ Release(t)
    <3>1. PICK c \in Control \ {"idle"} : pc' = [pc EXCEPT ![t] = c] /\ pc[t] # "idle"
      BY <2>1 DEF DropStale, Send, Collect, ResyncRead, ResyncStore, NoReceipt, Release,
         Step, Control, Active
    <3>2. UNCHANGED <<opps, loop, accepted, blacklist, known, own, copy, gaveUp>>
      BY <2>1 DEF DropStale, Send, Collect, ResyncRead, ResyncStore, NoReceipt, Release
    <3>3. inFlight' \subseteq Routes
      BY <2>1 DEF DropStale, Send, Collect, ResyncRead, ResyncStore, NoReceipt, Release,
         Typed, TypeOK
    <3>4. nonce' \in [Tasks -> Nat] /\ next' \in Nat /\ seen' \in [Tasks -> Nat]
      BY <1>n, <2>1 DEF DropStale, Send, Collect, ResyncRead, ResyncStore, Resynced,
         NoReceipt, Release
    <3>5. lane' \in [Tasks -> [Lanes -> {"out", "ok", "err"}]]
      BY <1>n, <2>1 DEF DropStale, Send, Collect, ResyncRead, ResyncStore, NoReceipt, Release
    <3> QED
      BY <3>1, <3>2, <3>3, <3>4, <3>5, TaskBehind DEF Typed, TypeOK
  <2>2. CASE ResyncFail(t)
    <3>1. pc' = [pc EXCEPT ![t] = "release"] /\ pc[t] # "idle" /\ gaveUp' \subseteq Tasks
      BY <2>2 DEF ResyncFail, Step, Typed, TypeOK
    <3> QED
      BY <2>2, <3>1, TaskBehind DEF ResyncFail, Typed, TypeOK, Control, Active
  <2>3. ASSUME NEW l \in Lanes, LaneDown(t, l) PROVE Typed'
    <3>1. lane' \in [Tasks -> [Lanes -> {"out", "ok", "err"}]]
      BY <1>n, <2>3 DEF LaneDown
    <3> QED
      BY <2>3, <3>1 DEF LaneDown, Typed, TypeOK, LoopAhead
  <2>4. ASSUME NEW l \in Lanes, NEW reply \in {"ok", "err"}, Deliver(t, l, reply)
        PROVE  Typed'
    <3>1. lane' \in [Tasks -> [Lanes -> {"out", "ok", "err"}]]
      BY <1>n, <2>4 DEF Deliver
    <3>2. accepted' \in Nat /\ known \in 0..accepted'
      BY <1>n, <2>4 DEF Deliver
    <3> QED
      BY <2>4, <3>1, <3>2 DEF Deliver, Typed, TypeOK, LoopAhead
  <2>5. CASE Landed(t) \/ Reverted(t)
    <3>1. /\ pc' = [pc EXCEPT ![t] = "refresh"] /\ pc[t] = "monitor"
          /\ copy' = [copy EXCEPT ![t] = own]
          /\ UNCHANGED <<opps, loop, nonce, lane, seen, next, accepted, inFlight, known, own, gaveUp>>
      BY <2>5 DEF Landed, Reverted, BeginRefresh, Step
    <3>2. own \in 0..known
      BY DEF Typed, TypeOK
    <3>3. copy' \in [Refreshers -> 0..known'] /\ own' \in 0..known' /\ known' \in 0..accepted'
      BY <2>r, <3>1, <3>2, BalanceTyped
    <3>4. Until(t) \in Nat
      <4>1. opps[t] \in Opp
        BY <3>1, Numbers
      <4>2. opps[t].block \in Nat
        BY <4>1 DEF Opp
      <4> QED
        BY <4>2, SenderAssumption DEF Until
    <3>5. blacklist' \in [Routes -> Nat]
      BY <2>5, <3>4 DEF Landed, Reverted, Typed, TypeOK
    <3> QED
      BY <3>1, <3>3, <3>5, TaskBehind DEF Typed, TypeOK, Control, Active
  <2>6. CASE Refresh(t)
    BY <2>6, <2>r, RefreshTyped
  <2> QED
    BY <1>3, <2>1, <2>2, <2>3, <2>4, <2>5, <2>6 DEF Submit
<1>4. CASE LoopBegins
  <2>1. /\ pc' = [pc EXCEPT ![BalanceLoop] = "refresh"] /\ copy' = [copy EXCEPT ![BalanceLoop] = own]
        /\ UNCHANGED <<opps, loop, nonce, lane, seen, next, accepted, blacklist, inFlight, known, own, gaveUp>>
    BY <1>4 DEF LoopBegins, BeginRefresh, Step, run, tx, marks
  <2>2. BalanceLoop \in Refreshers /\ own \in 0..known
    BY DEF Refreshers, Typed, TypeOK
  <2>3. copy' \in [Refreshers -> 0..known'] /\ own' \in 0..known' /\ known' \in 0..accepted'
    BY <2>1, <2>2, BalanceTyped
  <2>4. pc' \in [Refreshers -> Control] /\ pc'[BalanceLoop] = "refresh"
    BY <1>n, <2>1, <2>2 DEF Control, Active
  <2>5. LoopAhead'
    BY <1>n, <2>1, Numbers DEF Typed, LoopAhead
  <2> QED
    BY <2>1, <2>3, <2>4, <2>5 DEF Typed, TypeOK
<1>5. CASE Refresh(BalanceLoop)
  BY <1>5, RefreshTyped DEF Refreshers
<1>6. CASE NodeCatchesUp
  <2>1. known' \in 0..accepted /\ own \in 0..known' /\ copy \in [Refreshers -> 0..known']
    <3>1. own \in 0..known /\ copy \in [Refreshers -> 0..known]
      BY DEF Typed, TypeOK
    <3> QED
      BY <1>n, <1>6, <3>1 DEF NodeCatchesUp
  <2> QED
    BY <1>6, <2>1 DEF NodeCatchesUp, Typed, TypeOK, LoopAhead, run, tx, marks, balances
<1>7. CASE UNCHANGED vars
  BY <1>7 DEF vars, LoopAhead, Typed, TypeOK
<1> QED
  BY <1>1, <1>2, <1>3, <1>4, <1>5, <1>6, <1>7 DEF Next

\* The executor's state keeps its types, for any routes, lanes and bounds.
THEOREM TypeCorrect == Spec => []TypeOK
<1>1. Init => Typed
  BY TypeInit
<1>2. Typed /\ [Next]_vars => Typed'
  BY TypeStep
<1>3. Typed => TypeOK
  BY DEF Typed
<1> QED
  BY <1>1, <1>2, <1>3, PTL DEF Spec

-----------------------------------------------------------------------------
(* One task per route.                                                     *)

\* A step that moves a running task on, and keeps it running, moves no mark.
LEMMA StillRunning ==
  ASSUME RouteInv, NEW t \in Refreshers, NEW c \in Control,
         t \in Tasks => c \in Active /\ pc[t] \in Active,
         pc' = [pc EXCEPT ![t] = c], UNCHANGED <<opps, inFlight>>
  PROVE  OneTaskPerRoute'
<1>1. \A u \in Tasks : pc'[u] \in Active <=> pc[u] \in Active
  BY DEF RouteInv, Typed, TypeOK, Refreshers
<1> QED
  BY <1>1 DEF RouteInv, OneTaskPerRoute, Running, Route

\* A step that leaves every task where it is moves no mark either.
LEMMA NoneMoves ==
  ASSUME RouteInv, UNCHANGED <<pc, inFlight>>,
         \A u \in Tasks : pc[u] \in Active => opps'[u] = opps[u]
  PROVE  OneTaskPerRoute'
<1>1. \A u \in Tasks : Running(u) => Route(u)' = Route(u)
  BY DEF Running, Route
<1> QED
  BY <1>1 DEF RouteInv, OneTaskPerRoute, Running

\* Every step keeps one task per route, and the marks with the tasks.
LEMMA RouteStep == RouteInv /\ [Next]_vars => RouteInv'
<1> SUFFICES ASSUME RouteInv, [Next]_vars PROVE OneTaskPerRoute'
  BY TypeStep DEF RouteInv
<1>t. Typed
  BY DEF RouteInv
<1>n. pc \in [Refreshers -> Control] /\ Tasks \subseteq Refreshers
  BY <1>t DEF Typed, TypeOK, Refreshers
<1>1. ASSUME NEW o \in Opp, Receive(o) PROVE OneTaskPerRoute'
  <2>1. \A u \in Tasks : pc[u] \in Active => u \in 1..Len(opps) /\ opps'[u] = opps[u]
    <3>1. \A u \in Tasks : pc[u] \in Active => u \in 1..Len(opps)
      BY <1>t, Numbers DEF Active, Tasks
    <3>2. \A u \in 1..Len(opps) : opps'[u] = opps[u]
      BY <1>1, <1>t DEF Receive, Typed, TypeOK
    <3> QED
      BY <3>1, <3>2
  <2>2. CASE UNCHANGED pc
    BY <1>1, <2>1, <2>2, NoneMoves DEF Receive, marks
  <2>3. CASE pc' = [pc EXCEPT ![Len(opps) + 1] = "dropped"]
    <3>1. pc[Len(opps) + 1] = "idle" /\ Len(opps) + 1 \in Tasks
      BY <1>1, <1>t, Numbers DEF Receive
    <3>2. \A u \in Tasks : Running(u)' <=> Running(u)
      BY <1>n, <2>3, <3>1 DEF Active, Running
    <3>3. \A u \in Tasks : Running(u) => Route(u)' = Route(u)
      BY <2>1 DEF Running, Route
    <3>4. UNCHANGED inFlight
      BY <1>1 DEF Receive, marks
    <3> QED
      BY <3>2, <3>3, <3>4 DEF RouteInv, OneTaskPerRoute
  <2> QED
    BY <1>1, <2>2, <2>3 DEF Receive
<1>2. CASE InsertInFlight
  <2> DEFINE t == Len(opps)
  <2>1. pc[t] = "idle" /\ t \in Tasks /\ UNCHANGED opps /\ Newest.route = Route(t)
    BY <1>2, <1>t, Numbers DEF InsertInFlight, Typed, LoopAhead, Newest, Route
  <2>2. CASE AlreadyInFlight(Newest.route)
    <3>1. pc' = [pc EXCEPT ![t] = "dropped"] /\ UNCHANGED inFlight
      BY <1>2, <2>2 DEF InsertInFlight
    <3>2. \A u \in Tasks : pc'[u] \in Active <=> pc[u] \in Active
      BY <1>n, <2>1, <3>1 DEF Active
    <3> QED
      BY <2>1, <3>1, <3>2 DEF RouteInv, OneTaskPerRoute, Running, Route
  <2>3. CASE ~AlreadyInFlight(Newest.route)
    <3>1. /\ pc' = [pc EXCEPT ![t] = "spawned"]
          /\ inFlight' = inFlight \cup {Route(t)}
          /\ Route(t) \notin inFlight
      BY <1>2, <2>1, <2>3 DEF InsertInFlight, AlreadyInFlight
    <3>2. \A u \in Tasks : Running(u)' <=> Running(u) \/ u = t
      BY <1>n, <2>1, <3>1 DEF Active, Running
    <3>3. \A u \in Tasks : Running(u) => Route(u) # Route(t)
      BY <3>1 DEF RouteInv, OneTaskPerRoute
    <3>4. \A u : Route(u)' = Route(u)
      BY <2>1 DEF Route
    <3> HIDE DEF t
    <3>5. \A u, v \in Tasks : Running(v)' /\ Running(u)' /\ v # u => Route(v)' # Route(u)'
      BY <3>2, <3>3, <3>4 DEF RouteInv, OneTaskPerRoute
    <3>6. inFlight' = {Route(v)' : v \in {u \in Tasks : Running(u)'}}
      BY <2>1, <3>1, <3>2, <3>4 DEF RouteInv, OneTaskPerRoute
    <3> QED
      BY <3>5, <3>6 DEF OneTaskPerRoute
  <2> QED
    BY <2>2, <2>3
<1>3. ASSUME NEW t \in Tasks, Submit(t) PROVE OneTaskPerRoute'
  <2> USE DEF run, marks
  <2>1. CASE DropStale(t) \/ Send(t) \/ Collect(t) \/ ResyncRead(t) \/ ResyncFail(t)
             \/ ResyncStore(t)
    BY <1>n, <2>1, StillRunning DEF DropStale, Send, Collect, ResyncRead, ResyncFail,
       ResyncStore, Step, Active, Control
  <2>2. CASE Landed(t) \/ Reverted(t) \/ NoReceipt(t)
    BY <1>n, <2>2, StillRunning DEF Landed, Reverted, NoReceipt, BeginRefresh, Step, Active,
       Control
  <2>3. CASE Refresh(t)
    <3>1. t # BalanceLoop
      BY <1>t, Numbers
    <3> QED
      BY <1>n, <2>3, <3>1, StillRunning
      DEF Refresh, ReadBalance, ReadFails, StoreBalance, AfterStore, Step, Active, Control
  <2>4. CASE \E l \in Lanes : LaneDown(t, l) \/ \E reply \in {"ok", "err"} : Deliver(t, l, reply)
    BY <2>4, NoneMoves DEF LaneDown, Deliver
  <2>5. CASE Release(t)
    <3>1. /\ pc[t] = "release" /\ pc' = [pc EXCEPT ![t] = "done"]
          /\ inFlight' = inFlight \ {Route(t)} /\ UNCHANGED opps
      BY <2>5 DEF Release, Step, Route
    <3>2. \A u \in Tasks : Running(u)' <=> Running(u) /\ u # t
      BY <1>n, <3>1 DEF Active, Running
    <3>3. Running(t) /\ \A u : Route(u)' = Route(u)
      BY <3>1 DEF Running, Route, Active
    <3>4. \A u \in Tasks : Running(u) /\ u # t => Route(u) # Route(t)
      BY <3>3 DEF RouteInv, OneTaskPerRoute
    <3>5. inFlight' = {Route(u)' : u \in {v \in Tasks : Running(v)'}}
      BY <3>1, <3>2, <3>3, <3>4 DEF RouteInv, OneTaskPerRoute
    <3>6. \A u, v \in Tasks : Running(u)' /\ Running(v)' /\ u # v => Route(u)' # Route(v)'
      BY <3>2, <3>3 DEF RouteInv, OneTaskPerRoute
    <3> QED
      BY <3>5, <3>6 DEF OneTaskPerRoute
  <2> QED
    BY <1>3, <2>1, <2>2, <2>3, <2>4, <2>5 DEF Submit
<1>4. CASE LoopBegins \/ Refresh(BalanceLoop)
  <2>1. PICK c \in Control : pc' = [pc EXCEPT ![BalanceLoop] = c]
    BY <1>4 DEF LoopBegins, BeginRefresh, Refresh, ReadBalance, ReadFails, StoreBalance,
       AfterStore, Step, Control, Active
  <2>2. BalanceLoop \in Refreshers /\ BalanceLoop \notin Tasks
    BY <1>t, Numbers DEF Refreshers
  <2>3. UNCHANGED <<opps, inFlight>>
    BY <1>4 DEF LoopBegins, Refresh, ReadBalance, ReadFails, StoreBalance, run, marks
  <2> QED
    BY <2>1, <2>2, <2>3, StillRunning
<1>5. CASE NodeCatchesUp
  BY <1>5, NoneMoves DEF NodeCatchesUp, run, marks
<1>6. CASE UNCHANGED vars
  BY <1>6, NoneMoves DEF vars
<1> QED
  BY <1>1, <1>2, <1>3, <1>4, <1>5, <1>6 DEF Next

\* No two tasks of one route are ever under way, and in_flight is exactly the
\* routes of the running tasks (sender.rs:106-125).
THEOREM OneTaskPerRouteTheorem == Spec => []OneTaskPerRoute
<1>1. Init => RouteInv
  <2>1. Init => \A t \in Tasks : pc[t] = "idle"
    BY DEF Init, Refreshers
  <2> QED
    BY <2>1, TypeInit DEF Init, RouteInv, OneTaskPerRoute, Running, Active
<1>2. RouteInv /\ [Next]_vars => RouteInv'
  BY RouteStep
<1>3. RouteInv => OneTaskPerRoute
  BY DEF RouteInv
<1> QED
  BY <1>1, <1>2, <1>3, PTL DEF Spec

-----------------------------------------------------------------------------
(* Nonce gaps.                                                             *)

\* The task u closes the gap its nonce leaves, or has given up on it.
Owner(u) == pc[u] \in {"sent", "resync", "store"} \/ u \in gaveUp

\* A step that changes neither the counters nor the submissions, and leaves
\* every owner an owner, keeps the gaps owned.
LEMMA GapsKept ==
  ASSUME NonceInv, UNCHANGED <<nonce, lane, seen, next, accepted>>,
         \A u \in Tasks :
           /\ Owner(u) => Owner(u)' \/ nonce[u] < accepted
           /\ pc'[u] \in {"idle", "spawned"}
                => pc[u] \in {"idle", "spawned"} /\ (u \in gaveUp' => u \in gaveUp)
  PROVE  LanesAgree' /\ SeenIsPast' /\ GapHasOwner'
<1>1. accepted \in Nat /\ \A u \in Tasks : nonce[u] \in Nat
  BY DEF NonceInv, Typed, TypeOK
<1>2. LanesAgree' /\ SeenIsPast'
  BY DEF NonceInv, LanesAgree, SeenIsPast
<1>3. GapHasOwner'
  <2> SUFFICES ASSUME NEW k \in accepted..(next - 1)
               PROVE  \E u \in Tasks : Owner(u)' /\ nonce[u] = k
    BY DEF GapHasOwner, Owner
  <2>1. PICK u \in Tasks : Owner(u) /\ nonce[u] = k
    BY DEF NonceInv, GapHasOwner, Owner
  <2> QED
    BY <1>1, <2>1
<1> QED
  BY <1>2, <1>3

\* Every step keeps the gaps owned.
LEMMA NonceStep == NonceInv /\ [Next]_vars => NonceInv'
<1> SUFFICES ASSUME NonceInv, [Next]_vars
             PROVE  LanesAgree' /\ SeenIsPast' /\ GapHasOwner'
  BY TypeStep DEF NonceInv
<1> USE DEF run, tx, marks, balances
<1>t. Typed
  BY DEF NonceInv
<1>n. /\ accepted \in Nat /\ known \in Nat /\ known <= accepted /\ next \in Nat
      /\ \A u \in Tasks : nonce[u] \in Nat /\ seen[u] \in Nat
      /\ pc \in [Refreshers -> Control] /\ nonce \in [Tasks -> Nat] /\ seen \in [Tasks -> Nat]
      /\ lane \in [Tasks -> [Lanes -> {"out", "ok", "err"}]]
      /\ Tasks \subseteq Refreshers
  BY <1>t DEF Typed, TypeOK, Refreshers
<1>1. ASSUME NEW o \in Opp, Receive(o) PROVE LanesAgree' /\ SeenIsPast' /\ GapHasOwner'
  <2>1. Len(opps) + 1 \in Tasks /\ pc[Len(opps) + 1] = "idle"
    BY <1>1, <1>t, Numbers DEF Receive
  <2> QED
    BY <1>1, <1>n, <2>1, GapsKept DEF Receive, Owner
<1>2. CASE InsertInFlight
  <2>1. Len(opps) \in Tasks /\ pc[Len(opps)] = "idle"
    BY <1>2, <1>t, Numbers DEF InsertInFlight, Typed, LoopAhead
  <2> QED
    BY <1>2, <1>n, <2>1, GapsKept DEF InsertInFlight, Owner
<1>3. ASSUME NEW t \in Tasks, Submit(t) PROVE LanesAgree' /\ SeenIsPast' /\ GapHasOwner'
  <2>0. t \in Refreshers
    BY <1>n
  <2>1. CASE DropStale(t) \/ Landed(t) \/ Reverted(t) \/ NoReceipt(t) \/ Release(t)
    BY <1>n, <2>1, GapsKept
    DEF DropStale, Landed, Reverted, BeginRefresh, NoReceipt, Release, Step, Owner
  <2>2. CASE Send(t)
    <3>1. /\ pc[t] = "spawned" /\ pc' = [pc EXCEPT ![t] = "sent"]
          /\ nonce' = [nonce EXCEPT ![t] = next] /\ next' = next + 1
          /\ UNCHANGED <<lane, seen, accepted, gaveUp>>
      BY <2>2 DEF Send, Step
    <3>2. LanesAgree'
      BY <1>n, <3>1 DEF NonceInv, LanesAgree
    <3>3. GapHasOwner'
      <4> SUFFICES ASSUME NEW k \in accepted..next
                   PROVE  \E u \in Tasks : Owner(u)' /\ nonce'[u] = k
        BY <1>n, <3>1 DEF GapHasOwner, Owner
      <4>0. pc'[t] = "sent" /\ nonce'[t] = next
        BY <1>n, <3>1
      <4>1. CASE k = next
        BY <4>0, <4>1 DEF Owner
      <4>2. CASE k # next
        <5>1. PICK u \in Tasks : Owner(u) /\ nonce[u] = k
          BY <1>n, <4>2 DEF NonceInv, GapHasOwner, Owner
        <5>2. u # t
          BY <3>1, <5>1 DEF Owner, NonceInv, LanesAgree
        <5> QED
          BY <1>n, <3>1, <5>1, <5>2 DEF Owner
      <4> QED
        BY <4>1, <4>2
    <3> QED
      BY <3>1, <3>2, <3>3 DEF NonceInv, SeenIsPast
  <2>3. ASSUME NEW l \in Lanes, LaneDown(t, l)
        PROVE  LanesAgree' /\ SeenIsPast' /\ GapHasOwner'
    BY <1>n, <2>3 DEF LaneDown, NonceInv, LanesAgree, SeenIsPast, GapHasOwner
  <2>4. ASSUME NEW l \in Lanes, NEW reply \in {"ok", "err"}, Deliver(t, l, reply)
        PROVE  LanesAgree' /\ SeenIsPast' /\ GapHasOwner'
    <3>1. /\ pc[t] = "sent" /\ lane' = [lane EXCEPT ![t][l] = reply]
          /\ UNCHANGED <<pc, nonce, seen, next, gaveUp>>
      BY <2>4 DEF Deliver
    <3>2. \/ nonce[t] = accepted /\ accepted' = accepted + 1
          \/ reply = "err" /\ accepted' = accepted
      BY <2>4 DEF Deliver
    <3>3. LanesAgree'
      BY <1>n, <3>1, <3>2 DEF NonceInv, LanesAgree
    <3>4. SeenIsPast'
      BY <1>n, <3>1, <3>2 DEF NonceInv, SeenIsPast
    <3>5. GapHasOwner'
      BY <1>n, <3>1, <3>2 DEF NonceInv, GapHasOwner
    <3> QED
      BY <3>3, <3>4, <3>5
  <2>5. CASE Collect(t)
    <3>1. /\ lane' = [lane EXCEPT ![t] = [l \in Lanes |-> "out"]]
          /\ pc[t] = "sent" /\ UNCHANGED <<nonce, seen, next, accepted, gaveUp>>
      BY <2>5 DEF Collect, Step
    <3>2. PICK c \in {"monitor", "resync"} :
            /\ pc' = [pc EXCEPT ![t] = c]
            /\ c = "monitor" => nonce[t] < accepted
      BY <2>5 DEF Collect, Step, NonceInv, LanesAgree
    <3>3. LanesAgree'
      BY <1>n, <3>1, <3>2 DEF NonceInv, LanesAgree
    <3>4. GapHasOwner'
      <4> SUFFICES ASSUME NEW k \in accepted..(next - 1)
                   PROVE  \E u \in Tasks : Owner(u)' /\ nonce[u] = k
        BY <3>1 DEF GapHasOwner, Owner
      <4>1. PICK u \in Tasks : Owner(u) /\ nonce[u] = k
        BY DEF NonceInv, GapHasOwner, Owner
      <4> QED
        BY <1>n, <3>1, <3>2, <4>1 DEF Owner
    <3> QED
      BY <3>1, <3>3, <3>4 DEF NonceInv, SeenIsPast
  <2>6. CASE ResyncRead(t)
    <3>1. /\ pc[t] = "resync" /\ pc' = [pc EXCEPT ![t] = "store"]
          /\ seen' = [seen EXCEPT ![t] = known]
          /\ UNCHANGED <<nonce, lane, next, accepted, gaveUp>>
      BY <2>6 DEF ResyncRead, Step
    <3>2. LanesAgree' /\ SeenIsPast'
      BY <1>n, <3>1 DEF NonceInv, LanesAgree, SeenIsPast
    <3>3. GapHasOwner'
      BY <1>n, <3>1 DEF NonceInv, GapHasOwner
    <3> QED
      BY <3>2, <3>3
  <2>7. CASE ResyncStore(t)
    <3>1. /\ pc[t] = "store" /\ pc' = [pc EXCEPT ![t] = "release"]
          /\ next' = seen[t] /\ seen' = [seen EXCEPT ![t] = 0]
          /\ UNCHANGED <<nonce, lane, accepted, gaveUp>>
      BY <2>7 DEF ResyncStore, Resynced, Step
    <3>2. accepted'..(next' - 1) = {}
      BY <1>n, <3>1 DEF NonceInv, SeenIsPast
    <3>3. LanesAgree' /\ SeenIsPast'
      BY <1>n, <3>1 DEF NonceInv, LanesAgree, SeenIsPast
    <3> QED
      BY <3>2, <3>3 DEF GapHasOwner
  <2>8. CASE ResyncFail(t)
    <3>1. /\ pc' = [pc EXCEPT ![t] = "release"] /\ gaveUp' = gaveUp \cup {t}
          /\ pc[t] = "resync" /\ UNCHANGED <<nonce, lane, seen, next, accepted>>
      BY <2>8 DEF ResyncFail, Step
    <3>2. \A u \in Tasks : Owner(u) => Owner(u)'
      BY <1>n, <3>1 DEF Owner
    <3>3. \A u \in Tasks : pc'[u] \in {"idle", "spawned"} => pc[u] = pc'[u] /\ u # t
      BY <1>n, <3>1
    <3> QED
      BY <3>1, <3>2, <3>3, GapsKept
  <2>9. CASE Refresh(t)
    <3>1. t # BalanceLoop /\ UNCHANGED <<nonce, lane, seen, next, accepted, gaveUp>>
      BY <2>9, <1>t, Numbers DEF Refresh, ReadBalance, ReadFails, StoreBalance
    <3>2. PICK c \in {"refreshed", "release"} :
            /\ pc' = [pc EXCEPT ![t] = c] /\ pc[t] \in {"refresh", "refreshed"}
      BY <2>9, <3>1 DEF Refresh, ReadBalance, ReadFails, StoreBalance, AfterStore, Step
    <3>3. \A u \in Tasks :
            /\ Owner(u) => Owner(u)'
            /\ pc'[u] \in {"idle", "spawned"} => pc[u] = pc'[u]
      BY <1>n, <3>1, <3>2 DEF Owner
    <3> QED
      BY <3>1, <3>3, GapsKept
  <2> QED
    BY <1>3, <2>1, <2>2, <2>3, <2>4, <2>5, <2>6, <2>7, <2>8, <2>9 DEF Submit
<1>4. CASE LoopBegins \/ Refresh(BalanceLoop)
  <2>1. PICK c : pc' = [pc EXCEPT ![BalanceLoop] = c]
    BY <1>4 DEF LoopBegins, BeginRefresh, Refresh, ReadBalance, ReadFails, StoreBalance, Step
  <2>2. \A u \in Tasks : pc'[u] = pc[u]
    BY <1>n, <1>t, <2>1, Numbers
  <2>3. UNCHANGED <<nonce, lane, seen, next, accepted, gaveUp>>
    BY <1>4 DEF LoopBegins, Refresh, ReadBalance, ReadFails, StoreBalance
  <2> QED
    BY <2>2, <2>3, GapsKept DEF Owner
<1>5. CASE NodeCatchesUp
  BY <1>5, GapsKept DEF NodeCatchesUp, Owner
<1>6. CASE UNCHANGED vars
  BY <1>6, GapsKept DEF vars, Owner
<1> QED
  BY <1>1, <1>2, <1>3, <1>4, <1>5, <1>6 DEF Next

\* A nonce that was skipped always has a task under way that will resync if
\* its transaction fails (nonce.rs, "resync on any gap/error"), or one whose
\* resync failed: the counter stays ahead of the sequencer only if the read of
\* a resync fails.
THEOREM GapHasOwnerTheorem == Spec => []GapHasOwner
<1>1. Init => NonceInv
  <2>1. Init => \A t \in Tasks : pc[t] = "idle"
    BY DEF Init, Refreshers
  <2> QED
    BY <2>1, TypeInit DEF Init, NonceInv, LanesAgree, SeenIsPast, GapHasOwner
<1>2. NonceInv /\ [Next]_vars => NonceInv'
  BY NonceStep
<1>3. NonceInv => GapHasOwner
  BY DEF NonceInv
<1> QED
  BY <1>1, <1>2, <1>3, PTL DEF Spec

-----------------------------------------------------------------------------
(* Suppressions.                                                           *)

\* An entry of the blacklist was set for an opportunity of its route, and that
\* of a route under way, if its opportunities came in order, is not beyond what
\* its own task would set.
Marked(r) ==
  blacklist[r] = 0 \/
  \E k \in 1..Len(opps) : Route(k) = r /\ blacklist[r] <= opps[k].block + BlacklistBlocks
Ahead ==
  /\ \A r \in Routes : Marked(r)
  /\ \A t \in Tasks : Running(t) /\ InBlockOrder(Route(t)) => blacklist[Route(t)] <= Until(t)

SuppressionInv == RouteInv /\ Ahead

\* The opportunities and their numbers.
LEMMA OppNumbers ==
  ASSUME Typed
  PROVE  /\ opps \in Seq(Opp) /\ Len(opps) \in Nat /\ BlacklistBlocks \in Nat
         /\ \A k \in 1..Len(opps) : opps[k].block \in Nat /\ opps[k].route \in Routes
         /\ opps # << >> => Len(opps) \in 1..Len(opps) /\ Newest.block \in Nat
         /\ \A t \in Tasks : Running(t) =>
              /\ t \in 1..Len(opps) /\ Route(t) \in Routes
              /\ Until(t) = opps[t].block + BlacklistBlocks /\ Until(t) \in Nat
         /\ \A r \in Routes : blacklist[r] \in Nat
<1>1. opps \in Seq(Opp) /\ Len(opps) \in Nat /\ BlacklistBlocks \in Nat
  BY SenderAssumption DEF Typed, TypeOK
<1>2. \A k \in 1..Len(opps) : opps[k].block \in Nat /\ opps[k].route \in Routes
  <2>1. \A k \in 1..Len(opps) : opps[k] \in Opp
    BY <1>1
  <2> QED
    BY <2>1, SenderAssumption DEF Opp
<1>3. opps # << >> => Len(opps) \in 1..Len(opps)
  BY <1>1
<1>4. ASSUME NEW t \in Tasks, Running(t) PROVE t \in 1..Len(opps)
  BY <1>1, <1>4, Numbers, SenderAssumption DEF Running, Active, Tasks
<1>5. opps # << >> => Newest.block \in Nat
  BY <1>2, <1>3 DEF Newest
<1>6. ASSUME NEW t \in Tasks, Running(t)
      PROVE  Route(t) \in Routes /\ Until(t) = opps[t].block + BlacklistBlocks /\ Until(t) \in Nat
  BY <1>1, <1>2, <1>4, <1>6 DEF Route, Until
<1>7. \A r \in Routes : blacklist[r] \in Nat
  BY DEF Typed, TypeOK
<1> QED
  BY <1>1, <1>2, <1>3, <1>4, <1>5, <1>6, <1>7

\* A step that starts no task, receives nothing and marks nothing keeps the
\* bounds.
LEMMA AheadKept ==
  ASSUME SuppressionInv, UNCHANGED <<opps, blacklist>>,
         \A t \in Tasks : Running(t)' => Running(t)
  PROVE  Ahead'
BY DEF SuppressionInv, Ahead, Marked, Route, Until, InBlockOrder

\* A reverted task suppresses its route for at least as long as before: the
\* route was marked by earlier opportunities of its own only.
LEMMA RevertedExtends ==
  ASSUME SuppressionInv, NEW t \in Tasks, Reverted(t)
  PROVE  /\ Ahead'
         /\ \A r \in Routes : InBlockOrder(r) => blacklist'[r] >= blacklist[r]
<1>t. Typed
  BY DEF SuppressionInv, RouteInv
<1>1. /\ blacklist' = [blacklist EXCEPT ![opps[t].route] = Until(t)]
      /\ UNCHANGED <<opps, loop>> /\ pc[t] = "monitor" /\ pc' = [pc EXCEPT ![t] = "refresh"]
  BY DEF Reverted, BeginRefresh, Step, run
<1>2. Running(t) /\ Route(t) = opps[t].route
  BY <1>1 DEF Running, Route, Active
<1>3. /\ Route(t) \in Routes /\ Until(t) \in Nat /\ t \in 1..Len(opps)
      /\ Until(t) = opps[t].block + BlacklistBlocks
      /\ \A r \in Routes : blacklist[r] \in Nat
  BY <1>t, <1>2, OppNumbers
<1>4. \A r \in Routes : blacklist'[r] = IF r = Route(t) THEN Until(t) ELSE blacklist[r]
  BY <1>t, <1>1, <1>2 DEF Typed, TypeOK
<1>5. InBlockOrder(Route(t)) => blacklist[Route(t)] <= Until(t)
  BY <1>2 DEF SuppressionInv, Ahead
<1>6. \A r \in Routes : InBlockOrder(r) => blacklist'[r] >= blacklist[r]
  BY <1>3, <1>4, <1>5
<1>7. ASSUME NEW r \in Routes PROVE Marked(r)'
  <2>1. CASE r = Route(t)
    BY <1>1, <1>3, <1>4, <2>1 DEF Marked, Route
  <2>2. CASE r # Route(t)
    BY <1>1, <1>4, <2>2 DEF SuppressionInv, Ahead, Marked, Route
  <2> QED
    BY <2>1, <2>2
<1>8. ASSUME NEW u \in Tasks, Running(u)', InBlockOrder(Route(u))'
      PROVE  blacklist'[Route(u)'] <= Until(u)'
  <2>1. /\ Running(u) /\ Route(u)' = Route(u) /\ Until(u)' = Until(u)
        /\ InBlockOrder(Route(u))
    BY <1>t, <1>1, <1>2, <1>8 DEF Running, Route, Until, InBlockOrder, Typed, TypeOK, Active
  <2>2. Route(u) \in Routes /\ blacklist[Route(u)] <= Until(u)
    BY <1>t, <2>1, OppNumbers DEF SuppressionInv, Ahead
  <2>3. CASE u = t
    BY <1>3, <1>4, <2>1, <2>3
  <2>4. CASE u # t
    BY <1>2, <1>4, <2>1, <2>2, <2>4 DEF SuppressionInv, RouteInv, OneTaskPerRoute
  <2> QED
    BY <2>3, <2>4
<1> QED
  BY <1>6, <1>7, <1>8 DEF Ahead

\* A new opportunity starts no task yet.
LEMMA ReceiveExtends ==
  ASSUME SuppressionInv, NEW o \in Opp, Receive(o)
  PROVE  Ahead'
<1>t. Typed
  BY DEF SuppressionInv, RouteInv
<1>1. opps' = Append(opps, o) /\ UNCHANGED blacklist /\ opps \in Seq(Opp)
  BY <1>t DEF Receive, marks, Typed, TypeOK
<1>2. /\ Len(opps) \in Nat /\ Len(opps') = Len(opps) + 1
      /\ \A k \in 1..Len(opps) : k \in 1..Len(opps') /\ opps'[k] = opps[k]
  BY <1>1
<1>3. ASSUME NEW r \in Routes PROVE Marked(r)'
  BY <1>1, <1>2 DEF SuppressionInv, Ahead, Marked, Route
<1>4. ASSUME NEW u \in Tasks, Running(u)', InBlockOrder(Route(u))'
      PROVE  blacklist'[Route(u)'] <= Until(u)'
  <2>1. Running(u)
    BY <1>t, <1>4 DEF Receive, Running, Active, Typed, TypeOK, Refreshers
  <2>2. u \in 1..Len(opps) /\ opps'[u] = opps[u]
    BY <1>t, <1>2, <2>1, OppNumbers
  <2>3. InBlockOrder(Route(u))
    BY <1>2, <1>4, <2>2 DEF InBlockOrder, Route
  <2> QED
    BY <1>1, <2>1, <2>2, <2>3 DEF SuppressionInv, Ahead, Route, Until
<1> QED
  BY <1>3, <1>4 DEF Ahead

\* The task that is spawned is the newest opportunity's.
LEMMA InsertExtends ==
  ASSUME SuppressionInv, InsertInFlight
  PROVE  Ahead'
<1>t. Typed
  BY DEF SuppressionInv, RouteInv
<1>1. UNCHANGED <<opps, blacklist>> /\ Len(opps) \in Tasks /\ Newest = opps[Len(opps)]
  BY <1>t, Numbers DEF InsertInFlight, Newest
<1>2. \A u \in Tasks : Running(u)' => Running(u) \/ u = Len(opps)
  BY <1>t DEF InsertInFlight, Running, Active, Typed, TypeOK, Refreshers
<1>3. ASSUME NEW u \in Tasks, Running(u)', InBlockOrder(Route(u))
      PROVE  blacklist[Route(u)] <= Until(u)
  <2>1. CASE Running(u)
    BY <1>3, <2>1 DEF SuppressionInv, Ahead
  <2>2. CASE u = Len(opps)
    <3>1. /\ Len(opps) \in 1..Len(opps) /\ BlacklistBlocks \in Nat
          /\ \A k \in 1..Len(opps) : opps[k].block \in Nat /\ opps[k].route \in Routes
      BY <1>1, <1>t, OppNumbers DEF Tasks
    <3>2. Route(u) \in Routes /\ Until(u) \in Nat /\ Until(u) = opps[u].block + BlacklistBlocks
      BY <2>2, <3>1 DEF Route, Until
    <3>3. CASE blacklist[Route(u)] = 0
      BY <3>2, <3>3
    <3>4. CASE \E k \in 1..Len(opps) :
                 Route(k) = Route(u) /\ blacklist[Route(u)] <= opps[k].block + BlacklistBlocks
      <4>1. PICK k \in 1..Len(opps) :
              Route(k) = Route(u) /\ blacklist[Route(u)] <= opps[k].block + BlacklistBlocks
        BY <3>4
      <4>2. opps[k].block <= opps[u].block
        <5>1. CASE k < u
          BY <1>3, <2>2, <3>1, <4>1, <5>1 DEF InBlockOrder
        <5>2. CASE k = u
          BY <2>2, <3>1, <5>2
        <5> QED
          BY <2>2, <3>1, <5>1, <5>2
      <4>3. blacklist[Route(u)] \in Nat
        BY <1>t, <3>2, OppNumbers
      <4> QED
        BY <2>2, <3>1, <3>2, <4>1, <4>2, <4>3
    <3> QED
      BY <3>2, <3>3, <3>4 DEF SuppressionInv, Ahead, Marked
  <2> QED
    BY <1>2, <1>3, <2>1, <2>2
<1> QED
  BY <1>1, <1>3 DEF SuppressionInv, Ahead, Marked, Route, Until, InBlockOrder

\* Every step keeps the bounds, and none lowers the entry of a route whose
\* opportunities came in order.
LEMMA SuppressionStep ==
  SuppressionInv /\ [Next]_vars =>
    /\ SuppressionInv'
    /\ \A r \in Routes : InBlockOrder(r) => blacklist'[r] >= blacklist[r]
<1> SUFFICES ASSUME SuppressionInv, [Next]_vars
             PROVE  Ahead' /\ \A r \in Routes : InBlockOrder(r) => blacklist'[r] >= blacklist[r]
  BY RouteStep DEF SuppressionInv
<1>t. Typed
  BY DEF SuppressionInv, RouteInv
<1>n. pc \in [Refreshers -> Control] /\ Tasks \subseteq Refreshers
      /\ BalanceLoop \in Refreshers /\ BalanceLoop \notin Tasks
  BY <1>t, Numbers DEF Typed, TypeOK, Refreshers
<1>s. UNCHANGED blacklist => \A r \in Routes : blacklist'[r] >= blacklist[r]
  BY <1>t, OppNumbers
<1>1. ASSUME NEW o \in Opp, Receive(o) PROVE Ahead' /\ UNCHANGED blacklist
  BY <1>1, ReceiveExtends DEF Receive, marks
<1>2. CASE InsertInFlight
  BY <1>2, <1>s, InsertExtends DEF InsertInFlight
<1>3. ASSUME NEW t \in Tasks, Submit(t)
      PROVE  Ahead' /\ \A r \in Routes : InBlockOrder(r) => blacklist'[r] >= blacklist[r]
  <2>1. CASE Reverted(t)
    BY <2>1, RevertedExtends
  <2>2. CASE ~Reverted(t)
    <3>1. UNCHANGED <<opps, blacklist>>
      BY <1>3, <2>2 DEF Submit, DropStale, Send, LaneDown, Deliver, Collect, ResyncRead,
         ResyncFail, ResyncStore, Landed, NoReceipt, Refresh, ReadBalance, ReadFails,
         StoreBalance, Release, run, marks
    <3>2. Running(t) \/ UNCHANGED pc
      BY <1>3, <2>2, <1>t, Numbers DEF Submit, DropStale, Send, LaneDown, Deliver, Collect,
         ResyncRead, ResyncFail, ResyncStore, Landed, NoReceipt, Refresh, ReadBalance,
         ReadFails, StoreBalance, Release, BeginRefresh, Step, Running, Active
    <3>3. \A u \in Tasks : u # t => pc'[u] = pc[u]
      BY <1>3, <2>2, <1>n DEF Submit, DropStale, Send, LaneDown, Deliver, Collect,
         ResyncRead, ResyncFail, ResyncStore, Landed, NoReceipt, Refresh, ReadBalance,
         ReadFails, StoreBalance, Release, BeginRefresh, Step
    <3>4. \A u \in Tasks : Running(u)' => Running(u)
      BY <3>2, <3>3 DEF Running
    <3> QED
      BY <1>s, <3>1, <3>4, AheadKept
  <2> QED
    BY <2>1, <2>2
<1>4. CASE LoopBegins \/ Refresh(BalanceLoop) \/ NodeCatchesUp
  <2>1. UNCHANGED <<opps, blacklist>>
    BY <1>4 DEF LoopBegins, Refresh, ReadBalance, ReadFails, StoreBalance, NodeCatchesUp,
       run, marks
  <2>2. \A u \in Tasks : pc'[u] = pc[u]
    BY <1>4, <1>n DEF LoopBegins, BeginRefresh, Refresh, ReadBalance, ReadFails,
       StoreBalance, Step, NodeCatchesUp
  <2> QED
    BY <1>s, <2>1, <2>2, AheadKept DEF Running
<1>5. CASE UNCHANGED vars
  BY <1>5, <1>s, AheadKept DEF vars, Running
<1> QED
  BY <1>s, <1>1, <1>2, <1>3, <1>4, <1>5 DEF Next

\* The receipt of an older opportunity never cuts short what a newer one's has
\* suppressed, although receipts come in any order and each overwrites the
\* entry: in_flight keeps the receipts of one route in the order in which its
\* opportunities came.  Of a route whose opportunities came out of block order
\* nothing is said; SenderPromises.cfg shows its suppression cut short.
THEOREM SuppressionKeptInOrderTheorem == Spec => SuppressionKeptInOrder
<1>1. Init => SuppressionInv
  <2>1. Init => Ahead
    BY DEF Init, Ahead, Marked, Running, Active, Refreshers
  <2>2. Init => RouteInv
    <3>1. Init => \A t \in Tasks : pc[t] = "idle"
      BY DEF Init, Refreshers
    <3> QED
      BY <3>1, TypeInit DEF Init, RouteInv, OneTaskPerRoute, Running, Active
  <2> QED
    BY <2>1, <2>2 DEF SuppressionInv
<1>2. SuppressionInv /\ [Next]_vars => SuppressionInv'
  BY SuppressionStep
<1>3. SuppressionInv /\ [Next]_vars =>
        [\A r \in Routes : InBlockOrder(r) => blacklist'[r] >= blacklist[r]]_vars
  BY SuppressionStep
<1> QED
  BY <1>1, <1>2, <1>3, PTL DEF Spec, SuppressionKeptInOrder

=============================================================================
