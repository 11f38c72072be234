-------------------------- MODULE StateMemoProofs --------------------------
(***************************************************************************)
(* Proofs about StateMemo, for any pools and routes and any number of      *)
(* changes: what the memo holds is of the generation it was opened for     *)
(* when there is no poller, and a batch is announced with everything its   *)
(* quotes read, with the poller or without it.                             *)
(***************************************************************************)
EXTENDS StateMemo, TLAPS

\* A writer between two prefetches waits for nothing and holds nothing.
RestingWriters ==
  \A o \in Owners : pc[o] = "idle" => todo[o] = {} /\ got[o] = Nothing

\* The chain has moved on since the generation was opened, or not at all.
GenIsPast == \A p \in Pools : genVer[p] <= ver[p]

\* Without a poller, what is held is of this generation, and so is the memo.
OfThisGeneration ==
  dynamicFee = {} =>
    /\ pc["poller"] = "idle"
    /\ \A p \in Pools : got["pipeline"][p] # Unset => got["pipeline"][p] >= genVer[p]
    /\ \A p \in Pools : memo[p] # Unset => memo[p] >= genVer[p]

\* Every read of the prefetch under way is still to be answered, is held, has
\* failed or is in the memo.
FetchAccounted ==
  pc["pipeline"] = "fetch" =>
    \A p \in Neighborhood(batch["pipeline"]) :
      \/ p \in todo["pipeline"]
      \/ got["pipeline"][p] # Unset
      \/ p \in failed["pipeline"]
      \/ memo[p] # Unset

Typed == TypeOK /\ RestingWriters
MemoInv == Typed /\ GenIsPast /\ OfThisGeneration
FetchInv == Typed /\ FetchAccounted

-----------------------------------------------------------------------------
(* Type correctness.                                                       *)

\* What a pool set is quoted with are pools.
LEMMA NeighborhoodPools ==
  ASSUME NEW S \in SUBSET Pools
  PROVE  Neighborhood(S) \in SUBSET Pools
BY MemoAssumption DEF Neighborhood

\* The variables start with their types.
LEMMA TypeInit == Init => Typed
BY MemoAssumption
DEF Init, Typed, TypeOK, RestingWriters, Value, Nothing, Owners

\* A prefetch starts with every read of its neighborhood to be answered.
LEMMA PrefetchTyped ==
  ASSUME Typed, NEW o \in Owners, NEW S \in SUBSET Pools, pc[o] = "idle",
         StartPrefetch(o, S), UNCHANGED got
  PROVE  /\ pc' \in [Owners -> {"idle", "fetch"}]
         /\ batch' \in [Owners -> SUBSET Pools]
         /\ todo' \in [Owners -> SUBSET Pools]
         /\ failed' \in [Owners -> SUBSET Pools]
         /\ RestingWriters'
BY NeighborhoodPools DEF Typed, TypeOK, StartPrefetch, RestingWriters, Nothing

\* Every step of the chain, of the writers and of the evaluator keeps the types.
LEMMA TypeStep == Typed /\ [Next]_vars => Typed'
<1> SUFFICES ASSUME Typed, [Next]_vars PROVE Typed'
  OBVIOUS
<1>1. ASSUME NEW p \in Pools, Change(p) PROVE Typed'
  BY <1>1 DEF Change, Typed, TypeOK, RestingWriters, Nothing
<1>2. ASSUME NEW p \in Pools, Read(p) PROVE Typed'
  BY <1>2 DEF Read, Typed, TypeOK, RestingWriters, Nothing, Value
<1>3. ASSUME NEW S \in SUBSET Pools, Seal(S) PROVE Typed'
  <2>1. /\ pc' \in [Owners -> {"idle", "fetch"}] /\ batch' \in [Owners -> SUBSET Pools]
        /\ todo' \in [Owners -> SUBSET Pools] /\ failed' \in [Owners -> SUBSET Pools]
        /\ RestingWriters'
    BY <1>3, PrefetchTyped DEF Seal, Owners
  <2>2. ClearedMemo \in [Pools -> Value]
    BY DEF ClearedMemo, Nothing, Value
  <2> QED
    BY <1>3, <2>1, <2>2 DEF Seal, Typed, TypeOK
<1>4. ASSUME NEW S \in SUBSET Pools, Poll(S) PROVE Typed'
  <2>1. /\ pc' \in [Owners -> {"idle", "fetch"}] /\ batch' \in [Owners -> SUBSET Pools]
        /\ todo' \in [Owners -> SUBSET Pools] /\ failed' \in [Owners -> SUBSET Pools]
        /\ RestingWriters'
    BY <1>4, PrefetchTyped DEF Poll, Owners
  <2> QED
    BY <1>4, <2>1 DEF Poll, Typed, TypeOK
<1>5. ASSUME NEW o \in Owners, Announce(o) PROVE Typed'
  <2>1. changedQ' \in Seq(SUBSET Pools)
    BY <1>5 DEF Announce, Typed, TypeOK
  <2>2. RestingWriters'
    BY <1>5 DEF Announce, MayAnnounce, Prefetched, Typed, TypeOK, RestingWriters, Nothing
  <2> QED
    BY <1>5, <2>1, <2>2 DEF Announce, Typed, TypeOK
<1>6. ASSUME NEW o \in Owners, NEW p \in Pools, Answer(o, p) PROVE Typed'
  <2>1. got' \in [Owners -> [Pools -> Value]] /\ todo' \in [Owners -> SUBSET Pools]
    BY <1>6 DEF Answer, Typed, TypeOK, Value
  <2>2. RestingWriters'
    BY <1>6 DEF Answer, Typed, TypeOK, RestingWriters, Nothing
  <2> QED
    BY <1>6, <2>1, <2>2 DEF Answer, Typed, TypeOK
<1>7. ASSUME NEW o \in Owners, NEW p \in Pools, Fail(o, p) PROVE Typed'
  BY <1>7 DEF Fail, Typed, TypeOK, RestingWriters, Nothing
<1>8. ASSUME NEW o \in Owners, NEW p \in Pools, Insert(o, p) PROVE Typed'
  <2>1. got' \in [Owners -> [Pools -> Value]] /\ memo' \in [Pools -> Value]
    BY <1>8 DEF Insert, Typed, TypeOK, Value
  <2>2. RestingWriters'
    BY <1>8 DEF Insert, Typed, TypeOK, RestingWriters, Nothing
  <2> QED
    BY <1>8, <2>1, <2>2 DEF Insert, Typed, TypeOK
<1>9. CASE Evaluate \/ DropLate
  <2>1. Coalesced \in SUBSET Pools
    BY DEF Coalesced, Typed, TypeOK
  <2>2. changedQ' \in Seq(SUBSET Pools) /\ reading' \in SUBSET Pools /\ dropped' \in SUBSET Pools
    <3>1. Neighborhood(Coalesced) \in SUBSET Pools
      BY <2>1, NeighborhoodPools
    <3>2. << >> \in Seq(SUBSET Pools)
      OBVIOUS
    <3> QED
      BY <1>9, <2>1, <3>1, <3>2 DEF Evaluate, DropLate, Typed, TypeOK
  <2> QED
    BY <1>9, <2>2 DEF Evaluate, DropLate, Typed, TypeOK, RestingWriters, Nothing
<1>10. CASE UNCHANGED vars
  BY <1>10 DEF vars, Typed, TypeOK, RestingWriters, Nothing
<1> QED
  BY <1>1, <1>2, <1>3, <1>4, <1>5, <1>6, <1>7, <1>8, <1>9, <1>10 DEF Next

\* The memo, the channel and what the writers hold keep their types.
THEOREM TypeCorrect == Spec => []TypeOK
<1>1. Init => Typed
  BY TypeInit
<1>2. Typed /\ [Next]_vars => Typed'
  BY TypeStep
<1>3. Typed => TypeOK
  BY DEF Typed
<1> QED
  BY <1>1, <1>2, <1>3, PTL DEF Spec

-----------------------------------------------------------------------------
(* The memo is of its generation.                                          *)

\* The numbers of a pool.
LEMMA PoolNumbers ==
  ASSUME Typed, NEW p \in Pools
  PROVE  /\ ver[p] \in Nat /\ genVer[p] \in Nat
         /\ memo[p] \in Value
         /\ \A o \in Owners : got[o][p] \in Value
         /\ \A n \in Nat : n # Unset
BY MemoAssumption DEF Typed, TypeOK

\* A generation is opened with an empty memo and nothing on its way into it.
LEMMA SealKeeps ==
  ASSUME MemoInv, NEW S \in SUBSET Pools, Seal(S)
  PROVE  GenIsPast' /\ OfThisGeneration'
<1>1. /\ genVer' = ver /\ ver' = ver /\ memo' = Nothing /\ got' = got
      /\ dynamicFee' = dynamicFee /\ pc' = [pc EXCEPT !["pipeline"] = "fetch"]
      /\ pc["pipeline"] = "idle"
  BY DEF Seal, StartPrefetch, ClearedMemo
<1>2. got["pipeline"] = Nothing
  BY <1>1 DEF MemoInv, Typed, RestingWriters, Owners
<1>3. GenIsPast'
  <2>1. \A p \in Pools : ver[p] \in Nat
    BY PoolNumbers DEF MemoInv
  <2> QED
    BY <1>1, <2>1 DEF GenIsPast
<1>4. OfThisGeneration'
  BY <1>1, <1>2 DEF OfThisGeneration, Nothing, MemoInv, Typed, TypeOK, Owners
<1> QED
  BY <1>3, <1>4

\* Every step keeps the memo of its generation.
LEMMA MemoStep == MemoInv /\ [Next]_vars => MemoInv'
<1> SUFFICES ASSUME MemoInv, [Next]_vars PROVE GenIsPast' /\ OfThisGeneration'
  BY TypeStep DEF MemoInv
<1>t. Typed
  BY DEF MemoInv
<1>p. "pipeline" \in Owners /\ "poller" \in Owners
  BY DEF Owners
<1>1. ASSUME NEW p \in Pools, Change(p) PROVE GenIsPast' /\ OfThisGeneration'
  <2>1. \A q \in Pools : ver'[q] >= ver[q] /\ ver'[q] \in Nat
    BY <1>t, <1>1 DEF Change, Typed, TypeOK
  <2>2. GenIsPast'
    <3> SUFFICES ASSUME NEW q \in Pools PROVE genVer'[q] <= ver'[q]
      BY DEF GenIsPast
    <3>1. genVer'[q] = genVer[q] /\ genVer[q] <= ver[q] /\ ver[q] \in Nat /\ genVer[q] \in Nat
      BY <1>t, <1>1, PoolNumbers DEF Change, MemoInv, GenIsPast
    <3> QED
      BY <2>1, <3>1
  <2> QED
    BY <1>1, <2>2 DEF Change, MemoInv, OfThisGeneration
<1>2. ASSUME NEW S \in SUBSET Pools, Seal(S) PROVE GenIsPast' /\ OfThisGeneration'
  BY <1>2, SealKeeps
<1>3. ASSUME NEW S \in SUBSET Pools, Poll(S) PROVE GenIsPast' /\ OfThisGeneration'
  <2>1. dynamicFee' # {}
    BY <1>3 DEF Poll
  <2> QED
    BY <1>3, <2>1 DEF Poll, MemoInv, GenIsPast, OfThisGeneration
<1>4. ASSUME NEW o \in Owners, Announce(o) PROVE GenIsPast' /\ OfThisGeneration'
  BY <1>t, <1>p, <1>4 DEF Announce, MemoInv, GenIsPast, OfThisGeneration, Typed, TypeOK
<1>5. ASSUME NEW o \in Owners, NEW p \in Pools, Answer(o, p)
      PROVE  GenIsPast' /\ OfThisGeneration'
  <2>1. /\ got' = [got EXCEPT ![o][p] = ver[p]]
        /\ UNCHANGED <<dynamicFee, ver, genVer, pc, memo>>
    BY <1>5 DEF Answer
  <2>2. \A q \in Pools : got'["pipeline"][q] \in {got["pipeline"][q], ver[q]}
    BY <1>t, <1>p, <2>1 DEF Typed, TypeOK
  <2>3. \A q \in Pools : ver[q] >= genVer[q]
    BY <1>t, PoolNumbers DEF MemoInv, GenIsPast
  <2> QED
    BY <2>1, <2>2, <2>3 DEF MemoInv, GenIsPast, OfThisGeneration
<1>6. ASSUME NEW o \in Owners, NEW p \in Pools, Fail(o, p)
      PROVE  GenIsPast' /\ OfThisGeneration'
  BY <1>6 DEF Fail, MemoInv, GenIsPast, OfThisGeneration
<1>7. ASSUME NEW o \in Owners, NEW p \in Pools, Insert(o, p)
      PROVE  GenIsPast' /\ OfThisGeneration'
  <2>1. /\ got[o][p] # Unset
        /\ memo' = [memo EXCEPT ![p] = got[o][p]]
        /\ got' = [got EXCEPT ![o][p] = Unset]
        /\ UNCHANGED <<dynamicFee, ver, genVer, pc>>
    BY <1>7 DEF Insert
  <2>2. GenIsPast'
    BY <2>1 DEF MemoInv, GenIsPast
  <2>3. OfThisGeneration'
    <3> SUFFICES ASSUME dynamicFee = {} PROVE OfThisGeneration'
      BY <2>1 DEF OfThisGeneration
    <3>1. o = "pipeline"
      BY <1>p, <2>1 DEF MemoInv, OfThisGeneration, Typed, RestingWriters, Nothing, Owners
    <3>2. got["pipeline"][p] >= genVer[p]
      BY <2>1, <3>1 DEF MemoInv, OfThisGeneration
    <3>3. \A q \in Pools : memo'[q] \in {memo[q]} \/ (q = p /\ memo'[q] = got["pipeline"][p])
      BY <1>t, <2>1, <3>1 DEF Typed, TypeOK
    <3>4. \A q \in Pools : got'["pipeline"][q] \in {got["pipeline"][q], Unset}
      BY <1>t, <1>p, <2>1, <3>1 DEF Typed, TypeOK
    <3> QED
      BY <2>1, <3>2, <3>3, <3>4 DEF MemoInv, OfThisGeneration
  <2> QED
    BY <2>2, <2>3
<1>8. ASSUME NEW p \in Pools, Read(p) PROVE GenIsPast' /\ OfThisGeneration'
  BY <1>8 DEF Read, MemoInv, GenIsPast, OfThisGeneration
<1>9. CASE Evaluate \/ DropLate \/ UNCHANGED vars
  BY <1>9 DEF Evaluate, DropLate, vars, MemoInv, GenIsPast, OfThisGeneration
<1> QED
  BY <1>1, <1>2, <1>3, <1>4, <1>5, <1>6, <1>7, <1>8, <1>9 DEF Next

\* Where no poller writes the memo without opening a generation, a quote reads
\* nothing older than the block its generation was opened for
\* (state.rs:533-536), however late an answer comes: no seal begins while
\* another one's answers are on their way.
THEOREM MemoOfThisGenerationTheorem == Spec => []MemoOfThisGeneration
<1>1. Init => MemoInv
  <2>1. Init => GenIsPast /\ OfThisGeneration
    BY MemoAssumption DEF Init, GenIsPast, OfThisGeneration, Nothing, Owners
  <2> QED
    BY <2>1, TypeInit DEF MemoInv
<1>2. MemoInv /\ [Next]_vars => MemoInv'
  BY MemoStep
<1>3. MemoInv => MemoOfThisGeneration
  BY DEF MemoInv, OfThisGeneration, MemoOfThisGeneration
<1> QED
  BY <1>1, <1>2, <1>3, PTL DEF Spec

-----------------------------------------------------------------------------
(* A batch is announced with what its quotes read.                         *)

\* The memo loses entries in a seal only.
LEMMA FetchStep == FetchInv /\ [Next]_vars => FetchInv'
<1> SUFFICES ASSUME FetchInv, [Next]_vars PROVE FetchAccounted'
  BY TypeStep DEF FetchInv
<1>t. Typed
  BY DEF FetchInv
<1>p. "pipeline" \in Owners
  BY DEF Owners
<1>b. Neighborhood(batch["pipeline"]) \in SUBSET Pools
  BY <1>t, <1>p, NeighborhoodPools DEF Typed, TypeOK
<1>1. ASSUME NEW S \in SUBSET Pools, Seal(S) PROVE FetchAccounted'
  <2>1. batch'["pipeline"] = S /\ todo'["pipeline"] = Neighborhood(S)
    BY <1>t, <1>p, <1>1 DEF Seal, StartPrefetch, Typed, TypeOK
  <2> QED
    BY <2>1 DEF FetchAccounted, Neighborhood
<1>2. ASSUME NEW S \in SUBSET Pools, Poll(S) PROVE FetchAccounted'
  <2>1. /\ UNCHANGED <<got, memo>>
        /\ pc'["pipeline"] = pc["pipeline"] /\ batch'["pipeline"] = batch["pipeline"]
        /\ todo'["pipeline"] = todo["pipeline"] /\ failed'["pipeline"] = failed["pipeline"]
    BY <1>t, <1>p, <1>2 DEF Poll, StartPrefetch, Typed, TypeOK
  <2> QED
    BY <2>1 DEF FetchInv, FetchAccounted, Neighborhood
<1>3. ASSUME NEW o \in Owners, Announce(o) PROVE FetchAccounted'
  <2>1. /\ UNCHANGED <<got, memo, todo, failed>>
        /\ pc'["pipeline"] = "fetch" =>
             pc["pipeline"] = "fetch" /\ batch'["pipeline"] = batch["pipeline"]
    BY <1>t, <1>p, <1>3 DEF Announce, Typed, TypeOK, Owners
  <2> QED
    BY <2>1 DEF FetchInv, FetchAccounted, Neighborhood
<1>4. ASSUME NEW o \in Owners, NEW p \in Pools, Answer(o, p) PROVE FetchAccounted'
  <2>1. UNCHANGED <<pc, batch, memo, failed>>
    BY <1>4 DEF Answer
  <2>2. \A q \in Pools : q \in todo["pipeline"] =>
          q \in todo'["pipeline"] \/ got'["pipeline"][q] # Unset
    BY <1>t, <1>p, <1>4, PoolNumbers DEF Answer, Typed, TypeOK
  <2>3. \A q \in Pools : got["pipeline"][q] # Unset => got'["pipeline"][q] # Unset
    BY <1>t, <1>p, <1>4, PoolNumbers DEF Answer, Typed, TypeOK
  <2> QED
    BY <1>b, <2>1, <2>2, <2>3 DEF FetchInv, FetchAccounted, Neighborhood
<1>5. ASSUME NEW o \in Owners, NEW p \in Pools, Fail(o, p) PROVE FetchAccounted'
  <2>1. UNCHANGED <<pc, batch, memo, got>>
    BY <1>5 DEF Fail
  <2>2. \A q \in Pools : q \in todo["pipeline"] \cup failed["pipeline"] =>
          q \in todo'["pipeline"] \cup failed'["pipeline"]
    BY <1>t, <1>p, <1>5 DEF Fail, Typed, TypeOK
  <2> QED
    BY <1>b, <2>1, <2>2 DEF FetchInv, FetchAccounted, Neighborhood
<1>6. ASSUME NEW o \in Owners, NEW p \in Pools, Insert(o, p) PROVE FetchAccounted'
  <2>1. UNCHANGED <<pc, batch, todo, failed>>
    BY <1>6 DEF Insert
  <2>2. \A q \in Pools : got["pipeline"][q] # Unset =>
          got'["pipeline"][q] # Unset \/ memo'[q] # Unset
    BY <1>t, <1>p, <1>6 DEF Insert, Typed, TypeOK
  <2>3. \A q \in Pools : memo[q] # Unset => memo'[q] # Unset
    BY <1>t, <1>6 DEF Insert, Typed, TypeOK
  <2> QED
    BY <1>b, <2>1, <2>2, <2>3 DEF FetchInv, FetchAccounted, Neighborhood
<1>7. ASSUME NEW p \in Pools, Change(p) \/ Read(p) PROVE FetchAccounted'
  BY <1>7 DEF Change, Read, FetchInv, FetchAccounted, Neighborhood
<1>8. CASE Evaluate \/ DropLate \/ UNCHANGED vars
  BY <1>8 DEF Evaluate, DropLate, vars, FetchInv, FetchAccounted, Neighborhood
<1> QED
  BY <1>1, <1>2, <1>3, <1>4, <1>5, <1>6, <1>7, <1>8 DEF Next

\* Only the announcement ends a prefetch of the pipeline.
LEMMA AnnouncedIsFetched ==
  FetchInv /\ [Next]_vars =>
    \A p \in Pools :
      pc["pipeline"] = "fetch" /\ pc'["pipeline"] = "idle"
        /\ p \in Neighborhood(batch["pipeline"]) \ failed["pipeline"]
      => memo[p] # Unset
<1> SUFFICES ASSUME FetchInv, [Next]_vars, NEW p \in Pools,
                    pc["pipeline"] = "fetch", pc'["pipeline"] = "idle",
                    p \in Neighborhood(batch["pipeline"]) \ failed["pipeline"]
             PROVE  memo[p] # Unset
  OBVIOUS
<1>1. Announce("pipeline")
  BY DEF FetchInv, Typed, TypeOK, Next, Change, Read, Seal, Poll, StartPrefetch, Announce,
     Answer, Fail, Insert, Evaluate, DropLate, vars, Owners
<1>2. todo["pipeline"] = {} /\ got["pipeline"][p] = Unset
  BY <1>1 DEF Announce, MayAnnounce, Prefetched, Nothing
<1> QED
  BY <1>2 DEF FetchInv, FetchAccounted

\* When the pipeline announces a batch, every pool that its quotes read is in
\* the memo or its read failed, whatever the poller does meanwhile
\* (pipeline.rs:10-18).
THEOREM SealPrefetchesRoutesTheorem == Spec => SealPrefetchesRoutes
<1>1. Init => FetchInv
  <2>1. Init => FetchAccounted
    BY DEF Init, FetchAccounted, Owners
  <2> QED
    BY <2>1, TypeInit DEF FetchInv
<1>2. FetchInv /\ [Next]_vars => FetchInv'
  BY FetchStep
<1>3. FetchInv /\ [Next]_vars =>
        [\A p \in Pools :
           pc["pipeline"] = "fetch" /\ pc'["pipeline"] = "idle"
             /\ p \in Neighborhood(batch["pipeline"]) \ failed["pipeline"]
           => memo[p] # Unset]_vars
  BY AnnouncedIsFetched
<1> QED
  BY <1>1, <1>2, <1>3, PTL DEF Spec, SealPrefetchesRoutes

=============================================================================
