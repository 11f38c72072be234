------------------------- MODULE IngestSystemProofs -------------------------
(***************************************************************************)
(* Proofs about RpcBackend and about IngestSystem, which joins the         *)
(* pipeline to it, for any pools, chain and channel.                       *)
(*                                                                         *)
(* Of the backend: the types hold, no log at or below the cursor is lost   *)
(* in a way other than the two that overtaken and unreplayed record, the   *)
(* live stream hands over no log twice, and the backend implements         *)
(* EventFeed (its safety part).                                            *)
(*                                                                         *)
(* Of the composition: no change is forgotten, except where the backend    *)
(* passed its log by; and, as long as no header is told after a log of a   *)
(* later block, a batch covers the logs of its pools and, from the first   *)
(* block opened on, the tip never regresses.                               *)
(***************************************************************************)
EXTENDS IngestSystem, SequenceTheorems, FiniteSetTheorems, TLAPS

-----------------------------------------------------------------------------
(* The backend.                                                            *)

Waiting(p) == \E k \in 1..Len(logQ) : logQ[k] = p

\* What the queues of a connection hold: published, in the order of the chain.
QueuesInOrder ==
  /\ pushed <= Height
  /\ \A k \in 1..Len(headQ) : headQ[k] \in 1..pushed
  /\ \A k \in 1..Len(logQ) : OnChain(logQ[k]) /\ logQ[k][1] <= pushed
  /\ \A j, k \in 1..Len(logQ) : j < k => Lt(logQ[j], logQ[k])
  /\ phase \in {"heads", "subs", "replay"} => pushed = Height

CursorOnChain == cursor[1] <= Height /\ cursor[2] <= MaxIdx

\* The replay has told everything after the cursor up to its next chunk, and
\* the subscription holds everything above its end.
ReplayCovers ==
  phase = "replay" =>
    /\ replay.from <= replay.head
    /\ replay.head <= Height
    /\ \A b \in 1..Height : \A i \in 1..Len(chain[b]) :
         Watched(<<b, i>>) =>
           /\ Lt(cursor, <<b, i>>) /\ b < replay.from =>
                Accounted(<<b, i>>) \/ ~ReturnedByGetLogs(<<b, i>>)
           /\ b > replay.head => Waiting(<<b, i>>)

IInv ==
  /\ TypeOK
  /\ QueuesInOrder
  /\ CursorOnChain
  /\ ReplayCovers
  /\ NoEventLost
  /\ NoGapBeforeStream

-----------------------------------------------------------------------------
(* Facts about blocks and positions.                                       *)

\* A block has fewer logs than MaxIdx, so <<b, MaxIdx>> is above all of them.
LEMMA BlockLength ==
  ASSUME NEW block \in Block
  PROVE  /\ block \in Seq(Emitters)
         /\ Len(block) \in Nat
         /\ Len(block) < MaxIdx
<1> USE BackendAssumption
<1>1. PICK n \in 0..(MaxIdx - 1) : block \in [1..n -> Emitters]
  BY DEF Block
<1>2. block \in Seq(Emitters) /\ Len(block) = n
  BY <1>1
<1> QED
  BY <1>1, <1>2

\* Extending the chain keeps what was on it.
LEMMA ChainGrows ==
  ASSUME chain \in Seq(Block), NEW block \in Block,
         chain' = Append(chain, block)
  PROVE  /\ chain' \in Seq(Block)
         /\ Height \in Nat
         /\ Height' = Height + 1
         /\ chain'[Height + 1] = block
         /\ \A b \in 1..Height : chain'[b] = chain[b]
BY DEF Height

-----------------------------------------------------------------------------
(* Type correctness.                                                       *)

\* The variables start with their types.
LEMMA TypeInit == Init => TypeOK
<1> SUFFICES ASSUME Init PROVE TypeOK
  OBVIOUS
<1>1. << >> \in Block
  <2>1. << >> \in [1..0 -> Emitters]
    OBVIOUS
  <2>2. 0 \in 0..(MaxIdx - 1)
    BY BackendAssumption
  <2> QED
    BY <2>1, <2>2 DEF Block
<1>2. StartBlock \in Nat
  BY BackendAssumption
<1>3. chain \in [1..StartBlock -> Block]
  BY <1>1 DEF Init
<1>4. chain \in Seq(Block)
  BY <1>2, <1>3
<1> QED
  BY <1>4, BackendAssumption DEF Init, TypeOK, Phases, NoCursor

\* What no event has told of and the cursor has not passed is on the chain.
LEMMA UntoldType ==
  ASSUME TypeOK, NEW S \in SUBSET (Nat \X Nat)
  PROVE  Untold(S) \subseteq Nat \X Nat
BY DEF Untold

\* Every step of the node and of run_once keeps the types.
LEMMA TypeStep == TypeOK /\ [Next]_vars => TypeOK'
<1> SUFFICES ASSUME TypeOK, [Next]_vars PROVE TypeOK'
  OBVIOUS
<1> USE BackendAssumption DEF TypeOK, Phases
<1>1. ASSUME NEW block \in Block, MinePublished(block) PROVE TypeOK'
  <2>1. chain' \in Seq(Block) /\ Height \in Nat
    BY <1>1, ChainGrows DEF MinePublished
  <2>2. LogsOf(block) \in Seq(Nat \X Nat)
    BY <2>1, BlockLength DEF LogsOf
  <2>3. logQ' \in Seq(Nat \X Nat)
    <3>1. CASE logQ' = logQ
      BY <3>1
    <3>2. CASE logQ' = logQ \o LogsOf(block)
      BY <3>2, <2>2
    <3> QED
      BY <1>1, <3>1, <3>2 DEF MinePublished
  <2>4. headQ' \in Seq(Nat \ {0}) /\ pushed' \in Nat
    <3>1. Height + 1 \in Nat \ {0}
      BY <2>1
    <3>2. CASE headQ' = Append(headQ, Height + 1) /\ pushed' = Height + 1
      BY <3>1, <3>2
    <3>3. CASE UNCHANGED <<pushed, headQ>>
      BY <3>3
    <3> QED
      BY <1>1, <3>2, <3>3 DEF MinePublished
  <2> QED
    BY <1>1, <2>1, <2>3, <2>4 DEF MinePublished, passed
<1>2. ASSUME NEW block \in Block, MineUnseen(block) PROVE TypeOK'
  BY <1>2, ChainGrows DEF MineUnseen, passed
<1>3. ASSUME HangUp, drops' \in Nat PROVE TypeOK'
  BY <1>3 DEF HangUp, CursorKept, passed
<1>4. ASSUME Connect PROVE TypeOK'
  BY <1>4 DEF Connect, Height, passed
<1>5. ASSUME SubscribeLogs PROVE TypeOK'
  BY <1>5 DEF SubscribeLogs, passed
<1>6. ASSUME FirstConnect PROVE TypeOK'
  BY <1>6 DEF FirstConnect, SendResync, Height, passed
<1>7. ASSUME StartBackfill PROVE TypeOK'
  <2>1. Height \in Nat /\ ReplayFrom \in Nat
    BY DEF Height, ReplayFrom
  <2> QED
    BY <1>7, <2>1, SMTT(20) DEF StartBackfill, SendResync, passed
<1>8. ASSUME BackfillChunk PROVE TypeOK'
  <2>1. ChunkEnd \in Nat
    BY DEF ChunkEnd
  <2>2. ReplayedLogs \subseteq Nat \X Nat
    BY <2>1 DEF ReplayedLogs
  <2>3. cursor' \in Nat \X Nat /\ replay' \in [from : Nat, head : Nat]
    <3>1. CASE ChunkEnd = replay.head
      BY <1>8, <3>1 DEF BackfillChunk
    <3>2. CASE ChunkEnd # replay.head
      <4>1. replay' = [replay EXCEPT !.from = ChunkEnd + 1] /\ cursor' = cursor
        BY <1>8, <3>2 DEF BackfillChunk
      <4>2. ChunkEnd + 1 \in Nat
        BY <2>1
      <4> QED
        BY <4>1, <4>2
    <3> QED
      BY <3>1, <3>2
  <2>4. delivered' \subseteq Nat \X Nat
    BY <1>8, <2>2 DEF BackfillChunk
  <2>5. unreplayed' \subseteq Nat \X Nat
    <3>1. ReplayFrom \in Nat /\ replay.head \in Nat
      BY DEF ReplayFrom
    <3>2. {p \in (ReplayFrom..replay.head) \X (1..MaxIdx) :
             OnChain(p) /\ ~ReturnedByGetLogs(p)} \in SUBSET (Nat \X Nat)
      BY <3>1
    <3>3. Unreplayed \subseteq Nat \X Nat
      BY <3>2, UntoldType DEF Unreplayed
    <3>4. unreplayed' = unreplayed \/ unreplayed' = unreplayed \cup Unreplayed
      BY <1>8 DEF BackfillChunk
    <3> QED
      BY <3>3, <3>4
  <2> QED
    BY <1>8, <2>3, <2>4, <2>5 DEF BackfillChunk
<1>9. ASSUME TakeHeader PROVE TypeOK'
  <2>1. Head(headQ) \in Nat \ {0} /\ Tail(headQ) \in Seq(Nat \ {0})
    BY <1>9 DEF TakeHeader
  <2>2. CompletedBy(Head(headQ)) \in Nat \X Nat
    <3>1. Head(headQ) - 1 \in Nat
      BY <2>1
    <3> HIDE DEF TypeOK
    <3> QED
      BY <3>1 DEF CompletedBy
  <2>3. Overtaken(Head(headQ)) \subseteq Nat \X Nat
    <3> DEFINE S == {logQ[k] : k \in {i \in 1..Len(logQ) : logQ[i][1] < Head(headQ)}}
    <3>1. S \in SUBSET (Nat \X Nat)
      OBVIOUS
    <3>2. Untold(S) \subseteq Nat \X Nat
      BY <3>1, UntoldType
    <3> QED
      BY <3>2 DEF Overtaken
  <2> QED
    BY <1>9, <2>1, <2>2, <2>3 DEF TakeHeader
<1>10. ASSUME TakeLog PROVE TypeOK'
  <2>1. Head(logQ) \in Nat \X Nat /\ Tail(logQ) \in Seq(Nat \X Nat)
    BY <1>10 DEF TakeLog
  <2> QED
    BY <1>10, <2>1 DEF TakeLog, passed
<1>11. ASSUME UNCHANGED vars PROVE TypeOK'
  BY <1>11 DEF vars, passed
<1>12. Disconnect \/ Watchdog => HangUp /\ drops' \in Nat
  BY DEF Disconnect, Watchdog
<1> HIDE DEF TypeOK
<1> QED
  BY <1>1, <1>2, <1>3, <1>4, <1>5, <1>6, <1>7, <1>8, <1>9, <1>10, <1>11, <1>12
  DEF Next, Client

\* Every variable of the backend keeps its type, for every node, pool set,
\* replay limit and chunk size.
THEOREM TypeCorrect == Spec => []TypeOK
<1>1. Init => TypeOK
  BY TypeInit
<1>2. TypeOK /\ [Next]_vars => TypeOK'
  BY TypeStep
<1> QED
  BY <1>1, <1>2, PTL DEF Spec

-----------------------------------------------------------------------------
(* No event is lost.                                                       *)

\* Log numbers stay below MaxIdx.
LEMMA LogIndex ==
  ASSUME TypeOK, NEW b \in 1..Height, NEW i \in 1..Len(chain[b])
  PROVE  /\ b \in Nat /\ i \in Nat
         /\ i < MaxIdx /\ MaxIdx \in Nat
<1>1. chain[b] \in Block /\ b \in Nat
  BY DEF TypeOK, Height
<1> QED
  BY <1>1, BlockLength, BackendAssumption

\* The numbers of a well-typed state.
LEMMA Numbers ==
  ASSUME TypeOK
  PROVE  /\ Height \in Nat /\ pushed \in Nat /\ resynced \in Nat
         /\ cursor = <<cursor[1], cursor[2]>>
         /\ cursor[1] \in Nat /\ cursor[2] \in Nat
         /\ replay.from \in Nat /\ replay.head \in Nat
         /\ MaxIdx \in Nat \ {0} /\ Chunk \in Nat \ {0}
BY BackendAssumption DEF TypeOK, Height

\* A subscription's queue after a block: what it held, then the block's logs.
LEMMA QueueGrows ==
  ASSUME TypeOK, NEW block \in Block, logQ' = logQ \o LogsOf(block)
  PROVE  /\ Len(logQ) \in Nat /\ Len(block) \in Nat
         /\ Len(logQ') = Len(logQ) + Len(block)
         /\ \A k \in 1..Len(logQ) : logQ'[k] = logQ[k]
         /\ \A i \in 1..Len(block) : logQ'[Len(logQ) + i] = <<Height + 1, i>>
<1>1. Height \in Nat /\ logQ \in Seq(Nat \X Nat)
  BY DEF Height, TypeOK
<1>2. Len(block) \in Nat
  BY BlockLength
<1>3. LogsOf(block) \in Seq(Nat \X Nat) /\ Len(LogsOf(block)) = Len(block)
  BY <1>1, <1>2 DEF LogsOf
<1>4. \A i \in 1..Len(block) : LogsOf(block)[i] = <<Height + 1, i>>
  BY DEF LogsOf
<1> DEFINE L == LogsOf(block)
<1> HIDE DEF L
<1>a. /\ logQ' = logQ \o L /\ L \in Seq(Nat \X Nat) /\ Len(L) = Len(block)
      /\ \A i \in 1..Len(block) : L[i] = <<Height + 1, i>>
  BY <1>3, <1>4 DEF L
<1>5. Len(logQ) \in Nat /\ Len(logQ') = Len(logQ) + Len(block)
  <2>1. Len(logQ \o L) = Len(logQ) + Len(L)
    BY <1>1, <1>a, ConcatProperties
  <2>2. Len(logQ) \in Nat
    BY <1>1
  <2> QED
    BY <1>a, <2>1, <2>2
<1>6. \A k \in 1..Len(logQ) : logQ'[k] = logQ[k]
  BY <1>1, <1>a
<1>7. ASSUME NEW i \in 1..Len(block) PROVE logQ'[Len(logQ) + i] = <<Height + 1, i>>
  <2>1. logQ'[Len(logQ) + i] = L[i]
    BY <1>1, <1>2, <1>a, <1>5
  <2> QED
    BY <1>a, <2>1
<1> QED
  BY <1>2, <1>5, <1>6, <1>7

\* The headers of a subscription after a block.
LEMMA HeadersGrow ==
  ASSUME TypeOK, headQ' = Append(headQ, Height + 1), pushed <= Height,
         \A k \in 1..Len(headQ) : headQ[k] \in 1..pushed
  PROVE  \A k \in 1..Len(headQ') : headQ'[k] \in 1..(Height + 1)
<1>1. headQ \in Seq(Nat \ {0})
  BY DEF TypeOK
<1>2. Height \in Nat /\ pushed \in Nat
  BY Numbers
<1>3. Len(headQ') = Len(headQ) + 1 /\ headQ'[Len(headQ) + 1] = Height + 1
  BY <1>1, <1>2
<1>4. \A k \in 1..Len(headQ) : headQ'[k] = headQ[k]
  BY <1>1, <1>2
<1> QED
  BY <1>1, <1>2, <1>3, <1>4

\* Mining a block: the old positions keep their status, and the new ones are
\* above the cursor.
LEMMA MiningKeeps ==
  ASSUME IInv, NEW block \in Block, chain' = Append(chain, block),
         UNCHANGED <<cursor, delivered, resynced, overtaken, unreplayed>>
  PROVE  /\ Height \in Nat /\ Height' = Height + 1
         /\ chain'[Height + 1] = block
         /\ \A b \in 1..Height : chain'[b] = chain[b]
         /\ \A b \in 1..Height' : b \in 1..Height \/ b = Height + 1
         /\ \A b \in 1..Height : \A i \in 1..Len(chain'[b]) :
              /\ i \in 1..Len(chain[b])
              /\ Watched(<<b, i>>)' <=> Watched(<<b, i>>)
         /\ CursorOnChain'
         /\ NoEventLost'
<1> USE DEF IInv
<1>1. /\ Height \in Nat /\ Height' = Height + 1
      /\ chain'[Height + 1] = block
      /\ \A b \in 1..Height : chain'[b] = chain[b]
  BY ChainGrows DEF TypeOK
<1>2. \A b \in 1..Height : \A i \in 1..Len(chain'[b]) :
        /\ i \in 1..Len(chain[b])
        /\ Watched(<<b, i>>)' <=> Watched(<<b, i>>)
  <2> SUFFICES ASSUME NEW b \in 1..Height, NEW i \in 1..Len(chain'[b])
               PROVE  /\ i \in 1..Len(chain[b])
                      /\ Watched(<<b, i>>)' <=> Watched(<<b, i>>)
    OBVIOUS
  <2> HIDE DEF IInv
  <2>1. chain'[b] = chain[b]
    BY <1>1
  <2>2. b \in 1..Height'
    BY <1>1
  <2> QED
    BY <2>1, <2>2 DEF Watched, OnChain, Resolves, Emitter
<1>4. \A b \in 1..Height' : b \in 1..Height \/ b = Height + 1
  BY <1>1
<1>5. CursorOnChain'
  BY <1>1, Numbers DEF CursorOnChain
<1>6. NoEventLost'
  <2> SUFFICES ASSUME NEW b \in 1..Height', NEW i \in 1..Len(chain'[b]),
                      Watched(<<b, i>>)', Leq(<<b, i>>, cursor)
               PROVE  Accounted(<<b, i>>)
    BY DEF NoEventLost, Accounted, Told, PassedBy, Leq
  <2>1. b \in 1..Height
    BY <1>1, <1>4, Numbers, SMTT(40) DEF CursorOnChain, Leq
  <2> QED
    BY <2>1, <1>2 DEF NoEventLost
<1> QED
  BY <1>1, <1>2, <1>4, <1>5, <1>6

\* A published block: its logs are in the queue.
LEMMA MinePublishedKeeps ==
  ASSUME IInv, TypeOK', NEW block \in Block, MinePublished(block)
  PROVE  IInv'
<1> USE DEF IInv
<1>3. UNCHANGED <<cursor, phase, replay, delivered, resynced, overtaken, unreplayed>>
  BY DEF MinePublished, passed
<1>1. /\ Height \in Nat /\ Height' = Height + 1
      /\ chain'[Height + 1] = block
      /\ \A b \in 1..Height : chain'[b] = chain[b]
  BY MiningKeeps, <1>3 DEF MinePublished
<1>2. \A b \in 1..Height : \A i \in 1..Len(chain'[b]) :
        /\ i \in 1..Len(chain[b])
        /\ Watched(<<b, i>>)' <=> Watched(<<b, i>>)
  BY MiningKeeps, <1>3 DEF MinePublished
<1>4. \A b \in 1..Height' : b \in 1..Height \/ b = Height + 1
  BY <1>1
<1>5. CursorOnChain' /\ NoEventLost'
  BY MiningKeeps, <1>3 DEF MinePublished
<1>7. CASE phase \in {"subs", "replay", "live"} /\ pushed = Height
  <2>1. /\ pushed' = Height + 1
        /\ headQ' = Append(headQ, Height + 1)
        /\ logQ' = logQ \o LogsOf(block)
    BY <1>7 DEF MinePublished
  <2>2. /\ Len(logQ) \in Nat /\ Len(block) \in Nat
        /\ Len(logQ') = Len(logQ) + Len(block)
        /\ \A k \in 1..Len(logQ) : logQ'[k] = logQ[k]
        /\ \A i \in 1..Len(block) : logQ'[Len(logQ) + i] = <<Height + 1, i>>
    BY <2>1, QueueGrows
  <2>3. \A p : Waiting(p) => Waiting(p)'
    BY <2>2 DEF Waiting
  <2>4. ASSUME NEW b, b = Height + 1, NEW i \in 1..Len(block)
        PROVE  Waiting(<<b, i>>)'
    <3>1. Len(logQ) + i \in 1..Len(logQ') /\ logQ'[Len(logQ) + i] = <<b, i>>
      BY <2>2, <2>4
    <3> QED
      BY <3>1 DEF Waiting
  <2>5. \A k \in 1..Len(logQ') :
          \/ k \in 1..Len(logQ) /\ logQ'[k] = logQ[k]
          \/ /\ k - Len(logQ) \in 1..Len(block)
             /\ logQ'[k] = <<Height + 1, k - Len(logQ)>>
    <3> TAKE k \in 1..Len(logQ')
    <3>1. CASE k <= Len(logQ)
      BY <2>2, <3>1
    <3>2. CASE k > Len(logQ)
      <4>1. k - Len(logQ) \in 1..Len(block) /\ k = Len(logQ) + (k - Len(logQ))
        BY <2>2, <3>2
      <4> QED
        BY <2>2, <4>1
    <3> QED
      BY <2>2, <3>1, <3>2
  <2>6. QueuesInOrder'
    <3>1. pushed' <= Height' /\ pushed' = Height'
      BY <2>1, <1>1
    <3>2. \A k \in 1..Len(headQ') : headQ'[k] \in 1..pushed'
      BY <2>1, <1>1, <1>7, HeadersGrow DEF QueuesInOrder
    <3>3. \A k \in 1..Len(logQ') : (OnChain(logQ[k]))' /\ logQ'[k][1] <= pushed'
      <4> TAKE k \in 1..Len(logQ')
      <4>1. CASE k \in 1..Len(logQ) /\ logQ'[k] = logQ[k]
        <5>1. OnChain(logQ[k]) /\ logQ[k][1] \in 1..Height
          BY <4>1 DEF QueuesInOrder, OnChain
        <5>2. chain'[logQ[k][1]] = chain[logQ[k][1]] /\ logQ[k][1] \in 1..Height'
          BY <5>1, <1>1
        <5> QED
          BY <4>1, <5>1, <5>2, <1>1, <2>1 DEF OnChain
      <4>2. CASE k - Len(logQ) \in 1..Len(block) /\ logQ'[k] = <<Height + 1, k - Len(logQ)>>
        <5>1. k - Len(logQ) \in 1..Len(chain'[Height + 1]) /\ Height + 1 \in 1..Height'
          BY <4>2, <1>1
        <5> QED
          BY <4>2, <5>1, <1>1, <2>1 DEF OnChain
      <4> QED
        BY <2>5, <4>1, <4>2
    <3>4. \A j, k \in 1..Len(logQ') : j < k => Lt(logQ'[j], logQ'[k])
      <4> SUFFICES ASSUME NEW j \in 1..Len(logQ'), NEW k \in 1..Len(logQ'), j < k
                   PROVE  Lt(logQ'[j], logQ'[k])
        OBVIOUS
      <4>1. CASE k \in 1..Len(logQ) /\ logQ'[k] = logQ[k]
        <5>1. j \in 1..Len(logQ) /\ logQ'[j] = logQ[j]
          BY <4>1, <2>2
        <5> QED
          BY <4>1, <5>1 DEF QueuesInOrder
      <4>2. CASE k - Len(logQ) \in 1..Len(block) /\ logQ'[k] = <<Height + 1, k - Len(logQ)>>
        <5>1. CASE j \in 1..Len(logQ) /\ logQ'[j] = logQ[j]
          <6>1. logQ[j][1] \in 1..Height
            BY <5>1 DEF QueuesInOrder, OnChain
          <6> QED
            BY <4>2, <5>1, <6>1, <1>1 DEF Lt
        <5>2. CASE j - Len(logQ) \in 1..Len(block) /\ logQ'[j] = <<Height + 1, j - Len(logQ)>>
          <6>1. j - Len(logQ) < k - Len(logQ)
            BY <2>2
          <6> QED
            BY <4>2, <5>2, <6>1 DEF Lt
        <5> QED
          BY <2>5, <5>1, <5>2
      <4> QED
        BY <2>5, <4>1, <4>2
    <3> QED
      BY <3>1, <3>2, <3>3, <3>4 DEF QueuesInOrder
  <2>7. NoGapBeforeStream'
    <3> SUFFICES ASSUME phase = "live", NEW b \in 1..Height',
                        NEW i \in 1..Len(chain'[b]), Watched(<<b, i>>)'
                 PROVE  Accounted(<<b, i>>) \/ Waiting(<<b, i>>)'
      BY <1>3 DEF NoGapBeforeStream, Accounted, Told, PassedBy, Waiting
    <3>1. CASE b \in 1..Height
      <4>1. Watched(<<b, i>>) /\ b <= pushed /\ i \in 1..Len(chain[b])
        BY <3>1, <1>2, <1>7
      <4>2. Accounted(<<b, i>>) \/ Waiting(<<b, i>>)
        BY <3>1, <4>1 DEF NoGapBeforeStream, Waiting
      <4> QED
        BY <4>2, <2>3
    <3>2. CASE b = Height + 1
      BY <3>2, <1>1, <2>4
    <3> QED
      BY <1>4, <3>1, <3>2
  <2>8. ReplayCovers'
    <3> SUFFICES ASSUME phase = "replay"
                 PROVE  ReplayCovers'
      BY <1>3 DEF ReplayCovers
    <3>1. replay.from <= replay.head /\ replay.head <= Height
          /\ replay.from \in Nat /\ replay.head \in Nat
      BY DEF ReplayCovers, TypeOK
    <3>2. ASSUME NEW b \in 1..Height', NEW i \in 1..Len(chain'[b]), Watched(<<b, i>>)'
          PROVE  /\ Lt(cursor, <<b, i>>) /\ b < replay.from =>
                      Accounted(<<b, i>>) \/ ~ReturnedByGetLogs(<<b, i>>)'
                 /\ b > replay.head => Waiting(<<b, i>>)'
      <4>1. CASE b \in 1..Height
        <5>1. ReturnedByGetLogs(<<b, i>>)' <=> ReturnedByGetLogs(<<b, i>>)
          BY <1>1, <1>2, <4>1, Numbers DEF ReturnedByGetLogs, OnChain, Emitter
        <5> QED
          BY <3>2, <4>1, <5>1, <1>2, <2>3 DEF ReplayCovers
      <4>2. CASE b = Height + 1
        BY <4>2, <1>1, <2>4, <3>1
      <4> QED
        BY <1>4, <4>1, <4>2
    <3> QED
      BY <1>1, <1>3, <3>1, <3>2 DEF ReplayCovers, Accounted, Told, PassedBy, Lt
  <2> QED
    BY <1>5, <2>6, <2>7, <2>8
<1>8. CASE phase = "heads" \/ ((phase = "down" \/ pushed # Height) /\ phase # "heads")
  <2>1. /\ UNCHANGED logQ
        /\ UNCHANGED pushed \/ pushed' = Height + 1
        /\ UNCHANGED headQ \/ (headQ' = Append(headQ, Height + 1) /\ pushed' = Height + 1)
        /\ phase = "heads" => pushed' = Height + 1
        /\ phase # "heads" => UNCHANGED <<pushed, headQ>>
    BY <1>8 DEF MinePublished, QueuesInOrder
  <2>2. pushed <= pushed' /\ pushed' <= Height'
    <3>1. pushed <= Height /\ pushed \in Nat /\ Height \in Nat
      BY Numbers DEF QueuesInOrder
    <3> QED
      BY <1>1, <2>1, <3>1
  <2>3. QueuesInOrder'
    <3>1. \A k \in 1..Len(headQ') : headQ'[k] \in 1..pushed'
      BY <2>1, <1>1, HeadersGrow DEF QueuesInOrder
    <3>2. \A k \in 1..Len(logQ') : (OnChain(logQ[k]))' /\ logQ'[k][1] <= pushed'
      <4> TAKE k \in 1..Len(logQ')
      <4>1. /\ logQ'[k] = logQ[k] /\ OnChain(logQ[k])
            /\ logQ[k][1] <= pushed /\ logQ[k][1] \in 1..Height
        BY <2>1 DEF QueuesInOrder, OnChain
      <4>2. chain'[logQ[k][1]] = chain[logQ[k][1]] /\ logQ[k][1] \in 1..Height'
        BY <4>1, <1>1
      <4>3. logQ[k][1] <= pushed'
        <5>1. logQ[k][1] \in Nat /\ pushed \in Nat /\ pushed' \in Nat
          <6>1. pushed' \in Nat
            BY TypeOK' DEF TypeOK
          <6> QED
            BY <4>1, <6>1, Numbers, SMTT(20)
        <5> QED
          BY <4>1, <2>2, <5>1
      <4> QED
        BY <4>1, <4>2, <4>3 DEF OnChain
    <3>3. phase \in {"heads", "subs", "replay"} => pushed' = Height'
      BY <1>1, <1>8, <2>1 DEF QueuesInOrder
    <3> QED
      BY <1>3, <2>1, <2>2, <3>1, <3>2, <3>3 DEF QueuesInOrder
  <2>4. phase # "replay"
    BY <1>8 DEF QueuesInOrder
  <2>5. ReplayCovers'
    BY <1>3, <2>4 DEF ReplayCovers
  <2>6. NoGapBeforeStream'
    <3> SUFFICES ASSUME phase = "live", NEW b \in 1..Height',
                        NEW i \in 1..Len(chain'[b]), Watched(<<b, i>>)', b <= pushed
                 PROVE  Accounted(<<b, i>>) \/ Waiting(<<b, i>>)
      BY <1>3, <2>1 DEF NoGapBeforeStream, Accounted, Told, PassedBy, Waiting
    <3>1. pushed <= Height /\ pushed \in Nat /\ Height \in Nat
      BY Numbers DEF QueuesInOrder
    <3>2. b \in 1..Height
      BY <3>1
    <3> QED
      BY <3>2, <1>2 DEF NoGapBeforeStream, Waiting
  <2> QED
    BY <1>5, <2>3, <2>5, <2>6
<1> QED
  BY <1>7, <1>8 DEF TypeOK, Phases

\* A block on a dead connection: nothing of it is published.
LEMMA MineUnseenKeeps ==
  ASSUME IInv, TypeOK', NEW block \in Block, MineUnseen(block)
  PROVE  IInv'
<1> USE DEF IInv
<1>1. /\ phase = "live"
      /\ UNCHANGED <<phase, headQ, logQ, pushed, cursor, replay, delivered, resynced, overtaken, unreplayed>>
  BY DEF MineUnseen, passed
<1>2. /\ Height \in Nat /\ Height' = Height + 1
      /\ \A b \in 1..Height : chain'[b] = chain[b]
      /\ \A b \in 1..Height' : b \in 1..Height \/ b = Height + 1
      /\ \A b \in 1..Height : \A i \in 1..Len(chain'[b]) :
           /\ i \in 1..Len(chain[b])
           /\ Watched(<<b, i>>)' <=> Watched(<<b, i>>)
  BY MiningKeeps, <1>1 DEF MineUnseen
<1>3. CursorOnChain' /\ NoEventLost'
  BY MiningKeeps, <1>1 DEF MineUnseen
<1>4. QueuesInOrder'
  <2>1. pushed' <= Height'
    BY <1>1, <1>2, Numbers DEF QueuesInOrder
  <2>2. \A k \in 1..Len(logQ') : (OnChain(logQ[k]))' /\ logQ'[k][1] <= pushed'
    <3> TAKE k \in 1..Len(logQ')
    <3>1. /\ logQ'[k] = logQ[k] /\ OnChain(logQ[k])
          /\ logQ[k][1] <= pushed /\ logQ[k][1] \in 1..Height
      BY <1>1 DEF QueuesInOrder, OnChain
    <3>2. chain'[logQ[k][1]] = chain[logQ[k][1]] /\ logQ[k][1] \in 1..Height'
      BY <3>1, <1>2
    <3> QED
      BY <1>1, <3>1, <3>2 DEF OnChain
  <2> QED
    BY <1>1, <2>1, <2>2 DEF QueuesInOrder
<1>5. NoGapBeforeStream'
  <2> SUFFICES ASSUME NEW b \in 1..Height', NEW i \in 1..Len(chain'[b]),
                      Watched(<<b, i>>)', b <= pushed
               PROVE  Accounted(<<b, i>>) \/ Waiting(<<b, i>>)
    BY <1>1 DEF NoGapBeforeStream, Accounted, Told, PassedBy, Waiting
  <2>1. b \in 1..Height
    BY <1>2, Numbers DEF QueuesInOrder
  <2> QED
    BY <2>1, <1>1, <1>2 DEF NoGapBeforeStream, Waiting
<1>6. ReplayCovers'
  BY <1>1 DEF ReplayCovers
<1> QED
  BY <1>3, <1>4, <1>5, <1>6

\* Losing the connection: the queues are gone, the cursor and what was told
\* are kept.
LEMMA HangUpKeeps ==
  ASSUME IInv, TypeOK', HangUp
  PROVE  IInv'
<1> USE DEF IInv
<1>1. /\ phase' = "down" /\ headQ' = << >> /\ logQ' = << >>
      /\ UNCHANGED <<chain, pushed, cursor, replay, delivered, resynced, overtaken, unreplayed>>
  BY DEF HangUp, CursorKept, passed
<1>2. QueuesInOrder'
  BY <1>1 DEF QueuesInOrder, Height
<1>3. CursorOnChain' /\ NoEventLost'
  BY <1>1 DEF CursorOnChain, NoEventLost, Height, Watched, OnChain, Resolves,
              Emitter, Accounted, Told, PassedBy, Leq
<1> QED
  BY <1>1, <1>2, <1>3 DEF ReplayCovers, NoGapBeforeStream

\* Connecting and subscribing change nothing that was told.
LEMMA ConnectKeeps ==
  ASSUME IInv, TypeOK', Connect \/ SubscribeLogs
  PROVE  IInv'
<1> USE DEF IInv
<1>1. /\ phase' \in {"heads", "subs"}
      /\ UNCHANGED <<chain, headQ, logQ, cursor, replay, delivered, resynced, overtaken, unreplayed>>
      /\ pushed' = Height /\ pushed <= pushed'
  BY Numbers DEF Connect, SubscribeLogs, QueuesInOrder, passed
<1>2. QueuesInOrder'
  <2>1. \A k \in 1..Len(headQ) : headQ[k] \in 1..pushed'
    BY <1>1, Numbers DEF QueuesInOrder
  <2>2. \A k \in 1..Len(logQ) : OnChain(logQ[k]) /\ logQ[k][1] <= pushed'
    BY <1>1, Numbers DEF QueuesInOrder, OnChain
  <2>3. pushed' <= Height' /\ pushed' = Height'
    BY <1>1, Numbers DEF Height
  <2> QED
    BY <1>1, <2>1, <2>2, <2>3 DEF QueuesInOrder, OnChain, Height
<1>3. CursorOnChain' /\ NoEventLost'
  BY <1>1 DEF CursorOnChain, NoEventLost, Height, Watched, OnChain, Resolves,
              Emitter, Accounted, Told, PassedBy, Leq
<1> QED
  BY <1>1, <1>2, <1>3 DEF ReplayCovers, NoGapBeforeStream

\* Every log on the chain that the first Resync follows is covered by it.
LEMMA FirstConnectKeeps ==
  ASSUME IInv, TypeOK', FirstConnect
  PROVE  IInv'
<1> USE DEF IInv
<1>1. /\ phase = "subs" /\ phase' = "live" /\ resynced' = Height
      /\ cursor = NoCursor
      /\ UNCHANGED <<chain, headQ, logQ, pushed, cursor, replay, delivered,
                     overtaken, unreplayed>>
  BY DEF FirstConnect, SendResync, passed
<1>2. QueuesInOrder' /\ CursorOnChain'
  BY <1>1 DEF QueuesInOrder, CursorOnChain, OnChain, Height
<1>3. \A b \in 1..Height : \A i \in 1..Len(chain[b]) : Accounted(<<b, i>>)'
  BY <1>1, Numbers DEF Accounted, Told, PassedBy
<1>4. NoEventLost' /\ NoGapBeforeStream'
  BY <1>1, <1>3 DEF NoEventLost, NoGapBeforeStream, Height
<1> QED
  BY <1>1, <1>2, <1>4 DEF ReplayCovers

\* Starting a replay: the subscription will hold what is above its end, and
\* what the cursor has passed needs no replay.
LEMMA StartBackfillKeeps ==
  ASSUME IInv, TypeOK', StartBackfill
  PROVE  IInv'
<1> USE DEF IInv
<1>1. /\ phase = "subs"
      /\ UNCHANGED <<chain, headQ, logQ, pushed, delivered, overtaken, unreplayed>>
      /\ Height' = Height
  <2>1. phase = "subs" /\ UNCHANGED <<chain, headQ, logQ, pushed, overtaken, unreplayed>>
    BY DEF StartBackfill, passed
  <2>2. UNCHANGED delivered
    BY DEF StartBackfill, SendResync
  <2> QED
    BY <2>1, <2>2 DEF Height
<1>2. QueuesInOrder'
  BY <1>1 DEF QueuesInOrder, OnChain, StartBackfill
<1>3. \A b \in 1..Height : \A i \in 1..Len(chain[b]) :
        Lt(cursor, <<b, i>>) => b >= ReplayFrom
  BY LogIndex, Numbers DEF Lt, ReplayFrom
<1>4. \A b, i \in Nat : Lt(cursor, <<b, i>>) \/ Leq(<<b, i>>, cursor)
  BY Numbers DEF Lt, Leq
<1>5. Height \in Nat /\ ReplayFrom \in Nat
  BY Numbers DEF ReplayFrom
<1>6. CASE ReplayFrom > Height
  <2>1. phase' = "live" /\ UNCHANGED <<cursor, resynced>>
    BY <1>5, <1>6 DEF StartBackfill
  <2>2. CursorOnChain' /\ NoEventLost'
    BY <1>1, <2>1 DEF CursorOnChain, NoEventLost, Watched, OnChain, Resolves,
                      Emitter, Accounted, Told, PassedBy, Leq
  <2>3. \A b \in 1..Height : \A i \in 1..Len(chain[b]) :
          Watched(<<b, i>>) => Accounted(<<b, i>>)
    BY <1>3, <1>4, <1>5, <1>6, LogIndex DEF NoEventLost
  <2>4. NoGapBeforeStream'
    BY <1>1, <2>1, <2>3 DEF NoGapBeforeStream, Watched, OnChain, Resolves,
                            Emitter, Accounted, Told, PassedBy
  <2> QED
    BY <1>2, <2>1, <2>2, <2>4 DEF ReplayCovers
<1>7. CASE ReplayFrom <= Height /\ Height - ReplayFrom > MaxBackfill
  <2>1. phase' = "live" /\ resynced' = Height /\ cursor' = <<Height, MaxIdx>>
    BY <1>5, <1>7, BackendAssumption DEF StartBackfill, SendResync
  <2>2. CursorOnChain'
    BY <1>1, <2>1, Numbers DEF CursorOnChain
  <2>3. \A b \in 1..Height : \A i \in 1..Len(chain[b]) : Accounted(<<b, i>>)'
    BY <2>1, <1>5 DEF Accounted, Told, PassedBy
  <2>4. NoEventLost' /\ NoGapBeforeStream'
    BY <1>1, <2>3 DEF NoEventLost, NoGapBeforeStream
  <2> QED
    BY <1>2, <2>1, <2>2, <2>4 DEF ReplayCovers
<1>8. CASE ReplayFrom <= Height /\ Height - ReplayFrom <= MaxBackfill
  <2>1. /\ phase' = "replay" /\ replay' = [from |-> ReplayFrom, head |-> Height]
        /\ UNCHANGED <<cursor, resynced>>
    BY <1>5, <1>8, BackendAssumption DEF StartBackfill
  <2>2. CursorOnChain' /\ NoEventLost'
    BY <1>1, <2>1 DEF CursorOnChain, NoEventLost, Watched, OnChain, Resolves,
                      Emitter, Accounted, Told, PassedBy, Leq
  <2>3. replay'.from = ReplayFrom /\ replay'.head = Height
    BY <2>1
  <2>4. ReplayCovers'
    <3>1. ASSUME NEW b \in 1..Height, NEW i \in 1..Len(chain[b])
          PROVE  /\ ~(Lt(cursor, <<b, i>>) /\ b < ReplayFrom)
                 /\ ~(b > Height)
      BY <1>3, <1>5
    <3> QED
      BY <1>1, <1>5, <1>8, <2>1, <2>3, <3>1 DEF ReplayCovers, Lt
  <2> QED
    BY <1>2, <2>1, <2>2, <2>4 DEF NoGapBeforeStream
<1> QED
  BY <1>5, <1>6, <1>7, <1>8, BackendAssumption DEF StartBackfill

\* A chunk tells every log of its blocks that the cursor had not passed and
\* that the node returns; at the end of the replay the others are passed by.
LEMMA BackfillChunkKeeps ==
  ASSUME IInv, TypeOK', BackfillChunk
  PROVE  IInv'
<1> USE DEF IInv
<1>1. /\ phase = "replay" /\ delivered' = delivered \cup ReplayedLogs
      /\ UNCHANGED <<chain, headQ, logQ, pushed, resynced, overtaken>>
      /\ unreplayed \subseteq unreplayed'
      /\ Height' = Height
  BY DEF BackfillChunk, Height
<1>2. /\ replay.from <= replay.head /\ replay.head <= Height /\ pushed = Height
      /\ replay.from \in Nat /\ replay.head \in Nat
  BY <1>1, Numbers DEF ReplayCovers, QueuesInOrder
<1>3. ChunkEnd \in replay.from..replay.head
  BY <1>2, Numbers DEF ChunkEnd
<1>4. QueuesInOrder'
  BY <1>1, <1>2, Numbers DEF QueuesInOrder, OnChain, BackfillChunk
<1>5. \A b \in 1..Height : \A i \in 1..Len(chain[b]) :
        /\ Watched(<<b, i>>)' <=> Watched(<<b, i>>)
        /\ Accounted(<<b, i>>) => Accounted(<<b, i>>)'
        /\ Waiting(<<b, i>>)' <=> Waiting(<<b, i>>)
  BY <1>1 DEF Watched, OnChain, Resolves, Emitter, Accounted, Told, PassedBy, Waiting
<1>6. ASSUME NEW b \in 1..Height, NEW i \in 1..Len(chain[b]), Watched(<<b, i>>),
             Lt(cursor, <<b, i>>), b <= ChunkEnd
      PROVE  Accounted(<<b, i>>)' \/ ~ReturnedByGetLogs(<<b, i>>)
  <2>1. CASE b < replay.from
    BY <1>1, <1>5, <1>6, <2>1 DEF ReplayCovers
  <2>2. CASE b >= replay.from
    <3>1. <<b, i>> \in (replay.from..ChunkEnd) \X (1..MaxIdx)
      BY <1>2, <1>3, <1>6, <2>2, LogIndex
    <3> SUFFICES ASSUME ReturnedByGetLogs(<<b, i>>) PROVE Accounted(<<b, i>>)'
      OBVIOUS
    <3>2. ReturnedByGetLogs(<<b, i>>) /\ Resolves(<<b, i>>)
      BY <1>6 DEF Watched
    <3>3. ~Leq(<<b, i>>, cursor)
      BY <1>6, LogIndex, Numbers DEF Lt, Leq
    <3>4. <<b, i>> \in ReplayedLogs
      BY <3>1, <3>2, <3>3 DEF ReplayedLogs
    <3> QED
      BY <1>1, <3>4 DEF Accounted, Told, PassedBy
  <2> QED
    BY <1>2, <2>1, <2>2
<1>7. CASE ChunkEnd = replay.head
  <2>1. /\ phase' = "live" /\ cursor' = <<replay.head, MaxIdx>>
        /\ unreplayed' = unreplayed \cup Unreplayed
    BY <1>7 DEF BackfillChunk
  <2>2. CursorOnChain'
    BY <1>1, <1>2, <2>1, Numbers DEF CursorOnChain
  <2>3. ASSUME NEW b \in 1..Height, NEW i \in 1..Len(chain[b]), Watched(<<b, i>>),
               b <= replay.head
        PROVE  Accounted(<<b, i>>)'
    <3>1. CASE Lt(cursor, <<b, i>>)
      <4>1. CASE ReturnedByGetLogs(<<b, i>>)
        BY <1>6, <1>7, <2>3, <3>1, <4>1
      <4>2. CASE ~ReturnedByGetLogs(<<b, i>>)
        <5>1. ReplayFrom \in Nat /\ b >= ReplayFrom
          BY <3>1, LogIndex, Numbers DEF Lt, ReplayFrom
        <5>2. <<b, i>> \in (ReplayFrom..replay.head) \X (1..MaxIdx)
          BY <1>2, <2>3, <5>1, LogIndex
        <5>3. OnChain(<<b, i>>)
          BY <2>3 DEF Watched
        <5>4. <<b, i>> \in Unreplayed \/ Told(<<b, i>>)
          BY <2>3, <3>1, <4>2, <5>2, <5>3 DEF Unreplayed, Untold
        <5>5. Told(<<b, i>>) => Accounted(<<b, i>>)'
          BY <1>5 DEF Accounted
        <5> QED
          BY <2>1, <5>4, <5>5 DEF Accounted, PassedBy
      <4> QED
        BY <4>1, <4>2
    <3>2. CASE Leq(<<b, i>>, cursor)
      BY <1>5, <2>3, <3>2 DEF NoEventLost
    <3> QED
      BY <3>1, <3>2, LogIndex, Numbers DEF Lt, Leq
  <2>4. ASSUME NEW b \in 1..Height, NEW i \in 1..Len(chain[b]),
               Leq(<<b, i>>, cursor')
        PROVE  b <= replay.head
    BY <1>2, <2>1, <2>4, LogIndex DEF Leq
  <2>5. NoEventLost'
    BY <1>1, <1>5, <2>3, <2>4 DEF NoEventLost, Leq
  <2>6. NoGapBeforeStream'
    <3> SUFFICES ASSUME NEW b \in 1..Height, NEW i \in 1..Len(chain[b]),
                        Watched(<<b, i>>)
                 PROVE  Accounted(<<b, i>>)' \/ Waiting(<<b, i>>)'
      BY <1>1, <1>5, ZenonT(30) DEF NoGapBeforeStream, Waiting
    <3>1. CASE b <= replay.head
      BY <2>3, <3>1
    <3>2. CASE b > replay.head
      BY <1>1, <1>5, <3>2 DEF ReplayCovers
    <3> QED
      BY <1>2, <3>1, <3>2
  <2> QED
    BY <1>4, <2>1, <2>2, <2>5, <2>6 DEF ReplayCovers
<1>8. CASE ChunkEnd # replay.head
  <2>1. /\ replay' = [replay EXCEPT !.from = ChunkEnd + 1]
        /\ UNCHANGED <<cursor, phase>>
    BY <1>8 DEF BackfillChunk
  <2>2. replay'.from = ChunkEnd + 1 /\ replay'.head = replay.head
    BY <2>1, IInv DEF TypeOK
  <2>3. CursorOnChain' /\ NoEventLost'
    BY <1>1, <1>5, <2>1 DEF CursorOnChain, NoEventLost, Leq
  <2>4. ReplayCovers'
    <3>1. replay'.from <= replay'.head /\ replay'.head <= Height'
      BY <1>1, <1>2, <1>3, <1>8, <2>2
    <3>2. ASSUME NEW b \in 1..Height, NEW i \in 1..Len(chain[b]), Watched(<<b, i>>)
          PROVE  /\ Lt(cursor, <<b, i>>) /\ b < replay'.from =>
                      Accounted(<<b, i>>)' \/ ~ReturnedByGetLogs(<<b, i>>)
                 /\ b > replay'.head => Waiting(<<b, i>>)'
      BY <1>1, <1>2, <1>3, <1>5, <1>6, <2>2, <3>2 DEF ReplayCovers
    <3>3. \A b, i : ReturnedByGetLogs(<<b, i>>)' <=> ReturnedByGetLogs(<<b, i>>)
      BY <1>1 DEF ReturnedByGetLogs, OnChain, Emitter
    <3> QED
      BY <1>1, <1>5, <2>1, <3>1, <3>2, <3>3 DEF ReplayCovers, Lt
  <2> QED
    BY <1>1, <1>4, <2>1, <2>3, <2>4 DEF NoGapBeforeStream
<1> QED
  BY <1>7, <1>8

\* A header completes the blocks below it: their logs have been told, or wait
\* and are overtaken.
LEMMA TakeHeaderKeeps ==
  ASSUME IInv, TypeOK', TakeHeader
  PROVE  IInv'
<1> USE DEF IInv
<1> DEFINE n == Head(headQ)
<1>1. /\ phase = "live" /\ headQ # << >> /\ headQ' = Tail(headQ)
      /\ cursor' = IF Lt(cursor, CompletedBy(n)) THEN CompletedBy(n) ELSE cursor
      /\ overtaken' = overtaken \cup Overtaken(n)
      /\ UNCHANGED <<chain, phase, logQ, pushed, replay, delivered, resynced, unreplayed>>
      /\ Height' = Height
  BY DEF TakeHeader, Height
<1>2. headQ \in Seq(Nat \ {0})
  BY DEF TypeOK
<1>3. n \in 1..pushed
  BY <1>1, <1>2 DEF QueuesInOrder
<1>4. \A k \in 1..Len(headQ') : headQ'[k] \in 1..pushed
  BY <1>1, <1>2 DEF QueuesInOrder
<1> HIDE DEF n
<1>5. QueuesInOrder'
  BY <1>1, <1>4 DEF QueuesInOrder, OnChain
<1>6. CursorOnChain'
  BY <1>1, <1>3, Numbers DEF CursorOnChain, CompletedBy, QueuesInOrder
<1>7. NoEventLost'
  <2> SUFFICES ASSUME NEW b \in 1..Height, NEW i \in 1..Len(chain[b]),
                      Watched(<<b, i>>), Leq(<<b, i>>, cursor')
               PROVE  Accounted(<<b, i>>)'
    BY <1>1 DEF NoEventLost, Watched, OnChain, Resolves, Emitter, Accounted, Told, PassedBy, Leq
  <2>1. CASE cursor' = cursor
    BY <1>1, <2>1 DEF NoEventLost, Accounted, Told, PassedBy
  <2>2. CASE cursor' = CompletedBy(n)
    <3>1. b < n /\ b <= pushed
      BY <1>3, <2>2, LogIndex, Numbers DEF CompletedBy, Leq
    <3>2. CASE Accounted(<<b, i>>)
      BY <1>1, <3>2 DEF Accounted, Told, PassedBy
    <3>3. CASE Waiting(<<b, i>>)
      <4>1. PICK k \in 1..Len(logQ) : logQ[k] = <<b, i>>
        BY <3>3 DEF Waiting
      <4>2. logQ[k][1] < n
        BY <3>1, <4>1
      <4>3. <<b, i>> \in {logQ[m] : m \in {l \in 1..Len(logQ) : logQ[l][1] < n}}
        BY <4>1, <4>2
      <4>4. CASE Leq(<<b, i>>, cursor)
        BY <1>1, <4>4 DEF NoEventLost, Accounted, Told, PassedBy
      <4>5. CASE Lt(cursor, <<b, i>>)
        <5>1. <<b, i>> \in Overtaken(n) \/ Told(<<b, i>>)
          BY <4>3, <4>5 DEF Overtaken, Untold
        <5> QED
          BY <1>1, <5>1 DEF Accounted, Told, PassedBy
      <4> QED
        BY <4>4, <4>5, LogIndex, Numbers DEF Lt, Leq
    <3> QED
      BY <1>1, <3>1, <3>2, <3>3 DEF NoGapBeforeStream, Waiting
  <2> QED
    BY <1>1, <2>1, <2>2
<1>8. NoGapBeforeStream'
  BY <1>1 DEF NoGapBeforeStream, Watched, OnChain, Resolves, Emitter, Accounted, Told, PassedBy
<1> QED
  BY <1>1, <1>5, <1>6, <1>7, <1>8 DEF ReplayCovers

\* The queue without its first log.
LEMMA QueueShrinks ==
  ASSUME TypeOK, QueuesInOrder, logQ # << >>, logQ' = Tail(logQ)
  PROVE  /\ Len(logQ') + 1 = Len(logQ) /\ Len(logQ') \in Nat
         /\ \A k \in 1..Len(logQ') : k + 1 \in 1..Len(logQ) /\ logQ'[k] = logQ[k + 1]
         /\ Head(logQ) = logQ[1]
         /\ OnChain(Head(logQ)) /\ Head(logQ)[1] <= pushed
         /\ \A q : Waiting(q) =>
              \/ q = Head(logQ)
              \/ Waiting(q)' /\ Lt(Head(logQ), q)
<1>1. logQ \in Seq(Nat \X Nat)
  BY DEF TypeOK
<1>2. Len(logQ') + 1 = Len(logQ) /\ Len(logQ') \in Nat
  BY <1>1
<1>3. \A k \in 1..Len(logQ') : k + 1 \in 1..Len(logQ) /\ logQ'[k] = logQ[k + 1]
  BY <1>1, <1>2
<1>4. Head(logQ) = logQ[1] /\ 1 \in 1..Len(logQ)
  BY <1>1, <1>2
<1>5. ASSUME NEW q, Waiting(q)
      PROVE  q = Head(logQ) \/ (Waiting(q)' /\ Lt(Head(logQ), q))
  <2>1. PICK k \in 1..Len(logQ) : logQ[k] = q
    BY <1>5 DEF Waiting
  <2>2. CASE k = 1
    BY <1>4, <2>1, <2>2
  <2>3. CASE k > 1
    <3>1. k - 1 \in 1..Len(logQ') /\ (k - 1) + 1 = k
      BY <1>2, <2>3
    <3>2. logQ'[k - 1] = q
      BY <1>3, <2>1, <3>1
    <3>3. Lt(Head(logQ), q)
      BY <1>4, <2>1, <2>3 DEF QueuesInOrder
    <3> QED
      BY <3>1, <3>2, <3>3 DEF Waiting
  <2> QED
    BY <2>2, <2>3
<1> QED
  BY <1>2, <1>3, <1>4, <1>5 DEF QueuesInOrder

\* Taking a log from the live stream: it is the oldest one not yet told, so
\* the cursor passes nothing else.
LEMMA TakeLogKeeps ==
  ASSUME IInv, TypeOK', TakeLog
  PROVE  IInv'
<1> USE DEF IInv
<1> DEFINE p == Head(logQ)
<1>1. /\ phase = "live" /\ logQ # << >> /\ logQ' = Tail(logQ)
      /\ UNCHANGED <<chain, phase, headQ, pushed, replay, resynced, overtaken, unreplayed>>
      /\ Height' = Height
  BY DEF TakeLog, Height, passed
<1>2. /\ Len(logQ') + 1 = Len(logQ) /\ Len(logQ') \in Nat
      /\ \A k \in 1..Len(logQ') : k + 1 \in 1..Len(logQ) /\ logQ'[k] = logQ[k + 1]
      /\ OnChain(p) /\ p[1] <= pushed
      /\ \A q : Waiting(q) => q = p \/ (Waiting(q)' /\ Lt(p, q))
  BY <1>1, QueueShrinks
<1>3. \/ (~Resolves(p) \/ Leq(p, cursor)) /\ UNCHANGED <<cursor, delivered>>
      \/ Resolves(p) /\ ~Leq(p, cursor) /\ cursor' = p /\ delivered' = delivered \cup {p}
  BY DEF TakeLog, AlreadyHanded
<1>4. p \in Nat \X Nat
  BY <1>1, SMTT(20) DEF TypeOK
<1>5. p = <<p[1], p[2]>> /\ p[1] \in 1..Height /\ p[2] \in 1..Len(chain[p[1]])
  BY <1>2, <1>4 DEF OnChain
<1> HIDE DEF p
<1>6. QueuesInOrder'
  <2>1. \A j, k \in 1..Len(logQ') : j < k => Lt(logQ'[j], logQ'[k])
    BY <1>2 DEF QueuesInOrder
  <2>2. \A k \in 1..Len(logQ') : OnChain(logQ'[k]) /\ logQ'[k][1] <= pushed
    BY <1>2 DEF QueuesInOrder
  <2> QED
    BY <1>1, <2>1, <2>2 DEF QueuesInOrder, OnChain
<1>7. CursorOnChain'
  <2>1. p[1] <= Height /\ p[2] <= MaxIdx
    BY <1>5, LogIndex, Numbers
  <2> QED
    BY <1>1, <1>3, <2>1 DEF CursorOnChain
<1>8. \A b \in 1..Height : \A i \in 1..Len(chain[b]) :
        /\ Watched(<<b, i>>)' <=> Watched(<<b, i>>)
        /\ Accounted(<<b, i>>) => Accounted(<<b, i>>)'
  BY <1>1, <1>3 DEF Watched, OnChain, Resolves, Emitter, Accounted, Told, PassedBy
<1>9. ASSUME NEW b \in 1..Height, NEW i \in 1..Len(chain[b]), Watched(<<b, i>>),
             Leq(<<b, i>>, cursor')
      PROVE  Accounted(<<b, i>>)'
  <2>1. CASE cursor' = cursor
    BY <1>8, <1>9, <2>1 DEF NoEventLost
  <2>2. CASE cursor' = p /\ delivered' = delivered \cup {p}
    <3>1. CASE <<b, i>> = p
      BY <2>2, <3>1 DEF Accounted, Told, PassedBy
    <3>2. CASE <<b, i>> # p
      <4>1. ~Lt(p, <<b, i>>)
        BY <1>5, <1>9, <2>2, LogIndex, Numbers, SMTT(20) DEF Lt, Leq
      <4>2. ~Waiting(<<b, i>>)
        BY <1>2, <3>2, <4>1
      <4>3. b <= pushed
        BY <1>2, <1>5, <1>9, <2>2, Numbers, SMTT(20) DEF Leq
      <4> QED
        BY <1>1, <1>8, <1>9, <4>2, <4>3 DEF NoGapBeforeStream, Waiting
    <3> QED
      BY <3>1, <3>2
  <2> QED
    BY <1>3, <2>1, <2>2
<1>10. NoEventLost'
  BY <1>1, <1>8, <1>9 DEF NoEventLost, Leq
<1>11. ASSUME NEW b \in 1..Height, NEW i \in 1..Len(chain[b]), Watched(<<b, i>>),
              b <= pushed
       PROVE  Accounted(<<b, i>>)' \/ Waiting(<<b, i>>)'
  <2>1. Accounted(<<b, i>>) \/ Waiting(<<b, i>>)
    BY <1>1, <1>11 DEF NoGapBeforeStream, Waiting
  <2>2. CASE <<b, i>> = p
    <3>1. Leq(p, cursor')
      BY <1>3, <1>5, <1>11, <2>2 DEF Watched, Leq
    <3> QED
      BY <1>9, <1>11, <2>2, <3>1
  <2>3. CASE <<b, i>> # p
    BY <1>2, <1>8, <2>1, <2>3
  <2> QED
    BY <2>2, <2>3
<1>12. NoGapBeforeStream'
  BY <1>1, <1>8, <1>11 DEF NoGapBeforeStream, Waiting
<1> QED
  BY <1>1, <1>6, <1>7, <1>10, <1>12 DEF ReplayCovers

\* Nothing has been mined, told or passed at the start.
LEMMA IInvInit == Init => IInv
<1> SUFFICES ASSUME Init PROVE IInv
  OBVIOUS
<1>1. TypeOK /\ Height = StartBlock /\ Height \in Nat /\ MaxIdx \in Nat
  BY TypeInit, BackendAssumption DEF Init, Height
<1>2. \A b \in 1..Height : Len(chain[b]) = 0
  BY <1>1 DEF Init
<1> QED
  BY <1>1, <1>2 DEF Init, IInv, QueuesInOrder, CursorOnChain, ReplayCovers,
                    NoEventLost, NoGapBeforeStream, NoCursor

\* Every step keeps the invariant: one case for each action.
LEMMA IInvStep == IInv /\ [Next]_vars => IInv'
<1> SUFFICES ASSUME IInv, [Next]_vars PROVE IInv'
  OBVIOUS
<1>1. TypeOK'
  BY TypeStep DEF IInv
<1>2. ASSUME NEW block \in Block, MinePublished(block) PROVE IInv'
  BY <1>1, <1>2, MinePublishedKeeps
<1>3. ASSUME NEW block \in Block, MineUnseen(block) PROVE IInv'
  BY <1>1, <1>3, MineUnseenKeeps
<1>4. CASE HangUp
  BY <1>1, <1>4, HangUpKeeps
<1>5. CASE Connect \/ SubscribeLogs
  BY <1>1, <1>5, ConnectKeeps
<1>6. CASE FirstConnect
  BY <1>1, <1>6, FirstConnectKeeps
<1>7. CASE StartBackfill
  BY <1>1, <1>7, StartBackfillKeeps
<1>8. CASE BackfillChunk
  BY <1>1, <1>8, BackfillChunkKeeps
<1>9. CASE TakeHeader
  BY <1>1, <1>9, TakeHeaderKeeps
<1>10. CASE TakeLog
  BY <1>1, <1>10, TakeLogKeeps
<1>11. CASE UNCHANGED vars
  BY <1>1, <1>11 DEF vars, passed, ReturnedByGetLogs, IInv, QueuesInOrder, CursorOnChain, ReplayCovers,
     NoEventLost, NoGapBeforeStream, Height, Watched, OnChain, Resolves, Emitter,
     Accounted, Told, PassedBy, Waiting
<1> QED
  BY <1>2, <1>3, <1>4, <1>5, <1>6, <1>7, <1>8, <1>9, <1>10, <1>11
  DEF Next, Client, Disconnect, Watchdog

\* Whichever stream select! takes first and whoever emits a pool's logs, the
\* cursor passes no untold log but one a header overtook or a replay's filter
\* left out: not over any number of dropped or half-open connections, failed
\* replays and Resyncs.  Where neither happens, no event is lost.
THEOREM NoEventLostTheorem == Spec => []NoEventLost
<1>1. Init => IInv
  BY IInvInit
<1>2. IInv /\ [Next]_vars => IInv'
  BY IInvStep
<1>3. IInv => NoEventLost
  BY DEF IInv
<1> QED
  BY <1>1, <1>2, <1>3, PTL DEF Spec

\* The live stream starts exactly where the replay stopped: what neither of the
\* two ways passed by was told or is waiting.
THEOREM NoGapBeforeStreamTheorem == Spec => []NoGapBeforeStream
<1>1. Init => IInv
  BY IInvInit
<1>2. IInv /\ [Next]_vars => IInv'
  BY IInvStep
<1>3. IInv => NoGapBeforeStream
  BY DEF IInv
<1> QED
  BY <1>1, <1>2, <1>3, PTL DEF Spec

-----------------------------------------------------------------------------
(* The live stream repeats nothing, for any order of the select! and any   *)
(* pools.                                                                  *)

\* A position of a mined block.
Placed(p) == p[1] \in 1..Height /\ p[2] \in 1..(MaxIdx - 1)

\* What was told lies on the chain; while the stream is live the cursor has
\* passed all of it, and during a replay the end of the replay will.
ToldPassed ==
  /\ \A p \in delivered : Placed(p)
  /\ cursor = NoCursor => delivered = {}
  /\ phase = "live" => \A p \in delivered : Leq(p, cursor)
  /\ phase = "replay" =>
       /\ replay.head <= Height
       /\ cursor # NoCursor
       /\ \A p \in delivered : p[1] <= replay.head

QueuesPlaced ==
  /\ \A k \in 1..Len(headQ) : headQ[k] \in 1..Height
  /\ \A k \in 1..Len(logQ) : Placed(logQ[k])

NewInv ==
  /\ TypeOK
  /\ CursorOnChain
  /\ resynced <= Height
  /\ QueuesPlaced
  /\ ToldPassed

\* A longer chain keeps every position.
LEMMA MiningPlaces ==
  ASSUME NewInv, NEW block \in Block, chain' = Append(chain, block),
         UNCHANGED <<cursor, phase, replay, delivered, resynced>>
  PROVE  /\ Height \in Nat /\ Height' = Height + 1
         /\ \A p : Placed(p) => Placed(p)'
         /\ \A p : p[1] = Height + 1 /\ p[2] \in 1..Len(block) => Placed(p)'
         /\ CursorOnChain' /\ resynced' <= Height' /\ ToldPassed'
<1> USE DEF NewInv
<1>1. Height \in Nat /\ Height' = Height + 1
  BY ChainGrows DEF TypeOK
<1>2. \A p : Placed(p) => Placed(p)'
  BY <1>1 DEF Placed
<1>3. Len(block) \in Nat /\ Len(block) < MaxIdx /\ MaxIdx \in Nat
  BY BlockLength, BackendAssumption
<1>4. \A p : p[1] = Height + 1 /\ p[2] \in 1..Len(block) => Placed(p)'
  BY <1>1, <1>3 DEF Placed
<1>5. CursorOnChain' /\ resynced' <= Height'
  BY <1>1, Numbers DEF CursorOnChain
<1>6. ToldPassed'
  BY <1>1, <1>2, Numbers DEF ToldPassed, Leq
<1> QED
  BY <1>1, <1>2, <1>4, <1>5, <1>6

\* A mined block keeps the invariant, published or not.
LEMMA MiningKeepsNew ==
  ASSUME NewInv, TypeOK', NEW block \in Block,
         MinePublished(block) \/ MineUnseen(block)
  PROVE  NewInv'
<1> USE DEF NewInv
<1>1. /\ chain' = Append(chain, block)
      /\ UNCHANGED <<cursor, phase, replay, delivered, resynced>>
  BY DEF MinePublished, MineUnseen
<1>2. /\ Height \in Nat /\ Height' = Height + 1
      /\ \A p : Placed(p) => Placed(p)'
      /\ \A p : p[1] = Height + 1 /\ p[2] \in 1..Len(block) => Placed(p)'
      /\ CursorOnChain' /\ resynced' <= Height' /\ ToldPassed'
  BY <1>1, MiningPlaces
<1>3. \A k \in 1..Len(headQ') : headQ'[k] \in 1..Height'
  <2>1. CASE headQ' = headQ
    BY <1>2, <2>1 DEF QueuesPlaced
  <2>2. CASE headQ' = Append(headQ, Height + 1)
    <3>1. headQ \in Seq(Nat \ {0})
      BY DEF TypeOK
    <3>2. /\ Len(headQ') = Len(headQ) + 1 /\ headQ'[Len(headQ) + 1] = Height + 1
          /\ \A k \in 1..Len(headQ) : headQ'[k] = headQ[k]
      BY <1>2, <2>2, <3>1
    <3> QED
      BY <1>2, <3>1, <3>2 DEF QueuesPlaced
  <2> QED
    BY <2>1, <2>2 DEF MinePublished, MineUnseen
<1>4. \A k \in 1..Len(logQ') : Placed(logQ[k])'
  <2>1. CASE logQ' = logQ
    BY <1>2, <2>1 DEF QueuesPlaced
  <2>2. CASE logQ' = logQ \o LogsOf(block)
    <3>1. /\ Len(logQ) \in Nat /\ Len(block) \in Nat
          /\ Len(logQ') = Len(logQ) + Len(block)
          /\ \A k \in 1..Len(logQ) : logQ'[k] = logQ[k]
          /\ \A i \in 1..Len(block) : logQ'[Len(logQ) + i] = <<Height + 1, i>>
      BY <2>2, QueueGrows
    <3> TAKE k \in 1..Len(logQ')
    <3>2. CASE k <= Len(logQ)
      BY <1>2, <3>1, <3>2 DEF QueuesPlaced
    <3>3. CASE k > Len(logQ)
      <4>1. k - Len(logQ) \in 1..Len(block) /\ k = Len(logQ) + (k - Len(logQ))
        BY <3>1, <3>3
      <4>2. logQ'[k] = <<Height + 1, k - Len(logQ)>>
        BY <3>1, <4>1
      <4> QED
        BY <1>2, <4>1, <4>2
    <3> QED
      BY <3>1, <3>2, <3>3
  <2> QED
    BY <2>1, <2>2 DEF MinePublished, MineUnseen
<1> QED
  BY <1>2, <1>3, <1>4 DEF QueuesPlaced

\* Connecting and hanging up move no cursor; a new connection goes live only
\* with the cursor above all that was told.
LEMMA ConnectingKeepsNew ==
  ASSUME NewInv, TypeOK',
         HangUp \/ Connect \/ SubscribeLogs \/ FirstConnect \/ StartBackfill
  PROVE  NewInv'
<1> USE DEF NewInv
<1>1. Height' = Height /\ \A p : Placed(p)' <=> Placed(p)
  BY DEF HangUp, Connect, SubscribeLogs, FirstConnect, StartBackfill, Height, Placed
<1>2. QueuesPlaced'
  BY <1>1 DEF HangUp, Connect, SubscribeLogs, FirstConnect, StartBackfill, QueuesPlaced
<1>3. delivered' = delivered /\ resynced' <= Height'
  BY <1>1, Numbers DEF HangUp, Connect, SubscribeLogs, FirstConnect, StartBackfill, SendResync
<1>4. CASE HangUp \/ Connect \/ SubscribeLogs
  BY <1>1, <1>2, <1>3, <1>4 DEF HangUp, CursorKept, Connect, SubscribeLogs, CursorOnChain, ToldPassed
<1>5. CASE FirstConnect
  <2>1. cursor = NoCursor /\ cursor' = cursor /\ phase' = "live"
    BY <1>5 DEF FirstConnect
  <2> QED
    BY <1>1, <1>2, <1>3, <2>1 DEF CursorOnChain, ToldPassed
<1>6. CASE StartBackfill
  <2>1. cursor # NoCursor
    BY <1>6 DEF StartBackfill
  <2>2. CASE ReplayFrom > Height /\ phase' = "live" /\ cursor' = cursor
    <3>1. ASSUME NEW p \in delivered PROVE Leq(p, cursor)
      <4>1. Placed(p)
        BY DEF ToldPassed
      <4>2. cursor[1] >= Height /\ cursor[2] = MaxIdx
        BY <2>2, Numbers DEF ReplayFrom, CursorOnChain
      <4> QED
        BY <4>1, <4>2, Numbers DEF Placed, Leq
    <3> QED
      BY <1>1, <1>2, <1>3, <2>1, <2>2, <3>1 DEF CursorOnChain, ToldPassed
  <2>3. CASE phase' = "live" /\ cursor' = <<Height, MaxIdx>>
    <3>1. CursorOnChain' /\ cursor' # NoCursor
      BY <1>1, <2>3, Numbers DEF CursorOnChain, NoCursor
    <3>2. \A p \in delivered : Leq(p, cursor')
      BY <2>3, Numbers DEF ToldPassed, Placed, Leq
    <3> QED
      BY <1>1, <1>2, <1>3, <2>3, <3>1, <3>2 DEF ToldPassed
  <2>4. CASE /\ phase' = "replay" /\ cursor' = cursor
             /\ replay' = [from |-> ReplayFrom, head |-> Height]
    <3>1. replay'.head = Height
      BY <2>4
    <3>2. \A p \in delivered : p[1] <= Height
      BY DEF ToldPassed, Placed
    <3> QED
      BY <1>1, <1>2, <1>3, <2>1, <2>4, <3>1, <3>2, Numbers DEF CursorOnChain, ToldPassed
  <2> QED
    BY <1>6, <2>2, <2>3, <2>4 DEF StartBackfill
<1> QED
  BY <1>4, <1>5, <1>6

\* A chunk of a replay tells nothing beyond the end of the replay, and the
\* end of the replay passes the cursor over all of it.
LEMMA ReplayKeepsNew ==
  ASSUME NewInv, TypeOK', BackfillChunk
  PROVE  NewInv'
<1> USE DEF NewInv
<1>1. /\ phase = "replay" /\ delivered' = delivered \cup ReplayedLogs
      /\ UNCHANGED <<chain, headQ, logQ, resynced>>
      /\ Height' = Height /\ \A p : Placed(p)' <=> Placed(p)
  BY DEF BackfillChunk, Height, Placed
<1>2. replay.head <= Height /\ cursor # NoCursor
  BY <1>1 DEF ToldPassed
<1>3. ChunkEnd \in Nat /\ ChunkEnd <= replay.head
  BY Numbers DEF ChunkEnd
<1>4. ASSUME NEW p \in ReplayedLogs PROVE Placed(p) /\ p[1] <= replay.head
  <2>1. p[1] \in replay.from..ChunkEnd /\ p[1] \in 1..Height /\ p[2] \in 1..Len(chain[p[1]])
    BY DEF ReplayedLogs, ReturnedByGetLogs, OnChain
  <2>2. p[2] < MaxIdx
    BY <2>1, LogIndex
  <2>3. p[2] \in 1..MaxIdx
    BY DEF ReplayedLogs
  <2>4. ChunkEnd \in Nat /\ replay.from \in Nat /\ replay.head \in Nat /\ MaxIdx \in Nat
    BY <1>3, Numbers
  <2> HIDE DEF NewInv
  <2> QED
    BY <1>3, <2>1, <2>2, <2>3, <2>4 DEF Placed
<1>5. \A p \in delivered' : Placed(p) /\ p[1] <= replay.head
  BY <1>1, <1>4 DEF ToldPassed
<1>6. QueuesPlaced' /\ resynced' <= Height'
  BY <1>1 DEF QueuesPlaced
<1>7. CASE ChunkEnd = replay.head
  <2>1. phase' = "live" /\ cursor' = <<replay.head, MaxIdx>>
    BY <1>7 DEF BackfillChunk
  <2>2. CursorOnChain' /\ cursor' # NoCursor
    BY <1>1, <1>2, <2>1, Numbers DEF CursorOnChain, NoCursor
  <2>3. \A p \in delivered' : Leq(p, cursor')
    BY <1>5, <2>1, Numbers DEF Placed, Leq
  <2> QED
    BY <1>1, <1>5, <1>6, <2>1, <2>2, <2>3 DEF ToldPassed
<1>8. CASE ChunkEnd # replay.head
  <2>1. replay' = [replay EXCEPT !.from = ChunkEnd + 1] /\ UNCHANGED <<cursor, phase>>
    BY <1>8 DEF BackfillChunk
  <2>2. replay'.head = replay.head
    BY <2>1 DEF TypeOK
  <2> QED
    BY <1>1, <1>2, <1>5, <1>6, <2>1, <2>2 DEF CursorOnChain, ToldPassed
<1> QED
  BY <1>7, <1>8

\* The stream's own steps move the cursor up only.
LEMMA StreamKeepsNew ==
  ASSUME NewInv, TypeOK', TakeHeader \/ TakeLog
  PROVE  NewInv'
<1> USE DEF NewInv
<1>1. /\ phase = "live" /\ phase' = "live" /\ UNCHANGED <<chain, resynced>>
      /\ Height' = Height /\ \A p : Placed(p)' <=> Placed(p)
  BY DEF TakeHeader, TakeLog, Height, Placed
<1>2. \A p \in delivered : Placed(p) /\ Leq(p, cursor) /\ cursor # NoCursor
  BY <1>1 DEF ToldPassed
<1>3. CASE TakeHeader
  <2> DEFINE n == Head(headQ)
  <2>1. /\ headQ # << >> /\ headQ' = Tail(headQ) /\ UNCHANGED <<logQ, delivered>>
        /\ cursor' = IF Lt(cursor, CompletedBy(n)) THEN CompletedBy(n) ELSE cursor
    BY <1>3 DEF TakeHeader
  <2>2. headQ \in Seq(Nat \ {0}) /\ n = headQ[1] /\ n \in 1..Height
    BY <2>1 DEF TypeOK, QueuesPlaced
  <2>3. \A k \in 1..Len(headQ') : headQ'[k] \in 1..Height
    BY <2>1, <2>2 DEF QueuesPlaced
  <2> HIDE DEF n
  <2>4. QueuesPlaced'
    BY <1>1, <2>1, <2>3 DEF QueuesPlaced
  <2>5. CompletedBy(n)[1] = n - 1 /\ CompletedBy(n)[2] = MaxIdx
    BY DEF CompletedBy
  <2>6. CursorOnChain'
    <3>1. cursor[1] <= Height /\ cursor[2] <= MaxIdx
      BY DEF CursorOnChain
    <3>2. Height \in Nat /\ MaxIdx \in Nat
      BY Numbers
    <3> HIDE DEF NewInv
    <3> QED
      BY <1>1, <2>1, <2>2, <2>5, <3>1, <3>2 DEF CursorOnChain
  <2>7. cursor' = cursor \/ (Lt(cursor, cursor') /\ cursor' # NoCursor)
    BY <2>1, <2>5, Numbers DEF NoCursor
  <2>8. cursor'[1] \in Nat /\ cursor'[2] \in Nat
    BY DEF TypeOK
  <2>9. \A p \in delivered : Leq(p, cursor')
    BY <1>2, <2>7, <2>8, Numbers DEF Placed, Leq, Lt
  <2> QED
    BY <1>1, <1>2, <2>1, <2>4, <2>6, <2>7, <2>9 DEF ToldPassed
<1>4. CASE TakeLog
  <2> DEFINE p == Head(logQ)
  <2>1. /\ logQ # << >> /\ logQ' = Tail(logQ) /\ UNCHANGED headQ
        /\ \/ UNCHANGED <<cursor, delivered>>
           \/ ~Leq(p, cursor) /\ cursor' = p /\ delivered' = delivered \cup {p}
    BY <1>4 DEF TakeLog, AlreadyHanded
  <2>2. /\ logQ \in Seq(Nat \X Nat) /\ p = logQ[1] /\ 1 \in 1..Len(logQ)
        /\ Placed(p) /\ p \in Nat \X Nat
    <3>1. logQ \in Seq(Nat \X Nat) /\ p = logQ[1] /\ 1 \in 1..Len(logQ)
      BY <2>1 DEF TypeOK
    <3>2. Placed(logQ[1])
      BY <3>1 DEF QueuesPlaced
    <3> QED
      BY <3>1, <3>2
  <2>3. \A k \in 1..Len(logQ') : Placed(logQ'[k])
    BY <2>1, <2>2 DEF QueuesPlaced
  <2>a. QueuesPlaced'
    BY <1>1, <2>1, <2>3 DEF QueuesPlaced, Placed
  <2> HIDE DEF p
  <2>4. CASE UNCHANGED <<cursor, delivered>>
    <3>1. CursorOnChain'
      BY <1>1, <2>4 DEF CursorOnChain
    <3>2. ToldPassed'
      <4>1. \A q \in delivered' : Placed(q)' /\ Leq(q, cursor')
        BY <1>1, <1>2, <2>4
      <4>2. cursor' = NoCursor => delivered' = {}
        BY <2>4 DEF ToldPassed
      <4> HIDE DEF NewInv
      <4> QED
        BY <1>1, <4>1, <4>2 DEF ToldPassed
    <3> QED
      BY <1>1, <2>a, <3>1, <3>2
  <2>5. CASE ~Leq(p, cursor) /\ cursor' = p /\ delivered' = delivered \cup {p}
    <3>1. CursorOnChain' /\ cursor' # NoCursor
      BY <1>1, <2>2, <2>5, Numbers, SMTT(20) DEF CursorOnChain, NoCursor, Placed
    <3>2. \A q \in delivered' : Placed(q) /\ Leq(q, cursor')
      <4>1. ASSUME NEW q \in delivered PROVE Leq(q, p)
        <5>1. /\ q[1] \in Nat /\ q[2] \in Nat /\ p[1] \in Nat /\ p[2] \in Nat
              /\ cursor[1] \in Nat /\ cursor[2] \in Nat
          <6>1. Height \in Nat /\ MaxIdx \in Nat /\ cursor[1] \in Nat /\ cursor[2] \in Nat
            BY Numbers
          <6>2. q[1] \in 1..Height /\ q[2] \in 1..(MaxIdx - 1)
            BY <1>2 DEF Placed
          <6> HIDE DEF NewInv
          <6>3. q[1] \in Nat /\ q[2] \in Nat
            BY <6>1, <6>2
          <6> QED
            BY <2>2, <6>1, <6>3
        <5>2. Leq(q, cursor) /\ ~Leq(p, cursor)
          BY <1>2, <2>5
        <5> HIDE DEF NewInv
        <5> QED
          BY <5>1, <5>2 DEF Leq
      <4>2. Leq(p, p)
        BY <2>2 DEF Leq
      <4> QED
        BY <1>2, <2>2, <2>5, <4>1, <4>2
    <3> QED
      BY <1>1, <2>a, <2>5, <3>1, <3>2 DEF ToldPassed
  <2> QED
    BY <2>1, <2>4, <2>5
<1> QED
  BY <1>3, <1>4

\* The invariant holds from the start.
LEMMA NewInvInit == Init => NewInv
<1> SUFFICES ASSUME Init PROVE NewInv
  OBVIOUS
<1>1. TypeOK /\ Height \in Nat /\ MaxIdx \in Nat
  BY TypeInit, BackendAssumption DEF Init, Height, TypeOK
<1> QED
  BY <1>1 DEF Init, NewInv, QueuesPlaced, CursorOnChain, ToldPassed, NoCursor

\* Every step keeps it.
LEMMA NewInvStep == NewInv /\ [Next]_vars => NewInv'
<1> SUFFICES ASSUME NewInv, [Next]_vars PROVE NewInv'
  OBVIOUS
<1>1. TypeOK'
  BY TypeStep DEF NewInv
<1>2. ASSUME NEW block \in Block, MinePublished(block) \/ MineUnseen(block) PROVE NewInv'
  BY <1>1, <1>2, MiningKeepsNew
<1>3. CASE HangUp \/ Connect \/ SubscribeLogs \/ FirstConnect \/ StartBackfill
  BY <1>1, <1>3, ConnectingKeepsNew
<1>4. CASE BackfillChunk
  BY <1>1, <1>4, ReplayKeepsNew
<1>5. CASE TakeHeader \/ TakeLog
  BY <1>1, <1>5, StreamKeepsNew
<1>6. CASE UNCHANGED vars
  BY <1>1, <1>6 DEF vars, passed, NewInv, CursorOnChain, QueuesPlaced, ToldPassed, Placed, Height
<1> QED
  BY <1>2, <1>3, <1>4, <1>5, <1>6 DEF Next, Client, Disconnect, Watchdog

\* Among the steps of a live connection, only taking a log tells one, and it is
\* above the cursor, which has passed all that was told.
LEMMA StreamTellsNew ==
  NewInv /\ [Next]_vars =>
    (UNCHANGED vars \/
      (phase = "live" =>
         \A k \in 1..Len(out') :
           out'[k].type = "PoolLog" => out'[k].pos \notin delivered))
<1> SUFFICES ASSUME NewInv, Next, phase = "live",
                    NEW k \in 1..Len(out'), out'[k].type = "PoolLog"
             PROVE  out'[k].pos \notin delivered
  OBVIOUS
<1>1. \A p \in delivered : Leq(p, cursor)
  BY DEF NewInv, ToldPassed
<1>2. CASE out' = << >>
  BY <1>2
<1>3. CASE TakeHeader
  BY <1>3 DEF TakeHeader, HeadEvent
<1>4. CASE TakeLog
  <2>1. CASE out' = << >>
    BY <2>1
  <2>2. CASE ~AlreadyHanded(Head(logQ)) /\ out' = <<LogEvent(Head(logQ))>>
    <3>1. out'[k].pos = Head(logQ)
      BY <2>2 DEF LogEvent
    <3> QED
      BY <1>1, <2>2, <3>1 DEF AlreadyHanded
  <2> QED
    BY <1>4, <2>1, <2>2 DEF TakeLog
<1> QED
  BY <1>2, <1>3, <1>4 DEF Next, Client, MinePublished, MineUnseen, Disconnect, HangUp,
     Watchdog, Connect, SubscribeLogs, FirstConnect, StartBackfill, BackfillChunk

\* Whatever a replay told, and however often it was cut short and begun again,
\* the live stream that follows it hands over no log a second time; here no
\* assumption on the order of select! or on the pools is needed.
THEOREM LiveLogIsNewTheorem == Spec => LiveLogIsNew
<1>1. Init => NewInv
  BY NewInvInit
<1>2. NewInv /\ [Next]_vars => NewInv'
  BY NewInvStep
<1>3. NewInv /\ [Next]_vars =>
        [phase = "live" =>
           \A k \in 1..Len(out') :
             out'[k].type = "PoolLog" => out'[k].pos \notin delivered]_vars
  BY StreamTellsNew
<1> QED
  BY <1>1, <1>2, <1>3, PTL DEF Spec, LiveLogIsNew

-----------------------------------------------------------------------------
(* The backend's steps are steps of the abstract feed.                     *)

\* Only logs of the chain are passed by.
FeedInv ==
  /\ NewInv
  /\ \A p \in overtaken \cup unreplayed : p[1] <= Height

\* What is untold is on the chain.
LEMMA UntoldPlaced ==
  ASSUME NEW S
  PROVE  \A p \in Untold(S) : p[1] <= Height /\ ~Told(p)
BY DEF Untold, Watched, OnChain

\* The steps that pass logs by, and what each adds.
LEMMA PassingSteps ==
  ASSUME Next
  PROVE  \/ UNCHANGED passed
         \/ /\ TakeHeader
            /\ overtaken' = overtaken \cup Overtaken(Head(headQ))
            /\ UNCHANGED unreplayed
         \/ /\ BackfillChunk
            /\ unreplayed' = unreplayed \cup Unreplayed
            /\ UNCHANGED overtaken
<1>1. CASE TakeHeader
  BY <1>1 DEF TakeHeader
<1>2. CASE BackfillChunk
  BY <1>2 DEF BackfillChunk, passed
<1>3. CASE ~TakeHeader /\ ~BackfillChunk
  BY <1>3 DEF Next, Client, MinePublished, MineUnseen, Disconnect, HangUp, Connect,
     SubscribeLogs, FirstConnect, StartBackfill, TakeLog, Watchdog
<1> QED
  BY <1>1, <1>2, <1>3

\* A step keeps the chain or adds a block to it.
LEMMA HeightGrows ==
  ASSUME TypeOK, Next
  PROVE  Height \in Nat /\ (Height' = Height \/ Height' = Height + 1)
<1>1. CASE \E block \in Block : MinePublished(block) \/ MineUnseen(block)
  BY <1>1, ChainGrows DEF MinePublished, MineUnseen, TypeOK
<1>2. CASE Disconnect \/ Client
  <2>1. chain' = chain
    BY <1>2 DEF Client, Disconnect, HangUp, Connect, SubscribeLogs, FirstConnect,
       StartBackfill, BackfillChunk, TakeHeader, TakeLog, Watchdog
  <2> QED
    BY <2>1, Numbers DEF Height
<1> QED
  BY <1>1, <1>2 DEF Next

\* Every step keeps the feed's invariant.
LEMMA FeedInvStep == FeedInv /\ [Next]_vars => FeedInv'
<1> SUFFICES ASSUME FeedInv, [Next]_vars PROVE FeedInv'
  OBVIOUS
<1>1. NewInv' /\ TypeOK
  BY NewInvStep DEF FeedInv, NewInv
<1>2. CASE Next
  <2>1. Height \in Nat /\ (Height' = Height \/ Height' = Height + 1)
    BY <1>1, <1>2, HeightGrows
  <2>2. ASSUME NEW p \in overtaken' \cup unreplayed' PROVE p[1] <= Height /\ p[1] \in Nat
    <3>1. p[1] \in Nat
      <4>1. p \in Nat \X Nat
        BY <1>1 DEF NewInv, TypeOK
      <4> QED
        BY <4>1
    <3>2. p \in overtaken \cup unreplayed \cup Overtaken(Head(headQ)) \cup Unreplayed
      BY <1>2, PassingSteps DEF passed
    <3>3. \A q \in Overtaken(Head(headQ)) \cup Unreplayed : q[1] <= Height
      BY UntoldPlaced DEF Overtaken, Unreplayed
    <3> QED
      BY <3>1, <3>2, <3>3 DEF FeedInv
  <2> QED
    BY <1>1, <2>1, <2>2 DEF FeedInv
<1>3. CASE UNCHANGED vars
  BY <1>1, <1>3 DEF vars, passed, FeedInv, Height
<1> QED
  BY <1>2, <1>3

\* What has happened, was told or was passed by is kept by a step of the
\* client, and what it newly passes by it does not tell.
LEMMA ClientMaps ==
  ASSUME chain' = chain, delivered \subseteq delivered', NewInv,
         resynced' = resynced \/ resynced' = Height,
         overtaken \subseteq overtaken', unreplayed \subseteq unreplayed',
         \A p : PassedBy(p)' => PassedBy(p) \/ ~Told(p)'
  PROVE  /\ Happened' = Happened
         /\ ToldOf \subseteq ToldOf' /\ Lost \subseteq Lost'
         /\ (Lost' \ Lost) \cap ToldOf' = {}
<1>1. Happened' = Happened
  BY DEF Happened, Watched, OnChain, Resolves, Emitter, Height, Positions
<1>2. resynced <= resynced'
  BY Numbers DEF NewInv
<1>3. resynced' \in Nat /\ resynced \in Nat
  BY Numbers DEF NewInv
<1>4. ASSUME NEW p \in ToldOf PROVE p \in ToldOf'
  <2>1. p \in Happened /\ p \in Happened' /\ p[1] \in Nat /\ Told(p)
    BY <1>1, BackendAssumption DEF ToldOf, Happened, Positions
  <2>2. Told(p)'
    BY <1>2, <1>3, <2>1 DEF Told
  <2> QED
    BY <2>1, <2>2 DEF ToldOf
<1>5. Lost \subseteq Lost'
  BY <1>1 DEF Lost, PassedBy
<1>6. (Lost' \ Lost) \cap ToldOf' = {}
  BY <1>1 DEF Lost, ToldOf
<1> QED
  BY <1>1, <1>4, <1>5, <1>6

\* A step that changes only what was told and lost of what has happened is a
\* Tell.
LEMMA TellingMaps ==
  ASSUME Happened' = Happened, ToldOf \subseteq ToldOf', Lost \subseteq Lost',
         (Lost' \ Lost) \cap ToldOf' = {}
  PROVE  Feed!Next
<1> DEFINE S == ToldOf' \ ToldOf
           L == Lost' \ Lost
<1>1. ToldOf' \subseteq Happened /\ Lost' \subseteq Happened
  BY DEF ToldOf, Lost
<1>2. /\ S \in SUBSET (Happened \ ToldOf) /\ L \in SUBSET (Happened \ ToldOf)
      /\ S \cap L = {} /\ ToldOf' = ToldOf \cup S /\ Lost' = Lost \cup L
  BY <1>1
<1>3. Feed!Tell(S, L)
  BY <1>2 DEF Feed!Tell
<1> QED
  BY <1>2, <1>3 DEF Feed!Next

\* A mined block happens, and nothing of it has been told.
LEMMA MiningMaps ==
  ASSUME FeedInv, NEW block \in Block, chain' = Append(chain, block),
         UNCHANGED <<delivered, resynced, passed>>
  PROVE  Feed!Next
<1>1. /\ Height \in Nat /\ Height' = Height + 1
      /\ \A b \in 1..Height : chain'[b] = chain[b]
  BY ChainGrows DEF FeedInv, NewInv, TypeOK
<1>2. ASSUME NEW p \in Positions
      PROVE  /\ p[1] <= Height => (Watched(p)' <=> Watched(p))
             /\ Watched(p) => p[1] <= Height
             /\ p[1] > Height => ~Told(p)
             /\ Told(p)' <=> Told(p)
             /\ p[1] > Height => ~PassedBy(p)
             /\ PassedBy(p)' <=> PassedBy(p)
  <2>1. p[1] \in Nat \ {0}
    BY BackendAssumption DEF Positions
  <2>2. p[1] <= Height => (Watched(p)' <=> Watched(p))
    <3> SUFFICES ASSUME p[1] <= Height PROVE Watched(p)' <=> Watched(p)
      OBVIOUS
    <3>1. p[1] \in 1..Height /\ p[1] \in 1..Height'
      BY <1>1, <2>1
    <3>2. chain'[p[1]] = chain[p[1]]
      BY <1>1, <3>1
    <3> QED
      BY <3>1, <3>2 DEF Watched, OnChain, Resolves, Emitter
  <2>3. Watched(p) => p[1] <= Height
    BY <1>1 DEF Watched, OnChain
  <2>4. p[1] > Height => ~Told(p)
    BY <1>1, <2>1, Numbers DEF FeedInv, NewInv, ToldPassed, Placed, Told
  <2>5. p[1] > Height => ~PassedBy(p)
    <3>1. PassedBy(p) => p[1] <= Height
      BY DEF FeedInv, PassedBy
    <3> QED
      BY <1>1, <2>1, <3>1
  <2>6. (PassedBy(p)' <=> PassedBy(p)) /\ (Told(p)' <=> Told(p))
    BY DEF Told, PassedBy, passed
  <2> QED
    BY <2>2, <2>3, <2>4, <2>5, <2>6
<1> DEFINE S == Happened' \ Happened
<1>3. \A p \in Positions : p[1] \in Nat
  BY BackendAssumption DEF Positions
<1>4. Positions' = Positions
  BY DEF Positions
<1>5. Happened \subseteq Happened'
  BY <1>1, <1>2, <1>4 DEF Happened
<1>6. ToldOf' = ToldOf /\ Lost' = Lost
  BY <1>1, <1>2, <1>3, <1>4, <1>5 DEF ToldOf, Lost, Happened
<1>7. S \in SUBSET (Positions \ Happened) /\ Happened' = Happened \cup S
  BY <1>4, <1>5 DEF Happened
<1>8. Feed!Happen(S)
  BY <1>6, <1>7 DEF Feed!Happen
<1> QED
  BY <1>7, <1>8 DEF Feed!Next

\* The safety part of ImplementsFeed: through any interleaving of drops,
\* replays, Resyncs and live logs, what the backend has told is only what has
\* happened, it is never untold, what it passes by was untold, and each step is one of the feed's or leaves
\* the feed as it is.
THEOREM FeedRefinement == Spec => Feed!Spec
<1>1. Init => FeedInv
  BY NewInvInit DEF Init, FeedInv
<1>2. FeedInv /\ [Next]_vars => FeedInv'
  BY FeedInvStep
<1>3. Init => Feed!Init
  <2> SUFFICES ASSUME Init PROVE Happened = {}
    BY DEF Feed!Init, ToldOf, Lost
  <2>1. Height = StartBlock /\ StartBlock \in Nat
    BY BackendAssumption DEF Init, Height
  <2> QED
    BY <2>1, BackendAssumption DEF Happened, Positions, Watched, OnChain
<1>4. FeedInv /\ [Next]_vars => [Feed!Next]_(Feed!feedVars)
  <2> SUFFICES ASSUME FeedInv, [Next]_vars
               PROVE  Feed!Next \/ UNCHANGED <<Happened, ToldOf, Lost>>
    BY DEF Feed!feedVars
  <2>1. ASSUME NEW block \in Block, MinePublished(block) \/ MineUnseen(block)
        PROVE  Feed!Next
    BY <2>1, MiningMaps DEF MinePublished, MineUnseen
  <2>2. CASE Client \/ Disconnect
    <3>1. /\ chain' = chain /\ delivered \subseteq delivered'
          /\ resynced' = resynced \/ resynced' = Height
      BY <2>2 DEF Client, Disconnect, HangUp, Connect, SubscribeLogs, FirstConnect,
         SendResync, StartBackfill, BackfillChunk, TakeHeader, TakeLog, Watchdog
    <3>2. ASSUME NEW p, PassedBy(p)', ~PassedBy(p) PROVE ~Told(p)'
      <4>1. \/ /\ p \in Overtaken(Head(headQ)) /\ TakeHeader
            \/ /\ p \in Unreplayed /\ BackfillChunk
        BY <2>2, <3>2, PassingSteps DEF PassedBy, passed, Next
      <4>2. ~Told(p)
        BY <4>1, UntoldPlaced DEF Overtaken, Unreplayed
      <4>3. CASE p \in Overtaken(Head(headQ)) /\ TakeHeader
        BY <4>2, <4>3 DEF TakeHeader, Told
      <4>4. CASE p \in Unreplayed /\ BackfillChunk
        <5>1. UNCHANGED resynced /\ delivered' = delivered \cup ReplayedLogs
          BY <4>4 DEF BackfillChunk
        <5>2. p \notin ReplayedLogs
          BY <4>4 DEF Unreplayed, Untold, ReplayedLogs
        <5> QED
          BY <4>2, <5>1, <5>2 DEF Told
      <4> QED
        BY <4>1, <4>3, <4>4
    <3>3. overtaken \subseteq overtaken' /\ unreplayed \subseteq unreplayed'
      BY <2>2, PassingSteps DEF passed, Next
    <3> QED
      BY <3>1, <3>2, <3>3, ClientMaps, TellingMaps DEF FeedInv
  <2>3. CASE UNCHANGED vars
    BY <2>3 DEF vars, passed, Happened, ToldOf, Lost, PassedBy, Told, Watched, OnChain, Resolves, Emitter,
       Height, Positions
  <2> QED
    BY <2>1, <2>2, <2>3 DEF Next
<1> QED
  BY <1>1, <1>2, <1>3, <1>4, PTL DEF Spec, Feed!Spec


-----------------------------------------------------------------------------
(* What a step hands over.                                                 *)

\* In the order of the chain a finite set of positions is listed completely,
\* and nothing else is.
LEMMA InOrderLists ==
  ASSUME NEW S, IsFiniteSet(S), S \subseteq Nat \X Nat
  PROVE  /\ Cardinality(S) \in Nat
         /\ \A n \in 1..Cardinality(S) : InOrder(S)[n] \in S
         /\ \A p \in S : \E n \in 1..Cardinality(S) : InOrder(S)[n] = p
<1> DEFINE N == Cardinality(S)
           Below(p) == {q \in S : Leq(q, p)}
           f == [p \in S |-> RankIn(S, p)]
<1>1. N \in Nat
  BY FS_CardinalityType
<1>2. ASSUME NEW p \in S
      PROVE  IsFiniteSet(Below(p)) /\ RankIn(S, p) \in 1..N
  <2>1. Below(p) \in SUBSET S
    OBVIOUS
  <2>2. IsFiniteSet(Below(p)) /\ Cardinality(Below(p)) <= N
    BY <2>1, FS_Subset
  <2>3. p \in Below(p)
    BY DEF Leq
  <2>4. Cardinality(Below(p)) \in Nat /\ Cardinality(Below(p)) # 0
    BY <2>2, <2>3, FS_CardinalityType, FS_EmptySet
  <2> QED
    BY <1>1, <2>2, <2>4 DEF RankIn
<1>3. ASSUME NEW p \in S, NEW q \in S, RankIn(S, p) = RankIn(S, q), Leq(p, q)
      PROVE  p = q
  <2>0. p \in Nat \X Nat /\ q \in Nat \X Nat
    OBVIOUS
  <2>1. Below(p) \in SUBSET Below(q)
    <3> SUFFICES ASSUME NEW r \in S, Leq(r, p) PROVE Leq(r, q)
      OBVIOUS
    <3>1. r \in Nat \X Nat
      OBVIOUS
    <3> QED
      BY <1>3, <2>0, <3>1 DEF Leq
  <2>2. Below(q) = Below(p)
    BY <1>2, <1>3, <2>1, FS_Subset DEF RankIn
  <2>3. Leq(q, p)
    <3>1. q \in Below(q)
      BY <2>0 DEF Leq
    <3> QED
      BY <2>2, <3>1
  <2> QED
    BY <1>3, <2>0, <2>3 DEF Leq
<1>4. ASSUME NEW p \in S, NEW q \in S, RankIn(S, p) = RankIn(S, q) PROVE p = q
  <2>1. p \in Nat \X Nat /\ q \in Nat \X Nat
    OBVIOUS
  <2>2. Leq(p, q) \/ Leq(q, p)
    BY <2>1 DEF Leq
  <2> QED
    BY <1>3, <1>4, <2>2
<1>5. f \in Surjection(S, 1..N)
  <2>1. f \in Injection(S, 1..N)
    BY <1>2, <1>4 DEF Injection, IsInjective
  <2>2. IsFiniteSet(1..N) /\ Cardinality(1..N) = N
    BY <1>1, FS_Interval
  <2> QED
    BY <2>1, <2>2, FS_Injection
<1>6. ASSUME NEW n \in 1..N PROVE InOrder(S)[n] \in S
  <2>1. \E p \in S : RankIn(S, p) = n
    BY <1>5 DEF Surjection
  <2> QED
    BY <2>1 DEF InOrder
<1>7. ASSUME NEW p \in S PROVE \E n \in 1..N : InOrder(S)[n] = p
  <2> DEFINE n == RankIn(S, p)
  <2>1. n \in 1..N
    BY <1>2
  <2>2. InOrder(S)[n] = CHOOSE q \in S : RankIn(S, q) = n
    BY <2>1 DEF InOrder
  <2>3. (CHOOSE q \in S : RankIn(S, q) = n) = p
    BY <1>4
  <2> QED
    BY <2>1, <2>2, <2>3
<1> QED
  BY <1>1, <1>6, <1>7

\* One chunk of a replay returns finitely many logs.
LEMMA ReplayedFinite ==
  ASSUME TypeOK
  PROVE  /\ ReplayedLogs \subseteq Nat \X Nat
         /\ IsFiniteSet(ReplayedLogs)
         /\ ChunkEnd \in Nat
<1> DEFINE A == replay.from..ChunkEnd
           C == 1..MaxIdx
<1>1. ChunkEnd \in Nat /\ replay.from \in Nat /\ MaxIdx \in Nat
  BY Numbers DEF ChunkEnd
<1>2. IsFiniteSet(A) /\ IsFiniteSet(C)
  BY <1>1, FS_Interval
<1>3. IsFiniteSet(A \X C)
  BY <1>2, FS_Product
<1>4. ReplayedLogs \in SUBSET (A \X C)
  BY DEF ReplayedLogs
<1>5. IsFiniteSet(ReplayedLogs)
  BY <1>3, <1>4, FS_Subset
<1>6. A \X C \subseteq Nat \X Nat
  BY <1>1
<1> QED
  BY <1>1, <1>4, <1>5, <1>6

\* A Resync, a header, or a log of one of our pools.
HandedOver(e) ==
  \/ e = ResyncEvent
  \/ \E n \in Nat : e = HeadEvent(n)
  \/ \E p \in Nat \X Nat : Resolves(p) /\ e = LogEvent(p)

\* A step hands over finitely many events, each of one of these kinds.
LEMMA HandsOver ==
  ASSUME NewInv, Next
  PROVE  /\ Len(out') \in Nat
         /\ \A k \in 1..Len(out') : HandedOver(out'[k])
<1>1. TypeOK
  BY DEF NewInv
<1>2. CASE out' = << >>
  BY <1>2
<1>3. CASE out' = <<ResyncEvent>>
  BY <1>3 DEF HandedOver
<1>4. CASE TakeHeader
  <2>1. out' = <<HeadEvent(Head(headQ))>> /\ Head(headQ) \in Nat
    BY <1>1, <1>4 DEF TakeHeader, TypeOK
  <2> QED
    BY <2>1 DEF HandedOver
<1>5. CASE TakeLog /\ out' # << >>
  <2>1. Resolves(Head(logQ)) /\ out' = <<LogEvent(Head(logQ))>> /\ Head(logQ) \in Nat \X Nat
    BY <1>1, <1>5 DEF TakeLog, TypeOK
  <2> QED
    BY <2>1 DEF HandedOver
<1>6. CASE BackfillChunk
  <2> DEFINE S == ReplayedLogs
             N == Cardinality(S)
  <2>1. S \subseteq Nat \X Nat /\ IsFiniteSet(S)
    BY <1>1, ReplayedFinite
  <2>2. \A p \in S : Resolves(p)
    BY DEF ReplayedLogs
  <2>3. out' = [n \in 1..N |-> LogEvent(InOrder(S)[n])]
    BY <1>6 DEF BackfillChunk
  <2> HIDE DEF S
  <2>4. N \in Nat /\ \A n \in 1..N : InOrder(S)[n] \in S
    BY <2>1, InOrderLists
  <2> HIDE DEF N
  <2>5. Len(out') = N /\ \A n \in 1..N : out'[n] = LogEvent(InOrder(S)[n])
    BY <2>3, <2>4
  <2> QED
    BY <2>1, <2>2, <2>4, <2>5 DEF HandedOver
<1> QED
  BY <1>2, <1>3, <1>4, <1>5, <1>6 DEF Next, Client, MinePublished, MineUnseen,
     Disconnect, HangUp, Watchdog, Connect, SubscribeLogs, FirstConnect,
     StartBackfill, SendResync

\* What a step tells for the first time it hands over, by name or by a Resync.
LEMMA ToldIsHandedOver ==
  ASSUME NewInv, Next, NEW p, Told(p)', ~Told(p)
  PROVE  /\ chain' = chain
         /\ \E k \in 1..Len(out') : out'[k] = ResyncEvent \/ out'[k] = LogEvent(p)
<1>1. TypeOK
  BY DEF NewInv
<1>2. CASE UNCHANGED <<delivered, resynced>>
  BY <1>2 DEF Told
<1>3. CASE out' = <<ResyncEvent>> /\ chain' = chain
  BY <1>3
<1>4. CASE TakeLog
  <2>1. CASE UNCHANGED delivered
    BY <1>2, <1>4, <2>1 DEF TakeLog
  <2>2. CASE /\ out' = <<LogEvent(Head(logQ))>>
             /\ delivered' = delivered \cup {Head(logQ)}
    <3>1. p = Head(logQ)
      BY <1>4, <2>2 DEF TakeLog, Told
    <3> QED
      BY <1>4, <2>2, <3>1 DEF TakeLog
  <2> QED
    BY <1>4, <2>1, <2>2 DEF TakeLog
<1>5. CASE BackfillChunk
  <2> DEFINE S == ReplayedLogs
             N == Cardinality(S)
  <2>1. S \subseteq Nat \X Nat /\ IsFiniteSet(S)
    BY <1>1, ReplayedFinite
  <2>2. /\ out' = [n \in 1..N |-> LogEvent(InOrder(S)[n])]
        /\ p \in S /\ chain' = chain
    BY <1>5 DEF BackfillChunk, Told
  <2> HIDE DEF S
  <2>3. PICK n \in 1..N : InOrder(S)[n] = p
    BY <2>1, <2>2, InOrderLists
  <2>4. N \in Nat
    BY <2>1, InOrderLists
  <2> HIDE DEF N
  <2>5. Len(out') = N /\ out'[n] = LogEvent(p)
    BY <2>2, <2>3, <2>4
  <2> QED
    BY <2>2, <2>5
<1> QED
  BY <1>2, <1>3, <1>4, <1>5 DEF Next, Client, MinePublished, MineUnseen,
     Disconnect, HangUp, Watchdog, Connect, SubscribeLogs, FirstConnect,
     StartBackfill, SendResync, TakeHeader

\* A step extends the chain by a block, and then tells and passes nothing, or
\* leaves it.
LEMMA ChainStep ==
  ASSUME Next
  PROVE  \/ chain' = chain
         \/ \E block \in Block :
              chain' = Append(chain, block) /\ UNCHANGED <<cursor, delivered, resynced>>
BY DEF Next, Client, MinePublished, MineUnseen, Disconnect, HangUp, Watchdog, Connect,
   SubscribeLogs, FirstConnect, StartBackfill, BackfillChunk, TakeHeader, TakeLog

-----------------------------------------------------------------------------
(* The order of what is handed over.                                       *)

\* The headers of a connection come in the order they were published.
HeadsAscend ==
  /\ pushed <= Height
  /\ \A k \in 1..Len(headQ) : headQ[k] <= pushed
  /\ \A j, k \in 1..Len(headQ) : j < k => headQ[j] < headQ[k]

\* The blocks of the start are still there, empty of what bootstrap did not
\* read, and every header and log that waits is of a later one.
SinceStart ==
  /\ StartBlock <= Height
  /\ \A b \in 1..StartBlock : chain[b] = << >>
  /\ \A k \in 1..Len(headQ) : StartBlock < headQ[k]
  /\ \A k \in 1..Len(logQ) : StartBlock < logQ[k][1]

FrontInv == NewInv /\ HeadsAscend /\ SinceStart

\* Block b is behind the stream: no header that waits is older, or the cursor
\* has reached b, or the replay under way will take it there.
Behind(b) ==
  /\ b <= Height
  /\ \/ \A k \in 1..Len(headQ) : b <= headQ[k]
     \/ phase = "live" /\ b <= cursor[1]
     \/ phase = "replay" /\ b <= replay.head

LEMMA SinceStartStep == NewInv /\ SinceStart /\ [Next]_vars => SinceStart'
<1> SUFFICES ASSUME NewInv, SinceStart, [Next]_vars PROVE SinceStart'
  OBVIOUS
<1>1. /\ TypeOK /\ Height \in Nat /\ StartBlock \in Nat
      /\ headQ \in Seq(Nat \ {0}) /\ logQ \in Seq(Nat \X Nat)
  BY Numbers, BackendAssumption DEF NewInv, TypeOK
<1>2. ASSUME NEW block \in Block, MinePublished(block) \/ MineUnseen(block)
      PROVE  SinceStart'
  <2>1. Height' = Height + 1 /\ \A b \in 1..Height : chain'[b] = chain[b]
    BY <1>1, <1>2, ChainGrows DEF MinePublished, MineUnseen, TypeOK
  <2>2. \A k \in 1..Len(headQ') : StartBlock < headQ'[k]
    <3>1. CASE headQ' = headQ
      BY <3>1 DEF SinceStart
    <3>2. CASE headQ' = Append(headQ, Height + 1)
      <4>1. /\ Len(headQ') = Len(headQ) + 1 /\ headQ'[Len(headQ) + 1] = Height + 1
            /\ \A k \in 1..Len(headQ) : headQ'[k] = headQ[k]
        BY <1>1, <3>2
      <4>2. StartBlock < Height + 1
        BY <1>1 DEF SinceStart
      <4>3. \A k \in 1..Len(headQ) : StartBlock < headQ[k]
        BY DEF SinceStart
      <4>4. Len(headQ) \in Nat
        BY <1>1
      <4> QED
        BY <4>1, <4>2, <4>3, <4>4
    <3> QED
      BY <1>2, <3>1, <3>2 DEF MinePublished, MineUnseen
  <2>3. \A k \in 1..Len(logQ') : StartBlock < logQ'[k][1]
    <3>1. CASE logQ' = logQ
      BY <3>1 DEF SinceStart
    <3>2. CASE logQ' = logQ \o LogsOf(block)
      <4>1. /\ Len(logQ) \in Nat /\ Len(block) \in Nat
            /\ Len(logQ') = Len(logQ) + Len(block)
            /\ \A k \in 1..Len(logQ) : logQ'[k] = logQ[k]
            /\ \A i \in 1..Len(block) : logQ'[Len(logQ) + i] = <<Height + 1, i>>
        BY <1>1, <3>2, QueueGrows
      <4> TAKE k \in 1..Len(logQ')
      <4>2. CASE k <= Len(logQ)
        BY <4>1, <4>2 DEF SinceStart
      <4>3. CASE k > Len(logQ)
        <5>1. k - Len(logQ) \in 1..Len(block) /\ k = Len(logQ) + (k - Len(logQ))
          BY <4>1, <4>3
        <5>2. logQ'[k] = <<Height + 1, k - Len(logQ)>>
          BY <4>1, <5>1
        <5> QED
          BY <1>1, <5>2 DEF SinceStart
      <4> QED
        BY <4>1, <4>2, <4>3
    <3> QED
      BY <1>2, <3>1, <3>2 DEF MinePublished, MineUnseen
  <2>4. StartBlock <= Height' /\ \A b \in 1..StartBlock : chain'[b] = << >>
    BY <1>1, <2>1 DEF SinceStart
  <2> QED
    BY <2>2, <2>3, <2>4 DEF SinceStart
<1>3. ASSUME UNCHANGED chain,
             headQ' = headQ \/ headQ' = << >> \/ (headQ # << >> /\ headQ' = Tail(headQ)),
             logQ' = logQ \/ logQ' = << >> \/ (logQ # << >> /\ logQ' = Tail(logQ))
      PROVE  SinceStart'
  <2>1. \A k \in 1..Len(headQ') : \E j \in 1..Len(headQ) : headQ'[k] = headQ[j]
    <3>1. CASE headQ # << >> /\ headQ' = Tail(headQ)
      <4>1. \A k \in 1..Len(headQ') : headQ'[k] = headQ[k + 1] /\ k + 1 \in 1..Len(headQ)
        BY <1>1, <3>1
      <4> QED
        BY <4>1
    <3>2. CASE headQ' = headQ
      BY <3>2
    <3>3. CASE headQ' = << >>
      BY <3>3
    <3> QED
      BY <1>3, <3>1, <3>2, <3>3
  <2>2. \A k \in 1..Len(logQ') : \E j \in 1..Len(logQ) : logQ'[k] = logQ[j]
    <3>1. CASE logQ # << >> /\ logQ' = Tail(logQ)
      <4>1. \A k \in 1..Len(logQ') : logQ'[k] = logQ[k + 1] /\ k + 1 \in 1..Len(logQ)
        BY <1>1, <3>1
      <4> QED
        BY <4>1
    <3>2. CASE logQ' = logQ
      BY <3>2
    <3>3. CASE logQ' = << >>
      BY <3>3
    <3> QED
      BY <1>3, <3>1, <3>2, <3>3
  <2>3. \A k \in 1..Len(headQ') : StartBlock < headQ'[k]
    BY <2>1 DEF SinceStart
  <2>4. \A k \in 1..Len(logQ') : StartBlock < logQ'[k][1]
    BY <2>2 DEF SinceStart
  <2> QED
    BY <1>3, <2>3, <2>4 DEF SinceStart, Height
<1>4. CASE Disconnect \/ Client
  BY <1>3, <1>4 DEF Client, Disconnect, Watchdog, HangUp, Connect, SubscribeLogs,
     FirstConnect, StartBackfill, BackfillChunk, TakeHeader, TakeLog
<1>5. CASE UNCHANGED vars
  BY <1>3, <1>5 DEF vars
<1> QED
  BY <1>2, <1>4, <1>5 DEF Next

\* The headers wait in the order of the chain.
LEMMA FrontInvInit == Init => FrontInv
<1> SUFFICES ASSUME Init PROVE HeadsAscend /\ SinceStart
  BY NewInvInit DEF FrontInv
<1>1. Height = StartBlock /\ StartBlock \in Nat
  BY BackendAssumption DEF Init, Height
<1>2. HeadsAscend
  BY <1>1 DEF Init, HeadsAscend
<1>3. SinceStart
  BY <1>1 DEF Init, SinceStart
<1> QED
  BY <1>2, <1>3

LEMMA FrontInvStep == FrontInv /\ [Next]_vars => FrontInv'
<1> SUFFICES ASSUME FrontInv, [Next]_vars PROVE HeadsAscend'
  BY NewInvStep, SinceStartStep DEF FrontInv
<1>1. TypeOK /\ HeadsAscend
  BY DEF FrontInv, NewInv
<1>2. /\ Height \in Nat /\ pushed \in Nat /\ headQ \in Seq(Nat \ {0})
      /\ Len(headQ) \in Nat
  BY <1>1, Numbers DEF TypeOK
<1>3. ASSUME NEW block \in Block, MinePublished(block) \/ MineUnseen(block)
      PROVE  HeadsAscend'
  <2>1. Height' = Height + 1
    BY <1>1, <1>3, ChainGrows DEF MinePublished, MineUnseen, TypeOK
  <2>2. CASE UNCHANGED <<pushed, headQ>>
    BY <1>1, <1>2, <2>1, <2>2 DEF HeadsAscend
  <2>3. CASE pushed' = Height + 1 /\ headQ' = Append(headQ, Height + 1)
    <3>1. /\ Len(headQ') = Len(headQ) + 1 /\ headQ'[Len(headQ) + 1] = Height + 1
          /\ \A k \in 1..Len(headQ) : headQ'[k] = headQ[k] /\ headQ[k] \in Nat
      BY <1>2, <2>3
    <3>2. \A k \in 1..Len(headQ) : headQ[k] < Height + 1
      BY <1>1, <1>2, <3>1 DEF HeadsAscend
    <3> QED
      BY <1>1, <1>2, <2>1, <2>3, <3>1, <3>2 DEF HeadsAscend
  <2> QED
    BY <1>3, <2>2, <2>3 DEF MinePublished, MineUnseen
<1>4. CASE TakeHeader
  <2>1. headQ # << >> /\ headQ' = Tail(headQ) /\ UNCHANGED <<chain, pushed>>
    BY <1>4 DEF TakeHeader
  <2>2. /\ Len(headQ') = Len(headQ) - 1
        /\ \A k \in 1..Len(headQ') : headQ'[k] = headQ[k + 1] /\ k + 1 \in 1..Len(headQ)
    BY <1>2, <2>1
  <2> QED
    BY <1>1, <1>2, <2>1, <2>2 DEF HeadsAscend, Height
<1>5. CASE HangUp
  BY <1>1, <1>5 DEF HangUp, HeadsAscend, Height
<1>6. CASE Connect
  <2>1. pushed' = Height /\ headQ' = headQ /\ Height' = Height
    BY <1>6 DEF Connect, Height
  <2>2. \A k \in 1..Len(headQ) : headQ[k] \in Nat
    BY <1>2
  <2> QED
    BY <1>1, <1>2, <2>1, <2>2 DEF HeadsAscend
<1>7. CASE UNCHANGED <<chain, pushed, headQ>>
  BY <1>1, <1>7 DEF HeadsAscend, Height
<1> QED
  BY <1>3, <1>4, <1>5, <1>6, <1>7 DEF Next, Client, Disconnect, Watchdog, vars,
     SubscribeLogs, FirstConnect, StartBackfill, BackfillChunk, TakeLog

\* What is behind the stream stays behind it, also over a lost connection and
\* a replay that is cut short.
LEMMA BehindKept ==
  ASSUME FrontInv, [Next]_vars, NEW b \in Nat, Behind(b)
  PROVE  Behind(b)'
<1>1. TypeOK /\ HeadsAscend /\ TypeOK'
  BY TypeStep DEF FrontInv, NewInv
<1>2. /\ Height \in Nat /\ headQ \in Seq(Nat \ {0}) /\ Len(headQ) \in Nat
      /\ cursor[1] \in Nat /\ cursor'[1] \in Nat /\ replay.head \in Nat
  BY <1>1, Numbers, SMTT(20) DEF TypeOK
<1>3. ASSUME NEW block \in Block, MinePublished(block) \/ MineUnseen(block)
      PROVE  Behind(b)'
  <2>1. Height' = Height + 1 /\ UNCHANGED <<phase, cursor, replay>>
    BY <1>1, <1>3, ChainGrows DEF MinePublished, MineUnseen, TypeOK
  <2>2. CASE UNCHANGED headQ
    BY <1>2, <2>1, <2>2 DEF Behind
  <2>3. CASE headQ' = Append(headQ, Height + 1)
    <3>1. /\ Len(headQ') = Len(headQ) + 1 /\ headQ'[Len(headQ) + 1] = Height + 1
          /\ \A k \in 1..Len(headQ) : headQ'[k] = headQ[k]
      BY <1>2, <2>3
    <3> QED
      BY <1>2, <2>1, <3>1 DEF Behind
  <2> QED
    BY <1>3, <2>2, <2>3 DEF MinePublished, MineUnseen
<1>4. CASE TakeHeader
  <2>1. /\ phase = "live" /\ phase' = "live" /\ headQ # << >>
        /\ headQ' = Tail(headQ) /\ Height' = Height
        /\ cursor' = cursor \/ Lt(cursor, cursor')
    BY <1>4 DEF TakeHeader, Height
  <2>2. \A k \in 1..Len(headQ') : headQ'[k] = headQ[k + 1] /\ k + 1 \in 1..Len(headQ)
    BY <1>2, <2>1
  <2>3. cursor[1] <= cursor'[1]
    BY <1>2, <2>1 DEF Lt
  <2> QED
    BY <1>2, <2>1, <2>2, <2>3 DEF Behind
<1>5. CASE TakeLog
  <2>1. /\ phase = "live" /\ phase' = "live" /\ UNCHANGED headQ /\ Height' = Height
        /\ cursor' = cursor \/ ~Leq(cursor', cursor)
    BY <1>5 DEF TakeLog, Height, AlreadyHanded
  <2>2. cursor[1] <= cursor'[1]
    BY <1>2, <2>1 DEF Leq
  <2> QED
    BY <1>2, <2>1, <2>2 DEF Behind
<1>6. CASE BackfillChunk
  <2>1. phase = "replay" /\ UNCHANGED headQ /\ Height' = Height
    BY <1>6 DEF BackfillChunk, Height
  <2>2. CASE cursor' = <<replay.head, MaxIdx>> /\ phase' = "live"
    BY <1>2, <2>1, <2>2 DEF Behind
  <2>3. CASE phase' = phase /\ replay' = [replay EXCEPT !.from = ChunkEnd + 1]
    <3>1. replay'.head = replay.head
      BY <1>1, <2>3 DEF TypeOK
    <3> QED
      BY <2>1, <2>3, <3>1 DEF Behind
  <2> QED
    BY <1>6, <2>2, <2>3 DEF BackfillChunk
<1>7. CASE HangUp
  <2>1. Len(headQ') = 0 /\ Height' = Height
    BY <1>7 DEF HangUp, Height
  <2> QED
    BY <2>1 DEF Behind
<1>8. CASE Connect \/ SubscribeLogs \/ FirstConnect \/ StartBackfill
  <2>1. /\ phase \notin {"live", "replay"} /\ UNCHANGED headQ /\ Height' = Height
    BY <1>8 DEF Connect, SubscribeLogs, FirstConnect, StartBackfill, Height
  <2> QED
    BY <2>1 DEF Behind
<1>9. CASE UNCHANGED vars
  BY <1>9 DEF vars, Behind, Height
<1> QED
  BY <1>3, <1>4, <1>5, <1>6, <1>7, <1>8, <1>9 DEF Next, Client, Disconnect, Watchdog

\* The block of what is handed over is behind the stream.
LEMMA HandedOverIsBehind ==
  ASSUME FrontInv, Next
  PROVE  \A k \in 1..Len(out') :
           /\ out'[k].type = "NewHead" =>
                /\ out'[k].number \in Nat
                /\ \A b \in Nat : b = out'[k].number => Behind(b)'
           /\ out'[k].type = "PoolLog" =>
                /\ out'[k].pos[1] \in Nat
                /\ \A b \in Nat : b = out'[k].pos[1] => Behind(b)'
<1>1. TypeOK /\ HeadsAscend /\ NewInv
  BY DEF FrontInv, NewInv
<1>2. /\ Height \in Nat /\ headQ \in Seq(Nat \ {0}) /\ Len(headQ) \in Nat
      /\ replay.head \in Nat /\ pushed \in Nat
  BY <1>1, Numbers DEF TypeOK
<1> TAKE k \in 1..Len(out')
<1>3. CASE out' = << >>
  BY <1>3
<1>4. CASE out' = <<ResyncEvent>>
  BY <1>4 DEF ResyncEvent
<1>5. CASE TakeHeader
  <2> DEFINE n == Head(headQ)
  <2>1. /\ out' = <<HeadEvent(n)>> /\ headQ # << >> /\ headQ' = Tail(headQ)
        /\ Height' = Height
    BY <1>5 DEF TakeHeader, Height
  <2>2. n = headQ[1] /\ n \in Nat /\ 1 \in 1..Len(headQ)
    BY <1>2, <2>1
  <2>3. \A j \in 1..Len(headQ') : headQ'[j] = headQ[j + 1] /\ j + 1 \in 1..Len(headQ) /\ 1 < j + 1
    BY <1>2, <2>1
  <2>a. \A j \in 1..Len(headQ) : headQ[j] \in Nat
    BY <1>2
  <2>4. \A j \in 1..Len(headQ') : n < headQ'[j] /\ headQ'[j] \in Nat
    BY <1>1, <2>a, <2>2, <2>3 DEF HeadsAscend
  <2>5. n <= Height
    BY <1>1, <1>2, <2>2 DEF HeadsAscend
  <2>6. out'[k].type = "NewHead" /\ out'[k].number = n
    BY <2>1 DEF HeadEvent
  <2> HIDE DEF n
  <2>7. \A b \in Nat : b = n => Behind(b)'
    BY <2>1, <2>2, <2>4, <2>5 DEF Behind
  <2> QED
    BY <2>2, <2>6, <2>7
<1>6. CASE TakeLog /\ out' # << >>
  <2> DEFINE p == Head(logQ)
  <2>1. /\ out' = <<LogEvent(p)>> /\ logQ # << >> /\ cursor' = p
        /\ phase' = "live" /\ Height' = Height
    BY <1>6 DEF TakeLog, Height
  <2>2. p = logQ[1] /\ p \in Nat \X Nat /\ 1 \in 1..Len(logQ)
    BY <1>1, <2>1 DEF TypeOK
  <2>3. p[1] <= Height
    <3>1. Placed(logQ[1])
      BY <1>1, <2>2 DEF NewInv, QueuesPlaced
    <3> QED
      BY <1>2, <2>2, <3>1 DEF Placed
  <2>4. out'[k].type = "PoolLog" /\ out'[k].pos = p
    BY <2>1 DEF LogEvent
  <2> HIDE DEF p
  <2>5. \A b \in Nat : b = p[1] => Behind(b)'
    BY <2>1, <2>2, <2>3 DEF Behind
  <2> QED
    BY <2>2, <2>4, <2>5
<1>7. CASE BackfillChunk
  <2>1. /\ phase = "replay" /\ Height' = Height /\ UNCHANGED headQ
        /\ \/ cursor' = <<replay.head, MaxIdx>> /\ phase' = "live"
           \/ phase' = "replay" /\ replay' = [replay EXCEPT !.from = ChunkEnd + 1]
    BY <1>7 DEF BackfillChunk, Height
  <2>2. replay.head <= Height
    BY <1>1, <2>1 DEF NewInv, ToldPassed
  <2> DEFINE S == ReplayedLogs
             N == Cardinality(S)
  <2>3. S \subseteq Nat \X Nat /\ IsFiniteSet(S) /\ ChunkEnd \in Nat
    BY <1>1, ReplayedFinite
  <2>4. \A p \in S : p[1] <= replay.head
    BY <1>1, <1>2, <2>3, Numbers, SMTT(20) DEF ReplayedLogs, ChunkEnd
  <2>5. out' = [n \in 1..N |-> LogEvent(InOrder(S)[n])]
    BY <1>7 DEF BackfillChunk
  <2> HIDE DEF S
  <2>6. N \in Nat /\ \A n \in 1..N : InOrder(S)[n] \in S
    BY <2>3, InOrderLists
  <2> HIDE DEF N
  <2>7. k \in 1..N /\ out'[k] = LogEvent(InOrder(S)[k])
    BY <2>5, <2>6
  <2>8. out'[k].type = "PoolLog" /\ out'[k].pos = InOrder(S)[k]
    BY <2>7 DEF LogEvent
  <2>9. out'[k].pos[1] \in Nat /\ out'[k].pos[1] <= replay.head
    BY <2>3, <2>4, <2>6, <2>7, <2>8
  <2>10. ASSUME NEW b \in Nat, b <= replay.head PROVE Behind(b)'
    <3>1. CASE cursor' = <<replay.head, MaxIdx>> /\ phase' = "live"
      BY <1>2, <2>1, <2>2, <2>10, <3>1 DEF Behind
    <3>2. CASE phase' = "replay" /\ replay' = [replay EXCEPT !.from = ChunkEnd + 1]
      <4>1. replay'.head = replay.head
        BY <1>1, <3>2 DEF TypeOK
      <4> QED
        BY <1>2, <2>1, <2>2, <2>10, <3>2, <4>1 DEF Behind
    <3> QED
      BY <2>1, <3>1, <3>2
  <2> QED
    BY <2>8, <2>9, <2>10
<1> QED
  BY <1>3, <1>4, <1>5, <1>6, <1>7 DEF Next, Client, MinePublished, MineUnseen,
     Disconnect, HangUp, Watchdog, Connect, SubscribeLogs, FirstConnect,
     StartBackfill, SendResync

\* So is every block handed over newer than the start.
LEMMA HandedOverSinceStart ==
  ASSUME FrontInv, Next
  PROVE  \A k \in 1..Len(out') :
           /\ out'[k].type = "NewHead" => StartBlock < out'[k].number
           /\ out'[k].type = "PoolLog" => StartBlock < out'[k].pos[1]
<1>1. TypeOK /\ SinceStart /\ StartBlock \in Nat
  BY BackendAssumption DEF FrontInv, NewInv
<1>2. headQ \in Seq(Nat \ {0}) /\ logQ \in Seq(Nat \X Nat)
  BY <1>1 DEF TypeOK
<1> TAKE k \in 1..Len(out')
<1>3. CASE out' = << >>
  BY <1>3
<1>4. CASE out' = <<ResyncEvent>>
  BY <1>4 DEF ResyncEvent
<1>5. CASE TakeHeader
  <2>1. out' = <<HeadEvent(Head(headQ))>> /\ headQ # << >>
    BY <1>5 DEF TakeHeader
  <2>2. Head(headQ) = headQ[1] /\ 1 \in 1..Len(headQ)
    BY <1>2, <2>1
  <2>3. out'[k].type = "NewHead" /\ out'[k].number = headQ[1]
    BY <2>1, <2>2 DEF HeadEvent
  <2> QED
    BY <1>1, <2>2, <2>3 DEF SinceStart
<1>6. CASE TakeLog /\ out' # << >>
  <2>1. out' = <<LogEvent(Head(logQ))>> /\ logQ # << >>
    BY <1>6 DEF TakeLog
  <2>2. Head(logQ) = logQ[1] /\ 1 \in 1..Len(logQ)
    BY <1>2, <2>1
  <2>3. out'[k].type = "PoolLog" /\ out'[k].pos = logQ[1]
    BY <2>1, <2>2 DEF LogEvent
  <2> QED
    BY <1>1, <2>2, <2>3 DEF SinceStart
<1>7. CASE BackfillChunk
  <2> DEFINE S == ReplayedLogs
             N == Cardinality(S)
  <2>1. S \subseteq Nat \X Nat /\ IsFiniteSet(S)
    BY <1>1, ReplayedFinite
  <2>2. ASSUME NEW p \in S PROVE StartBlock < p[1]
    <3>1. p[1] \in 1..Height /\ p[2] \in 1..Len(chain[p[1]])
      BY DEF ReplayedLogs, ReturnedByGetLogs, OnChain
    <3>2. chain[p[1]] # << >>
      BY <3>1
    <3>3. p[1] \in Nat /\ p[1] >= 1
      BY <3>1
    <3> QED
      BY <1>1, <3>2, <3>3 DEF SinceStart
  <2>3. out' = [n \in 1..N |-> LogEvent(InOrder(S)[n])]
    BY <1>7 DEF BackfillChunk
  <2> HIDE DEF S
  <2>4. N \in Nat /\ \A n \in 1..N : InOrder(S)[n] \in S
    BY <2>1, InOrderLists
  <2> HIDE DEF N
  <2>5. k \in 1..N /\ out'[k] = LogEvent(InOrder(S)[k])
    BY <2>3, <2>4
  <2>6. out'[k].type = "PoolLog" /\ out'[k].pos = InOrder(S)[k]
    BY <2>5 DEF LogEvent
  <2> QED
    BY <2>2, <2>4, <2>5, <2>6
<1> QED
  BY <1>3, <1>4, <1>5, <1>6, <1>7 DEF Next, Client, MinePublished, MineUnseen,
     Disconnect, HangUp, Watchdog, Connect, SubscribeLogs, FirstConnect,
     StartBackfill, SendResync

\* A header that is not older than the cursor's block is at least as new as
\* everything that is behind the stream, and is handed over alone.
LEMMA HeadIsNewest ==
  ASSUME FrontInv, Next, NEW k \in 1..Len(out'), out'[k].type = "NewHead",
         cursor[1] <= out'[k].number
  PROVE  /\ Len(out') = 1
         /\ \A b \in Nat : Behind(b) => b <= out'[k].number
<1>1. TypeOK
  BY DEF FrontInv, NewInv
<1>2. /\ headQ \in Seq(Nat \ {0}) /\ cursor[1] \in Nat
  BY <1>1, Numbers DEF TypeOK
<1>3. TakeHeader
  <2>1. CASE out' = << >>
    BY <2>1
  <2>2. CASE out' = <<ResyncEvent>>
    BY <2>2 DEF ResyncEvent
  <2>3. CASE TakeLog
    <3>1. out' = << >> \/ out' = <<LogEvent(Head(logQ))>>
      BY <2>3 DEF TakeLog
    <3> QED
      BY <3>1 DEF LogEvent
  <2>4. CASE BackfillChunk
    <3> DEFINE S == ReplayedLogs
               N == Cardinality(S)
    <3>1. S \subseteq Nat \X Nat /\ IsFiniteSet(S)
      BY <1>1, ReplayedFinite
    <3>2. out' = [n \in 1..N |-> LogEvent(InOrder(S)[n])]
      BY <2>4 DEF BackfillChunk
    <3> HIDE DEF S
    <3>3. N \in Nat
      BY <3>1, InOrderLists
    <3> HIDE DEF N
    <3>4. out'[k] = LogEvent(InOrder(S)[k])
      BY <3>2, <3>3
    <3> QED
      BY <3>4 DEF LogEvent
  <2> QED
    BY <2>1, <2>2, <2>3, <2>4 DEF Next, Client, MinePublished, MineUnseen,
       Disconnect, HangUp, Watchdog, Connect, SubscribeLogs, FirstConnect,
       StartBackfill, SendResync
<1>4. /\ phase = "live" /\ headQ # << >> /\ out' = <<HeadEvent(Head(headQ))>>
  BY <1>3 DEF TakeHeader
<1>5. Head(headQ) = headQ[1] /\ 1 \in 1..Len(headQ) /\ Head(headQ) \in Nat
  BY <1>2, <1>4
<1>6. Len(out') = 1 /\ out'[k].number = headQ[1]
  BY <1>4, <1>5 DEF HeadEvent
<1> QED
  BY <1>2, <1>4, <1>5, <1>6 DEF Behind

-----------------------------------------------------------------------------
(* The composition.                                                        *)

\* Does this event belong to a block?
Moves(e) == e.type \in {"NewHead", "PoolLog"}

\* While it waits for an event the task has no job and no event put aside.
Resting == pc = "recv" => job = P!NoJob /\ pending = P!NoEvent

-----------------------------------------------------------------------------
(* The backend of the composition.                                         *)

\* The backend's own invariants hold from the start and are kept by every step
\* of the composition.
LEMMA BackendMoves == [SystemNext]_systemVars => [Next]_vars
BY DEF SystemNext, BackendStep, PipelineStep, TakeBatch, systemVars

LEMMA FrontKept == FrontInv /\ [SystemNext]_systemVars => FrontInv'
BY FrontInvStep, BackendMoves

\* FrontInv is what the events of a step need.
LEMMA FrontFacts ==
  ASSUME FrontInv
  PROVE  TypeOK /\ NewInv
BY DEF FrontInv, NewInv

-----------------------------------------------------------------------------
(* What reaches the channel.                                               *)

\* A log, a header and a Resync reach the pipeline as such.
LEMMA EventsArrive ==
  ASSUME NEW e, HandedOver(e)
  PROVE  /\ AsIngestEvent(e) \in P!Event
         /\ e = ResyncEvent => AsIngestEvent(e) = P!Resync
         /\ AsIngestEvent(e).type = e.type
         /\ e.type = "NewHead" => AsIngestEvent(e).block = e.number
         /\ e.type = "PoolLog" => AsIngestEvent(e).block = e.pos[1]
         /\ \A p : e = LogEvent(p) => AsIngestEvent(e) = P!PoolLog(p[1], Emitter(p))
<1>1. CASE e = ResyncEvent
  <2>1. e.type = "Resync"
    BY <1>1 DEF ResyncEvent
  <2>2. AsIngestEvent(e) = P!Resync
    BY <2>1 DEF AsIngestEvent
  <2> QED
    BY <1>1, <2>1, <2>2 DEF P!Resync, P!Event, LogEvent
<1>2. ASSUME NEW n \in Nat, e = HeadEvent(n)
      PROVE  /\ e.type = "NewHead" /\ AsIngestEvent(e) \in P!Event
             /\ AsIngestEvent(e).type = e.type
             /\ AsIngestEvent(e).block = e.number
  <2>1. e.type = "NewHead" /\ e.number = n
    BY <1>2 DEF HeadEvent
  <2>2. AsIngestEvent(e) = P!NewHead(n)
    BY <2>1 DEF AsIngestEvent
  <2> QED
    BY <2>1, <2>2 DEF P!NewHead, P!Event
<1>3. ASSUME NEW p \in Nat \X Nat, Resolves(p), e = LogEvent(p)
      PROVE  /\ e.type = "PoolLog" /\ AsIngestEvent(e) \in P!Event
             /\ AsIngestEvent(e).type = e.type
             /\ AsIngestEvent(e).block = e.pos[1]
             /\ \A q : e = LogEvent(q) => AsIngestEvent(e) = P!PoolLog(q[1], Emitter(q))
  <2>1. e.type = "PoolLog" /\ e.pos = p
    BY <1>3 DEF LogEvent
  <2>2. AsIngestEvent(e) = P!PoolLog(p[1], Emitter(p))
    BY <2>1 DEF AsIngestEvent
  <2>3. Emitter(p) \in Pools /\ p[1] \in Nat
    BY <1>3 DEF Emitter, Resolves
  <2>4. \A q : e = LogEvent(q) => q = p
    BY <2>1 DEF LogEvent
  <2> QED
    BY <2>1, <2>2, <2>3, <2>4 DEF P!PoolLog, P!Event
<1> QED
  BY <1>1, <1>2, <1>3 DEF HandedOver, ResyncEvent, HeadEvent, LogEvent

\* The channel after a step of the backend's: what it held, then the events.
LEMMA ChannelGrows ==
  ASSUME FrontInv, P!TypeOK, BackendStep
  PROVE  /\ inQ' \in Seq(P!Event)
         /\ Len(inQ) \in Nat /\ Len(out') \in Nat
         /\ Len(inQ') = Len(inQ) + Len(out')
         /\ \A k \in 1..Len(inQ) : inQ'[k] = inQ[k]
         /\ \A k \in 1..Len(out') : /\ HandedOver(out'[k])
                                    /\ inQ'[Len(inQ) + k] = AsIngestEvent(out'[k])
<1> DEFINE new == [k \in 1..Len(out') |-> AsIngestEvent(out'[k])]
<1>1. inQ \in Seq(P!Event) /\ inQ' = inQ \o new
  BY DEF P!TypeOK, BackendStep
<1>2. Len(out') \in Nat /\ \A k \in 1..Len(out') : HandedOver(out'[k])
  <2>1. NewInv /\ Next
    BY FrontFacts DEF BackendStep
  <2> QED
    BY <2>1, HandsOver
<1>3. \A k \in 1..Len(out') : AsIngestEvent(out'[k]) \in P!Event
  BY <1>2, EventsArrive
<1>4. new \in Seq(P!Event) /\ Len(new) = Len(out')
  BY <1>2, <1>3
<1>5. \A k \in 1..Len(out') : new[k] = AsIngestEvent(out'[k])
  OBVIOUS
<1> HIDE DEF new
<1>6. /\ inQ' \in Seq(P!Event) /\ Len(inQ') = Len(inQ) + Len(new)
      /\ Len(inQ) \in Nat /\ Len(new) \in Nat
  <2>1. Len(inQ \o new) = Len(inQ) + Len(new) /\ inQ \o new \in Seq(P!Event)
    BY <1>1, <1>4, ConcatProperties
  <2>2. Len(inQ) \in Nat
    BY <1>1
  <2> QED
    BY <1>1, <1>2, <1>4, <2>1, <2>2
<1>7. \A k \in 1..Len(inQ) : inQ'[k] = inQ[k]
  BY <1>1, <1>4
<1>8. ASSUME NEW k \in 1..Len(out') PROVE inQ'[Len(inQ) + k] = AsIngestEvent(out'[k])
  <2>1. inQ'[Len(inQ) + k] = new[k]
    BY <1>1, <1>4, <1>6
  <2> QED
    BY <1>5, <2>1
<1> QED
  BY <1>2, <1>4, <1>6, <1>7, <1>8

\* Taking an event leaves the later ones in their order.
LEMMA ChannelShrinks ==
  ASSUME P!TypeOK, inQ # << >>, inQ' = Tail(inQ)
  PROVE  /\ inQ' \in Seq(P!Event)
         /\ Head(inQ) = inQ[1] /\ Head(inQ) \in P!Event
         /\ 1 \in 1..Len(inQ)
         /\ Len(inQ) \in Nat /\ Len(inQ') = Len(inQ) - 1
         /\ \A k \in 1..Len(inQ') : inQ'[k] = inQ[k + 1] /\ k + 1 \in 1..Len(inQ)
BY DEF P!TypeOK

-----------------------------------------------------------------------------
(* Type correctness.                                                       *)

\* The fields of an event.
LEMMA EventFields ==
  ASSUME NEW e \in P!Event
  PROVE  /\ e.type \in {"NewHead", "PoolLog", "Resync"}
         /\ e.type = "NewHead" => e.block \in Nat
         /\ e.type = "PoolLog" => e.block \in Nat /\ e.pool \in Pools
         /\ e.type = "Resync" => e = P!Resync
         /\ e # P!NoEvent
BY DEF P!Event, P!Resync, P!NoEvent

LEMMA PipelineStarts == SystemInit => P!TypeOK /\ Resting
<1> SUFFICES ASSUME P!Init PROVE P!TypeOK /\ Resting
  BY DEF SystemInit
<1>1. P!NoJob \in P!Batch
  BY DEF P!NoJob, P!Batch
<1>2. due \in [Pools -> Nat]
  BY DEF P!Init
<1>3. inQ \in Seq(P!Event) /\ changedQ \in Seq(P!Batch)
  BY DEF P!Init
<1>4. /\ openBlock = 0 /\ head = 0 /\ tip \in Nat /\ haveOpen = FALSE /\ dirty = {}
      /\ pc = "recv" /\ job = P!NoJob /\ pending = P!NoEvent
  BY BackendAssumption DEF P!Init
<1>5. [head |-> 0, log |-> 0, events |-> 0] \in [head : Nat, log : Nat, events : Nat]
  OBVIOUS
<1>6. << >> \in Seq({})
  OBVIOUS
<1> QED
  BY <1>1, <1>2, <1>3, <1>4, <1>5, <1>6 DEF P!TypeOK, Resting

\* Applying a header or a log keeps the types.
LEMMA ApplyKeepsTypes ==
  ASSUME P!TypeOK, NEW e \in P!Event, P!Apply(e)
  PROVE  /\ openBlock' \in Nat /\ haveOpen' \in BOOLEAN /\ head' \in Nat
         /\ dirty' \in SUBSET Pools /\ due' \in [Pools -> Nat]
<1>1. CASE e.type = "NewHead" /\ P!ApplyHead(e)
  BY <1>1, EventFields DEF P!ApplyHead, P!TypeOK
<1>2. CASE e.type = "PoolLog" /\ P!ApplyLog(e)
  <2>1. e.block \in Nat /\ e.pool \in Pools
    BY <1>2, EventFields
  <2>2. due' \in [Pools -> Nat]
    BY <1>2, <2>1 DEF P!ApplyLog, P!TypeOK
  <2> QED
    BY <1>2, <2>1, <2>2 DEF P!ApplyLog, P!TypeOK
<1> QED
  BY <1>1, <1>2 DEF P!Apply

\* The types and the rest of the task are kept.
LEMMA PipelineKept ==
  ASSUME FrontInv, P!TypeOK, Resting, [SystemNext]_systemVars
  PROVE  P!TypeOK' /\ Resting'
<1>1. CASE BackendStep
  <2>1. inQ' \in Seq(P!Event) /\ UNCHANGED pipeline
    BY <1>1, ChannelGrows DEF BackendStep
  <2> QED
    BY <2>1 DEF pipeline, P!TypeOK, Resting
<1>2. CASE P!TakeEvent
  <2> DEFINE e == Head(inQ)
  <2>1. /\ pc = "recv" /\ inQ' \in Seq(P!Event) /\ e \in P!Event
        /\ UNCHANGED <<tip, changedQ>> /\ job = P!NoJob /\ pending = P!NoEvent
    BY <1>2, ChannelShrinks DEF P!TakeEvent, Resting
  <2>2. CASE P!BeginSeal(e) /\ UNCHANGED <<openBlock, haveOpen, head, due>>
    BY <2>1, <2>2 DEF P!BeginSeal, P!Drain, P!TypeOK, P!Batch, Resting
  <2>3. CASE P!Apply(e) /\ UNCHANGED <<pc, job, pending>>
    <3>1. /\ openBlock' \in Nat /\ haveOpen' \in BOOLEAN /\ head' \in Nat
          /\ dirty' \in SUBSET Pools /\ due' \in [Pools -> Nat]
      BY <2>1, <2>3, ApplyKeepsTypes
    <3> QED
      BY <2>1, <2>3, <3>1 DEF P!TypeOK, Resting
  <2>4. CASE /\ pc' = "advance" /\ job' = [block |-> P!ResyncBlock, pools |-> P!ResyncPools]
             /\ UNCHANGED <<openBlock, haveOpen, dirty, head, pending, due>>
    BY <2>1, <2>4 DEF P!ResyncBlock, P!ResyncPools, P!TypeOK, P!Batch, Resting
  <2> QED
    BY <1>2, <2>2, <2>3, <2>4 DEF P!TakeEvent
<1>3. CASE P!QuietSeal
  <2>1. UNCHANGED <<inQ, openBlock, head, tip, changedQ, due>> /\ haveOpen' = FALSE
    BY <1>3 DEF P!QuietSeal
  <2>2. CASE P!BeginSeal(P!NoEvent)
    <3>1. job' \in P!Batch
      BY <2>2 DEF P!BeginSeal, P!Drain, P!TypeOK, P!Batch
    <3> QED
      BY <2>1, <2>2, <3>1 DEF P!BeginSeal, P!TypeOK, Resting
  <2>3. CASE UNCHANGED <<pc, job, dirty, pending>>
    BY <2>1, <2>3 DEF P!TypeOK, Resting
  <2> QED
    BY <1>3, <2>2, <2>3 DEF P!QuietSeal
<1>4. CASE P!Advance \/ P!Prefetch
  BY <1>4 DEF P!Advance, P!Prefetch, P!TypeOK, P!Batch, Resting
<1>5. CASE P!Send
  <2>1. changedQ' \in Seq(P!Batch) /\ P!NoJob \in P!Batch
    BY <1>5 DEF P!Send, P!TypeOK, P!Batch, P!NoJob
  <2>2. CASE pending = P!NoEvent
    BY <1>5, <2>1, <2>2 DEF P!Send, P!TypeOK, Resting
  <2>3. CASE pending # P!NoEvent
    <3>1. pending \in P!Event /\ P!Apply(pending)
      BY <1>5, <2>3 DEF P!Send, P!TypeOK
    <3>2. /\ openBlock' \in Nat /\ haveOpen' \in BOOLEAN /\ head' \in Nat
          /\ dirty' \in SUBSET Pools /\ due' \in [Pools -> Nat]
      BY <3>1, ApplyKeepsTypes
    <3> QED
      BY <1>5, <2>1, <3>2 DEF P!Send, P!TypeOK, Resting
  <2> QED
    BY <2>2, <2>3
<1>6. CASE TakeBatch
  BY <1>6 DEF TakeBatch, P!TypeOK, Resting
<1>7. CASE UNCHANGED systemVars
  BY <1>7 DEF systemVars, pipeline, P!TypeOK, Resting
<1> QED
  BY <1>1, <1>2, <1>3, <1>4, <1>5, <1>6, <1>7 DEF SystemNext, PipelineStep, P!Task

-----------------------------------------------------------------------------
(* No change is forgotten.                                                 *)

\* The notice of p is somewhere other than in the job under way.
StillToCome(p) ==
  \/ LogPending(p) \/ LogPassedBy(p) \/ InChannel(p)
  \/ p \in dirty
  \/ pending.type = "PoolLog" /\ pending.pool = p

\* Between the read and the send of a job, a stale pool that the read does not
\* cover has its notice elsewhere: when the job is over, it is not forgotten.
ReadAccounted == pc = "send" => \A p \in stale \ read : StillToCome(p)

KnownInv ==
  /\ FrontInv
  /\ IInv
  /\ P!TypeOK
  /\ Resting
  /\ stale \subseteq Pools
  /\ NoChangeForgotten
  /\ ReadAccounted

\* The channel keeps what it holds when the backend appends to it.
LEMMA InChannelGrows ==
  ASSUME FrontInv, P!TypeOK, BackendStep, NEW p, InChannel(p)
  PROVE  InChannel(p)'
BY ChannelGrows DEF InChannel

\* A step of the backend's leaves the blocks of the chain as they are.
LEMMA ChainKept ==
  ASSUME Next, TypeOK, NEW b \in 1..Len(chain), NEW i \in 1..Len(chain[b])
  PROVE  /\ b \in Nat /\ i \in Nat
         /\ b \in 1..Len(chain') /\ chain'[b] = chain[b] /\ i \in 1..Len(chain'[b])
<1>1. i \in Nat /\ b \in Nat
  BY LogIndex DEF Height
<1>2. CASE chain' = chain
  BY <1>1, <1>2
<1>3. ASSUME NEW block \in Block, chain' = Append(chain, block)
      PROVE  b \in 1..Len(chain') /\ chain'[b] = chain[b]
  <2>1. chain \in Seq(Block)
    BY DEF TypeOK
  <2> QED
    BY <1>3, <2>1
<1>4. \/ chain' = chain
      \/ \E block \in Block : chain' = Append(chain, block)
  BY ChainStep
<1> QED
  BY <1>1, <1>2, <1>3, <1>4

\* A log that a step of the backend's tells or covers is in the channel after it.
LEMMA ToldArrives ==
  ASSUME FrontInv, P!TypeOK, BackendStep, NEW p,
         NEW b \in 1..Len(chain), NEW i \in 1..Len(chain[b]),
         chain[b][i] = p, ~Told(<<b, i>>), Told(<<b, i>>)'
  PROVE  InChannel(p)'
<1>1. Next /\ NewInv
  BY FrontFacts DEF BackendStep
<1>2. PICK k \in 1..Len(out') : out'[k] = ResyncEvent \/ out'[k] = LogEvent(<<b, i>>)
  BY <1>1, ToldIsHandedOver
<1>3. /\ Len(inQ) + k \in 1..Len(inQ')
      /\ inQ'[Len(inQ) + k] = AsIngestEvent(out'[k]) /\ HandedOver(out'[k])
  BY ChannelGrows
<1>4. CASE out'[k] = ResyncEvent
  <2>1. inQ'[Len(inQ) + k] = P!Resync
    BY <1>3, <1>4, EventsArrive
  <2> QED
    BY <1>3, <2>1 DEF InChannel
<1>5. CASE out'[k] = LogEvent(<<b, i>>)
  <2>1. inQ'[Len(inQ) + k] = P!PoolLog(b, p)
    BY <1>3, <1>5, EventsArrive DEF Emitter
  <2>2. inQ'[Len(inQ) + k].type = "PoolLog" /\ inQ'[Len(inQ) + k].pool = p
    BY <2>1 DEF P!PoolLog
  <2> QED
    BY <1>3, <2>2 DEF InChannel
<1> QED
  BY <1>2, <1>4, <1>5

\* What was passed by stays so until a Resync tells of it.
LEMMA PassedByKept ==
  ASSUME FrontInv, P!TypeOK, BackendStep, NEW p, LogPassedBy(p)
  PROVE  LogPassedBy(p)' \/ InChannel(p)'
<1>1. Next /\ TypeOK
  BY FrontFacts DEF BackendStep
<1>2. PICK b \in 1..Len(chain) : \E i \in 1..Len(chain[b]) :
        /\ chain[b][i] = p /\ ~Told(<<b, i>>) /\ PassedBy(<<b, i>>)
  BY DEF LogPassedBy
<1>3. PICK i \in 1..Len(chain[b]) :
        /\ chain[b][i] = p /\ ~Told(<<b, i>>) /\ PassedBy(<<b, i>>)
  BY <1>2
<1>4. /\ b \in 1..Len(chain') /\ chain'[b] = chain[b] /\ i \in 1..Len(chain'[b])
  BY <1>1, ChainKept
<1>5. CASE Told(<<b, i>>)'
  BY <1>3, <1>5, ToldArrives
<1>6. CASE ~Told(<<b, i>>)'
  <2>1. overtaken \subseteq overtaken' /\ unreplayed \subseteq unreplayed'
    BY <1>1, PassingSteps DEF passed
  <2>2. PassedBy(<<b, i>>)'
    BY <1>3, <2>1 DEF PassedBy
  <2>3. ~Told(<<b, i>>)'
    BY <1>6 DEF Told
  <2> QED
    BY <1>3, <1>4, <2>2, <2>3 DEF LogPassedBy, PassedBy, Told
<1> QED
  BY <1>5, <1>6

\* A log above the cursor that a step does not tell is still there, or is one
\* that the step passes by.
LEMMA PendingKept ==
  ASSUME FrontInv, P!TypeOK, IInv, IInv', BackendStep,
         NEW p \in Pools, LogPending(p)
  PROVE  LogPending(p)' \/ LogPassedBy(p)' \/ InChannel(p)'
<1>1. Next /\ TypeOK /\ TypeOK' /\ NewInv
  BY FrontFacts DEF BackendStep, IInv
<1>2. PICK b \in 1..Len(chain) : \E i \in 1..Len(chain[b]) :
        /\ chain[b][i] = p /\ ~Told(<<b, i>>) /\ Lt(cursor, <<b, i>>)
  BY DEF LogPending
<1>3. PICK i \in 1..Len(chain[b]) :
        /\ chain[b][i] = p /\ ~Told(<<b, i>>) /\ Lt(cursor, <<b, i>>)
  BY <1>2
<1>4. /\ b \in 1..Len(chain') /\ chain'[b] = chain[b] /\ i \in Nat /\ b \in Nat
      /\ i \in 1..Len(chain'[b]) /\ chain'[b][i] = p
  BY <1>1, <1>3, ChainKept
<1>5. CASE Told(<<b, i>>)'
  BY <1>3, <1>5, ToldArrives
<1>6. CASE ~Told(<<b, i>>)'
  <2>1. ~Told(<<b, i>>)'
    BY <1>6 DEF Told
  <2>2. Watched(<<b, i>>)'
    BY <1>4 DEF Watched, OnChain, Resolves, Emitter, Height
  <2>3. CASE Leq(<<b, i>>, cursor')
    <3>1. PassedBy(<<b, i>>)'
      BY <1>4, <1>6, <2>2, <2>3 DEF IInv, NoEventLost, Accounted, Height
    <3> QED
      BY <1>4, <2>1, <3>1 DEF LogPassedBy, PassedBy, Told
  <2>4. CASE ~Leq(<<b, i>>, cursor')
    <3>1. cursor'[1] \in Nat /\ cursor'[2] \in Nat
      BY <1>1 DEF TypeOK
    <3>2. Lt(cursor', <<b, i>>)
      BY <1>4, <2>4, <3>1 DEF Leq, Lt
    <3> QED
      BY <1>4, <2>1, <3>2 DEF LogPending
  <2> QED
    BY <2>3, <2>4
<1> QED
  BY <1>5, <1>6

\* A pool that a new block changes has its log above the cursor, untold.
LEMMA ChangeIsPending ==
  ASSUME FrontInv, BackendStep, NEW p \in ChangedNow
  PROVE  p \in Pools /\ LogPending(p)'
<1>1. Next /\ TypeOK /\ NewInv
  BY FrontFacts DEF BackendStep
<1>2. chain' # chain /\ p \in Pools
  BY DEF ChangedNow
<1>3. PICK block \in Block :
        chain' = Append(chain, block) /\ UNCHANGED <<cursor, delivered, resynced>>
  BY <1>1, <1>2, ChainStep
<1>4. chain \in Seq(Block) /\ Len(chain) \in Nat
  BY <1>1 DEF TypeOK
<1> DEFINE b == Len(chain) + 1
<1>5. Len(chain') = b /\ chain'[b] = block /\ b \in 1..Len(chain')
  BY <1>3, <1>4
<1>6. PICK i \in 1..Len(block) : block[i] = p
  BY <1>2, <1>5 DEF ChangedNow
<1>7. resynced \in Nat /\ cursor[1] \in Nat /\ resynced <= Len(chain) /\ cursor[1] <= Len(chain)
  BY <1>1 DEF TypeOK, NewInv, CursorOnChain, Height
<1>8. \A q \in delivered : q[1] \in 1..Len(chain)
  BY <1>1 DEF NewInv, ToldPassed, Placed, Height
<1>9. \E c \in 1..Len(chain') : c = b
  BY <1>5
<1> HIDE DEF b
<1>10. <<b, i>> \notin delivered /\ ~(b <= resynced) /\ cursor[1] < b
  BY <1>4, <1>7, <1>8 DEF b
<1>11. ~Told(<<b, i>>) /\ Lt(cursor, <<b, i>>)
  BY <1>10 DEF Told, Lt
<1>12. ASSUME NEW c, c = b PROVE ~Told(<<c, i>>)' /\ Lt(cursor', <<c, i>>)
  BY <1>3, <1>11, <1>12 DEF Told
<1>13. ASSUME NEW c, c = b PROVE c \in 1..Len(chain') /\ i \in 1..Len(chain'[c]) /\ chain'[c][i] = p
  BY <1>5, <1>6, <1>13
<1> QED
  BY <1>2, <1>9, <1>12, <1>13 DEF LogPending

\* Applying the event of a pool makes it dirty, and nothing ceases to be.
LEMMA ApplyMakesDirty ==
  ASSUME P!TypeOK, NEW e \in P!Event, P!Apply(e)
  PROVE  /\ dirty \subseteq dirty'
         /\ e.type = "PoolLog" => e.pool \in dirty'
BY DEF P!Apply, P!ApplyHead, P!ApplyLog

\* A step of the backend's forgets no change: the old ones by PendingKept, the
\* new one by ChangeIsPending.
LEMMA BackendKeepsKnown ==
  ASSUME KnownInv, IInv', BackendStep
  PROVE  stale' \subseteq Pools /\ NoChangeForgotten' /\ ReadAccounted'
<1>1. /\ UNCHANGED pipeline /\ stale' = stale \cup ChangedNow /\ read' = read \ ChangedNow
  BY DEF BackendStep
<1>2. \A p \in ChangedNow : p \in Pools /\ LogPending(p)'
  BY ChangeIsPending DEF KnownInv
<1>3. \A p \in stale :
        LogPending(p) => LogPending(p)' \/ LogPassedBy(p)' \/ InChannel(p)'
  BY PendingKept DEF KnownInv
<1>4. /\ \A p : InChannel(p) => InChannel(p)'
      /\ \A p : LogPassedBy(p) => LogPassedBy(p)' \/ InChannel(p)'
  BY InChannelGrows, PassedByKept DEF KnownInv
<1>5. NoChangeForgotten'
  BY <1>1, <1>2, <1>3, <1>4 DEF KnownInv, NoChangeForgotten, InPipeline, pipeline
<1>6. ReadAccounted'
  BY <1>1, <1>2, <1>3, <1>4 DEF KnownInv, ReadAccounted, StillToCome, pipeline
<1> QED
  BY <1>1, <1>2, <1>5, <1>6 DEF KnownInv

\* The task forgets no change: what it takes from the channel it keeps in
\* pending, in dirty or in a job, and what it sends it has read.
LEMMA TaskKeepsKnown ==
  ASSUME KnownInv, PipelineStep
  PROVE  stale' \subseteq Pools /\ NoChangeForgotten' /\ ReadAccounted'
<1>1. /\ \A p : LogPending(p)' <=> LogPending(p)
      /\ \A p : LogPassedBy(p)' <=> LogPassedBy(p)
      /\ P!Task /\ stale' \subseteq stale
      /\ stale' = IF pc = "send" /\ pc' = "recv" THEN stale \ read ELSE stale
      /\ read' = IF pc = "prefetch" /\ pc' = "send" THEN job.pools
                 ELSE IF pc = "send" THEN {} ELSE read
  BY DEF PipelineStep, vars, passed, LogPending, LogPassedBy, PassedBy, Told
<1>2. /\ P!TypeOK /\ Resting /\ stale \subseteq Pools
      /\ \A p \in stale : \/ LogPending(p) \/ LogPassedBy(p)
                          \/ InChannel(p) \/ InPipeline(p)
      /\ ReadAccounted
  BY DEF KnownInv, NoChangeForgotten
<1>3. CASE P!TakeEvent
  <2> DEFINE e == Head(inQ)
  <2>1. /\ pc = "recv" /\ job.pools = {} /\ pending.type = "None" /\ inQ' = Tail(inQ)
        /\ inQ # << >>
    BY <1>2, <1>3 DEF P!TakeEvent, Resting, P!NoJob, P!NoEvent
  <2>2. e = inQ[1] /\ e \in P!Event
    BY <1>2, <2>1, ChannelShrinks
  <2>3. ASSUME NEW p, InChannel(p)
        PROVE  InChannel(p)' \/ e = P!Resync \/ (e.type = "PoolLog" /\ e.pool = p)
    <3>1. PICK k \in 1..Len(inQ) :
            inQ[k] = P!Resync \/ (inQ[k].type = "PoolLog" /\ inQ[k].pool = p)
      BY <2>3 DEF InChannel
    <3>2. CASE k = 1
      BY <2>2, <3>1, <3>2
    <3>3. CASE k # 1
      <4>1. k - 1 \in 1..Len(inQ') /\ inQ'[k - 1] = inQ[k]
        BY <1>2, <2>1, <3>3, ChannelShrinks
      <4> QED
        BY <3>1, <4>1 DEF InChannel
    <3> QED
      BY <3>2, <3>3
  <2>4. /\ stale' = stale
        /\ \A p \in stale : \/ LogPending(p)' \/ LogPassedBy(p)'
                            \/ InChannel(p)' \/ p \in dirty
                            \/ e = P!Resync \/ (e.type = "PoolLog" /\ e.pool = p)
    BY <1>1, <1>2, <2>1, <2>3 DEF InPipeline
  <2>5. CASE e.type # "Resync" /\ P!BeginSeal(e)
    <3>1. pc' # "send" /\ job'.pools = dirty /\ pending' = e /\ e # P!Resync
      BY <2>5 DEF P!BeginSeal, P!Drain, P!Resync
    <3> QED
      BY <1>2, <2>4, <3>1 DEF NoChangeForgotten, InPipeline, ReadAccounted
  <2>6. CASE e.type # "Resync" /\ P!Apply(e) /\ UNCHANGED <<pc, job, pending>>
    <3>1. /\ dirty \subseteq dirty' /\ e # P!Resync
          /\ e.type = "PoolLog" => e.pool \in dirty'
      BY <1>2, <2>2, <2>6, ApplyMakesDirty DEF P!Resync
    <3> QED
      BY <1>2, <2>1, <2>4, <2>6, <3>1 DEF NoChangeForgotten, InPipeline, ReadAccounted
  <2>7. CASE /\ pc' = "advance" /\ job' = [block |-> P!ResyncBlock, pools |-> P!ResyncPools]
             /\ e.type = "Resync"
    <3>1. job'.pools = Pools
      BY <2>7 DEF P!ResyncPools
    <3> QED
      BY <1>2, <2>4, <2>7, <3>1 DEF NoChangeForgotten, InPipeline, ReadAccounted
  <2> QED
    BY <1>3, <2>5, <2>6, <2>7 DEF P!TakeEvent, P!MustSeal
<1>4. CASE P!QuietSeal
  <2>1. /\ pc = "recv" /\ job.pools = {} /\ pending.type = "None" /\ inQ' = inQ
        /\ stale' = stale /\ pc' # "send"
    BY <1>1, <1>2, <1>4 DEF P!QuietSeal, P!BeginSeal, Resting, P!NoJob, P!NoEvent
  <2>2. dirty \subseteq dirty' \cup job'.pools
    BY <1>4 DEF P!QuietSeal, P!BeginSeal, P!Drain
  <2> QED
    BY <1>1, <1>2, <2>1, <2>2 DEF NoChangeForgotten, InPipeline, InChannel, ReadAccounted
<1>5. CASE P!Advance
  <2>1. UNCHANGED <<inQ, dirty, job, pending, stale>> /\ pc' # "send"
    BY <1>1, <1>5 DEF P!Advance
  <2> QED
    BY <1>1, <1>2, <2>1 DEF NoChangeForgotten, InPipeline, InChannel, ReadAccounted
<1>6. CASE P!Prefetch
  <2>1. UNCHANGED <<inQ, dirty, job, pending, stale>> /\ read' = job.pools
    BY <1>1, <1>6 DEF P!Prefetch
  <2> QED
    BY <1>1, <1>2, <2>1
    DEF NoChangeForgotten, InPipeline, InChannel, ReadAccounted, StillToCome
<1>7. CASE P!Send
  <2>1. /\ pc = "send" /\ pc' = "recv" /\ stale' = stale \ read /\ inQ' = inQ
        /\ \A p \in stale' : StillToCome(p)
    BY <1>1, <1>2, <1>7 DEF P!Send, ReadAccounted
  <2>2. /\ dirty \subseteq dirty'
        /\ pending.type = "PoolLog" => pending.pool \in dirty'
    <3>1. CASE pending = P!NoEvent
      BY <1>7, <3>1 DEF P!Send, P!NoEvent
    <3>2. CASE pending # P!NoEvent
      <4>1. pending \in P!Event /\ P!Apply(pending)
        BY <1>2, <1>7, <3>2 DEF P!Send, P!TypeOK
      <4> QED
        BY <1>2, <4>1, ApplyMakesDirty
    <3> QED
      BY <3>1, <3>2
  <2> QED
    BY <1>1, <1>2, <2>1, <2>2
    DEF StillToCome, NoChangeForgotten, InPipeline, InChannel, ReadAccounted
<1> QED
  BY <1>1, <1>3, <1>4, <1>5, <1>6, <1>7 DEF P!Task

LEMMA KnownInit == SystemInit => KnownInv
<1> SUFFICES ASSUME SystemInit PROVE KnownInv
  OBVIOUS
<1>1. IInv
  <2>1. Init => IInv
    BY IInvInit
  <2> QED
    BY <2>1 DEF SystemInit
<1> QED
  BY <1>1, FrontInvInit, PipelineStarts
  DEF SystemInit, P!Init, KnownInv, NoChangeForgotten, ReadAccounted

LEMMA KnownStep == KnownInv /\ [SystemNext]_systemVars => KnownInv'
<1> SUFFICES ASSUME KnownInv, [SystemNext]_systemVars PROVE KnownInv'
  OBVIOUS
<1>1. FrontInv' /\ P!TypeOK' /\ Resting'
  BY FrontKept, PipelineKept DEF KnownInv
<1>2. IInv'
  <2>1. IInv /\ [Next]_vars => IInv'
    BY IInvStep
  <2> QED
    BY <2>1, BackendMoves DEF KnownInv
<1>3. stale' \subseteq Pools /\ NoChangeForgotten' /\ ReadAccounted'
  <2>1. CASE BackendStep
    BY <1>2, <2>1, BackendKeepsKnown
  <2>2. CASE PipelineStep
    BY <2>2, TaskKeepsKnown
  <2>3. CASE UNCHANGED <<vars, inQ, dirty, job, pending, pc, stale, read>>
    BY <2>3 DEF KnownInv, NoChangeForgotten, ReadAccounted, StillToCome, LogPending,
       LogPassedBy, PassedBy, Told, InChannel, InPipeline, vars, passed
  <2> QED
    BY <2>1, <2>2, <2>3 DEF SystemNext, TakeBatch, systemVars, pipeline
<1> QED
  BY <1>1, <1>2, <1>3 DEF KnownInv

\* A pool that changed on the chain and that no batch has announced with a
\* read taken after the change is still known to some part of the system: its
\* log is to be told by the backend, its event is in the channel, or the
\* pipeline holds it; over dropped connections, cut replays and Resyncs, in any
\* order of the two streams, and also when it changes again while a job is
\* reading it.  Only a log that a header overtook or that a replay did not ask
\* for escapes, until the next Resync.
THEOREM NoChangeForgottenTheorem == SystemSpec => []NoChangeForgotten
<1>1. SystemInit => KnownInv
  BY KnownInit
<1>2. KnownInv /\ [SystemNext]_systemVars => KnownInv'
  BY KnownStep
<1>3. KnownInv => NoChangeForgotten
  BY DEF KnownInv
<1> QED
  BY <1>1, <1>2, <1>3, PTL DEF SystemSpec

-----------------------------------------------------------------------------
(* The order of blocks, as long as no header was told after a log of a     *)
(* later block.                                                            *)

\* The tip is not above the open block, once there is one.
TipBounded == tip <= openBlock \/ (openBlock = 0 /\ tip <= StartBlock)

\* Everything the pipeline knows lies in or below the open block, and the job
\* under way is the open block's.
OpenIsNewest ==
  /\ head <= openBlock
  /\ TipBounded
  /\ \A p \in Pools : due[p] <= openBlock
  /\ pc # "recv" => job.block = openBlock

\* No event on its way is ahead of the stream.
EventsBehind ==
  /\ Behind(openBlock)
  /\ Moves(pending) => Behind(pending.block)
  /\ \A k \in 1..Len(inQ) : Moves(inQ[k]) => Behind(inQ[k].block)

\* Every event on its way opens a block that is newer than the start.
EventsSinceStart ==
  /\ Moves(pending) => StartBlock < pending.block
  /\ \A k \in 1..Len(inQ) : Moves(inQ[k]) => StartBlock < inQ[k].block

\* A header on its way is at least as new as all that comes before it.
HeadsNewest ==
  /\ pending.type = "NewHead" => openBlock <= pending.block
  /\ \A k \in 1..Len(inQ) : inQ[k].type = "NewHead" =>
       /\ openBlock <= inQ[k].block
       /\ Moves(pending) => pending.block <= inQ[k].block
       /\ \A j \in 1..Len(inQ) : j < k /\ Moves(inQ[j]) => inQ[j].block <= inQ[k].block

OrderInv ==
  /\ FrontInv
  /\ P!TypeOK
  /\ Resting
  /\ EventsSinceStart
  /\ ordered => OpenIsNewest /\ EventsBehind /\ HeadsNewest

\* The numbers of a well-typed pipeline.
LEMMA PipelineNumbers ==
  ASSUME P!TypeOK
  PROVE  /\ openBlock \in Nat /\ head \in Nat /\ tip \in Nat /\ job.block \in Nat
         /\ \A p \in Pools : due[p] \in Nat
         /\ Moves(pending) => pending.block \in Nat
         /\ \A k \in 1..Len(inQ) : Moves(inQ[k]) => inQ[k].block \in Nat
<1>1. \A k \in 1..Len(inQ) : inQ[k] \in P!Event
  BY DEF P!TypeOK
<1>2. Moves(pending) => pending \in P!Event
  BY DEF P!TypeOK, P!NoEvent, Moves
<1>3. \A k \in 1..Len(inQ) : Moves(inQ[k]) => inQ[k].block \in Nat
  BY <1>1, EventFields DEF Moves
<1>4. Moves(pending) => pending.block \in Nat
  BY <1>2, EventFields DEF Moves
<1>5. job.block \in Nat /\ \A p \in Pools : due[p] \in Nat
  BY DEF P!TypeOK, P!Batch
<1> QED
  BY <1>3, <1>4, <1>5 DEF P!TypeOK

\* Events enter the channel with a block above the start and keep it.
LEMMA SinceStartKept ==
  ASSUME FrontInv, P!TypeOK, Resting, EventsSinceStart, [SystemNext]_systemVars
  PROVE  EventsSinceStart'
<1>1. CASE BackendStep
  <2>1. /\ Len(inQ) \in Nat /\ Len(out') \in Nat /\ Len(inQ') = Len(inQ) + Len(out')
        /\ \A k \in 1..Len(inQ) : inQ'[k] = inQ[k]
        /\ \A k \in 1..Len(out') : /\ HandedOver(out'[k])
                                   /\ inQ'[Len(inQ) + k] = AsIngestEvent(out'[k])
    BY <1>1, ChannelGrows
  <2>2. pending' = pending /\ Next
    BY <1>1 DEF BackendStep, pipeline
  <2>3. ASSUME NEW k \in 1..Len(inQ'), Moves(inQ'[k]) PROVE StartBlock < inQ'[k].block
    <3>1. CASE k <= Len(inQ)
      <4>1. k \in 1..Len(inQ) /\ inQ'[k] = inQ[k]
        BY <2>1, <3>1
      <4> QED
        BY <2>3, <4>1 DEF EventsSinceStart
    <3>2. CASE k > Len(inQ)
      <4> DEFINE e == out'[k - Len(inQ)]
      <4>1. k - Len(inQ) \in 1..Len(out') /\ Len(inQ) + (k - Len(inQ)) = k
        BY <2>1, <3>2
      <4>2. inQ'[k] = AsIngestEvent(e) /\ HandedOver(e)
        BY <2>1, <4>1
      <4>3. /\ e.type = "NewHead" => StartBlock < e.number
            /\ e.type = "PoolLog" => StartBlock < e.pos[1]
        BY <2>2, <4>1, HandedOverSinceStart
      <4> HIDE DEF e
      <4>4. /\ inQ'[k].type = e.type
            /\ e.type = "NewHead" => inQ'[k].block = e.number
            /\ e.type = "PoolLog" => inQ'[k].block = e.pos[1]
        BY <4>2, EventsArrive
      <4> QED
        BY <2>3, <4>3, <4>4 DEF Moves
    <3> QED
      BY <2>1, <3>1, <3>2
  <2> QED
    BY <2>2, <2>3 DEF EventsSinceStart, Moves
<1>2. CASE P!TakeEvent
  <2>1. /\ inQ # << >> /\ inQ' = Tail(inQ)
        /\ pending' = pending \/ pending' = Head(inQ)
    BY <1>2 DEF P!TakeEvent, P!BeginSeal
  <2>2. /\ Head(inQ) = inQ[1] /\ 1 \in 1..Len(inQ)
        /\ \A k \in 1..Len(inQ') : inQ'[k] = inQ[k + 1] /\ k + 1 \in 1..Len(inQ)
    BY <2>1, ChannelShrinks
  <2>3. Moves(pending') => StartBlock < pending'.block
    BY <2>1, <2>2 DEF EventsSinceStart
  <2>4. \A k \in 1..Len(inQ') : Moves(inQ'[k]) => StartBlock < inQ'[k].block
    BY <2>2 DEF EventsSinceStart
  <2> QED
    BY <2>3, <2>4 DEF EventsSinceStart, Moves
<1>3. ASSUME inQ' = inQ, pending' = pending \/ pending' = P!NoEvent
      PROVE  EventsSinceStart'
  BY <1>3 DEF EventsSinceStart, Moves, P!NoEvent
<1>4. CASE P!QuietSeal \/ P!Advance \/ P!Prefetch \/ P!Send
  BY <1>3, <1>4 DEF P!QuietSeal, P!BeginSeal, P!Advance, P!Prefetch, P!Send
<1>5. CASE TakeBatch \/ UNCHANGED systemVars
  BY <1>3, <1>5 DEF TakeBatch, systemVars, pipeline
<1> QED
  BY <1>1, <1>2, <1>4, <1>5 DEF SystemNext, PipelineStep, P!Task

\* A header that the backend tells in order is as new as the whole pipeline.
LEMMA BackendKeepsOrder ==
  ASSUME OrderInv, BackendStep, ordered'
  PROVE  OpenIsNewest' /\ EventsBehind' /\ HeadsNewest'
<1>1. /\ FrontInv /\ P!TypeOK /\ Next /\ ordered /\ ~TellsLate
      /\ OpenIsNewest /\ EventsBehind /\ HeadsNewest
      /\ UNCHANGED <<openBlock, head, tip, pc, job, pending, due>>
  BY DEF BackendStep, OrderInv, pipeline
<1>2. /\ Len(inQ) \in Nat /\ Len(out') \in Nat /\ Len(inQ') = Len(inQ) + Len(out')
      /\ \A k \in 1..Len(inQ) : inQ'[k] = inQ[k]
      /\ \A k \in 1..Len(out') : /\ HandedOver(out'[k])
                                 /\ inQ'[Len(inQ) + k] = AsIngestEvent(out'[k])
  BY <1>1, ChannelGrows
<1>3. ASSUME NEW b \in Nat, Behind(b) PROVE Behind(b)'
  BY <1>1, <1>3, BehindKept
<1>4. ASSUME NEW k \in 1..Len(inQ'), k > Len(inQ)
      PROVE  /\ k - Len(inQ) \in 1..Len(out')
             /\ inQ'[k] = AsIngestEvent(out'[k - Len(inQ)])
             /\ HandedOver(out'[k - Len(inQ)])
  <2>1. k - Len(inQ) \in 1..Len(out') /\ Len(inQ) + (k - Len(inQ)) = k
    BY <1>2, <1>4
  <2> QED
    BY <1>2, <2>1
<1>5. ASSUME NEW k \in 1..Len(inQ'), k > Len(inQ), Moves(inQ'[k])
      PROVE  inQ'[k].block \in Nat /\ \A b \in Nat : b = inQ'[k].block => Behind(b)'
  <2> DEFINE e == out'[k - Len(inQ)]
  <2>1. /\ k - Len(inQ) \in 1..Len(out') /\ inQ'[k] = AsIngestEvent(e) /\ HandedOver(e)
    BY <1>4, <1>5
  <2>2. /\ e.type = "NewHead" =>
             e.number \in Nat /\ \A b \in Nat : b = e.number => Behind(b)'
        /\ e.type = "PoolLog" =>
             e.pos[1] \in Nat /\ \A b \in Nat : b = e.pos[1] => Behind(b)'
    BY <1>1, <2>1, HandedOverIsBehind
  <2> HIDE DEF e
  <2>3. /\ inQ'[k].type = e.type
        /\ e.type = "NewHead" => inQ'[k].block = e.number
        /\ e.type = "PoolLog" => inQ'[k].block = e.pos[1]
    BY <2>1, EventsArrive
  <2> QED
    BY <1>5, <2>2, <2>3 DEF Moves
<1>6. ASSUME NEW k \in 1..Len(inQ'), k > Len(inQ), inQ'[k].type = "NewHead"
      PROVE  /\ k = Len(inQ) + 1
             /\ \A b \in Nat : Behind(b) => b <= inQ'[k].block
  <2> DEFINE i == k - Len(inQ)
  <2>1. i \in 1..Len(out') /\ inQ'[k] = AsIngestEvent(out'[i]) /\ HandedOver(out'[i])
    BY <1>4, <1>6
  <2>2. out'[i].type = "NewHead" /\ inQ'[k].block = out'[i].number
    BY <1>6, <2>1, EventsArrive
  <2>3. cursor[1] <= out'[i].number
    <3>1. ~(out'[i].number < cursor[1])
      BY <1>1, <2>1, <2>2 DEF TellsLate
    <3>2. out'[i].number \in Nat
      BY <1>1, <2>1, <2>2, HandedOverIsBehind
    <3>3. cursor[1] \in Nat
      BY <1>1, FrontFacts DEF TypeOK
    <3> QED
      BY <3>1, <3>2, <3>3
  <2>4. Len(out') = 1 /\ \A b \in Nat : Behind(b) => b <= out'[i].number
    BY <1>1, <2>1, <2>2, <2>3, HeadIsNewest
  <2>5. i = 1
    BY <2>1, <2>4
  <2> QED
    BY <1>2, <2>2, <2>4, <2>5
<1>7. /\ openBlock \in Nat
      /\ Moves(pending) => pending.block \in Nat
      /\ \A k \in 1..Len(inQ) : Moves(inQ[k]) => inQ[k].block \in Nat
  BY <1>1, PipelineNumbers
<1>8. EventsBehind'
  <2>1. \A b \in Nat : b = openBlock => Behind(b)'
    BY <1>1, <1>3 DEF EventsBehind
  <2>2. Moves(pending) => \A b \in Nat : b = pending.block => Behind(b)'
    BY <1>1, <1>3, <1>7 DEF EventsBehind
  <2>3. ASSUME NEW k \in 1..Len(inQ'), Moves(inQ'[k])
        PROVE  inQ'[k].block \in Nat /\ \A b \in Nat : b = inQ'[k].block => Behind(b)'
    <3>1. CASE k <= Len(inQ)
      <4>1. k \in 1..Len(inQ) /\ inQ'[k] = inQ[k]
        BY <1>2, <3>1
      <4> QED
        BY <1>1, <1>3, <1>7, <2>3, <4>1 DEF EventsBehind
    <3> QED
      BY <1>2, <1>5, <2>3, <3>1
  <2>0. openBlock' = openBlock /\ pending' = pending
    BY <1>1
  <2>4. Behind(openBlock)'
    <3>1. openBlock' \in Nat /\ \A b \in Nat : b = openBlock' => Behind(b)'
      BY <1>7, <2>0, <2>1
    <3> QED
      BY <3>1 DEF Behind
  <2>5. Moves(pending)' => Behind(pending.block)'
    <3>1. Moves(pending)' <=> Moves(pending)
      BY <2>0 DEF Moves
    <3>2. Moves(pending) => \A b \in Nat : b = pending'.block => Behind(b)'
      BY <2>0, <2>2
    <3>3. Moves(pending) => pending'.block \in Nat
      BY <1>7, <2>0
    <3> QED
      BY <3>1, <3>2, <3>3 DEF Behind
  <2>6. ASSUME NEW k \in 1..Len(inQ'), Moves(inQ'[k]) PROVE Behind(inQ[k].block)'
    BY <2>3, <2>6 DEF Behind
  <2>7. \A k \in 1..Len(inQ') : Moves(inQ[k])' => Moves(inQ'[k])
    BY DEF Moves
  <2> QED
    BY <2>4, <2>5, <2>6, <2>7 DEF EventsBehind
<1>9. HeadsNewest'
  <2> SUFFICES ASSUME NEW k \in 1..Len(inQ'), inQ'[k].type = "NewHead"
               PROVE  /\ openBlock <= inQ'[k].block
                      /\ Moves(pending) => pending.block <= inQ'[k].block
                      /\ \A j \in 1..Len(inQ') : j < k /\ Moves(inQ'[j]) =>
                           inQ'[j].block <= inQ'[k].block
    BY <1>1 DEF HeadsNewest, Moves
  <2>1. CASE k <= Len(inQ)
    <3>1. /\ k \in 1..Len(inQ) /\ inQ'[k] = inQ[k]
          /\ \A j \in 1..Len(inQ') : j < k => j \in 1..Len(inQ) /\ inQ'[j] = inQ[j]
      BY <1>2, <2>1
    <3> QED
      BY <1>1, <3>1 DEF HeadsNewest
  <2>2. CASE k > Len(inQ)
    <3>1. k = Len(inQ) + 1 /\ \A b \in Nat : Behind(b) => b <= inQ'[k].block
      BY <1>6, <2>2
    <3>2. \A j \in 1..Len(inQ') : j < k => j \in 1..Len(inQ) /\ inQ'[j] = inQ[j]
      BY <1>2, <3>1
    <3>5. Behind(openBlock) /\ (Moves(pending) => Behind(pending.block))
      BY <1>1 DEF EventsBehind
    <3>3. openBlock <= inQ'[k].block /\ (Moves(pending) => pending.block <= inQ'[k].block)
      BY <1>7, <3>1, <3>5
    <3>4. ASSUME NEW j \in 1..Len(inQ'), j < k, Moves(inQ'[j])
          PROVE  inQ'[j].block <= inQ'[k].block
      <4>1. j \in 1..Len(inQ) /\ inQ'[j] = inQ[j]
        BY <3>2, <3>4
      <4>2. inQ[j].block \in Nat /\ Behind(inQ[j].block)
        BY <1>1, <1>7, <3>4, <4>1 DEF EventsBehind
      <4> QED
        BY <3>1, <4>1, <4>2
    <3> QED
      BY <3>3, <3>4
  <2> QED
    BY <1>2, <2>1, <2>2
<1>10. OpenIsNewest'
  BY <1>1 DEF OpenIsNewest, TipBounded
<1> QED
  BY <1>8, <1>9, <1>10

\* Applying an event that is not older than the open block opens its block.
LEMMA ApplyKeepsOrder ==
  ASSUME P!TypeOK, OpenIsNewest, NEW e \in P!Event, P!Apply(e),
         e.type = "NewHead" => openBlock <= e.block,
         Moves(e) => StartBlock < e.block
  PROVE  /\ Moves(e) /\ e.block \in Nat
         /\ tip <= openBlock' \/ (openBlock' = 0 /\ tip <= StartBlock)
         /\ openBlock' = openBlock \/ openBlock' = e.block
         /\ openBlock' \in Nat /\ openBlock <= openBlock'
         /\ head' <= openBlock'
         /\ \A p \in Pools : due'[p] <= openBlock'
<1>1. /\ openBlock \in Nat /\ head \in Nat /\ head <= openBlock
      /\ \A p \in Pools : due[p] \in Nat /\ due[p] <= openBlock
      /\ tip \in Nat /\ StartBlock \in Nat /\ TipBounded
  BY PipelineNumbers, BackendAssumption DEF OpenIsNewest
<1>2. CASE e.type = "NewHead" /\ P!ApplyHead(e)
  <2>1. /\ e.block \in Nat /\ openBlock <= e.block
        /\ head' = e.block /\ openBlock' = e.block /\ due' = due
    BY <1>2, EventFields DEF P!ApplyHead
  <2>2. Moves(e) /\ StartBlock < e.block
    BY <1>2 DEF Moves
  <2> QED
    BY <1>1, <2>1, <2>2 DEF TipBounded
<1>3. CASE e.type = "PoolLog" /\ P!ApplyLog(e)
  <2>1. e.block \in Nat /\ e.pool \in Pools
    BY <1>3, EventFields
  <2>2. /\ head' = head /\ due \in [Pools -> Nat]
        /\ due' = [due EXCEPT ![e.pool] = IF @ < e.block THEN e.block ELSE @]
        /\ openBlock' = IF e.block > openBlock THEN e.block ELSE openBlock
    BY <1>3 DEF P!ApplyLog, P!EndsOpenBlock, P!TypeOK
  <2>3. \A p \in Pools : due'[p] <= openBlock'
    BY <1>1, <2>1, <2>2
  <2>4. Moves(e) /\ StartBlock < e.block
    BY <1>3 DEF Moves
  <2>5. /\ openBlock' = openBlock \/ openBlock' = e.block
        /\ openBlock' \in Nat /\ openBlock <= openBlock' /\ head' <= openBlock'
    BY <1>1, <2>1, <2>2
  <2>6. tip <= openBlock' \/ (openBlock' = 0 /\ tip <= StartBlock)
    BY <1>1, <2>1, <2>2, <2>4 DEF TipBounded
  <2> QED
    BY <2>1, <2>3, <2>4, <2>5, <2>6
<1> QED
  BY <1>2, <1>3 DEF P!Apply

\* Whatever the task takes, applies or seals, the order holds.
LEMMA TaskKeepsOrder ==
  ASSUME OrderInv, PipelineStep, ordered
  PROVE  OpenIsNewest' /\ EventsBehind' /\ HeadsNewest'
<1>1. /\ P!TypeOK /\ Resting /\ OpenIsNewest /\ EventsBehind /\ HeadsNewest /\ P!Task
      /\ P!TypeOK' /\ EventsSinceStart
  BY PipelineKept DEF OrderInv, PipelineStep, SystemNext
<1>2. UNCHANGED <<chain, phase, headQ, cursor, replay>>
  BY DEF PipelineStep, vars
<1>b. ASSUME NEW b, Behind(b) PROVE Behind(b)'
  BY <1>2, <1>b DEF Behind, Height
<1>3. /\ openBlock \in Nat /\ head \in Nat /\ tip \in Nat /\ job.block \in Nat
      /\ \A p \in Pools : due[p] \in Nat
      /\ \A k \in 1..Len(inQ) : Moves(inQ[k]) => inQ[k].block \in Nat
  BY <1>1, PipelineNumbers
<1>4. CASE P!TakeEvent
  <2> DEFINE e == Head(inQ)
  <2>1. /\ pc = "recv" /\ pending = P!NoEvent /\ inQ' = Tail(inQ) /\ inQ # << >>
        /\ tip' = tip
    BY <1>1, <1>4 DEF P!TakeEvent, Resting
  <2>2. /\ e = inQ[1] /\ e \in P!Event /\ 1 \in 1..Len(inQ)
        /\ \A k \in 1..Len(inQ') : inQ'[k] = inQ[k + 1] /\ k + 1 \in 1..Len(inQ)
    BY <1>1, <2>1, ChannelShrinks
  <2>3. /\ Moves(e) => e.block \in Nat /\ Behind(e.block) /\ StartBlock < e.block
        /\ e.type = "NewHead" => openBlock <= e.block
    BY <1>1, <1>3, <2>2 DEF EventsBehind, HeadsNewest, EventsSinceStart
  <2>4. ASSUME NEW k \in 1..Len(inQ')
        PROVE  /\ Moves(inQ'[k]) => Behind(inQ'[k].block)
               /\ inQ'[k].type = "NewHead" =>
                    /\ openBlock <= inQ'[k].block
                    /\ Moves(e) => e.block <= inQ'[k].block
                    /\ \A j \in 1..Len(inQ') : j < k /\ Moves(inQ'[j]) =>
                         inQ'[j].block <= inQ'[k].block
    <3>1. /\ inQ'[k] = inQ[k + 1] /\ k + 1 \in 1..Len(inQ) /\ 1 < k + 1
          /\ \A j \in 1..Len(inQ') : j < k =>
               inQ'[j] = inQ[j + 1] /\ j + 1 \in 1..Len(inQ) /\ j + 1 < k + 1
      BY <2>2
    <3> QED
      BY <1>1, <2>2, <3>1 DEF EventsBehind, HeadsNewest
  <2> HIDE DEF e
  <2>5. ASSUME openBlock' = openBlock, head' = head, due' = due,
               pc' # "recv" => job'.block = openBlock,
               \/ ~Moves(pending')
               \/ pending' = e /\ Moves(e)
        PROVE  OpenIsNewest' /\ EventsBehind' /\ HeadsNewest'
    <3>1. OpenIsNewest'
      BY <1>1, <2>1, <2>5 DEF OpenIsNewest, TipBounded
    <3>2. Behind(openBlock')
      BY <1>1, <2>5 DEF EventsBehind
    <3>3. Moves(pending') => Behind(pending'.block)
      BY <2>3, <2>5
    <3>4. EventsBehind'
      BY <1>2, <2>4, <3>2, <3>3 DEF EventsBehind, Moves, Behind, Height
    <3>5. HeadsNewest'
      BY <2>3, <2>4, <2>5 DEF HeadsNewest, Moves
    <3> QED
      BY <3>1, <3>4, <3>5
  <2>6. CASE e.type # "Resync" /\ P!BeginSeal(e) /\ UNCHANGED <<openBlock, head, due>>
    <3>1. job'.block = openBlock /\ pending' = e
      BY <2>6 DEF P!BeginSeal
    <3>2. Moves(e)
      BY <2>2, <2>6, EventFields DEF Moves
    <3> QED
      BY <2>5, <2>6, <3>1, <3>2
  <2>7. CASE P!Apply(e) /\ UNCHANGED <<pc, job, pending>>
    <3>1. /\ Moves(e) /\ e.block \in Nat
          /\ openBlock' = openBlock \/ openBlock' = e.block
          /\ openBlock' \in Nat /\ openBlock <= openBlock'
          /\ head' <= openBlock'
          /\ \A p \in Pools : due'[p] <= openBlock'
          /\ tip <= openBlock' \/ (openBlock' = 0 /\ tip <= StartBlock)
      BY <1>1, <2>2, <2>3, <2>7, ApplyKeepsOrder
    <3>2. OpenIsNewest'
      BY <1>1, <1>3, <2>1, <2>7, <3>1 DEF OpenIsNewest, TipBounded
    <3>3. Behind(openBlock')
      BY <1>1, <2>3, <3>1 DEF EventsBehind
    <3>a. ~Moves(pending')
      BY <2>1, <2>7 DEF P!NoEvent, Moves
    <3>4. EventsBehind'
      BY <1>2, <2>4, <3>3, <3>a DEF EventsBehind, Moves, Behind, Height
    <3>5. HeadsNewest'
      BY <2>4, <3>1, <3>a DEF HeadsNewest, Moves
    <3> QED
      BY <3>2, <3>4, <3>5
  <2>8. CASE /\ pc' = "advance" /\ job' = [block |-> P!ResyncBlock, pools |-> P!ResyncPools]
             /\ UNCHANGED <<openBlock, head, pending, due>>
    <3>1. P!ResyncBlock = openBlock
      BY <1>1, <1>3 DEF P!ResyncBlock, OpenIsNewest
    <3>2. job'.block = openBlock /\ ~Moves(pending')
      BY <2>1, <2>8, <3>1 DEF P!NoEvent, Moves
    <3> QED
      BY <2>5, <2>8, <3>2
  <2> QED
    BY <1>4, <2>6, <2>7, <2>8 DEF P!TakeEvent, P!MustSeal, e
<1>5. ASSUME UNCHANGED <<inQ, openBlock, head, due>>, tip' = tip \/ tip' = job.block,
             tip' # tip => pc # "recv", pc' # "recv" => job'.block = openBlock,
             ~Moves(pending') \/ pending' = pending
      PROVE  OpenIsNewest' /\ EventsBehind' /\ HeadsNewest'
  <2>1. OpenIsNewest'
    BY <1>1, <1>3, <1>5 DEF OpenIsNewest, TipBounded
  <2>2. EventsBehind'
    BY <1>1, <1>2, <1>5 DEF EventsBehind, Moves, Behind, Height
  <2>3. HeadsNewest'
    BY <1>1, <1>5 DEF HeadsNewest, Moves
  <2> QED
    BY <2>1, <2>2, <2>3
<1>6. CASE P!QuietSeal
  <2>1. UNCHANGED <<inQ, openBlock, head, due, tip>> /\ pc = "recv"
    BY <1>6 DEF P!QuietSeal
  <2>2. CASE P!BeginSeal(P!NoEvent)
    <3>1. job'.block = openBlock /\ ~Moves(pending')
      BY <2>2 DEF P!BeginSeal, P!NoEvent, Moves
    <3> QED
      BY <1>5, <2>1, <3>1
  <2>3. CASE UNCHANGED <<pc, job, dirty, pending>>
    BY <1>5, <2>1, <2>3
  <2> QED
    BY <1>6, <2>2, <2>3 DEF P!QuietSeal
<1>7. CASE P!Advance \/ P!Prefetch
  <2>1. /\ UNCHANGED <<inQ, openBlock, head, due, job, pending>> /\ pc # "recv"
        /\ tip' = tip \/ tip' = job.block
    BY <1>7 DEF P!Advance, P!Prefetch
  <2>2. job.block = openBlock
    BY <1>1, <2>1 DEF OpenIsNewest
  <2> QED
    BY <1>5, <2>1, <2>2
<1>8. CASE P!Send
  <2>1. /\ pc = "send" /\ pc' = "recv" /\ pending' = P!NoEvent /\ UNCHANGED <<inQ, tip>>
    BY <1>8 DEF P!Send
  <2>2. ~Moves(pending')
    BY <2>1 DEF P!NoEvent, Moves
  <2>3. CASE pending = P!NoEvent
    <3>1. UNCHANGED <<openBlock, head, due>>
      BY <1>8, <2>3 DEF P!Send
    <3> QED
      BY <1>5, <2>1, <2>2, <3>1
  <2>4. CASE pending # P!NoEvent
    <3>1. /\ pending \in P!Event /\ P!Apply(pending)
          /\ pending.type = "NewHead" => openBlock <= pending.block
          /\ Moves(pending) => StartBlock < pending.block
      BY <1>1, <1>8, <2>4 DEF P!Send, P!TypeOK, HeadsNewest, EventsSinceStart
    <3>2. /\ Moves(pending) /\ pending.block \in Nat
          /\ openBlock' = openBlock \/ openBlock' = pending.block
          /\ openBlock' \in Nat /\ openBlock <= openBlock'
          /\ head' <= openBlock'
          /\ \A p \in Pools : due'[p] <= openBlock'
          /\ tip <= openBlock' \/ (openBlock' = 0 /\ tip <= StartBlock)
      BY <1>1, <3>1, ApplyKeepsOrder
    <3>3. OpenIsNewest'
      BY <1>1, <1>3, <2>1, <3>2 DEF OpenIsNewest, TipBounded
    <3>4. Behind(openBlock')
      BY <1>1, <3>2 DEF EventsBehind
    <3>5. EventsBehind'
      BY <1>1, <1>2, <2>1, <2>2, <3>4 DEF EventsBehind, Moves, Behind, Height
    <3>6. HeadsNewest'
      BY <1>1, <2>1, <2>2, <3>2 DEF HeadsNewest, Moves
    <3> QED
      BY <3>3, <3>5, <3>6
  <2> QED
    BY <2>3, <2>4
<1> QED
  BY <1>1, <1>4, <1>6, <1>7, <1>8 DEF P!Task

LEMMA OrderInit == SystemInit => OrderInv
<1> SUFFICES ASSUME SystemInit PROVE OrderInv
  OBVIOUS
<1>1. /\ openBlock = 0 /\ head = 0 /\ tip = StartBlock /\ pc = "recv" /\ Len(inQ) = 0
      /\ pending = P!NoEvent /\ StartBlock \in Nat /\ \A p \in Pools : due[p] = 0
  BY BackendAssumption DEF SystemInit, P!Init
<1>2. Len(headQ) = 0 /\ Len(chain) = StartBlock
  BY <1>1 DEF SystemInit, Init
<1>3. ~Moves(pending) /\ pending.type # "NewHead"
  BY <1>1 DEF P!NoEvent, Moves
<1>4. OpenIsNewest /\ EventsSinceStart
  BY <1>1, <1>3 DEF OpenIsNewest, TipBounded, EventsSinceStart
<1>5. EventsBehind
  BY <1>1, <1>2, <1>3 DEF EventsBehind, Behind, Height
<1>6. HeadsNewest
  BY <1>1, <1>3 DEF HeadsNewest
<1> QED
  BY <1>4, <1>5, <1>6, FrontInvInit, PipelineStarts DEF OrderInv, SystemInit

LEMMA OrderStep == OrderInv /\ [SystemNext]_systemVars => OrderInv'
<1> SUFFICES ASSUME OrderInv, [SystemNext]_systemVars PROVE OrderInv'
  OBVIOUS
<1>1. FrontInv' /\ P!TypeOK' /\ Resting' /\ EventsSinceStart'
  BY FrontKept, PipelineKept, SinceStartKept DEF OrderInv
<1>2. ASSUME ordered' PROVE OpenIsNewest' /\ EventsBehind' /\ HeadsNewest'
  <2>1. CASE BackendStep
    BY <1>2, <2>1, BackendKeepsOrder
  <2>2. CASE PipelineStep
    BY <1>2, <2>2, TaskKeepsOrder DEF PipelineStep
  <2>3. CASE UNCHANGED <<vars, inQ, openBlock, head, tip, due, job, pending, pc, ordered>>
    BY <1>2, <2>3 DEF OrderInv, OpenIsNewest, TipBounded, EventsBehind, HeadsNewest, Moves,
       Behind, Height, vars
  <2> QED
    BY <2>1, <2>2, <2>3 DEF SystemNext, TakeBatch, systemVars, pipeline
<1> QED
  BY <1>1, <1>2 DEF OrderInv

\* As long as the headers come in the order of the logs, a batch and the
\* generation of the state cache behind it carry a block that is not older
\* than any log of the batch's pools: also when that log was replayed, or told
\* twice by a replay that was cut short, or came with a Resync.
THEOREM BatchCoversItsLogsTheorem == SystemSpec => []BatchCoversItsLogs
<1>1. SystemInit => OrderInv
  BY OrderInit
<1>2. OrderInv /\ [SystemNext]_systemVars => OrderInv'
  BY OrderStep
<1>3. OrderInv => BatchCoversItsLogs
  <2> SUFFICES ASSUME OrderInv, ordered, pc # "recv", NEW p \in job.pools
               PROVE  due[p] <= job.block
    BY DEF BatchCoversItsLogs, P!BatchCoversItsLogs
  <2>1. p \in Pools
    BY DEF OrderInv, P!TypeOK, P!Batch
  <2> QED
    BY <2>1 DEF OrderInv, OpenIsNewest
<1> QED
  BY <1>1, <1>2, <1>3, PTL DEF SystemSpec

\* On the same condition the published tip never goes back from the first block
\* opened on, whatever drops, replays, Resyncs and quiet seals come between two
\* headers, and whatever block the program started at.
THEOREM TipNeverRegressesTheorem == SystemSpec => TipNeverRegresses
<1>1. SystemInit => OrderInv
  BY OrderInit
<1>2. OrderInv /\ [SystemNext]_systemVars => OrderInv'
  BY OrderStep
<1>3. OrderInv /\ [SystemNext]_systemVars =>
        [ordered /\ openBlock > 0 => tip' >= tip]_systemVars
  <2> SUFFICES ASSUME OrderInv, SystemNext, ordered, openBlock > 0 PROVE tip' >= tip
    OBVIOUS
  <2>1. P!TypeOK /\ OpenIsNewest
    BY DEF OrderInv
  <2>2. tip \in Nat /\ openBlock \in Nat
    BY <2>1, PipelineNumbers
  <2>3. CASE tip' = tip
    BY <2>2, <2>3
  <2>4. CASE P!Advance
    <3>1. tip' = job.block /\ pc = "advance"
      BY <2>4 DEF P!Advance
    <3> QED
      BY <2>1, <2>2, <3>1 DEF OpenIsNewest, TipBounded
  <2> QED
    BY <2>3, <2>4 DEF SystemNext, BackendStep, PipelineStep, TakeBatch, pipeline, P!Task,
       P!TakeEvent, P!QuietSeal, P!Prefetch, P!Send
<1> QED
  BY <1>1, <1>2, <1>3, PTL DEF SystemSpec, TipNeverRegresses

=============================================================================
