--------------------------- MODULE RouteGraphProofs ---------------------------
(***************************************************************************)
(* Proofs about RouteGraph, for every set of pools and tokens, every list  *)
(* of anchors and every cap: the state of the search is that of a walk     *)
(* over kept edges without a repetition (Walk), which makes every route a  *)
(* cycle; what is found lies behind the point the walk has come to         *)
(* (FoundIsBehind), so that nothing is found twice; and what is not found  *)
(* lies ahead of it (RestIsAhead), so that in the end nothing is missing.  *)
(***************************************************************************)
EXTENDS RouteGraph, FiniteSetTheorems, SequenceTheorems, TLAPS

-----------------------------------------------------------------------------
(* The inductive invariant.                                                *)

Depth == Len(stack)
At(j) == stack[j].at
K(j) == stack[j].k

\* The stack, the path, used and visited describe one walk: the call at depth j
\* has gone over the edge before its k to the call at depth j + 1, and no token
\* and no pool of the walk comes twice.
Walk ==
  /\ stack # << >> => anchor <= Len(Anchors) /\ At(1) = Start /\ Depth = Len(path) + 1
  /\ stack = << >> => path = << >>
  /\ Len(used) = Len(path)
  /\ Len(visited) = Depth
  /\ \A j \in 1..Depth : visited[j] = At(j) /\ (K(j) > 0 => j <= MaxHops)
  /\ \A j \in 1..Len(path) :
       /\ used[j] = path[j].pool
       /\ path[j].token_in = At(j)
       /\ K(j) - 1 \in 1..Len(KeptEdges(At(j)))
       /\ path[j].pool = KeptEdges(At(j))[K(j) - 1]
       /\ OtherEnd(path[j].pool, At(j)) = At(j + 1)
  /\ \A i, j \in 1..Depth : i # j => At(i) # At(j)
  /\ \A i, j \in 1..Len(path) : i # j => path[i].pool # path[j].pool

\* The hops h agree with the walk up to depth j, and go on over edge m there.
Branches(h, j, m) ==
  /\ j <= Len(h)
  /\ \A i \in 1..(j - 1) : h[i] = path[i]
  /\ m \in 1..Len(KeptEdges(At(j)))
  /\ h[j] = [pool |-> KeptEdges(At(j))[m], token_in |-> At(j)]

\* The edges at depth j that the loop there is done with: the one it has gone
\* down is not.
DoneWith(j) == IF j = Depth THEN K(j) ELSE K(j) - 1

\* The hops h come before the walk in the order of the search, or after it.
Behind(h) == \E j \in 1..Depth : \E m \in Nat : Branches(h, j, m) /\ m < DoneWith(j)
Ahead(h) == \E j \in 1..Depth : \E m \in Nat : Branches(h, j, m) /\ m >= K(j)

FoundIsBehind ==
  /\ \A n \in 1..Len(found) :
       /\ anchor <= Len(Anchors)
       /\ found[n].anchor = Start
       /\ IsCycle(Start, found[n].hops)
       /\ stack # << >> => Behind(found[n].hops)
  /\ \A m, n \in 1..Len(found) : found[m] = found[n] => m = n

RestIsAhead ==
  anchor <= Len(Anchors) /\ ~Full =>
    \A h \in Cycles(Start) : Ahead(h) \/ \E n \in 1..Len(found) : found[n].hops = h

\* The anchors before: what was found for each.
Filled(i) ==
  \E F \in SUBSET ToSet(routes) :
    /\ \A r \in F : r.anchor = Anchors[i]
    /\ Cardinality(F) >= MaxRoutes

Complete(i) ==
  \A h \in Cycles(Anchors[i]) :
    \E n \in 1..Len(routes) : routes[n] = [anchor |-> Anchors[i], hops |-> h]

PastIsDone ==
  /\ \A n \in 1..Len(routes) :
       /\ IsCycle(routes[n].anchor, routes[n].hops)
       /\ \E i \in 1..(anchor - 1) : i <= Len(Anchors) /\ routes[n].anchor = Anchors[i]
  /\ \A i \in 1..(anchor - 1) : Filled(i) \/ Complete(i)

\* Routes differ by what they are found from; the configuration may name an
\* anchor twice, and then each of its routes is there twice.
PastIsDifferent ==
  IsInjective(Anchors) => \A m, n \in 1..Len(routes) : routes[m] = routes[n] => m = n

SearchInv ==
  TypeOK /\ Walk /\ FoundIsBehind /\ RestIsAhead /\ PastIsDone /\ PastIsDifferent

-----------------------------------------------------------------------------
(* The edges a token keeps.                                                *)

\* ByLiquidity lists a finite set of numbers, each once.
LEMMA ByLiquidityLists ==
  ASSUME NEW S, IsFiniteSet(S), S \subseteq Nat
  PROVE  /\ ByLiquidity(S) \in Seq(S)
         /\ \A m, n \in 1..Len(ByLiquidity(S)) :
              ByLiquidity(S)[m] = ByLiquidity(S)[n] => m = n
<1> DEFINE N == Cardinality(S)
           Upto(p) == {q \in S : q <= p}
           f == [p \in S |-> Place(S, p)]
<1>1. N \in Nat
  BY FS_CardinalityType
<1>2. ASSUME NEW p \in S
      PROVE  IsFiniteSet(Upto(p)) /\ Place(S, p) \in 1..N
  <2>1. Upto(p) \in SUBSET S /\ p \in Upto(p)
    OBVIOUS
  <2>2. IsFiniteSet(Upto(p)) /\ Cardinality(Upto(p)) <= N
    BY <2>1, FS_Subset
  <2>3. Cardinality(Upto(p)) \in Nat /\ Cardinality(Upto(p)) # 0
    BY <2>1, <2>2, FS_CardinalityType, FS_EmptySet
  <2> QED
    BY <1>1, <2>2, <2>3 DEF Place
<1>3. ASSUME NEW p \in S, NEW q \in S, Place(S, p) = Place(S, q), p <= q
      PROVE  p = q
  <2>1. Upto(p) \in SUBSET Upto(q)
    <3> SUFFICES ASSUME NEW r \in S, r <= p PROVE r <= q
      OBVIOUS
    <3> QED
      BY <1>3
  <2>2. Upto(p) = Upto(q)
    BY <1>2, <1>3, <2>1, FS_Subset DEF Place
  <2>3. q \in Upto(q)
    OBVIOUS
  <2> QED
    BY <1>3, <2>2, <2>3
<1>4. f \in Injection(S, 1..N)
  <2>1. \A p, q \in S : p <= q \/ q <= p
    OBVIOUS
  <2> QED
    BY <1>2, <1>3, <2>1 DEF Injection, IsInjective
<1>5. f \in Surjection(S, 1..N)
  <2>1. IsFiniteSet(1..N) /\ Cardinality(1..N) = N
    BY <1>1, FS_Interval
  <2> QED
    BY <1>4, <2>1, FS_Injection
<1>6. ASSUME NEW n \in 1..N
      PROVE  ByLiquidity(S)[n] \in S /\ Place(S, ByLiquidity(S)[n]) = n
  <2>1. \E p \in S : Place(S, p) = n
    BY <1>5 DEF Surjection
  <2>2. ByLiquidity(S)[n] = CHOOSE p \in S : Place(S, p) = n
    BY DEF ByLiquidity
  <2> QED
    BY <2>1, <2>2
<1>7. ByLiquidity(S) \in [1..N -> S] /\ Len(ByLiquidity(S)) = N
  BY <1>1, <1>6 DEF ByLiquidity
<1>8. ByLiquidity(S) \in Seq(S)
  BY <1>1, <1>7
<1> QED
  BY <1>6, <1>7, <1>8

\* What a token keeps is a list of its pools, none twice.
LEMMA KeptEdgesList ==
  ASSUME TypeOK, NEW t
  PROVE  /\ KeptEdges(t) \in Seq(PoolsOf(t))
         /\ Len(KeptEdges(t)) \in Nat
         /\ \A n \in 1..Len(KeptEdges(t)) :
              KeptEdges(t)[n] \in Pools /\ Touches(KeptEdges(t)[n], t)
         /\ \A m, n \in 1..Len(KeptEdges(t)) :
              KeptEdges(t)[m] = KeptEdges(t)[n] => m = n
<1> DEFINE e == EdgesOf(t)
           cap == PairFanout * Generosity
<1>1. PoolsOf(t) \subseteq Pools /\ Pools \subseteq Nat
  BY RouteGraphAssumption DEF PoolsOf, Pools
<1>2. IsFiniteSet(PoolsOf(t))
  <2>1. IsFiniteSet(Pools)
    BY FS_Interval, RouteGraphAssumption DEF Pools
  <2> QED
    BY <1>1, <2>1, FS_Subset
<1>3. /\ e \in Seq(PoolsOf(t))
      /\ \A m, n \in 1..Len(e) : e[m] = e[n] => m = n
  BY <1>1, <1>2, ByLiquidityLists DEF EdgesOf
<1>4. PairFanout * Generosity \in Nat
  BY RouteGraphAssumption
<1> DEFINE n == IF Len(e) > cap THEN cap ELSE Len(e)
<1>5. n \in 0..Len(e) /\ KeptEdges(t) = SubSeq(e, 1, n)
  BY <1>3, <1>4 DEF KeptEdges
<1>6. /\ KeptEdges(t) \in Seq(PoolsOf(t))
      /\ Len(KeptEdges(t)) = n
      /\ \A i \in 1..n : KeptEdges(t)[i] = e[i]
  <2> HIDE DEF e, n
  <2> QED
    BY <1>3, <1>5
<1>7. \A i \in 1..n : i \in 1..Len(e)
  BY <1>3, <1>5
<1>8. \A i \in 1..n : KeptEdges(t)[i] \in PoolsOf(t)
  BY <1>6
<1>9. n \in Nat
  BY <1>3, <1>5
<1> QED
  BY <1>1, <1>3, <1>6, <1>7, <1>8, <1>9 DEF PoolsOf

\* A pool leads from one of its tokens to the other.
LEMMA PoolLeads ==
  ASSUME TypeOK, NEW p \in Pools, NEW t, Touches(p, t)
  PROVE  OtherEnd(p, t) \in Tokens /\ OtherEnd(p, t) # t /\ t \in Tokens
<1>1. ends[p] \in Tokens \X Tokens /\ ends[p][1] < ends[p][2]
  BY DEF TypeOK, Ends
<1>2. ends[p][1] \in Nat /\ ends[p][2] \in Nat
  BY <1>1, RouteGraphAssumption
<1>3. ends[p][1] # ends[p][2]
  BY <1>1, <1>2
<1> QED
  BY <1>1, <1>3 DEF OtherEnd, Touches

\* The graph is built once: no step of the search changes it.
LEMMA GraphIsFixed ==
  ASSUME ends' = ends
  PROVE  /\ \A t : KeptEdges(t)' = KeptEdges(t)
         /\ \A p, t : OtherEnd(p, t)' = OtherEnd(p, t)
         /\ \A a, h : IsCycle(a, h)' = IsCycle(a, h)
         /\ \A a : Cycles(a)' = Cycles(a)
<1>1. /\ \A t : KeptEdges(t)' = KeptEdges(t)
      /\ \A p, t : OtherEnd(p, t)' = OtherEnd(p, t)
  BY DEF KeptEdges, EdgesOf, PoolsOf, Touches, OtherEnd
<1>2. \A a, h : IsCycle(a, h)' = IsCycle(a, h)
  BY DEF IsCycle, KeptEdges, EdgesOf, PoolsOf, Touches, OtherEnd
<1>3. \A a : Cycles(a)' = Cycles(a)
  BY DEF Cycles, IsCycle, KeptEdges, EdgesOf, PoolsOf, Touches, OtherEnd
<1> QED
  BY <1>1, <1>2, <1>3

-----------------------------------------------------------------------------
(* The walk.                                                               *)

\* What Front leaves of a sequence.
LEMMA FrontOf ==
  ASSUME NEW S, NEW s \in Seq(S), s # << >>
  PROVE  /\ Front(s) \in Seq(S)
         /\ Len(s) \in Nat \ {0}
         /\ Len(Front(s)) = Len(s) - 1
         /\ \A i \in 1..(Len(s) - 1) : Front(s)[i] = s[i]
<1>1. Len(s) \in Nat /\ Len(s) # 0
  BY EmptySeq
<1>2. Front(s) = SubSeq(s, 1, Len(s) - 1)
  BY DEF Front
<1>3. 1 \in Int /\ Len(s) - 1 \in Int /\ \A i \in 1..(Len(s) - 1) : s[i] \in S
  BY <1>1, ElementOfSeq
<1>4. /\ SubSeq(s, 1, Len(s) - 1) \in Seq(S)
      /\ Len(SubSeq(s, 1, Len(s) - 1)) =
           IF 1 <= Len(s) - 1 THEN (Len(s) - 1) - 1 + 1 ELSE 0
      /\ \A i \in 1..((Len(s) - 1) - 1 + 1) :
           SubSeq(s, 1, Len(s) - 1)[i] = s[1 + i - 1]
  BY <1>3, SubSeqProperties
<1>5. Len(Front(s)) = Len(s) - 1
  <2>1. ASSUME NEW n \in Nat \ {0}
        PROVE  (IF 1 <= n - 1 THEN (n - 1) - 1 + 1 ELSE 0) = n - 1
    <3>1. n = 1 \/ 1 <= n - 1
      OBVIOUS
    <3> QED
      BY <3>1
  <2> QED
    BY <1>1, <1>2, <1>4, <2>1, Zenon
<1>6. ASSUME NEW i \in 1..(Len(s) - 1) PROVE Front(s)[i] = s[i]
  <2>1. i \in 1..((Len(s) - 1) - 1 + 1) /\ 1 + i - 1 = i
    BY <1>1
  <2> QED
    BY <1>2, <1>4, <2>1
<1> QED
  BY <1>1, <1>2, <1>4, <1>5, <1>6

\* The call at the top, and where it is.
LEMMA TopCall ==
  ASSUME TypeOK, Walk, stack # << >>
  PROVE  /\ Depth \in Nat \ {0}
         /\ \A j \in 1..Depth : stack[j] \in Frame /\ At(j) \in Tokens /\ K(j) \in Nat
         /\ Top = stack[Depth] /\ Current = At(Depth) /\ Current \in Tokens
         /\ Len(path) = Depth - 1 /\ Len(used) = Depth - 1 /\ Len(visited) = Depth
         /\ anchor \in 1..Len(Anchors) /\ Start = At(1) /\ Start \in Tokens
<1>1. Depth \in Nat /\ Depth # 0
  BY EmptySeq DEF TypeOK, Depth
<1>2. \A j \in 1..Depth : stack[j] \in Frame /\ At(j) \in Tokens /\ K(j) \in Nat
  <2>1. ASSUME NEW j \in 1..Depth PROVE stack[j] \in Frame
    BY DEF TypeOK, Depth
  <2> QED
    BY <2>1 DEF At, K, Frame
<1>3. Len(path) = Depth - 1
  BY <1>1 DEF Walk, TypeOK
<1>4. Len(Anchors) \in Nat /\ anchor \in 1..Len(Anchors)
  BY RouteGraphAssumption DEF Walk, TypeOK
<1> QED
  BY <1>1, <1>2, <1>3, <1>4, RouteGraphAssumption DEF Walk, Top, Current, Depth, At, Start

\* The loop of the top call goes on to its next edge.
LEMMA Advances ==
  ASSUME TypeOK, Walk, stack # << >>, stack' = Advanced
  PROVE  /\ stack' \in Seq(Frame)
         /\ Depth' = Depth
         /\ \A j \in 1..Depth :
              At(j)' = At(j) /\ K(j)' = IF j = Depth THEN K(j) + 1 ELSE K(j)
<1>1. Depth \in Nat \ {0} /\ \A j \in 1..Depth : stack[j] \in Frame /\ K(j) \in Nat
  BY TopCall
<1>2. Depth = Len(stack) /\ stack \in Seq(Frame)
  BY DEF Depth, TypeOK
<1> DEFINE top == [stack[Depth] EXCEPT !.k = @ + 1]
<1>3. top \in Frame
  BY <1>1 DEF Frame, K
<1>4. stack' = [stack EXCEPT ![Depth] = top]
  BY <1>2 DEF Advanced
<1>5. /\ stack' \in Seq(Frame) /\ Len(stack') = Len(stack)
      /\ \A j \in 1..Depth : stack'[j] = IF j = Depth THEN top ELSE stack[j]
  <2> HIDE DEF top
  <2> QED
    BY <1>1, <1>2, <1>3, <1>4
<1>6. ASSUME NEW j \in 1..Depth
      PROVE  At(j)' = At(j) /\ K(j)' = IF j = Depth THEN K(j) + 1 ELSE K(j)
  BY <1>1, <1>5 DEF At, K, Frame
<1> QED
  BY <1>2, <1>5, <1>6 DEF Depth

\* The top call returns.
LEMMA Leaves ==
  ASSUME TypeOK, Walk, stack # << >>, Leave
  PROVE  /\ stack' \in Seq(Frame) /\ path' \in Seq(Hop)
         /\ used' \in Seq(Pools) /\ visited' \in Seq(Tokens)
         /\ Depth' = Depth - 1 /\ Len(visited') = Depth - 1
         /\ Len(path') = (IF Depth = 1 THEN 0 ELSE Depth - 2) /\ Len(used') = Len(path')
         /\ \A j \in 1..(Depth - 1) :
              At(j)' = At(j) /\ K(j)' = K(j) /\ visited'[j] = visited[j]
         /\ \A j \in 1..(Depth - 2) : path'[j] = path[j] /\ used'[j] = used[j]
<1>1. /\ Depth \in Nat \ {0} /\ Len(path) = Depth - 1 /\ Len(used) = Depth - 1
      /\ Len(visited) = Depth /\ Depth = Len(stack)
  BY TopCall DEF Depth
<1>2. /\ stack' \in Seq(Frame) /\ Len(stack') = Depth - 1
      /\ \A j \in 1..(Depth - 1) : stack'[j] = stack[j]
  BY <1>1, FrontOf DEF Leave, TypeOK
<1>3. /\ visited' \in Seq(Tokens) /\ Len(visited') = Depth - 1
      /\ \A j \in 1..(Depth - 1) : visited'[j] = visited[j]
  <2>1. visited \in Seq(Tokens) /\ visited # << >> /\ visited' = Front(visited)
    BY <1>1 DEF Leave, Unvisited, TypeOK
  <2> QED
    BY <1>1, <2>1, FrontOf
<1>4. ASSUME NEW S, NEW s \in Seq(S), Len(s) = Depth - 1
      PROVE  /\ Popped(s) \in Seq(S)
             /\ Len(Popped(s)) = IF Depth = 1 THEN 0 ELSE Depth - 2
             /\ \A j \in 1..(Depth - 2) : Popped(s)[j] = s[j]
  <2>1. CASE Depth = 1
    BY <1>1, <1>4, <2>1, EmptySeq DEF Popped
  <2>2. CASE Depth # 1
    <3>1. s # << >>
      BY <1>1, <1>4, <2>2
    <3>2. /\ Front(s) \in Seq(S) /\ Len(Front(s)) = Len(s) - 1
          /\ \A i \in 1..(Len(s) - 1) : Front(s)[i] = s[i]
      BY <3>1, FrontOf
    <3> QED
      BY <1>1, <1>4, <2>2, <3>1, <3>2 DEF Popped
  <2> QED
    BY <2>1, <2>2
<1>5. /\ path' \in Seq(Hop) /\ Len(path') = (IF Depth = 1 THEN 0 ELSE Depth - 2)
      /\ \A j \in 1..(Depth - 2) : path'[j] = path[j]
  BY <1>1, <1>4 DEF Leave, TypeOK
<1>6. /\ used' \in Seq(Pools) /\ Len(used') = (IF Depth = 1 THEN 0 ELSE Depth - 2)
      /\ \A j \in 1..(Depth - 2) : used'[j] = used[j]
  BY <1>1, <1>4 DEF Leave, TypeOK
<1>7. Depth' = Depth - 1 /\ \A j \in 1..(Depth - 1) : At(j)' = At(j) /\ K(j)' = K(j)
  BY <1>2 DEF Depth, At, K
<1> QED
  BY <1>2, <1>3, <1>5, <1>6, <1>7

LEMMA WalkAdvances ==
  ASSUME TypeOK, Walk, stack # << >>, stack' = Advanced,
         UNCHANGED <<ends, anchor, path, used, visited>>,
         K(Depth) > 0 \/ Len(path) < MaxHops
  PROVE  Walk'
<1>1. /\ Depth \in Nat \ {0} /\ Len(path) = Depth - 1 /\ anchor <= Len(Anchors)
      /\ \A j \in 1..Depth : K(j) \in Nat
  BY TopCall
<1>2. /\ Depth' = Depth
      /\ \A j \in 1..Depth :
           At(j)' = At(j) /\ K(j)' = IF j = Depth THEN K(j) + 1 ELSE K(j)
  BY Advances
<1>3. /\ \A t : KeptEdges(t)' = KeptEdges(t)
      /\ \A p, t : OtherEnd(p, t)' = OtherEnd(p, t)
  BY GraphIsFixed
<1>4. Start' = Start /\ stack' # << >> /\ path' = path /\ used' = used /\ visited' = visited
  BY <1>1, <1>2, EmptySeq DEF Start, Depth
<1>5. ASSUME NEW j \in 1..Depth
      PROVE  visited'[j] = At(j)' /\ (K(j)' > 0 => j <= MaxHops)
  BY <1>1, <1>2, <1>4, RouteGraphAssumption DEF Walk
<1>6. ASSUME NEW j \in 1..Len(path)
      PROVE  /\ used'[j] = path'[j].pool
             /\ path'[j].token_in = At(j)'
             /\ K(j)' - 1 \in 1..Len(KeptEdges(At(j))')
             /\ path'[j].pool = KeptEdges(At(j))'[K(j)' - 1]
             /\ OtherEnd(path[j].pool, At(j))' = At(j + 1)'
  <2>1. j \in 1..Depth /\ j + 1 \in 1..Depth /\ j # Depth
    BY <1>1
  <2>2. At(j)' = At(j) /\ At(j + 1)' = At(j + 1) /\ K(j)' = K(j)
    BY <1>2, <2>1
  <2>3. KeptEdges(At(j))' = KeptEdges(At(j))
    BY <1>3, <2>2
  <2>4. OtherEnd(path[j].pool, At(j))' = OtherEnd(path[j].pool, At(j))
    BY <1>3, <1>4, <2>2
  <2> QED
    BY <1>4, <2>2, <2>3, <2>4 DEF Walk
<1>7. \A i, j \in 1..Depth : i # j => At(i)' # At(j)'
  BY <1>2 DEF Walk
<1>8. At(1)' = Start
  BY <1>1, <1>2 DEF Walk
<1> QED
  BY <1>1, <1>2, <1>4, <1>5, <1>6, <1>7, <1>8 DEF Walk

LEMMA WalkLeaves ==
  ASSUME TypeOK, Walk, stack # << >>, Leave, UNCHANGED <<ends, anchor>>
  PROVE  Walk'
<1>1. /\ Depth \in Nat \ {0} /\ Len(path) = Depth - 1 /\ anchor <= Len(Anchors)
      /\ At(1) = Start /\ Depth = Len(stack)
  BY TopCall DEF Depth
<1>2. /\ stack' \in Seq(Frame) /\ path' \in Seq(Hop)
      /\ Depth' = Depth - 1 /\ Len(visited') = Depth - 1
      /\ Len(path') = (IF Depth = 1 THEN 0 ELSE Depth - 2) /\ Len(used') = Len(path')
      /\ \A j \in 1..(Depth - 1) :
           At(j)' = At(j) /\ K(j)' = K(j) /\ visited'[j] = visited[j]
      /\ \A j \in 1..(Depth - 2) : path'[j] = path[j] /\ used'[j] = used[j]
  BY Leaves
<1>3. /\ \A t : KeptEdges(t)' = KeptEdges(t)
      /\ \A p, t : OtherEnd(p, t)' = OtherEnd(p, t)
  BY GraphIsFixed
<1>4. Start' = Start
  BY DEF Start
<1>5. stack' = << >> => path' = << >>
  BY <1>1, <1>2, EmptySeq DEF Depth
<1>6. stack' # << >> => Depth # 1
  <2>1. Len(stack') = Depth - 1
    BY <1>2 DEF Depth
  <2> QED
    BY <1>2, <2>1, EmptySeq
<1>7. stack' # << >> => anchor' <= Len(Anchors) /\ At(1)' = Start' /\ Depth' = Len(path') + 1
  BY <1>1, <1>2, <1>4, <1>6
<1>8. ASSUME NEW j \in 1..(Depth - 1)
      PROVE  visited'[j] = At(j)' /\ (K(j)' > 0 => j <= MaxHops)
  <2>1. j \in 1..Depth
    BY <1>1
  <2>2. visited[j] = At(j) /\ (K(j) > 0 => j <= MaxHops)
    BY <2>1 DEF Walk
  <2> QED
    BY <1>2, <2>2
<1>9. ASSUME NEW j \in 1..(Depth - 2)
      PROVE  /\ used'[j] = path'[j].pool
             /\ path'[j].token_in = At(j)'
             /\ K(j)' - 1 \in 1..Len(KeptEdges(At(j))')
             /\ path'[j].pool = KeptEdges(At(j))'[K(j)' - 1]
             /\ OtherEnd(path[j].pool, At(j))' = At(j + 1)'
  <2>1. j \in 1..(Depth - 1) /\ j + 1 \in 1..(Depth - 1) /\ j \in 1..Len(path)
    BY <1>1
  <2>2. At(j)' = At(j) /\ At(j + 1)' = At(j + 1) /\ K(j)' = K(j) /\ path'[j] = path[j]
    BY <1>2, <2>1
  <2>3. KeptEdges(At(j))' = KeptEdges(At(j))
    BY <1>3, <2>2
  <2>4. OtherEnd(path[j].pool, At(j))' = OtherEnd(path[j].pool, At(j))
    BY <1>3, <2>2
  <2>5. used'[j] = used[j]
    BY <1>2
  <2>6. /\ used[j] = path[j].pool /\ path[j].token_in = At(j)
        /\ K(j) - 1 \in 1..Len(KeptEdges(At(j)))
        /\ path[j].pool = KeptEdges(At(j))[K(j) - 1]
        /\ OtherEnd(path[j].pool, At(j)) = At(j + 1)
    BY <2>1 DEF Walk
  <2> QED
    BY <2>2, <2>3, <2>4, <2>5, <2>6
<1>10. ASSUME NEW i \in 1..(Depth - 1), NEW j \in 1..(Depth - 1), i # j
       PROVE  At(i)' # At(j)'
  <2>1. i \in 1..Depth /\ j \in 1..Depth
    BY <1>1
  <2>2. At(i) # At(j)
    BY <1>10, <2>1 DEF Walk
  <2> QED
    BY <1>2, <2>2
<1>11. ASSUME NEW i \in 1..(Depth - 2), NEW j \in 1..(Depth - 2), i # j
       PROVE  path'[i].pool # path'[j].pool
  <2>1. i \in 1..Len(path) /\ j \in 1..Len(path)
    BY <1>1
  <2>2. path[i].pool # path[j].pool
    BY <1>11, <2>1 DEF Walk
  <2> QED
    BY <1>2, <2>2
<1>12. 1..Len(path') = 1..(Depth - 2)
  BY <1>1, <1>2
<1> QED
  BY <1>2, <1>5, <1>7, <1>8, <1>9, <1>10, <1>11, <1>12 DEF Walk

\* The edge the loop of the top call is at.
LEMMA EdgeAt ==
  ASSUME TypeOK, Walk, AtEdge
  PROVE  /\ stack # << >> /\ K(Depth) \in 1..Len(KeptEdges(Current))
         /\ Edge = KeptEdges(At(Depth))[K(Depth)] /\ Edge \in Pools
         /\ Touches(Edge, Current)
         /\ NextToken \in Tokens /\ NextToken # Current
         /\ HopOver(Edge) = [pool |-> Edge, token_in |-> At(Depth)] /\ HopOver(Edge) \in Hop
         /\ Depth <= MaxHops
<1>1. /\ Depth \in Nat \ {0} /\ Top = stack[Depth] /\ Current = At(Depth)
      /\ Current \in Tokens
  BY TopCall DEF AtEdge
<1>2. Top.k = K(Depth) /\ stack # << >> /\ K(Depth) \in 1..Len(KeptEdges(Current))
  BY <1>1 DEF AtEdge, K
<1>3. Edge \in Pools /\ Touches(Edge, Current) /\ Edge = KeptEdges(At(Depth))[K(Depth)]
  BY <1>1, <1>2, KeptEdgesList DEF Edge
<1>4. NextToken \in Tokens /\ NextToken # Current
  BY <1>3, PoolLeads DEF NextToken
<1>5. Depth <= MaxHops
  <2>1. \A j \in 1..Depth : K(j) > 0 => j <= MaxHops
    BY DEF Walk
  <2>2. Depth \in 1..Depth /\ K(Depth) > 0
    BY <1>1, <1>2, KeptEdgesList
  <2> QED
    BY <2>1, <2>2
<1> QED
  BY <1>1, <1>2, <1>3, <1>4, <1>5 DEF HopOver, Hop

\* The search goes down over the edge: the walk is longer by a step.
LEMMA Descends ==
  ASSUME TypeOK, Walk, Descend
  PROVE  /\ stack' \in Seq(Frame) /\ path' \in Seq(Hop)
         /\ used' \in Seq(Pools) /\ visited' \in Seq(Tokens)
         /\ Depth' = Depth + 1 /\ Len(visited') = Depth + 1
         /\ Len(path') = Depth /\ Len(used') = Depth
         /\ \A j \in 1..Depth :
              /\ At(j)' = At(j)
              /\ K(j)' = IF j = Depth THEN K(j) + 1 ELSE K(j)
              /\ visited'[j] = visited[j]
         /\ \A j \in 1..(Depth - 1) : path'[j] = path[j] /\ used'[j] = used[j]
         /\ \A j : j = Depth + 1 => At(j)' = NextToken /\ K(j)' = 0
         /\ visited'[Depth + 1] = NextToken
         /\ path'[Depth] = HopOver(Edge) /\ used'[Depth] = Edge
<1>1. /\ NextToken \in Tokens /\ HopOver(Edge) \in Hop /\ Edge \in Pools /\ stack # << >>
  BY EdgeAt DEF Descend
<1>2. /\ Depth \in Nat \ {0} /\ Len(path) = Depth - 1 /\ Len(used) = Depth - 1
      /\ Len(visited) = Depth /\ Depth = Len(stack)
  BY <1>1, TopCall DEF Depth
<1> DEFINE new == [at |-> NextToken, k |-> 0]
<1>3. new \in Frame
  BY <1>1 DEF Frame
<1>4. PICK s \in Seq(Frame) :
        /\ s = Advanced /\ Len(s) = Depth
        /\ \A j \in 1..Depth :
             s[j].at = At(j) /\ s[j].k = IF j = Depth THEN K(j) + 1 ELSE K(j)
  <2>1. Depth = Len(stack) /\ stack \in Seq(Frame)
    BY DEF Depth, TypeOK
  <2> DEFINE top == [stack[Depth] EXCEPT !.k = @ + 1]
  <2>2. \A j \in 1..Depth : stack[j] \in Frame /\ K(j) \in Nat
    BY <1>1, TopCall
  <2>3. top \in Frame
    BY <1>2, <2>2 DEF Frame, K
  <2>4. Advanced = [stack EXCEPT ![Depth] = top]
    BY <2>1 DEF Advanced
  <2>5. /\ Advanced \in Seq(Frame) /\ Len(Advanced) = Depth
        /\ \A j \in 1..Depth : Advanced[j] = IF j = Depth THEN top ELSE stack[j]
    <3> HIDE DEF top
    <3> QED
      BY <1>2, <2>1, <2>3, <2>4
  <2>6. top.at = At(Depth) /\ top.k = K(Depth) + 1
    BY <1>2, <2>2 DEF At, K, Frame
  <2> HIDE DEF top
  <2> QED
    BY <2>5, <2>6 DEF At, K
<1>5. /\ stack' \in Seq(Frame) /\ Len(stack') = Depth + 1
      /\ \A j \in 1..Depth : stack'[j] = s[j]
      /\ stack'[Depth + 1] = new
  <2> HIDE DEF new
  <2>1. stack' = Append(s, new)
    BY <1>4 DEF Descend, new
  <2> QED
    BY <1>2, <1>3, <1>4, <2>1
<1>6. /\ path' \in Seq(Hop) /\ Len(path') = Depth /\ path'[Depth] = HopOver(Edge)
      /\ \A j \in 1..(Depth - 1) : path'[j] = path[j]
  <2>1. path' = Append(path, HopOver(Edge)) /\ path \in Seq(Hop)
    BY DEF Descend, TypeOK
  <2> QED
    BY <1>1, <1>2, <2>1
<1>7. /\ used' \in Seq(Pools) /\ Len(used') = Depth /\ used'[Depth] = Edge
      /\ \A j \in 1..(Depth - 1) : used'[j] = used[j]
  <2>1. used' = Append(used, Edge) /\ used \in Seq(Pools)
    BY DEF Descend, TypeOK
  <2> QED
    BY <1>1, <1>2, <2>1
<1>8. /\ visited' \in Seq(Tokens) /\ Len(visited') = Depth + 1
      /\ visited'[Depth + 1] = NextToken
      /\ \A j \in 1..Depth : visited'[j] = visited[j]
  <2>1. visited' = Append(visited, NextToken) /\ visited \in Seq(Tokens)
    BY DEF Descend, TypeOK
  <2> QED
    BY <1>1, <1>2, <2>1
<1>9. Depth' = Depth + 1
  BY <1>5 DEF Depth
<1>10. \A j \in 1..Depth :
         At(j)' = At(j) /\ K(j)' = IF j = Depth THEN K(j) + 1 ELSE K(j)
  BY <1>4, <1>5 DEF At, K
<1>11. ASSUME NEW j, j = Depth + 1 PROVE At(j)' = NextToken /\ K(j)' = 0
  BY <1>5, <1>11 DEF At, K
<1> QED
  BY <1>5, <1>6, <1>7, <1>8, <1>9, <1>10, <1>11

LEMMA WalkDescends ==
  ASSUME TypeOK, Walk, Descend
  PROVE  Walk'
<1>1. /\ Depth \in Nat \ {0} /\ Len(path) = Depth - 1 /\ Len(used) = Depth - 1
      /\ Len(visited) = Depth /\ anchor <= Len(Anchors) /\ At(1) = Start
      /\ \A j \in 1..Depth : K(j) \in Nat
  BY TopCall DEF Descend, AtEdge
<1>2. /\ K(Depth) \in 1..Len(KeptEdges(At(Depth)))
      /\ Edge = KeptEdges(At(Depth))[K(Depth)]
      /\ HopOver(Edge) = [pool |-> Edge, token_in |-> At(Depth)]
      /\ Depth <= MaxHops
      /\ NextToken = OtherEnd(Edge, At(Depth))
  BY EdgeAt, TopCall DEF Descend, NextToken
<1>3. /\ stack' \in Seq(Frame)
      /\ Depth' = Depth + 1 /\ Len(visited') = Depth + 1
      /\ Len(path') = Depth /\ Len(used') = Depth
      /\ \A j \in 1..Depth :
           /\ At(j)' = At(j)
           /\ K(j)' = IF j = Depth THEN K(j) + 1 ELSE K(j)
           /\ visited'[j] = visited[j]
      /\ \A j \in 1..(Depth - 1) : path'[j] = path[j] /\ used'[j] = used[j]
      /\ \A j : j = Depth + 1 => At(j)' = NextToken /\ K(j)' = 0
      /\ visited'[Depth + 1] = NextToken
      /\ path'[Depth] = HopOver(Edge) /\ used'[Depth] = Edge
  BY Descends
<1>4. /\ \A t : KeptEdges(t)' = KeptEdges(t)
      /\ \A p, t : OtherEnd(p, t)' = OtherEnd(p, t)
  BY GraphIsFixed DEF Descend
<1>5. Start' = Start /\ anchor' = anchor /\ stack' # << >>
  BY <1>1, <1>3, EmptySeq DEF Start, Descend, Depth
<1>6. ASSUME NEW j \in 1..(Depth + 1)
      PROVE  visited'[j] = At(j)' /\ (K(j)' > 0 => j <= MaxHops)
  <2>1. CASE j = Depth + 1
    BY <1>3, <2>1
  <2>2. CASE j = Depth
    BY <1>1, <1>2, <1>3, <2>2 DEF Walk
  <2>3. CASE j \in 1..(Depth - 1)
    BY <1>1, <1>3, <2>3 DEF Walk
  <2> QED
    BY <1>1, <2>1, <2>2, <2>3
<1>7. ASSUME NEW j \in 1..Depth
      PROVE  /\ used'[j] = path'[j].pool
             /\ path'[j].token_in = At(j)'
             /\ K(j)' - 1 \in 1..Len(KeptEdges(At(j))')
             /\ path'[j].pool = KeptEdges(At(j))'[K(j)' - 1]
             /\ OtherEnd(path[j].pool, At(j))' = At(j + 1)'
  <2>1. At(j)' = At(j) /\ KeptEdges(At(j))' = KeptEdges(At(j))
    BY <1>3, <1>4
  <2>2. OtherEnd(path[j].pool, At(j))' = OtherEnd(path'[j].pool, At(j))
    BY <1>4, <2>1
  <2>3. CASE j = Depth
    <3>1. At(j + 1)' = NextToken /\ K(j)' - 1 = K(Depth)
      BY <1>1, <1>3, <2>3
    <3> QED
      BY <1>2, <1>3, <2>1, <2>2, <2>3, <3>1
  <2>4. CASE j # Depth
    <3>1. j \in 1..Len(path) /\ j + 1 \in 1..Depth
      BY <1>1, <2>4
    <3>2. At(j + 1)' = At(j + 1) /\ K(j)' = K(j) /\ path'[j] = path[j] /\ used'[j] = used[j]
      BY <1>1, <1>3, <2>4, <3>1
    <3> QED
      BY <2>1, <2>2, <3>1, <3>2 DEF Walk
  <2> QED
    BY <2>3, <2>4
<1>8. ASSUME NEW i \in 1..(Depth + 1), NEW j \in 1..(Depth + 1), i < j
      PROVE  At(i)' # At(j)'
  <2>1. i \in 1..Depth /\ At(i)' = At(i) /\ visited[i] = At(i)
    BY <1>1, <1>3, <1>8 DEF Walk
  <2>2. CASE j = Depth + 1
    <3>1. visited[i] \in ToSet(visited)
      BY <1>1, <2>1 DEF ToSet, TypeOK
    <3> QED
      BY <1>3, <2>1, <2>2, <3>1 DEF Descend, TokenTaken
  <2>3. CASE j # Depth + 1
    <3>1. j \in 1..Depth /\ i # j
      BY <1>1, <1>8, <2>3
    <3>2. At(i) # At(j)
      BY <2>1, <3>1 DEF Walk
    <3> QED
      BY <1>3, <2>1, <3>1, <3>2
  <2> QED
    BY <2>2, <2>3
<1>9. ASSUME NEW i \in 1..Depth, NEW j \in 1..Depth, i < j
      PROVE  path'[i].pool # path'[j].pool
  <2>0. i \in 1..(Depth - 1)
    BY <1>1, <1>9
  <2>1. i \in 1..Len(path) /\ path'[i] = path[i] /\ used[i] = path[i].pool
    <3>1. i \in 1..Len(path) /\ path'[i] = path[i]
      BY <1>1, <1>3, <2>0
    <3>2. used[i] = path[i].pool
      BY <3>1 DEF Walk
    <3> QED
      BY <3>1, <3>2
  <2>2. CASE j = Depth
    <3>1. used[i] \in ToSet(used)
      BY <1>1, <2>1, SMTT(20) DEF ToSet, TypeOK
    <3> QED
      BY <1>2, <1>3, <2>1, <2>2, <3>1, SMTT(20) DEF Descend, PoolTaken
  <2>3. CASE j # Depth
    <3>0. j \in 1..(Depth - 1) /\ i # j
      BY <1>1, <1>9, <2>3
    <3>1. j \in 1..Len(path) /\ i # j /\ path'[j] = path[j]
      BY <1>1, <1>3, <3>0
    <3> QED
      BY <2>1, <3>1 DEF Walk
  <2> QED
    BY <2>2, <2>3
<1>10. /\ \A i, j \in 1..(Depth + 1) : i # j => At(i)' # At(j)'
       /\ \A i, j \in 1..Depth : i # j => path'[i].pool # path'[j].pool
  <2>1. \A i, j \in 1..(Depth + 1) : i # j => i < j \/ j < i
    BY <1>1
  <2>2. \A i, j \in 1..Depth : i # j => i < j \/ j < i
    BY <1>1
  <2> QED
    BY <1>8, <1>9, <2>1, <2>2
<1>11. At(1)' = Start
  BY <1>1, <1>3
<1> QED
  BY <1>1, <1>3, <1>5, <1>6, <1>7, <1>10, <1>11 DEF Walk

\* The edge leads home: the hops of the walk and the one over it.
LEMMA Closes ==
  ASSUME TypeOK, Walk, CloseCycle
  PROVE  \E h \in Seq(Hop) :
           /\ h = Append(path, HopOver(Edge))
           /\ Len(h) = Depth
           /\ \A i \in 1..(Depth - 1) : h[i] = path[i]
           /\ h[Depth] = HopOver(Edge)
           /\ IsCycle(Start, h)
           /\ found' = Append(found, [anchor |-> Start, hops |-> h])
<1> DEFINE h == Append(path, HopOver(Edge))
<1>1. /\ Depth \in Nat \ {0} /\ Len(path) = Depth - 1 /\ Start = At(1) /\ Current = At(Depth)
  BY TopCall DEF CloseCycle, AtEdge
<1>2. /\ K(Depth) \in 1..Len(KeptEdges(At(Depth))) /\ NextToken # Current
      /\ Edge = KeptEdges(At(Depth))[K(Depth)]
      /\ HopOver(Edge) = [pool |-> Edge, token_in |-> At(Depth)] /\ HopOver(Edge) \in Hop
      /\ Depth <= MaxHops
  BY <1>1, EdgeAt DEF CloseCycle
<1>3. /\ h \in Seq(Hop) /\ Len(h) = Depth /\ h[Depth] = HopOver(Edge)
      /\ \A i \in 1..(Depth - 1) : h[i] = path[i]
  BY <1>1, <1>2 DEF TypeOK
<1> HIDE DEF h
<1>4. Depth \in 2..MaxHops
  BY <1>1, <1>2, RouteGraphAssumption DEF CloseCycle
<1>5. \A i \in 1..Depth : h[i].token_in = At(i)
  <2>1. \A i \in 1..(Depth - 1) : h[i].token_in = At(i)
    BY <1>1, <1>3 DEF Walk
  <2>2. h[Depth].token_in = At(Depth)
    BY <1>2, <1>3
  <2> QED
    BY <1>1, <2>1, <2>2
<1>6. ASSUME NEW i \in 1..Depth
      PROVE  /\ h[i].pool \in ToSet(KeptEdges(h[i].token_in))
             /\ OtherEnd(h[i].pool, h[i].token_in) =
                  IF i = Depth THEN Start ELSE h[i + 1].token_in
  <2> DEFINE E == KeptEdges(At(i))
  <2>1. \A n \in 1..Len(E) : E[n] \in ToSet(E)
    <3> HIDE DEF E
    <3> QED
      BY DEF ToSet
  <2>2. CASE i = Depth
    <3>1. h[i].pool = Edge /\ h[i].token_in = At(Depth)
      BY <1>2, <1>3, <2>2
    <3>2. OtherEnd(Edge, At(Depth)) = Start
      BY <1>1 DEF CloseCycle, NextToken
    <3> QED
      BY <1>2, <2>1, <2>2, <3>1, <3>2
  <2>3. CASE i # Depth
    <3>1. i \in 1..(Depth - 1) /\ i \in 1..Len(path) /\ i + 1 \in 1..Depth
      BY <1>1, <2>3
    <3>2. /\ K(i) - 1 \in 1..Len(E) /\ path[i].pool = E[K(i) - 1]
          /\ OtherEnd(path[i].pool, At(i)) = At(i + 1)
      BY <3>1 DEF Walk
    <3>3. h[i].pool = path[i].pool /\ h[i].token_in = At(i) /\ h[i + 1].token_in = At(i + 1)
      BY <1>3, <1>5, <3>1
    <3> QED
      BY <2>1, <2>3, <3>2, <3>3
  <2> QED
    BY <2>2, <2>3
<1>7. ASSUME NEW i \in 1..Depth, NEW j \in 1..Depth, i < j
      PROVE  h[i].pool # h[j].pool /\ h[i].token_in # h[j].token_in
  <2>1. i \in 1..(Depth - 1) /\ i \in 1..Len(path) /\ i # j
    BY <1>1, <1>7
  <2>2. h[i].token_in # h[j].token_in
    BY <1>5, <2>1 DEF Walk
  <2>3. h[i] = path[i] /\ used[i] = path[i].pool
    BY <1>3, <2>1 DEF Walk
  <2>4. CASE j = Depth
    <3>1. used[i] \in ToSet(used)
      BY <2>1 DEF ToSet, TypeOK, Walk
    <3> QED
      BY <1>2, <1>3, <2>2, <2>3, <2>4, <3>1 DEF CloseCycle, PoolTaken
  <2>5. CASE j # Depth
    <3>1. j \in 1..(Depth - 1) /\ j \in 1..Len(path)
      BY <1>1, <2>5
    <3>2. path[i].pool # path[j].pool
      BY <2>1, <3>1 DEF Walk
    <3>3. h[j] = path[j]
      BY <1>3, <3>1
    <3> QED
      BY <2>2, <2>3, <3>2, <3>3
  <2> QED
    BY <2>4, <2>5
<1>8. \A i, j \in 1..Depth :
        i # j => h[i].pool # h[j].pool /\ h[i].token_in # h[j].token_in
  <2>1. \A i, j \in 1..Depth : i # j => i < j \/ j < i
    BY <1>1
  <2> QED
    BY <1>7, <2>1
<1>9. IsCycle(Start, h)
  <2>1. 1 \in 1..Depth
    BY <1>1
  <2>2. h[1].token_in = Start
    BY <1>1, <1>5, <2>1
  <2> QED
    BY <1>3, <1>4, <1>6, <1>8, <2>2 DEF IsCycle
<1> QED
  BY <1>3, <1>9 DEF CloseCycle, h

\* A step that only moves the loop of the top call on.
LEMMA Moves ==
  ASSUME TypeOK, Walk, Enter \/ SkipEdge
  PROVE  /\ stack # << >> /\ stack' = Advanced
         /\ UNCHANGED <<ends, anchor, path, used, visited, found, routes>>
         /\ K(Depth) > 0 \/ Len(path) < MaxHops
<1>1. CASE Enter
  <2>1. Len(path) < MaxHops
    <3>1. Len(path) \in Nat /\ MaxHops \in Nat
      BY RouteGraphAssumption DEF TypeOK
    <3> QED
      BY <1>1, <3>1 DEF Enter, TooDeep
  <2> QED
    BY <1>1, <2>1 DEF Enter
<1>2. CASE SkipEdge
  <2>1. K(Depth) > 0
    BY <1>2, EdgeAt, KeptEdgesList DEF SkipEdge
  <2> QED
    BY <1>2, <2>1 DEF SkipEdge, AtEdge
<1> QED
  BY <1>1, <1>2

\* The walk of the next anchor's search starts with the anchor.
LEMMA Starts ==
  ASSUME TypeOK, Walk, NextAnchor
  PROVE  /\ stack' \in Seq(Frame) /\ visited' \in Seq(Tokens)
         /\ path' = << >> /\ Len(used') = 0
         /\ anchor' = anchor + 1 /\ anchor' \in 1..Len(Anchors) + 1
         /\ \/ /\ anchor' > Len(Anchors)
               /\ stack' = << >> /\ Len(visited') = 0 /\ Len(stack') = 0
            \/ /\ anchor' <= Len(Anchors)
               /\ stack' # << >> /\ Len(stack') = 1 /\ Len(visited') = 1
               /\ stack'[1] = [at |-> Anchors[anchor'], k |-> 0]
               /\ visited'[1] = Anchors[anchor']
<1>1. /\ anchor \in 1..Len(Anchors) /\ Len(Anchors) \in Nat /\ anchor' = anchor + 1
      /\ path' = path /\ used' = used /\ path = << >>
  BY RouteGraphAssumption DEF TypeOK, NextAnchor, Walk
<1>2. Len(used') = 0
  BY <1>1 DEF Walk
<1>3. CASE anchor + 1 <= Len(Anchors)
  <2>1. Anchors[anchor + 1] \in Tokens
    BY <1>1, <1>3, RouteGraphAssumption
  <2>2. [at |-> Anchors[anchor + 1], k |-> 0] \in Frame
    BY <2>1 DEF Frame
  <2>3. stack' = <<[at |-> Anchors[anchor + 1], k |-> 0]>> /\ visited' = <<Anchors[anchor + 1]>>
    BY <1>3 DEF NextAnchor, StartAnchor
  <2> QED
    BY <1>1, <1>2, <1>3, <2>1, <2>2, <2>3
<1>4. CASE ~(anchor + 1 <= Len(Anchors))
  <2>1. stack' = << >> /\ visited' = << >>
    BY <1>4 DEF NextAnchor, StartAnchor
  <2> QED
    BY <1>1, <1>2, <1>4, <2>1
<1> QED
  BY <1>3, <1>4

LEMMA TypeNext ==
  ASSUME TypeOK, Walk, [Next]_vars
  PROVE  TypeOK'
<1>1. CASE Enter \/ SkipEdge
  <2>1. /\ stack # << >> /\ stack' = Advanced
        /\ UNCHANGED <<ends, anchor, path, used, visited, found, routes>>
    BY <1>1, Moves
  <2>2. stack' \in Seq(Frame) /\ Len(stack') = Len(stack)
    BY <2>1, Advances DEF Depth
  <2> QED
    BY <2>1, <2>2 DEF TypeOK
<1>2. ASSUME stack # << >>, Leave, UNCHANGED <<ends, anchor, routes>>, found' \in Seq(Route)
      PROVE  TypeOK'
  <2>1. /\ stack' \in Seq(Frame) /\ path' \in Seq(Hop) /\ used' \in Seq(Pools)
        /\ visited' \in Seq(Tokens) /\ Len(visited') = Len(stack')
    BY <1>2, Leaves DEF Depth
  <2> QED
    BY <1>2, <2>1 DEF TypeOK
<1>3. CASE CloseCycle
  <2>1. stack # << >> /\ Start \in Tokens /\ UNCHANGED <<ends, anchor, routes>>
    BY <1>3, TopCall DEF CloseCycle, AtEdge
  <2>2. found' \in Seq(Route)
    <3>1. PICK h \in Seq(Hop) : found' = Append(found, [anchor |-> Start, hops |-> h])
      BY <1>3, Closes
    <3>2. [anchor |-> Start, hops |-> h] \in Route
      BY <2>1 DEF Route
    <3> QED
      BY <3>1, <3>2 DEF TypeOK
  <2>3. CASE Leave
    BY <1>2, <2>1, <2>2, <2>3
  <2>4. CASE stack' = Advanced /\ UNCHANGED <<path, used, visited>>
    <3>1. stack' \in Seq(Frame) /\ Len(stack') = Len(stack)
      BY <2>1, <2>4, Advances DEF Depth
    <3> QED
      BY <2>1, <2>2, <2>4, <3>1 DEF TypeOK
  <2> QED
    BY <1>3, <2>3, <2>4 DEF CloseCycle
<1>4. CASE Descend
  <2>1. /\ stack' \in Seq(Frame) /\ path' \in Seq(Hop) /\ used' \in Seq(Pools)
        /\ visited' \in Seq(Tokens) /\ Len(visited') = Len(stack')
    BY <1>4, Descends DEF Depth
  <2> QED
    BY <1>4, <2>1 DEF TypeOK, Descend
<1>5. CASE Return
  BY <1>2, <1>5 DEF Return, TypeOK
<1>6. CASE NextAnchor
  <2>1. /\ stack' \in Seq(Frame) /\ visited' \in Seq(Tokens) /\ Len(visited') = Len(stack')
        /\ anchor' \in 1..Len(Anchors) + 1
    BY <1>6, Starts
  <2>2. routes' \in Seq(Route) /\ found' \in Seq(Route)
    BY <1>6 DEF NextAnchor, TypeOK
  <2> QED
    BY <1>6, <2>1, <2>2 DEF NextAnchor, TypeOK
<1>7. CASE UNCHANGED vars
  BY <1>7 DEF vars, TypeOK
<1> QED
  BY <1>1, <1>3, <1>4, <1>5, <1>6, <1>7 DEF Next

LEMMA WalkNext ==
  ASSUME TypeOK, Walk, [Next]_vars
  PROVE  Walk'
<1>1. CASE Enter \/ SkipEdge
  BY <1>1, Moves, WalkAdvances
<1>2. CASE CloseCycle
  <2>1. stack # << >> /\ UNCHANGED <<ends, anchor>>
    BY <1>2 DEF CloseCycle, AtEdge
  <2>2. CASE Leave
    BY <2>1, <2>2, WalkLeaves
  <2>3. CASE stack' = Advanced /\ UNCHANGED <<path, used, visited>>
    <3>1. K(Depth) > 0
      BY <1>2, EdgeAt, KeptEdgesList DEF CloseCycle
    <3> QED
      BY <2>1, <2>3, <3>1, WalkAdvances
  <2> QED
    BY <1>2, <2>2, <2>3 DEF CloseCycle
<1>3. CASE Descend
  BY <1>3, WalkDescends
<1>4. CASE Return
  BY <1>4, WalkLeaves DEF Return
<1>5. CASE NextAnchor
  <2>1. path' = << >> /\ Len(path') = 0 /\ Len(used') = 0
    BY <1>5, Starts
  <2>2. CASE anchor' > Len(Anchors)
    <3>1. stack' = << >> /\ Len(visited') = 0 /\ Len(stack') = 0
      BY <1>5, <2>2, Starts, RouteGraphAssumption DEF TypeOK
    <3> QED
      BY <2>1, <3>1 DEF Walk, Depth
  <2>3. CASE anchor' <= Len(Anchors)
    <3>1. /\ stack' # << >> /\ Len(stack') = 1 /\ Len(visited') = 1
          /\ stack'[1] = [at |-> Anchors[anchor'], k |-> 0]
          /\ visited'[1] = Anchors[anchor']
      BY <1>5, <2>3, Starts, RouteGraphAssumption DEF TypeOK
    <3>2. \A j : j = 1 => At(j)' = Start' /\ K(j)' = 0
      BY <3>1 DEF At, K, Start
    <3>3. Depth' = 1 /\ 1..Depth' = {1} /\ 1..Len(path') = {}
      BY <2>1, <3>1 DEF Depth
    <3> QED
      BY <2>1, <2>3, <3>1, <3>2, <3>3 DEF Walk, Start
  <2> QED
    BY <1>5, <2>2, <2>3, Starts
<1>6. CASE UNCHANGED vars
  <2>1. Depth' = Depth /\ Start' = Start /\ \A j : At(j)' = At(j) /\ K(j)' = K(j)
    BY <1>6 DEF vars, Depth, Start, At, K
  <2>2. /\ \A t : KeptEdges(t)' = KeptEdges(t)
        /\ \A p, t : OtherEnd(p, t)' = OtherEnd(p, t)
    BY <1>6, GraphIsFixed DEF vars
  <2> QED
    BY <1>6, <2>1, <2>2 DEF vars, Walk
<1> QED
  BY <1>1, <1>2, <1>3, <1>4, <1>5, <1>6 DEF Next

-----------------------------------------------------------------------------
(* The order of the search.                                                *)

\* Where hops leave the walk depends on the walk up to there only.
LEMMA BranchesKept ==
  ASSUME ends' = ends, NEW j, At(j)' = At(j), NEW h, NEW m,
         \A i \in 1..(j - 1) : path'[i] = path[i]
  PROVE  Branches(h, j, m)' = Branches(h, j, m)
<1>1. KeptEdges(At(j))' = KeptEdges(At(j))
  BY GraphIsFixed
<1> QED
  BY <1>1 DEF Branches

\* The hop the walk has made at depth j.
LEMMA HopMade ==
  ASSUME TypeOK, Walk, NEW j \in 1..Len(path)
  PROVE  /\ path[j] = [pool |-> KeptEdges(At(j))[K(j) - 1], token_in |-> At(j)]
         /\ K(j) - 1 \in 1..Len(KeptEdges(At(j)))
<1>1. path[j] \in Hop
  BY DEF TypeOK
<1> QED
  BY <1>1 DEF Walk, Hop

\* What the search has passed it never comes back to.
LEMMA BehindAdvances ==
  ASSUME TypeOK, Walk, stack # << >>, stack' = Advanced, UNCHANGED <<ends, path>>,
         NEW h, Behind(h)
  PROVE  Behind(h)'
<1>1. PICK j \in 1..Depth, m \in Nat : Branches(h, j, m) /\ m < DoneWith(j)
  BY DEF Behind
<1>2. /\ Depth' = Depth /\ At(j)' = At(j)
      /\ K(j)' = IF j = Depth THEN K(j) + 1 ELSE K(j)
  BY Advances
<1>3. Branches(h, j, m)'
  BY <1>1, <1>2, BranchesKept
<1>4. K(j) \in Nat
  BY TopCall
<1>5. m < DoneWith(j)'
  BY <1>1, <1>2, <1>4 DEF DoneWith
<1> QED
  BY <1>2, <1>3, <1>5 DEF Behind

LEMMA BehindDescends ==
  ASSUME TypeOK, Walk, Descend, NEW h, Behind(h)
  PROVE  Behind(h)'
<1>1. PICK j \in 1..Depth, m \in Nat : Branches(h, j, m) /\ m < DoneWith(j)
  BY DEF Behind
<1>2. Depth \in Nat \ {0} /\ K(j) \in Nat
  BY TopCall DEF Descend, AtEdge
<1>3. /\ Depth' = Depth + 1 /\ At(j)' = At(j)
      /\ K(j)' = (IF j = Depth THEN K(j) + 1 ELSE K(j))
      /\ \A i \in 1..(Depth - 1) : path'[i] = path[i]
  BY Descends
<1>4. Branches(h, j, m)'
  <2>1. \A i \in 1..(j - 1) : path'[i] = path[i]
    BY <1>2, <1>3
  <2> QED
    BY <1>1, <1>3, <2>1, BranchesKept DEF Descend
<1>5. m < DoneWith(j)' /\ j \in 1..(Depth + 1)
  BY <1>1, <1>2, <1>3 DEF DoneWith
<1> QED
  BY <1>3, <1>4, <1>5 DEF Behind

\* Hops that begin as the walk does are behind it when the top call has returned.
LEMMA BehindLeaves ==
  ASSUME TypeOK, Walk, stack # << >>, Leave, ends' = ends, stack' # << >>,
         NEW h,
         \/ Behind(h)
         \/ Depth <= Len(h) /\ \A i \in 1..(Depth - 1) : h[i] = path[i]
  PROVE  Behind(h)'
<1>1. /\ Depth \in Nat \ {0} /\ Len(path) = Depth - 1
      /\ \A j \in 1..Depth : K(j) \in Nat
  BY TopCall
<1>2. /\ stack' \in Seq(Frame) /\ Depth' = Depth - 1
      /\ \A j \in 1..(Depth - 1) : At(j)' = At(j) /\ K(j)' = K(j)
      /\ \A j \in 1..(Depth - 2) : path'[j] = path[j]
  BY Leaves
<1>3. Depth # 1
  <2>1. Len(stack') = Depth - 1
    BY <1>2 DEF Depth
  <2> QED
    BY <1>2, <2>1, EmptySeq
<1>4. ASSUME NEW j \in 1..(Depth - 1), NEW m \in Nat, Branches(h, j, m), m < K(j),
             j # Depth - 1 => m < K(j) - 1
      PROVE  Behind(h)'
  <2>1. \A i \in 1..(j - 1) : path'[i] = path[i]
    BY <1>1, <1>2
  <2>2. Branches(h, j, m)'
    BY <1>2, <1>4, <2>1, BranchesKept
  <2>3. m < DoneWith(j)'
    BY <1>2, <1>4 DEF DoneWith
  <2> QED
    BY <1>2, <2>2, <2>3 DEF Behind
<1>5. CASE \E j \in 1..(Depth - 1), m \in Nat : Branches(h, j, m) /\ m < DoneWith(j)
  <2>1. PICK j \in 1..(Depth - 1), m \in Nat : Branches(h, j, m) /\ m < DoneWith(j)
    BY <1>5
  <2>2. m < K(j) - 1 /\ m < K(j)
    BY <1>1, <2>1 DEF DoneWith
  <2> QED
    BY <1>4, <2>1, <2>2
<1>6. CASE Depth <= Len(h) /\ \A i \in 1..(Depth - 1) : h[i] = path[i]
  <2> DEFINE j == Depth - 1
             m == K(j) - 1
  <2>1. j \in 1..(Depth - 1) /\ j \in 1..Len(path) /\ j <= Len(h) /\ K(j) \in Nat
    <3>1. j \in 1..(Depth - 1) /\ j \in 1..Depth /\ j \in 1..Len(path)
      BY <1>1, <1>3
    <3>2. j <= Len(h)
      BY <1>1, <1>6
    <3> QED
      BY <1>1, <3>1, <3>2
  <2>2. /\ path[j] = [pool |-> KeptEdges(At(j))[m], token_in |-> At(j)]
        /\ m \in 1..Len(KeptEdges(At(j)))
    BY <2>1, HopMade
  <2>3. m \in Nat /\ m < K(j)
    BY <2>1, <2>2, KeptEdgesList
  <2>4. Branches(h, j, m)
    <3>1. \A i \in 1..(j - 1) : h[i] = path[i]
      BY <1>1, <1>6
    <3>2. h[j] = path[j]
      BY <1>6, <2>1
    <3> QED
      BY <2>1, <2>2, <3>1, <3>2 DEF Branches
  <2> QED
    BY <1>4, <2>1, <2>3, <2>4
<1>7. CASE \E m \in Nat : Branches(h, Depth, m)
  <2>1. Depth <= Len(h) /\ \A i \in 1..(Depth - 1) : h[i] = path[i]
    BY <1>7 DEF Branches
  <2> QED
    BY <1>6, <2>1
<1> QED
  <2>1. ASSUME Behind(h)
        PROVE  \/ \E j \in 1..(Depth - 1), m \in Nat : Branches(h, j, m) /\ m < DoneWith(j)
               \/ \E m \in Nat : Branches(h, Depth, m)
    <3>1. PICK j \in 1..Depth, m \in Nat : Branches(h, j, m) /\ m < DoneWith(j)
      BY <2>1 DEF Behind
    <3>2. j = Depth \/ j \in 1..(Depth - 1)
      BY <1>1
    <3> QED
      BY <3>1, <3>2
  <2> QED
    BY <1>5, <1>6, <1>7, <2>1

\* No step of the search but CloseCycle finds a route, and what it finds is not
\* behind the walk yet.
LEMMA FoundNext ==
  ASSUME TypeOK, Walk, FoundIsBehind, [Next]_vars
  PROVE  FoundIsBehind'
<1>1. /\ Len(found) \in Nat
      /\ \A n \in 1..Len(found) :
           /\ anchor <= Len(Anchors)
           /\ found[n].anchor = Start
           /\ IsCycle(Start, found[n].hops)
           /\ stack # << >> => Behind(found[n].hops)
      /\ \A m, n \in 1..Len(found) : found[m] = found[n] => m = n
  BY DEF FoundIsBehind, TypeOK
<1>2. ASSUME UNCHANGED <<ends, anchor, found>>,
             \A h : stack # << >> /\ Behind(h) /\ stack' # << >> => Behind(h)',
             stack' # << >> => stack # << >>
      PROVE  FoundIsBehind'
  <2>1. Start' = Start /\ \A h : IsCycle(Start, h)' = IsCycle(Start, h)
    <3>1. Start' = Start
      BY <1>2 DEF Start
    <3> QED
      BY <1>2, <3>1, GraphIsFixed
  <2>2. ASSUME NEW n \in 1..Len(found), stack' # << >>
        PROVE  Behind(found[n].hops)'
    <3>1. \A h : h = found[n].hops => Behind(h)'
      BY <1>1, <1>2, <2>2
    <3> QED
      BY <1>2, <3>1 DEF Behind, Branches
  <2>3. ASSUME NEW n \in 1..Len(found)
        PROVE  IsCycle(Start, found[n].hops)'
    <3>1. \A h : h = found[n].hops => IsCycle(Start, h)'
      BY <1>1, <2>1
    <3> QED
      BY <1>2, <3>1 DEF IsCycle
  <2> QED
    BY <1>1, <1>2, <2>1, <2>2, <2>3 DEF FoundIsBehind
<1>3. CASE Enter \/ SkipEdge
  BY <1>2, <1>3, Moves, BehindAdvances
<1>4. CASE Descend
  BY <1>2, <1>4, BehindDescends DEF Descend, AtEdge
<1>5. CASE Return
  BY <1>2, <1>5, BehindLeaves DEF Return
<1>6. CASE NextAnchor
  BY <1>6 DEF NextAnchor, FoundIsBehind
<1>7. CASE UNCHANGED vars
  <2>1. \A t : KeptEdges(t)' = KeptEdges(t)
    BY <1>7 DEF vars, KeptEdges, EdgesOf, PoolsOf, Touches
  <2>2. Depth' = Depth /\ path' = path /\ \A j : At(j)' = At(j) /\ K(j)' = K(j)
    BY <1>7 DEF vars, Depth, At, K
  <2>3. \A h : Behind(h) => Behind(h)'
    BY <2>1, <2>2 DEF Behind, Branches, DoneWith
  <2> QED
    BY <1>2, <1>7, <2>3 DEF vars
<1>8. CASE CloseCycle
  <2>1. /\ stack # << >> /\ UNCHANGED <<ends, anchor>>
        /\ Depth \in Nat \ {0} /\ anchor <= Len(Anchors) /\ Depth = Len(path) + 1
        /\ K(Depth) \in 1..Len(KeptEdges(At(Depth)))
        /\ HopOver(Edge) = [pool |-> KeptEdges(At(Depth))[K(Depth)], token_in |-> At(Depth)]
    BY <1>8, EdgeAt, TopCall DEF CloseCycle, AtEdge
  <2>2. PICK h \in Seq(Hop) :
          /\ Len(h) = Depth
          /\ \A i \in 1..(Depth - 1) : h[i] = path[i]
          /\ h[Depth] = HopOver(Edge)
          /\ IsCycle(Start, h)
          /\ found' = Append(found, [anchor |-> Start, hops |-> h])
    BY <1>8, Closes
  <2> DEFINE new == [anchor |-> Start, hops |-> h]
  <2>3. /\ Len(found') = Len(found) + 1
        /\ found'[Len(found) + 1] = new
        /\ \A n \in 1..Len(found) : found'[n] = found[n]
    <3> HIDE DEF new
    <3>1. found' = Append(found, new) /\ found \in Seq(Route)
      BY <2>2 DEF new, TypeOK
    <3> QED
      BY <3>1
  <2>4. Start' = Start /\ \A g : IsCycle(Start, g)' = IsCycle(Start, g)
    <3>1. Start' = Start
      BY <2>1 DEF Start
    <3> QED
      BY <2>1, <3>1, GraphIsFixed
  <2>5. ASSUME Behind(h) PROVE FALSE
    <3>1. PICK j \in 1..Depth, m \in Nat : Branches(h, j, m) /\ m < DoneWith(j)
      BY <2>5 DEF Behind
    <3>2. /\ h[j] = [pool |-> KeptEdges(At(j))[m], token_in |-> At(j)]
          /\ m \in 1..Len(KeptEdges(At(j)))
      BY <3>1 DEF Branches
    <3>3. CASE j = Depth
      <4>1. KeptEdges(At(j))[m] = KeptEdges(At(j))[K(j)] /\ m < K(j)
        BY <2>1, <2>2, <3>1, <3>2, <3>3 DEF DoneWith
      <4>2. m = K(j)
        BY <2>1, <3>2, <3>3, <4>1, KeptEdgesList
      <4> QED
        BY <4>1, <4>2
    <3>4. CASE j # Depth
      <4>1. j \in 1..(Depth - 1) /\ j \in 1..Len(path)
        BY <2>1, <3>4
      <4>2. /\ path[j] = [pool |-> KeptEdges(At(j))[K(j) - 1], token_in |-> At(j)]
            /\ K(j) - 1 \in 1..Len(KeptEdges(At(j)))
        BY <4>1, HopMade
      <4>3. KeptEdges(At(j))[m] = KeptEdges(At(j))[K(j) - 1] /\ m < K(j) - 1
        BY <2>2, <3>1, <3>2, <3>4, <4>1, <4>2 DEF DoneWith
      <4>4. m = K(j) - 1
        BY <3>2, <4>2, <4>3, KeptEdgesList
      <4> QED
        BY <4>3, <4>4
    <3> QED
      BY <3>3, <3>4
  <2>6. stack' # << >> => Behind(h)' /\ \A g : Behind(g) => Behind(g)'
    <3>1. CASE Leave
      BY <2>1, <2>2, <3>1, BehindLeaves
    <3>2. CASE stack' = Advanced /\ UNCHANGED <<path, used, visited>>
      <4>1. /\ Depth' = Depth /\ \A j : j = Depth => At(j)' = At(j) /\ K(j)' = K(j) + 1
        BY <2>1, <3>2, Advances
      <4>2. K(Depth) \in Nat /\ Branches(h, Depth, K(Depth))
        BY <2>1, <2>2, KeptEdgesList DEF Branches
      <4>3. ASSUME NEW j, NEW m, j = Depth, m = K(Depth) PROVE Branches(h, j, m)' /\ m < DoneWith(j)'
        <5>1. Branches(h, j, m)'
          BY <2>1, <3>2, <4>1, <4>2, <4>3, BranchesKept
        <5> QED
          BY <4>1, <4>2, <4>3, <5>1 DEF DoneWith
      <4>4. Behind(h)'
        BY <2>1, <4>1, <4>2, <4>3 DEF Behind
      <4>5. \A g : Behind(g) => Behind(g)'
        BY <2>1, <3>2, BehindAdvances
      <4> QED
        BY <4>4, <4>5
    <3> QED
      BY <1>8, <3>1, <3>2 DEF CloseCycle
  <2>7. ASSUME NEW n \in 1..Len(found')
        PROVE  /\ found'[n].anchor = Start
               /\ IsCycle(Start, found[n].hops)'
               /\ stack' # << >> => Behind(found[n].hops)'
    <3>1. n = Len(found) + 1 \/ n \in 1..Len(found)
      BY <1>1, <2>3
    <3>2. PICK g : g = found'[n].hops
      OBVIOUS
    <3>3. found'[n].anchor = Start /\ IsCycle(Start, g)
      BY <1>1, <2>2, <2>3, <3>1, <3>2
    <3>4. IsCycle(Start, g)'
      BY <2>4, <3>3
    <3>5. stack' # << >> => Behind(g)'
      BY <1>1, <2>1, <2>3, <2>6, <3>1, <3>2
    <3>6. IsCycle(Start, found[n].hops)'
      BY <3>2, <3>4 DEF IsCycle
    <3>7. stack' # << >> => Behind(found[n].hops)'
      BY <3>2, <3>5 DEF Behind, Branches
    <3> QED
      BY <3>3, <3>6, <3>7
  <2>8. ASSUME NEW n \in 1..Len(found) PROVE found[n] # new
    BY <1>1, <2>1, <2>5
  <2>9. \A m, n \in 1..Len(found') : found'[m] = found'[n] => m = n
    <3>1. \A n \in 1..Len(found') : n = Len(found) + 1 \/ n \in 1..Len(found)
      BY <1>1, <2>3
    <3> QED
      BY <1>1, <2>3, <2>8, <3>1
  <2> QED
    BY <2>1, <2>4, <2>7, <2>9 DEF FoundIsBehind
<1> QED
  BY <1>3, <1>4, <1>5, <1>6, <1>7, <1>8 DEF Next

-----------------------------------------------------------------------------
(* Nothing is missed.                                                      *)

\* The edges and the tokens of a cycle.
LEMMA CycleHops ==
  ASSUME NEW a, NEW h, IsCycle(a, h)
  PROVE  /\ Len(h) \in 2..MaxHops
         /\ h[1].token_in = a
         /\ \A k \in 1..Len(h) :
              /\ h[k].pool \in ToSet(KeptEdges(h[k].token_in))
              /\ OtherEnd(h[k].pool, h[k].token_in) =
                   IF k = Len(h) THEN a ELSE h[k + 1].token_in
         /\ \A j, k \in 1..Len(h) :
              j # k => h[j].pool # h[k].pool /\ h[j].token_in # h[k].token_in
BY DEF IsCycle

\* Hops ahead of the walk that go on over the very edge the loop is at: the
\* edge is not in the walk, and it leads home or to a token that is not.
LEMMA GoesOnHere ==
  ASSUME TypeOK, Walk, AtEdge, NEW h, IsCycle(Start, h), Branches(h, Depth, K(Depth))
  PROVE  /\ h[Depth] = HopOver(Edge)
         /\ ~PoolTaken(Edge)
         /\ Depth <= Len(h)
         /\ NextToken = Start => Depth = Len(h)
         /\ NextToken # Start => Depth < Len(h) /\ ~TokenTaken(NextToken)
                                 /\ h[Depth + 1].token_in = NextToken
<1>1. /\ Depth \in Nat \ {0} /\ Len(path) = Depth - 1 /\ Len(used) = Depth - 1
      /\ Len(visited) = Depth /\ Start = At(1) /\ Current = At(Depth)
  BY TopCall DEF AtEdge
<1>2. /\ Edge = KeptEdges(At(Depth))[K(Depth)]
      /\ HopOver(Edge) = [pool |-> Edge, token_in |-> At(Depth)]
  BY EdgeAt
<1>3. /\ Len(h) \in 2..MaxHops /\ h[1].token_in = Start
      /\ \A k \in 1..Len(h) :
           OtherEnd(h[k].pool, h[k].token_in) =
             IF k = Len(h) THEN Start ELSE h[k + 1].token_in
      /\ \A j, k \in 1..Len(h) :
           j # k => h[j].pool # h[k].pool /\ h[j].token_in # h[k].token_in
  BY CycleHops
<1>4. /\ Depth <= Len(h) /\ h[Depth] = HopOver(Edge)
      /\ \A i \in 1..(Depth - 1) : h[i] = path[i]
  BY <1>2 DEF Branches
<1>5. Len(h) \in Nat /\ Depth \in 1..Len(h)
  BY <1>1, <1>3, <1>4, RouteGraphAssumption
<1>6. NextToken = IF Depth = Len(h) THEN Start ELSE h[Depth + 1].token_in
  BY <1>1, <1>2, <1>3, <1>4, <1>5 DEF NextToken
<1>7. ASSUME NEW i \in 1..Depth
      PROVE  h[i].token_in = At(i) /\ visited[i] = At(i) /\ i \in 1..Len(h)
  <2>1. CASE i = Depth
    BY <1>2, <1>4, <1>5, <2>1 DEF Walk
  <2>2. CASE i # Depth
    <3>1. i \in 1..(Depth - 1) /\ i \in 1..Len(path)
      BY <1>1, <2>2
    <3>2. visited[i] = At(i) /\ path[i].token_in = At(i)
      BY <3>1 DEF Walk
    <3> QED
      BY <1>4, <1>5, <3>1, <3>2
  <2> QED
    BY <2>1, <2>2
<1>8. ~PoolTaken(Edge)
  <2> SUFFICES ASSUME PoolTaken(Edge) PROVE FALSE
    OBVIOUS
  <2>1. PICK i \in 1..Len(used) : used[i] = Edge
    BY DEF PoolTaken, ToSet, TypeOK
  <2>2. i \in 1..(Depth - 1) /\ i \in 1..Len(path) /\ i # Depth
    BY <1>1
  <2>3. used[i] = path[i].pool
    BY <2>2 DEF Walk
  <2>4. h[i].pool = Edge /\ h[Depth].pool = Edge
    BY <1>2, <1>4, <2>1, <2>2, <2>3
  <2> QED
    BY <1>3, <1>5, <2>2, <2>4
<1>9. NextToken = Start => Depth = Len(h)
  <2> SUFFICES ASSUME NextToken = Start, Depth # Len(h) PROVE FALSE
    OBVIOUS
  <2>1. Depth + 1 \in 1..Len(h) /\ 1 \in 1..Len(h) /\ Depth + 1 # 1
    BY <1>1, <1>5
  <2> QED
    BY <1>3, <1>6, <2>1
<1>10. ASSUME NextToken # Start
       PROVE  Depth < Len(h) /\ ~TokenTaken(NextToken) /\ h[Depth + 1].token_in = NextToken
  <2>1. Depth # Len(h) /\ h[Depth + 1].token_in = NextToken
    BY <1>6, <1>10
  <2>2. Depth < Len(h) /\ Depth + 1 \in 1..Len(h)
    BY <1>5, <2>1
  <2>3. ASSUME TokenTaken(NextToken) PROVE FALSE
    <3>1. PICK i \in 1..Depth : visited[i] = NextToken
      BY <1>1, <2>3 DEF TokenTaken, ToSet, TypeOK
    <3>2. i \in 1..Len(h) /\ h[i].token_in = NextToken /\ i # Depth + 1
      BY <1>1, <1>7, <3>1
    <3> QED
      BY <1>3, <2>1, <2>2, <3>2
  <2> QED
    BY <2>1, <2>2, <2>3
<1> QED
  BY <1>4, <1>8, <1>9, <1>10

\* What is ahead over a later edge, or higher up, stays ahead.
LEMMA AheadStays ==
  ASSUME TypeOK, Walk, ends' = ends, NEW h, NEW j \in 1..Depth, NEW m \in Nat,
         Branches(h, j, m), j \in 1..Depth', At(j)' = At(j), m >= K(j)',
         \A i \in 1..(j - 1) : path'[i] = path[i]
  PROVE  Ahead(h)'
<1>1. Branches(h, j, m)'
  BY BranchesKept
<1> QED
  BY <1>1 DEF Ahead

\* Every cycle that was ahead is ahead still, or has just been found, unless the
\* step has filled the list.
LEMMA RestNext ==
  ASSUME TypeOK, Walk, RestIsAhead, Enter \/ SkipEdge \/ CloseCycle \/ Descend \/ Return
  PROVE  RestIsAhead'
<1>1. /\ stack # << >> /\ UNCHANGED <<ends, anchor>>
      /\ Depth \in Nat \ {0} /\ anchor <= Len(Anchors) /\ Len(path) = Depth - 1
      /\ \A j \in 1..Depth : K(j) \in Nat
      /\ Start' = Start
  <2>1. stack # << >> /\ UNCHANGED <<ends, anchor>>
    BY DEF Enter, SkipEdge, CloseCycle, Descend, Return, AtEdge
  <2> QED
    BY <2>1, TopCall DEF Start
<1>2. Cycles(Start)' = Cycles(Start)
  BY <1>1, GraphIsFixed
<1>3. Len(found) \in Nat /\ found \in Seq(Route) /\ MaxRoutes \in Nat
  BY RouteGraphAssumption DEF TypeOK
<1>4. /\ Len(found') \in Nat /\ Len(found') >= Len(found)
      /\ \A n \in 1..Len(found) : n \in 1..Len(found') /\ found'[n] = found[n]
  <2>1. CASE found' = found
    BY <1>3, <2>1
  <2>2. CASE CloseCycle
    <3>1. PICK h \in Seq(Hop) : found' = Append(found, [anchor |-> Start, hops |-> h])
      BY <2>2, Closes
    <3> DEFINE new == [anchor |-> Start, hops |-> h]
    <3> HIDE DEF new
    <3>2. found' = Append(found, new)
      BY <3>1 DEF new
    <3> QED
      BY <1>3, <3>2
  <2> QED
    BY <2>1, <2>2 DEF Enter, SkipEdge, Descend, Return
<1> SUFFICES ASSUME ~Full', NEW h \in Cycles(Start),
                    \A n \in 1..Len(found') : found'[n].hops # h
             PROVE  Ahead(h)'
  BY <1>2 DEF RestIsAhead
<1>5. ~Full
  BY <1>3, <1>4 DEF Full
<1>6. \A n \in 1..Len(found) : found[n].hops # h
  BY <1>4
<1>7. PICK j \in 1..Depth, m \in Nat : Branches(h, j, m) /\ m >= K(j)
  BY <1>1, <1>5, <1>6 DEF RestIsAhead, Ahead
<1>8. IsCycle(Start, h) /\ m \in 1..Len(KeptEdges(At(j))) /\ j <= Len(h)
  BY <1>7 DEF Cycles, Branches
<1>9. Len(h) \in 2..MaxHops
  BY <1>8, CycleHops
<1>10. ASSUME AtEdge, j = Depth, m = K(Depth)
       PROVE  /\ h[Depth] = HopOver(Edge) /\ ~PoolTaken(Edge) /\ Depth <= Len(h)
              /\ NextToken = Start => Depth = Len(h)
              /\ NextToken # Start => Depth < Len(h) /\ ~TokenTaken(NextToken)
                                      /\ h[Depth + 1].token_in = NextToken
  BY <1>7, <1>8, <1>10, GoesOnHere
<1>11. ASSUME stack' = Advanced, path' = path, j # Depth \/ m # K(Depth)
       PROVE  Ahead(h)'
  <2>1. /\ Depth' = Depth /\ At(j)' = At(j)
        /\ K(j)' = IF j = Depth THEN K(j) + 1 ELSE K(j)
    BY <1>1, <1>11, Advances
  <2>2. m >= K(j)'
    BY <1>1, <1>7, <1>11, <2>1
  <2> QED
    BY <1>1, <1>7, <1>11, <2>1, <2>2, AheadStays
<1>12. CASE Enter
  <2>1. m # K(Depth) \/ j # Depth
    <3>1. K(Depth) = 0
      BY <1>1, <1>12, TopCall DEF Enter, K
    <3> QED
      BY <1>8, <3>1, KeptEdgesList
  <2> QED
    BY <1>11, <1>12, <2>1 DEF Enter
<1>13. CASE SkipEdge
  <2>1. j # Depth \/ m # K(Depth)
    BY <1>10, <1>13 DEF SkipEdge
  <2> QED
    BY <1>11, <1>13, <2>1 DEF SkipEdge
<1>14. CASE CloseCycle
  <2>1. stack' = Advanced /\ path' = path
    BY <1>14 DEF CloseCycle, FilledBy, Full
  <2>2. PICK g \in Seq(Hop) :
          /\ Len(g) = Depth
          /\ \A i \in 1..(Depth - 1) : g[i] = path[i]
          /\ g[Depth] = HopOver(Edge)
          /\ found' = Append(found, [anchor |-> Start, hops |-> g])
    BY <1>14, Closes
  <2>3. h # g
    <3> DEFINE new == [anchor |-> Start, hops |-> g]
    <3>1. new.hops = g
      OBVIOUS
    <3> HIDE DEF new
    <3>2. found' = Append(found, new)
      BY <2>2 DEF new
    <3>3. Len(found) + 1 \in 1..Len(found') /\ found'[Len(found) + 1] = new
      BY <1>3, <3>2
    <3> QED
      BY <3>1, <3>3
  <2>4. h \in Seq(Hop)
    <3>1. PICK n \in 2..MaxHops : h \in [1..n -> Hop]
      BY DEF Cycles
    <3>2. n \in Nat
      BY <3>1, RouteGraphAssumption
    <3> QED
      BY <3>1, <3>2
  <2>5. j # Depth \/ m # K(Depth)
    <3> SUFFICES ASSUME j = Depth, m = K(Depth) PROVE FALSE
      OBVIOUS
    <3>1. h[Depth] = HopOver(Edge) /\ Depth = Len(h)
      BY <1>10, <1>14 DEF CloseCycle
    <3>2. \A i \in 1..(Depth - 1) : h[i] = path[i]
      BY <1>7 DEF Branches
    <3>3. \A i \in 1..Depth : h[i] = g[i]
      <4>1. \A i \in 1..Depth : i = Depth \/ i \in 1..(Depth - 1)
        BY <1>1
      <4> QED
        BY <2>2, <3>1, <3>2, <4>1
    <3>4. h = g
      BY <2>2, <2>4, <3>1, <3>3, SeqEqual
    <3> QED
      BY <2>3, <3>4
  <2> QED
    BY <1>11, <2>1, <2>5
<1>15. CASE Descend
  <2>1. /\ Depth' = Depth + 1 /\ stack' \in Seq(Frame)
        /\ \A i \in 1..Depth : At(i)' = At(i) /\ K(i)' = IF i = Depth THEN K(i) + 1 ELSE K(i)
        /\ \A i \in 1..(Depth - 1) : path'[i] = path[i]
        /\ \A i : i = Depth + 1 => At(i)' = NextToken /\ K(i)' = 0
        /\ path'[Depth] = HopOver(Edge)
    BY <1>15, Descends
  <2>2. CASE j # Depth \/ m # K(Depth)
    <3>1. m >= K(j)'
      BY <1>1, <1>7, <2>1, <2>2
    <3>2. j \in 1..Depth' /\ \A i \in 1..(j - 1) : i \in 1..(Depth - 1)
      BY <1>1, <2>1
    <3> QED
      BY <1>1, <1>7, <2>1, <3>1, <3>2, AheadStays
  <2>3. CASE j = Depth /\ m = K(Depth)
    <3>1. /\ h[Depth] = HopOver(Edge) /\ Depth < Len(h)
          /\ h[Depth + 1].token_in = NextToken
      BY <1>10, <1>15, <2>3 DEF Descend
    <3>2. PICK d : d = Depth + 1
      OBVIOUS
    <3>3. /\ d \in 1..Len(h) /\ d \in 1..Depth' /\ At(d)' = NextToken /\ K(d)' = 0
          /\ d \in Nat
      BY <1>1, <1>9, <2>1, <3>1, <3>2, RouteGraphAssumption
    <3>4. h[d].pool \in ToSet(KeptEdges(NextToken)) /\ h[d].token_in = NextToken
      BY <1>8, <3>1, <3>2, <3>3, CycleHops
    <3>5. PICK n \in 1..Len(KeptEdges(NextToken)) : h[d].pool = KeptEdges(NextToken)[n]
      BY <3>4, KeptEdgesList DEF ToSet
    <3>6. h[d] \in Hop
      <4>1. PICK l \in 2..MaxHops : h \in [1..l -> Hop]
        BY DEF Cycles
      <4>2. l \in Nat /\ Len(h) = l
        BY <4>1, RouteGraphAssumption
      <4> QED
        BY <3>3, <4>1, <4>2
    <3>7. h[d] = [pool |-> KeptEdges(NextToken)[n], token_in |-> NextToken]
      BY <3>4, <3>5, <3>6 DEF Hop
    <3>8. KeptEdges(At(d))' = KeptEdges(NextToken)
      BY <1>1, <3>3, GraphIsFixed
    <3>9. \A i \in 1..(d - 1) : h[i] = path'[i]
      <4>1. \A i \in 1..(Depth - 1) : h[i] = path[i]
        BY <1>7, <2>3 DEF Branches
      <4>2. \A i \in 1..(d - 1) : i = Depth \/ i \in 1..(Depth - 1)
        BY <1>1, <3>2
      <4> QED
        BY <2>1, <3>1, <4>1, <4>2
    <3>10. Branches(h, d, n)'
      BY <3>3, <3>7, <3>8, <3>9 DEF Branches
    <3>11. n \in Nat /\ n >= K(d)'
      BY <3>3, <3>5, KeptEdgesList
    <3> QED
      BY <3>3, <3>10, <3>11 DEF Ahead
  <2> QED
    BY <2>2, <2>3
<1>16. CASE Return
  <2>1. /\ Depth' = Depth - 1
        /\ \A i \in 1..(Depth - 1) : At(i)' = At(i) /\ K(i)' = K(i)
        /\ \A i \in 1..(Depth - 2) : path'[i] = path[i]
    BY <1>1, <1>16, Leaves DEF Return
  <2>2. j # Depth
    <3>1. CASE Top.k = 0 /\ TooDeep
      BY <1>1, <1>8, <1>9, <3>1, RouteGraphAssumption DEF TooDeep
    <3>2. CASE Top.k > Len(KeptEdges(Current))
      <4>1. K(Depth) > Len(KeptEdges(At(Depth)))
        BY <1>1, <3>2, TopCall DEF K
      <4> QED
        BY <1>1, <1>7, <1>8, <4>1, KeptEdgesList
    <3> QED
      BY <1>5, <1>16, <3>1, <3>2 DEF Return
  <2>3. j \in 1..(Depth - 1) /\ \A i \in 1..(j - 1) : i \in 1..(Depth - 2)
    BY <1>1, <2>2
  <2>4. At(j)' = At(j) /\ m >= K(j)' /\ j \in 1..Depth' /\ \A i \in 1..(j - 1) : path'[i] = path[i]
    BY <1>7, <2>1, <2>3
  <2> QED
    BY <1>1, <1>7, <2>4, AheadStays
<1> QED
  BY <1>12, <1>13, <1>14, <1>15, <1>16

\* Every cycle of an anchor begins with an edge its token keeps.
LEMMA CycleBegins ==
  ASSUME TypeOK, NEW a, NEW h \in Cycles(a)
  PROVE  /\ 1 <= Len(h)
         /\ \E m \in 1..Len(KeptEdges(a)) : h[1] = [pool |-> KeptEdges(a)[m], token_in |-> a]
<1>1. IsCycle(a, h)
  BY DEF Cycles
<1>2. PICK l \in 2..MaxHops : h \in [1..l -> Hop]
  BY DEF Cycles
<1>3. l \in Nat /\ 1 \in 1..l /\ Len(h) = l
  BY <1>2, RouteGraphAssumption
<1>4. h[1].token_in = a /\ h[1].pool \in ToSet(KeptEdges(a)) /\ h[1] \in Hop
  <2>1. h[1].token_in = a /\ h[1].pool \in ToSet(KeptEdges(h[1].token_in))
    BY <1>1, <1>3, CycleHops
  <2> QED
    BY <1>2, <1>3, <2>1
<1>5. PICK m \in 1..Len(KeptEdges(a)) : h[1].pool = KeptEdges(a)[m]
  BY <1>4, KeptEdgesList DEF ToSet
<1>6. h[1] = [pool |-> KeptEdges(a)[m], token_in |-> a]
  BY <1>4, <1>5 DEF Hop
<1> QED
  BY <1>3, <1>6

\* Init, and the step to the next anchor: all the cycles are ahead.
LEMMA AllIsAhead ==
  ASSUME TypeOK, NEW a, stack = <<[at |-> a, k |-> 0]>>, NEW h \in Cycles(a)
  PROVE  Ahead(h)
<1>1. At(1) = a /\ K(1) = 0 /\ Depth = 1
  BY DEF At, K, Depth
<1>2. PICK m \in 1..Len(KeptEdges(a)) : h[1] = [pool |-> KeptEdges(a)[m], token_in |-> a]
  BY CycleBegins
<1>3. m \in Nat /\ m >= 0
  BY KeptEdgesList
<1>4. Branches(h, 1, m)
  BY <1>1, <1>2, CycleBegins DEF Branches
<1> QED
  BY <1>1, <1>3, <1>4 DEF Ahead

LEMMA RestOfNextAnchor ==
  ASSUME TypeOK, Walk, NextAnchor
  PROVE  RestIsAhead'
<1> SUFFICES ASSUME anchor' <= Len(Anchors), NEW h \in Cycles(Start)' PROVE Ahead(h)'
  BY DEF RestIsAhead
<1>1. PICK a : a = Start'
  OBVIOUS
<1>2. h \in Cycles(a) /\ \A t : KeptEdges(t)' = KeptEdges(t)
  <2>1. ends' = ends
    BY DEF NextAnchor
  <2>2. Cycles(Start)' = Cycles(a)
    BY <1>1, <2>1, GraphIsFixed
  <2> QED
    BY <2>1, <2>2, GraphIsFixed
<1>3. stack' = <<[at |-> a, k |-> 0]>>
  BY <1>1, RouteGraphAssumption DEF TypeOK, NextAnchor, StartAnchor, Start
<1>4. Depth' = 1 /\ \A j : j = 1 => At(j)' = a /\ K(j)' = 0
  BY <1>3 DEF At, K, Depth
<1>5. PICK m \in 1..Len(KeptEdges(a)) : h[1] = [pool |-> KeptEdges(a)[m], token_in |-> a]
  BY <1>2, CycleBegins
<1>6. m \in Nat /\ m >= 0
  BY KeptEdgesList
<1>7. ASSUME NEW j, j = 1 PROVE Branches(h, j, m)'
  <2>1. At(j)' = a /\ KeptEdges(At(j))' = KeptEdges(a)
    BY <1>2, <1>4, <1>7
  <2> QED
    BY <1>2, <1>5, <1>7, <2>1, CycleBegins DEF Branches
<1>8. 1 \in 1..Depth'
  BY <1>4
<1> QED
  BY <1>4, <1>6, <1>7, <1>8 DEF Ahead

-----------------------------------------------------------------------------
(* The anchors before.                                                     *)

\* As many different entries as the list is long.
LEMMA EachOnce ==
  ASSUME NEW S, NEW s \in Seq(S), \A m, n \in 1..Len(s) : s[m] = s[n] => m = n
  PROVE  IsFiniteSet(ToSet(s)) /\ Cardinality(ToSet(s)) = Len(s)
<1>1. Len(s) \in Nat /\ s \in [1..Len(s) -> ToSet(s)]
  BY DEF ToSet
<1>2. s \in Bijection(1..Len(s), ToSet(s))
  <2>1. s \in Injection(1..Len(s), ToSet(s))
    BY <1>1 DEF Injection, IsInjective
  <2>2. s \in Surjection(1..Len(s), ToSet(s))
    BY <1>1 DEF Surjection, ToSet
  <2> QED
    BY <2>1, <2>2 DEF Bijection
<1>3. ExistsBijection(1..Len(s), ToSet(s))
  BY <1>2 DEF ExistsBijection
<1>4. IsFiniteSet(1..Len(s)) /\ Cardinality(1..Len(s)) = Len(s)
  BY <1>1, FS_Interval
<1> QED
  BY <1>3, <1>4, FS_Bijection

LEMMA FiniteList ==
  ASSUME NEW S, NEW s \in Seq(S)
  PROVE  IsFiniteSet(ToSet(s))
<1>1. Len(s) \in Nat /\ s \in [1..Len(s) -> ToSet(s)]
  BY DEF ToSet
<1>2. s \in Surjection(1..Len(s), ToSet(s))
  BY <1>1 DEF Surjection, ToSet
<1>3. IsFiniteSet(1..Len(s))
  BY <1>1, FS_Interval
<1> QED
  BY <1>2, <1>3, FS_Surjection

\* A search that ends has filled its list or found every cycle; what it found
\* joins the routes, and the routes before stay where they are.
LEMMA PastNext ==
  ASSUME TypeOK, Walk, FoundIsBehind, RestIsAhead, PastIsDone, PastIsDifferent, NextAnchor
  PROVE  PastIsDone' /\ PastIsDifferent'
<1>1. /\ anchor \in 1..Len(Anchors) /\ Len(Anchors) \in Nat /\ stack = << >>
      /\ anchor' = anchor + 1 /\ routes' = routes \o found /\ ends' = ends
      /\ Start = Anchors[anchor]
  BY RouteGraphAssumption DEF TypeOK, NextAnchor, Start
<1>2. /\ routes \in Seq(Route) /\ found \in Seq(Route)
      /\ Len(routes) \in Nat /\ Len(found) \in Nat /\ Len(routes') = Len(routes) + Len(found)
      /\ \A n \in 1..Len(routes) : n \in 1..Len(routes') /\ routes'[n] = routes[n]
      /\ \A n \in 1..Len(found) :
           Len(routes) + n \in 1..Len(routes') /\ routes'[Len(routes) + n] = found[n]
      /\ \A n \in 1..Len(routes') :
           \/ n \in 1..Len(routes)
           \/ n - Len(routes) \in 1..Len(found) /\ routes'[n] = found[n - Len(routes)]
  BY <1>1 DEF TypeOK
<1>3. /\ \A a, h : IsCycle(a, h)' = IsCycle(a, h)
      /\ \A a : Cycles(a)' = Cycles(a)
  BY <1>1, GraphIsFixed
<1>4. ASSUME NEW n \in 1..Len(routes')
      PROVE  /\ IsCycle(routes[n].anchor, routes[n].hops)'
             /\ \E i \in 1..anchor : i <= Len(Anchors) /\ routes'[n].anchor = Anchors[i]
  <2>1. PICK a, h : a = routes'[n].anchor /\ h = routes'[n].hops
    OBVIOUS
  <2>2. /\ IsCycle(a, h)
        /\ \E i \in 1..anchor : i <= Len(Anchors) /\ a = Anchors[i]
    <3>1. CASE n \in 1..Len(routes)
      <4>1. /\ IsCycle(routes[n].anchor, routes[n].hops)
            /\ \E i \in 1..(anchor - 1) : i <= Len(Anchors) /\ routes[n].anchor = Anchors[i]
        BY <3>1 DEF PastIsDone
      <4>2. \A i \in 1..(anchor - 1) : i \in 1..anchor
        BY <1>1
      <4> QED
        BY <1>2, <2>1, <3>1, <4>1, <4>2
    <3>2. CASE n - Len(routes) \in 1..Len(found) /\ routes'[n] = found[n - Len(routes)]
      <4>1. IsCycle(Start, h) /\ a = Start
        BY <2>1, <3>2 DEF FoundIsBehind
      <4> QED
        BY <1>1, <4>1
    <3> QED
      BY <1>2, <3>1, <3>2
  <2>3. IsCycle(a, h)'
    BY <1>3, <2>2
  <2> QED
    BY <2>1, <2>2, <2>3 DEF IsCycle
<1>5. ASSUME NEW i \in 1..(anchor - 1), Filled(i)
      PROVE  Filled(i)'
  <2>1. PICK F \in SUBSET ToSet(routes) :
          (\A r \in F : r.anchor = Anchors[i]) /\ Cardinality(F) >= MaxRoutes
    BY <1>5 DEF Filled
  <2>2. ToSet(routes) \subseteq ToSet(routes)'
    BY <1>2 DEF ToSet
  <2> QED
    BY <2>1, <2>2 DEF Filled
<1>6. ASSUME NEW i \in 1..(anchor - 1), Complete(i)
      PROVE  Complete(i)'
  <2> SUFFICES ASSUME NEW h \in Cycles(Anchors[i])
               PROVE  \E n \in 1..Len(routes') :
                        routes'[n] = [anchor |-> Anchors[i], hops |-> h]
    BY <1>3 DEF Complete
  <2>1. PICK n \in 1..Len(routes) : routes[n] = [anchor |-> Anchors[i], hops |-> h]
    BY <1>6 DEF Complete
  <2> QED
    BY <1>2, <2>1
<1>7. ASSUME NEW i, i = anchor, Full
      PROVE  Filled(i)'
  <2>1. Cardinality(ToSet(found)) >= MaxRoutes
    <3>1. \A m, n \in 1..Len(found) : found[m] = found[n] => m = n
      BY DEF FoundIsBehind
    <3>2. Cardinality(ToSet(found)) = Len(found)
      BY <1>2, <3>1, EachOnce
    <3> QED
      BY <1>7, <3>2 DEF Full
  <2>2. \A r \in ToSet(found) : r.anchor = Anchors[anchor]
    <3>1. \A n \in 1..Len(found) : found[n].anchor = Start
      BY DEF FoundIsBehind
    <3> QED
      BY <1>1, <1>2, <3>1 DEF ToSet
  <2>3. ToSet(found) \subseteq ToSet(routes)'
    <3>1. ASSUME NEW n \in 1..Len(found) PROVE found[n] \in ToSet(routes)'
      BY <1>2 DEF ToSet
    <3> QED
      BY <1>2, <3>1 DEF ToSet
  <2> QED
    BY <1>7, <2>1, <2>2, <2>3 DEF Filled
<1>8. ASSUME NEW i, i = anchor, ~Full
      PROVE  Complete(i)'
  <2>1. ASSUME NEW h \in Cycles(Start)
        PROVE  \E n \in 1..Len(routes') : routes'[n] = [anchor |-> Start, hops |-> h]
    <3>1. ~Ahead(h)
      BY <1>1 DEF Ahead, Depth
    <3>2. PICK n \in 1..Len(found) : found[n].hops = h
      BY <1>1, <1>8, <2>1, <3>1 DEF RestIsAhead
    <3>3. found[n] \in Route /\ found[n].anchor = Start
      BY <1>2 DEF FoundIsBehind
    <3>4. found[n] = [anchor |-> found[n].anchor, hops |-> found[n].hops]
      BY <3>3 DEF Route
    <3> QED
      BY <1>2, <3>2, <3>3, <3>4
  <2> QED
    BY <1>1, <1>3, <1>8, <2>1 DEF Complete
<1>9. \A i \in 1..anchor : Filled(i)' \/ Complete(i)'
  <2>1. \A i \in 1..anchor : i = anchor \/ i \in 1..(anchor - 1)
    BY <1>1
  <2>2. \A i \in 1..(anchor - 1) : Filled(i) \/ Complete(i)
    BY DEF PastIsDone
  <2> QED
    BY <1>5, <1>6, <1>7, <1>8, <2>1, <2>2
<1>10. PastIsDone'
  <2>1. 1..(anchor - 1)' = 1..anchor
    BY <1>1
  <2> QED
    BY <1>4, <1>9, <2>1 DEF PastIsDone
<1>11. PastIsDifferent'
  <2> SUFFICES ASSUME IsInjective(Anchors), NEW m \in 1..Len(routes'), NEW n \in 1..Len(routes'),
                      routes'[m] = routes'[n]
               PROVE  m = n
    BY DEF PastIsDifferent
  <2>1. ASSUME NEW i \in 1..Len(routes), NEW j \in 1..Len(found)
        PROVE  routes[i] # found[j]
    <3>1. PICK x \in 1..(anchor - 1) : x <= Len(Anchors) /\ routes[i].anchor = Anchors[x]
      BY DEF PastIsDone
    <3>2. found[j].anchor = Anchors[anchor]
      BY <1>1 DEF FoundIsBehind
    <3>3. x \in DOMAIN Anchors /\ anchor \in DOMAIN Anchors /\ x # anchor
      <4>1. anchor \in 1..Len(Anchors) /\ Len(Anchors) \in Nat
        BY <1>1, RouteGraphAssumption
      <4>2. x \in 1..Len(Anchors) /\ x # anchor
        BY <3>1, <4>1
      <4> QED
        BY <4>1, <4>2, RouteGraphAssumption
    <3> QED
      BY <3>1, <3>2, <3>3 DEF IsInjective
  <2>2. CASE m \in 1..Len(routes) /\ n \in 1..Len(routes)
    BY <1>2, <2>2 DEF PastIsDifferent
  <2>3. CASE m \notin 1..Len(routes) /\ n \notin 1..Len(routes)
    <3>1. m - Len(routes) = n - Len(routes)
      BY <1>2, <2>3 DEF FoundIsBehind
    <3> QED
      BY <1>2, <3>1
  <2>4. CASE m \in 1..Len(routes) /\ n \notin 1..Len(routes)
    BY <1>2, <2>1, <2>4
  <2>5. CASE m \notin 1..Len(routes) /\ n \in 1..Len(routes)
    BY <1>2, <2>1, <2>5
  <2> QED
    BY <2>2, <2>3, <2>4, <2>5
<1> QED
  BY <1>10, <1>11

-----------------------------------------------------------------------------
(* The theorems.                                                           *)

LEMMA InitInv == Init => SearchInv
<1> SUFFICES ASSUME Init PROVE SearchInv
  OBVIOUS
<1>1. CASE Anchors = << >>
  <2>1. stack = << >> /\ visited = << >> /\ path = << >> /\ used = << >>
        /\ found = << >> /\ routes = << >> /\ anchor = 1 /\ Len(Anchors) = 0
    BY <1>1 DEF Init
  <2>2. TypeOK
    BY <2>1 DEF Init, TypeOK
  <2>3. Walk
    BY <2>1 DEF Walk, Depth
  <2> QED
    BY <2>1, <2>2, <2>3
       DEF SearchInv, FoundIsBehind, RestIsAhead, PastIsDone, PastIsDifferent
<1>2. CASE Anchors # << >>
  <2>1. /\ stack = <<[at |-> Anchors[1], k |-> 0]>> /\ visited = <<Anchors[1]>>
        /\ path = << >> /\ used = << >> /\ found = << >> /\ routes = << >> /\ anchor = 1
    BY <1>2 DEF Init
  <2>2. Len(Anchors) \in Nat /\ 1 <= Len(Anchors) /\ Anchors[1] \in Tokens
    BY <1>2, RouteGraphAssumption, EmptySeq
  <2>3. TypeOK
    <3>1. [at |-> Anchors[1], k |-> 0] \in Frame
      BY <2>2 DEF Frame
    <3>2. stack \in Seq(Frame) /\ visited \in Seq(Tokens) /\ Len(visited) = Len(stack)
      BY <2>1, <2>2, <3>1
    <3> QED
      BY <2>1, <2>2, <3>2 DEF Init, TypeOK
  <2>4. Walk
    <3>1. Depth = 1 /\ At(1) = Anchors[1] /\ K(1) = 0 /\ Start = Anchors[1]
      BY <2>1 DEF Depth, At, K, Start
    <3>2. Len(path) = 0 /\ Len(used) = 0 /\ Len(visited) = 1 /\ visited[1] = Anchors[1]
      BY <2>1
    <3>3. 1..Depth = {1} /\ 1..Len(path) = {}
      BY <3>1, <3>2
    <3> QED
      BY <2>1, <2>2, <3>1, <3>2, <3>3 DEF Walk
  <2>5. RestIsAhead
    BY <2>1, <2>3, AllIsAhead DEF RestIsAhead, Start
  <2> QED
    BY <2>1, <2>3, <2>4, <2>5 DEF SearchInv, FoundIsBehind, PastIsDone, PastIsDifferent
<1> QED
  BY <1>1, <1>2

LEMMA NextInv == SearchInv /\ [Next]_vars => SearchInv'
<1> SUFFICES ASSUME SearchInv, [Next]_vars PROVE SearchInv'
  OBVIOUS
<1>1. /\ TypeOK /\ Walk /\ FoundIsBehind /\ RestIsAhead /\ PastIsDone /\ PastIsDifferent
      /\ TypeOK' /\ Walk' /\ FoundIsBehind'
  BY TypeNext, WalkNext, FoundNext DEF SearchInv
<1>2. ASSUME UNCHANGED <<ends, anchor, routes>> PROVE PastIsDone' /\ PastIsDifferent'
  <2>1. /\ \A a, h : IsCycle(a, h)' = IsCycle(a, h)
        /\ \A a : Cycles(a)' = Cycles(a)
    BY <1>2, GraphIsFixed
  <2>2. \A i : Filled(i) => Filled(i)'
    BY <1>2 DEF Filled
  <2>3. \A i : Complete(i) => Complete(i)'
    BY <1>2, <2>1 DEF Complete
  <2>4. ASSUME NEW n \in 1..Len(routes) PROVE IsCycle(routes[n].anchor, routes[n].hops)'
    <3>1. PICK a, h : a = routes[n].anchor /\ h = routes[n].hops
      OBVIOUS
    <3>2. IsCycle(a, h)'
      BY <1>1, <2>1, <3>1 DEF PastIsDone
    <3> QED
      BY <1>2, <3>1, <3>2 DEF IsCycle
  <2> QED
    BY <1>1, <1>2, <2>2, <2>3, <2>4 DEF PastIsDone, PastIsDifferent
<1>3. CASE Enter \/ SkipEdge \/ CloseCycle \/ Descend \/ Return
  <2>1. UNCHANGED <<ends, anchor, routes>>
    BY <1>3 DEF Enter, SkipEdge, CloseCycle, Descend, Return
  <2> QED
    BY <1>1, <1>2, <1>3, <2>1, RestNext DEF SearchInv
<1>4. CASE NextAnchor
  BY <1>1, <1>4, RestOfNextAnchor, PastNext DEF SearchInv
<1>5. CASE UNCHANGED vars
  <2>1. UNCHANGED <<ends, anchor, routes, stack, path, found>>
    BY <1>5 DEF vars
  <2>2. RestIsAhead'
    <3>1. /\ \A a : Cycles(a)' = Cycles(a)
          /\ \A t : KeptEdges(t)' = KeptEdges(t)
      BY <2>1, GraphIsFixed
    <3>2. /\ Depth' = Depth /\ Start' = Start /\ Full' = Full
          /\ \A j : At(j)' = At(j) /\ K(j)' = K(j)
      BY <2>1 DEF Depth, Start, Full, At, K
    <3>3. \A h, j, m : Branches(h, j, m)' = Branches(h, j, m)
      BY <2>1, <3>1, <3>2 DEF Branches
    <3>4. \A h : Ahead(h) => Ahead(h)'
      BY <3>2, <3>3 DEF Ahead
    <3>5. Cycles(Start)' = Cycles(Start)
      BY <3>1, <3>2
    <3> QED
      BY <1>1, <2>1, <3>2, <3>4, <3>5 DEF RestIsAhead
  <2> QED
    BY <1>1, <1>2, <2>1, <2>2 DEF SearchInv
<1> QED
  BY <1>3, <1>4, <1>5 DEF Next

\* The invariant of the search, for every graph, list of anchors and cap.
THEOREM SearchTheorem == Spec => []SearchInv
<1> QED
  BY InitInv, NextInv, PTL DEF Spec

\* The state of dfs has its type: what it pushes and pops is what its callers
\* and callees expect (graph.rs:92-161).
THEOREM TypeCorrect == Spec => []TypeOK
<1>1. SearchInv => TypeOK
  BY DEF SearchInv
<1> QED
  BY <1>1, SearchTheorem, PTL

\* A route is a cycle over kept edges from its anchor, with no pool and no token
\* twice (types.rs:1-3, graph.rs:113-155), whatever the graph and the caps.
THEOREM RoutesAreCyclesTheorem == Spec => []RoutesAreCycles
<1>1. SearchInv => RoutesAreCycles
  <2> SUFFICES ASSUME SearchInv, NEW r \in Found PROVE IsCycle(r.anchor, r.hops)
    BY DEF RoutesAreCycles
  <2>1. CASE r \in ToSet(found)
    <3>1. PICK n \in 1..Len(found) : r = found[n]
      BY <2>1 DEF ToSet, SearchInv, TypeOK
    <3> QED
      BY <3>1 DEF SearchInv, FoundIsBehind
  <2>2. CASE r \in ToSet(routes)
    <3>1. PICK n \in 1..Len(routes) : r = routes[n]
      BY <2>2 DEF ToSet, SearchInv, TypeOK
    <3> QED
      BY <3>1 DEF SearchInv, PastIsDone
  <2> QED
    BY <2>1, <2>2 DEF Found
<1> QED
  BY <1>1, SearchTheorem, PTL

\* No route is entered twice (graph.rs:56-84), if the configuration names no
\* anchor twice.
THEOREM NoRouteTwiceTheorem ==
  ASSUME IsInjective(Anchors)
  PROVE  Spec => []NoRouteTwice
<1>1. SearchInv => NoRouteTwice
  <2> SUFFICES ASSUME SearchInv,
                      NEW m \in DOMAIN (routes \o found), NEW n \in DOMAIN (routes \o found),
                      (routes \o found)[m] = (routes \o found)[n]
               PROVE  m = n
    BY DEF NoRouteTwice, IsInjective
  <2>1. /\ routes \in Seq(Route) /\ found \in Seq(Route)
        /\ Len(routes) \in Nat /\ Len(found) \in Nat
    BY DEF SearchInv, TypeOK
  <2>2. /\ DOMAIN (routes \o found) = 1..(Len(routes) + Len(found))
        /\ \A i \in 1..(Len(routes) + Len(found)) :
             (routes \o found)[i] =
               IF i \in 1..Len(routes) THEN routes[i] ELSE found[i - Len(routes)]
    BY <2>1
  <2>3. \A i \in 1..(Len(routes) + Len(found)) :
          i \notin 1..Len(routes) => i - Len(routes) \in 1..Len(found)
    BY <2>1
  <2>4. ASSUME NEW i \in 1..Len(routes), NEW j \in 1..Len(found)
        PROVE  routes[i] # found[j]
    <3>1. PICK x \in 1..(anchor - 1) : x <= Len(Anchors) /\ routes[i].anchor = Anchors[x]
      BY DEF SearchInv, PastIsDone
    <3>2. found[j].anchor = Anchors[anchor] /\ anchor <= Len(Anchors)
      BY DEF SearchInv, FoundIsBehind, Start
    <3>3. DOMAIN Anchors = 1..Len(Anchors) /\ Len(Anchors) \in Nat
          /\ anchor \in 1..Len(Anchors) + 1
      BY RouteGraphAssumption DEF SearchInv, TypeOK
    <3>4. x \in DOMAIN Anchors /\ anchor \in DOMAIN Anchors /\ x # anchor
      BY <3>1, <3>2, <3>3
    <3> QED
      BY <3>1, <3>2, <3>4 DEF IsInjective
  <2>5. CASE m \in 1..Len(routes) /\ n \in 1..Len(routes)
    BY <2>2, <2>5 DEF SearchInv, PastIsDifferent
  <2>6. CASE m \notin 1..Len(routes) /\ n \notin 1..Len(routes)
    <3>0. \A i, j \in 1..Len(found) : found[i] = found[j] => i = j
      BY DEF SearchInv, FoundIsBehind
    <3>1. m - Len(routes) = n - Len(routes)
      BY <2>2, <2>3, <2>6, <3>0
    <3> QED
      BY <2>1, <2>2, <3>1
  <2>7. CASE m \in 1..Len(routes) /\ n \notin 1..Len(routes)
    BY <2>2, <2>3, <2>4, <2>7
  <2>8. CASE m \notin 1..Len(routes) /\ n \in 1..Len(routes)
    BY <2>2, <2>3, <2>4, <2>8
  <2> QED
    BY <2>5, <2>6, <2>7, <2>8
<1> QED
  BY <1>1, SearchTheorem, PTL

\* An anchor whose search was not cut short has all its cycles (graph.rs:157-159).
THEOREM AllCyclesFoundTheorem == Spec => []AllCyclesFound
<1>1. SearchInv => AllCyclesFound
  <2> SUFFICES ASSUME SearchInv, Done, NEW i \in 1..Len(Anchors)
               PROVE  LET of == {r \in Found : r.anchor = Anchors[i]}
                      IN  Cardinality(of) < MaxRoutes =>
                            {r.hops : r \in of} = Cycles(Anchors[i])
    BY DEF AllCyclesFound
  <2> DEFINE of == {r \in Found : r.anchor = Anchors[i]}
  <2> SUFFICES ASSUME Cardinality(of) < MaxRoutes
               PROVE  {r.hops : r \in of} = Cycles(Anchors[i])
    OBVIOUS
  <2>1. i \in 1..(anchor - 1)
    BY RouteGraphAssumption DEF SearchInv, TypeOK, Done
  <2>2. routes \in Seq(Route) /\ found \in Seq(Route)
    BY DEF SearchInv, TypeOK
  <2>3. IsFiniteSet(of)
    <3>1. IsFiniteSet(ToSet(found)) /\ IsFiniteSet(ToSet(routes))
      BY <2>2, FiniteList
    <3>2. IsFiniteSet(Found)
      BY <3>1, FS_Union DEF Found
    <3> QED
      BY <3>2, FS_Subset
  <2>4. Complete(i)
    <3> SUFFICES ASSUME Filled(i) PROVE FALSE
      BY <2>1 DEF SearchInv, PastIsDone
    <3>1. PICK F \in SUBSET ToSet(routes) :
            (\A r \in F : r.anchor = Anchors[i]) /\ Cardinality(F) >= MaxRoutes
      BY DEF Filled
    <3>2. F \in SUBSET of
      BY <3>1 DEF Found
    <3>3. IsFiniteSet(F) /\ Cardinality(F) <= Cardinality(of)
      BY <2>3, <3>2, FS_Subset
    <3>4. Cardinality(F) \in Nat /\ Cardinality(of) \in Nat
      BY <2>3, <3>3, FS_CardinalityType
    <3> QED
      BY <3>1, <3>3, <3>4, RouteGraphAssumption
  <2>5. ASSUME NEW h \in Cycles(Anchors[i]) PROVE h \in {r.hops : r \in of}
    <3>1. PICK n \in 1..Len(routes) : routes[n] = [anchor |-> Anchors[i], hops |-> h]
      BY <2>4 DEF Complete
    <3>2. routes[n] \in Found /\ routes[n].anchor = Anchors[i] /\ routes[n].hops = h
      BY <2>2, <3>1 DEF Found, ToSet
    <3> QED
      BY <3>2
  <2>6. ASSUME NEW r \in of PROVE r.hops \in Cycles(Anchors[i])
    <3>1. r.hops \in Seq(Hop)
      <4>1. r \in Route
        BY <2>2 DEF Found, ToSet
      <4> QED
        BY <4>1 DEF Route
    <3>2. IsCycle(Anchors[i], r.hops)
      <4>1. CASE r \in ToSet(found)
        BY <2>2, <4>1 DEF ToSet, SearchInv, FoundIsBehind
      <4>2. CASE r \in ToSet(routes)
        BY <2>2, <4>2 DEF ToSet, SearchInv, PastIsDone
      <4> QED
        BY <4>1, <4>2 DEF Found
    <3>3. Len(r.hops) \in 2..MaxHops /\ r.hops \in [1..Len(r.hops) -> Hop]
      BY <3>1, <3>2, CycleHops
    <3> QED
      BY <3>2, <3>3 DEF Cycles
  <2> QED
    BY <2>5, <2>6
<1> QED
  BY <1>1, SearchTheorem, PTL

-----------------------------------------------------------------------------
(* How far the cap is exceeded.                                            *)

\* The calls, but the first, that are in their loop: each may close one cycle
\* more before it sees that the list is full.
InLoop == IF Depth <= 1 THEN 0 ELSE IF K(Depth) = 0 THEN Depth - 2 ELSE Depth - 1

OverrunBounded ==
  /\ MaxRoutes = 0 => found = << >> /\ \A j \in 1..Depth : K(j) = 0
  /\ Full /\ MaxRoutes > 0 => Len(found) + InLoop <= MaxRoutes + (MaxHops - 2)

\* "max_routes bounds EACH anchor's enumeration" (graph.rs:28-29) but for the
\* cycles the calls under way still close (graph.rs:137-144).
CapNearlyKept == Len(found) <= MaxRoutes + (MaxHops - 2)

\* A list that is full grows only as calls leave their loops.
LEMMA OverrunNext ==
  ASSUME MaxHops >= 2, TypeOK, Walk, OverrunBounded, [Next]_vars
  PROVE  OverrunBounded'
<1>0. /\ MaxRoutes \in Nat /\ MaxHops \in Nat /\ found \in Seq(Route) /\ Len(found) \in Nat
      /\ Depth \in Nat
  BY RouteGraphAssumption DEF TypeOK, Depth
<1>1. ASSUME stack # << >>
      PROVE  /\ Depth \in Nat \ {0} /\ \A j \in 1..Depth : K(j) \in Nat
             /\ Len(path) = Depth - 1 /\ Top.k = K(Depth) /\ Current = At(Depth)
             /\ Depth - 1 \in 1..Depth => K(Depth - 1) > 0
  <2>1. /\ Depth \in Nat \ {0} /\ \A j \in 1..Depth : K(j) \in Nat
        /\ Len(path) = Depth - 1 /\ Top.k = K(Depth) /\ Current = At(Depth)
    BY <1>1, TopCall DEF K
  <2>2. ASSUME Depth - 1 \in 1..Depth PROVE K(Depth - 1) > 0
    <3>1. Depth - 1 \in 1..Len(path) /\ K(Depth - 1) \in Nat
      BY <2>1, <2>2
    <3>2. K(Depth - 1) - 1 \in 1..Len(KeptEdges(At(Depth - 1)))
      BY <3>1, HopMade
    <3> QED
      BY <3>1, <3>2, KeptEdgesList
  <2> QED
    BY <2>1, <2>2
<1>2. ASSUME stack # << >>, Leave
      PROVE  /\ Depth > 1 => InLoop' = Depth - 2
             /\ Depth = 1 => InLoop' = 0
             /\ MaxRoutes = 0 => \A j \in 1..Depth' : K(j)' = 0
  <2>1. /\ Depth' = Depth - 1
        /\ \A j \in 1..(Depth - 1) : K(j)' = K(j)
    BY <1>2, Leaves
  <2>2. ASSUME Depth > 1 PROVE InLoop' = Depth - 2
    <3>1. PICK d : d = Depth - 1
      OBVIOUS
    <3>2. K(d)' > 0
      BY <1>1, <1>2, <2>1, <2>2, <3>1
    <3>3. K(Depth)' = K(d)'
      BY <2>1, <3>1
    <3> QED
      BY <1>1, <1>2, <2>1, <2>2, <3>2, <3>3 DEF InLoop
  <2>3. Depth = 1 => InLoop' = 0
    BY <1>1, <2>1 DEF InLoop
  <2>4. MaxRoutes = 0 => \A j \in 1..Depth' : K(j)' = 0
    BY <1>1, <1>2, <2>1 DEF OverrunBounded
  <2> QED
    BY <2>2, <2>3, <2>4
<1>3. CASE Enter
  <2>1. ~Full' /\ MaxRoutes > 0
    BY <1>0, <1>3 DEF Enter, Full
  <2> QED
    BY <2>1 DEF OverrunBounded
<1>4. ASSUME AtEdge
      PROVE  /\ K(Depth) > 0 /\ MaxRoutes > 0 /\ stack # << >> /\ Depth <= MaxHops
             /\ InLoop = Depth - 1
  <2>1. K(Depth) > 0 /\ stack # << >> /\ Depth <= MaxHops
    BY <1>4, EdgeAt, KeptEdgesList
  <2>2. MaxRoutes # 0
    BY <1>1, <2>1 DEF OverrunBounded
  <2> QED
    BY <1>0, <1>1, <2>1, <2>2 DEF InLoop
<1>5. CASE SkipEdge
  <2>1. stack' = Advanced /\ found' = found /\ AtEdge
    BY <1>5 DEF SkipEdge
  <2>2. Depth' = Depth /\ \A j : j = Depth => K(j)' = K(j) + 1
    BY <1>1, <1>4, <2>1, Advances
  <2>3. K(Depth)' = K(Depth) + 1
    BY <2>2
  <2>4. InLoop' = InLoop
    BY <1>1, <1>4, <2>1, <2>2, <2>3 DEF InLoop
  <2> QED
    BY <1>4, <2>1, <2>4 DEF OverrunBounded, Full
<1>6. CASE CloseCycle
  <2>1. AtEdge /\ Depth >= 2 /\ Len(found') = Len(found) + 1
    <3>1. PICK h \in Seq(Hop) :
            /\ Len(h) = Depth /\ IsCycle(Start, h)
            /\ found' = Append(found, [anchor |-> Start, hops |-> h])
      BY <1>6, Closes
    <3>2. Len(found') = Len(found) + 1
      BY <1>0, <3>1
    <3>3. Len(h) \in 2..MaxHops
      BY <3>1, CycleHops
    <3> QED
      BY <1>0, <1>6, <3>1, <3>2, <3>3 DEF CloseCycle
  <2>2. CASE FilledBy(Len(found'))
    <3>1. Leave /\ InLoop' = Depth - 2
      BY <1>0, <1>2, <1>4, <1>6, <2>1, <2>2 DEF CloseCycle
    <3>2. CASE Full
      BY <1>0, <1>4, <2>1, <3>1, <3>2 DEF OverrunBounded
    <3>3. CASE ~Full
      BY <1>0, <1>4, <2>1, <3>1, <3>3 DEF OverrunBounded, Full
    <3> QED
      BY <3>2, <3>3
  <2>3. CASE ~FilledBy(Len(found'))
    <3>1. ~Full'
      BY <2>3 DEF FilledBy, Full
    <3> QED
      BY <1>4, <2>1, <3>1 DEF OverrunBounded
  <2> QED
    BY <2>2, <2>3
<1>7. CASE Descend
  <2>1. Depth' = Depth + 1 /\ \A j : j = Depth + 1 => K(j)' = 0
    BY <1>7, Descends
  <2>2. AtEdge /\ found' = found
    BY <1>7 DEF Descend
  <2>3. K(Depth)' = 0
    BY <2>1
  <2>4. InLoop' = Depth - 1
    BY <1>1, <1>4, <2>1, <2>2, <2>3 DEF InLoop
  <2> QED
    BY <1>4, <2>2, <2>4 DEF OverrunBounded, Full
<1>8. CASE Return
  <2>1. stack # << >> /\ Leave /\ found' = found
    BY <1>8 DEF Return
  <2>2. InLoop' <= InLoop
    BY <1>1, <1>2, <2>1 DEF InLoop
  <2>3. InLoop' \in Nat /\ InLoop \in Nat
    BY <1>1, <1>2, <2>1 DEF InLoop
  <2> QED
    BY <1>0, <1>2, <2>1, <2>2, <2>3 DEF OverrunBounded, Full
<1>9. CASE NextAnchor
  <2>1. found' = << >> /\ Len(found') = 0
    BY <1>9 DEF NextAnchor
  <2>2. Depth' <= 1 /\ \A j \in 1..Depth' : K(j)' = 0
    <3>1. CASE anchor' > Len(Anchors)
      <4>1. Depth' = 0
        BY <1>9, <3>1, Starts, RouteGraphAssumption DEF TypeOK, Depth
      <4> QED
        BY <4>1
    <3>2. CASE anchor' <= Len(Anchors)
      <4>1. Depth' = 1 /\ stack'[1] = [at |-> Anchors[anchor'], k |-> 0]
        BY <1>9, <3>2, Starts, RouteGraphAssumption DEF TypeOK, Depth
      <4>2. \A j : j = 1 => K(j)' = 0
        BY <4>1 DEF K
      <4> QED
        BY <4>1, <4>2
    <3> QED
      BY <1>9, <3>1, <3>2, Starts
  <2> QED
    BY <1>0, <2>1, <2>2 DEF OverrunBounded, Full
<1>10. CASE UNCHANGED vars
  BY <1>10 DEF vars, OverrunBounded, Full, InLoop, Depth, K
<1> QED
  BY <1>3, <1>5, <1>6, <1>7, <1>8, <1>9, <1>10 DEF Next

\* An anchor has at most max_hops - 2 routes more than max_routes: with the
\* default of three hops, one.
THEOREM CapNearlyKeptTheorem ==
  ASSUME MaxHops >= 2
  PROVE  Spec => []CapNearlyKept
<1>1. Init => OverrunBounded
  <2> SUFFICES ASSUME Init PROVE OverrunBounded
    OBVIOUS
  <2>1. found = << >> /\ (stack = << >> \/ stack = <<[at |-> Anchors[1], k |-> 0]>>)
    BY DEF Init
  <2>2. \A j \in 1..Depth : K(j) = 0
    BY <2>1 DEF Depth, K
  <2>3. Len(found) = 0
    BY <2>1
  <2> QED
    BY <2>1, <2>2, <2>3, RouteGraphAssumption DEF OverrunBounded, Full
<1>2. SearchInv /\ OverrunBounded /\ [Next]_vars => OverrunBounded'
  BY OverrunNext DEF SearchInv
<1>3. SearchInv /\ OverrunBounded => CapNearlyKept
  <2> SUFFICES ASSUME SearchInv, OverrunBounded PROVE CapNearlyKept
    OBVIOUS
  <2>1. /\ MaxRoutes \in Nat /\ MaxHops \in Nat /\ Len(found) \in Nat /\ Depth \in Nat
    BY RouteGraphAssumption DEF SearchInv, TypeOK, Depth
  <2>2. InLoop \in Nat
    BY <2>1 DEF InLoop
  <2>3. CASE MaxRoutes = 0
    <3>1. Len(found) = 0
      BY <2>3 DEF OverrunBounded
    <3> QED
      BY <2>1, <2>3, <3>1 DEF CapNearlyKept
  <2>4. CASE MaxRoutes > 0
    BY <2>1, <2>2, <2>4 DEF OverrunBounded, CapNearlyKept, Full
  <2> QED
    BY <2>1, <2>3, <2>4
<1> QED
  BY <1>1, <1>2, <1>3, SearchTheorem, PTL DEF Spec

=============================================================================
