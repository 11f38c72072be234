----------------------------- MODULE RouteGraph -----------------------------
(***************************************************************************)
(* The cycle enumeration of src/src/routing/graph.rs: build_routes, which  *)
(* keeps the most liquid edges of each token, and dfs, one step for each   *)
(* turn of its loop.  A frame of the stack is a call of dfs; its k is the  *)
(* edge its loop has come to, 0 before the tests the call starts with.     *)
(*                                                                         *)
(* The pools are numbered in the order of their liquidity proxy, the most  *)
(* liquid first, and the tokens in the order of their addresses, which is  *)
(* the order of a pool's token0 and token1.                                *)
(***************************************************************************)
EXTENDS Naturals, Sequences, FiniteSets, SequencesExt

CONSTANTS
  Tokens,      \* the tokens, numbers
  NumPools,    \* how many pools there are
  Anchors,     \* the anchor tokens, a sequence
  MaxHops,     \* max_hops
  MaxRoutes,   \* max_routes
  PairFanout,  \* pair_fanout
  Generosity   \* edges kept of a node for each unit of pair_fanout

ASSUME RouteGraphAssumption ==
  /\ Tokens \subseteq Nat
  /\ NumPools \in Nat
  /\ Anchors \in Seq(Tokens)
  /\ MaxHops \in Nat /\ MaxRoutes \in Nat /\ PairFanout \in Nat
  /\ Generosity \in Nat \ {0}

Pools == 1..NumPools

VARIABLES
  ends,     \* each pool's <<token0, token1>>
  anchor,   \* the index of the anchor under way
  stack,    \* the calls of dfs
  path,     \* the hops so far
  used,     \* used_pools
  visited,  \* visited_tokens
  found,    \* anchor_routes
  routes    \* the routes of the anchors before

vars == <<ends, anchor, stack, path, used, visited, found, routes>>

Hop == [pool : Pools, token_in : Tokens]
Route == [anchor : Tokens, hops : Seq(Hop)]
Frame == [at : Tokens, k : Nat]
Ends == {e \in Tokens \X Tokens : e[1] < e[2]}

TypeOK ==
  /\ ends \in [Pools -> Ends]
  /\ anchor \in 1..Len(Anchors) + 1
  /\ stack \in Seq(Frame)
  /\ path \in Seq(Hop)
  /\ used \in Seq(Pools)
  /\ visited \in Seq(Tokens)
  /\ Len(visited) = Len(stack)
  /\ found \in Seq(Route)
  /\ routes \in Seq(Route)

-----------------------------------------------------------------------------
(* The edges.                                                              *)

Touches(p, t) == t \in {ends[p][1], ends[p][2]}

OtherEnd(p, t) == IF ends[p][1] = t THEN ends[p][2] ELSE ends[p][1]

\* The pools of a set, most liquid first.
Place(S, p) == Cardinality({q \in S : q <= p})
ByLiquidity(S) == [n \in 1..Cardinality(S) |-> CHOOSE p \in S : Place(S, p) = n]

PoolsOf(t) == {p \in Pools : Touches(p, t)}

\* mutant: both edges of a pool are entered at either token
EdgesOf_Both(t) == ByLiquidity(PoolsOf(t)) \o ByLiquidity(PoolsOf(t))

\* The pools of a token, most liquid first, and as many of them as it keeps.
EdgesOf(t) == ByLiquidity(PoolsOf(t))
KeptEdges(t) ==
  SubSeq(EdgesOf(t), 1, IF Len(EdgesOf(t)) > PairFanout * Generosity
                        THEN PairFanout * Generosity ELSE Len(EdgesOf(t)))

-----------------------------------------------------------------------------
(* The search.                                                             *)

\* dfs is called for the anchor with the given index, if there is one.
StartAnchor(i) ==
  IF i <= Len(Anchors)
  THEN stack' = <<[at |-> Anchors[i], k |-> 0]>> /\ visited' = <<Anchors[i]>>
  ELSE stack' = << >> /\ visited' = << >>

Init ==
  /\ ends \in [Pools -> Ends]
  /\ anchor = 1
  /\ stack = IF Anchors = << >> THEN << >> ELSE <<[at |-> Anchors[1], k |-> 0]>>
  /\ visited = IF Anchors = << >> THEN << >> ELSE <<Anchors[1]>>
  /\ path = << >>
  /\ used = << >>
  /\ found = << >>
  /\ routes = << >>

Start == Anchors[anchor]
Top == stack[Len(stack)]
Current == Top.at
Edge == KeptEdges(Current)[Top.k]
NextToken == OtherEnd(Edge, Current)
HopOver(p) == [pool |-> p, token_in |-> Current]

Full == Len(found) >= MaxRoutes

\* The loop of the top call is at an edge.
AtEdge ==
  /\ stack # << >>
  /\ Top.k \in 1..Len(KeptEdges(Current))

\* The stack with the loop of the top call at its next edge.
Advanced == [stack EXCEPT ![Len(stack)].k = @ + 1]

\* mutant: one hop less
TooDeep_Early == Len(path) + 1 >= MaxHops

TooDeep == Len(path) >= MaxHops

\* The call goes on to its loop.
Enter ==
  /\ stack # << >>
  /\ Top.k = 0
  /\ ~Full
  /\ ~TooDeep
  /\ stack' = Advanced
  /\ UNCHANGED <<ends, anchor, path, used, visited, found, routes>>

\* mutant: any pool may be taken again
PoolTaken_Never(p) == FALSE

PoolTaken(p) == p \in ToSet(used)

TokenTaken(t) == t \in ToSet(visited)

\* The pool is in the path already, or the token is.
SkipEdge ==
  /\ AtEdge
  /\ \/ PoolTaken(Edge)
     \/ NextToken # Start /\ TokenTaken(NextToken)
  /\ stack' = Advanced
  /\ UNCHANGED <<ends, anchor, path, used, visited, found, routes>>

Popped(s) == IF s = << >> THEN s ELSE Front(s)

Unvisited == Front(visited)

\* The top call returns and its caller takes back the hop to it.
Leave ==
  /\ stack' = Front(stack)
  /\ path' = Popped(path)
  /\ used' = Popped(used)
  /\ visited' = Unvisited

FilledBy(n) == n >= MaxRoutes

\* The edge leads back to the anchor.  Pools join two different tokens, so the
\* cycle has at least two hops.  A call that fills the list returns.
CloseCycle ==
  /\ AtEdge
  /\ ~PoolTaken(Edge)
  /\ NextToken = Start
  /\ found' = Append(found, [anchor |-> Start, hops |-> Append(path, HopOver(Edge))])
  /\ IF FilledBy(Len(found')) THEN Leave
     ELSE stack' = Advanced /\ UNCHANGED <<path, used, visited>>
  /\ UNCHANGED <<ends, anchor, routes>>

Descend ==
  /\ AtEdge
  /\ ~PoolTaken(Edge)
  /\ NextToken # Start
  /\ ~TokenTaken(NextToken)
  /\ stack' = Append(Advanced, [at |-> NextToken, k |-> 0])
  /\ path' = Append(path, HopOver(Edge))
  /\ used' = Append(used, Edge)
  /\ visited' = Append(visited, NextToken)
  /\ UNCHANGED <<ends, anchor, found, routes>>

\* The call returns: at once, or at the end of its loop.
Return ==
  /\ stack # << >>
  /\ \/ Top.k = 0 /\ (Full \/ TooDeep)
     \/ Top.k > Len(KeptEdges(Current))
  /\ Leave
  /\ UNCHANGED <<ends, anchor, found, routes>>

\* The search from this anchor is over.
NextAnchor ==
  /\ anchor <= Len(Anchors)
  /\ stack = << >>
  /\ anchor' = anchor + 1
  /\ routes' = routes \o found
  /\ found' = << >>
  /\ StartAnchor(anchor + 1)
  /\ UNCHANGED <<ends, path, used>>

Next ==
  \/ Enter \/ SkipEdge \/ CloseCycle \/ Descend \/ Return \/ NextAnchor

Spec == Init /\ [][Next]_vars

-----------------------------------------------------------------------------
(* Properties.                                                             *)

Found == ToSet(found) \cup ToSet(routes)
Done == anchor > Len(Anchors)

\* The hops h lead from token a back to it, over kept edges, with no pool
\* twice and no token twice.
IsCycle(a, h) ==
  /\ Len(h) \in 2..MaxHops
  /\ h[1].token_in = a
  /\ \A k \in 1..Len(h) :
       /\ h[k].pool \in ToSet(KeptEdges(h[k].token_in))
       /\ OtherEnd(h[k].pool, h[k].token_in) =
            IF k = Len(h) THEN a ELSE h[k + 1].token_in
  /\ \A j, k \in 1..Len(h) :
       j # k => h[j].pool # h[k].pool /\ h[j].token_in # h[k].token_in

Cycles(a) == {h \in UNION {[1..n -> Hop] : n \in 2..MaxHops} : IsCycle(a, h)}

\* A route is "an anchor->...->anchor cycle" (types.rs:1-3): what the executor
\* is sent is closed, and no pool is quoted twice at the same state.
RoutesAreCycles == \A r \in Found : IsCycle(r.anchor, r.hops)

\* No route is entered twice, which would have it quoted and sent twice.
NoRouteTwice == IsInjective(routes \o found)

\* An anchor whose search was not cut short has all its cycles, so backtracking
\* (graph.rs:157-159) leaves nothing marked that a later path needs.
AllCyclesFound ==
  Done => \A i \in 1..Len(Anchors) :
    LET of == {r \in Found : r.anchor = Anchors[i]}
    IN  Cardinality(of) < MaxRoutes => {r.hops : r \in of} = Cycles(Anchors[i])

\* "max_routes bounds EACH anchor's enumeration" (graph.rs:28-29).
CapKept == Len(found) <= MaxRoutes

=============================================================================
