---------------------------- MODULE MCRouteGraph ----------------------------
(* Instances of RouteGraph: two anchors, one of them token1 of some pools and *)
(* the other token0 or token1.                                                *)
EXTENDS RouteGraph

TwoAnchors == <<1, 2>>

=============================================================================
