----------------------------- MODULE MCTickWalk -----------------------------
(* Overlapping positions, two with nothing between, two that meet at zero.   *)
EXTENDS TickWalk

Position(lo, hi, amount) == [lo |-> lo, hi |-> hi, amount |-> amount]

Nested == {Position(-4, 4, 2), Position(-2, 2, 1)}
Apart == {Position(-6, -2, 1), Position(2, 6, 2)}
Meeting == {Position(-2, 0, 1), Position(0, 4, 3)}

MCLayouts == {Nested, Apart, Meeting}

MCMinTick == -7

=============================================================================
