------------------------- MODULE CollectionGeometry -------------------------
(***************************************************************************)
(* When a gatherer that walks straight from its start to its end collects  *)
(* an item, and which of two events comes first.  Positions and widths are *)
(* integers on the lattice of the road network; the quotients of the code  *)
(* are kept as a numerator over the squared length of the move, so that    *)
(* nothing is rounded.                                                     *)
(***************************************************************************)
EXTENDS Integers

Points == [{"x", "y"} -> Int]
GathererType == [start : Points, end : Points, width : Nat]
ItemType == [position : Points, width : Nat]

Minus(p, q) == [a \in {"x", "y"} |-> p[a] - q[a]]
Dot(p, q)   == p["x"] * q["x"] + p["y"] * q["y"]

\* Both members of the result have the denominator "over".
TryCollectPoint(a, b, c) ==
    LET u == Minus(c, a)
        v == Minus(b, a)
    IN  [over        |-> Dot(v, v),
         proj_ratio  |-> Dot(u, v),
         sq_distance |-> Dot(u, u) * Dot(v, v) - Dot(u, v) * Dot(u, v)]

IsCollected(result, radius) ==
    /\ 0 <= result.proj_ratio /\ result.proj_ratio <= result.over
    /\ result.sq_distance <= radius * radius * result.over

\* Slip: the test meant for one coordinate stands for both.
SkipsOneCoordinate(gatherer) == gatherer.start["x"] = gatherer.end["x"]

StoodStill(gatherer) == gatherer.start = gatherer.end

Collects(gatherer, item) ==
    IsCollected(TryCollectPoint(gatherer.start, gatherer.end, item.position),
                gatherer.width + item.width)

\* e is not later than f, each on its own gatherer's way.
NotLater(e, f) == e.time * f.over <= f.time * e.over

\* Event of a gatherer passing an item.
EventTime(gatherer, item) ==
    LET r == TryCollectPoint(gatherer.start, gatherer.end, item.position)
    IN  [time |-> r.proj_ratio, over |-> r.over]
-----------------------------------------------------------------------------
(* The reference for moves along one axis, as all moves of dogs are.       *)

Abs(n) == IF n < 0 THEN -n ELSE n
Between(v, p, q) == (p <= v /\ v <= q) \/ (q <= v /\ v <= p)

\* The reference: on a straight move along one axis a gatherer passes the
\* items beside its way that are no further off than the two widths.
Passes(gatherer, item) ==
    \E a \in {"x", "y"} : \E b \in {"x", "y"} \ {a} :
        /\ gatherer.start[a] # gatherer.end[a]
        /\ gatherer.start[b] = gatherer.end[b]
        /\ Between(item.position[a], gatherer.start[a], gatherer.end[a])
        /\ Abs(item.position[b] - gatherer.start[b])
                <= gatherer.width + item.width
=============================================================================
