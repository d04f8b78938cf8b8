--------------------------- MODULE MCDogMovement ---------------------------
(* A small map for DogMovement: a street turning a corner twice, a road that *)
(* ends in the middle of another, and a road beyond it.                      *)
EXTENDS DogMovement

P(px, py) == [a \in Axes |-> IF a = "x" THEN px ELSE py]
R(p, q) == [start |-> p, end |-> q]

\* The third road is written from right to left, as config.json has them.
MCRoads == <<R(P(0, 0), P(2, 0)), R(P(2, 0), P(2, 2)), R(P(2, 2), P(0, 2)),
             R(P(0, 1), P(2, 1)), R(P(2, 1), P(3, 1))>>
MCTickLengths == {1, 3}
=============================================================================
