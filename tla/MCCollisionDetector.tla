------------------------ MODULE MCCollisionDetector ------------------------
(* Two gatherers on a grid of three by three, of every direction, length and *)
(* still, with an office and a thing lying on the road.                      *)
EXTENDS CollisionDetector

P(px, py) == [a \in {"x", "y"} |-> IF a = "x" THEN px ELSE py]
Grid == {P(px, py) : px \in 0 .. 2, py \in 0 .. 2}
MCGatherers ==
    {[start |-> p[1], end |-> p[2], width |-> 1] :
        p \in {<<P(1, 1), P(1, 1)>>, <<P(1, 1), P(0, 1)>>, <<P(0, 0), P(2, 0)>>,
               <<P(2, 1), P(2, 2)>>, <<P(0, 2), P(0, 0)>>}}
MCGathererInputs == {<<e, f>> : e \in MCGatherers, f \in MCGatherers}
MCItemInputs ==
    {<<[position |-> p, width |-> 1], [position |-> q, width |-> 0]>> :
        p \in {P(0, 0), P(1, 2), P(2, 1)}, q \in Grid}
=============================================================================
