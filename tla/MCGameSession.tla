--------------------------- MODULE MCGameSession ---------------------------
(* Two dogs, an office, and two roads that meet in a line.                   *)
EXTENDS GameSession, TLC

P(px, py) == [a \in Axes |-> IF a = "x" THEN px ELSE py]
R(p, q) == [start |-> p, end |-> q]

Street == <<R(P(0, 0), P(1, 0)), R(P(1, 0), P(2, 0))>>
MCOffices == {P(1, 0)}
MCLootTypes == {"key", "wallet"}
MCWorth == [t \in LootTypes |-> IF t = "key" THEN 1 ELSE 2]
MCCommands == {"LEFT", "RIGHT", "STOP"}
MCTickLengths == {1, 2}
Symmetry == Permutations(Dogs)
=============================================================================
