------------------------------ MODULE MCGameApi ------------------------------
(* Two maps that sessions can be made for and one that they cannot, and up   *)
(* to three players.                                                         *)
EXTENDS GameApi, TLC

Symmetry == Permutations(Tokens)
=============================================================================
