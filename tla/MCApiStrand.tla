----------------------------- MODULE MCApiStrand -----------------------------
(* Instances of ApiStrand: one worker, as on a machine with one processor,  *)
(* or two; two or three requests and the ticker.                            *)
EXTENDS ApiStrand
=============================================================================
