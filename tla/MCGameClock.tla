----------------------------- MODULE MCGameClock -----------------------------
(* Half milliseconds, seconds of two milliseconds.  Half of the shortage      *)
(* appears in two seconds.                                                   *)
EXTENDS GameClock

MCDeltas == 0 .. MaxGap \div (UnitsPerMs * MsPerSecond)
=============================================================================
