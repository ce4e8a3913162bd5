------------------------------ MODULE MCVoyeur -------------------------------
(* Instances of Voyeur for TLC.                                               *)
EXTENDS Voyeur

CONSTANTS w1, w2, m1, m2, a, b, c, d

DistinctVals == <<a, b, c, d>>
=============================================================================
