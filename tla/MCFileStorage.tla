---------------------------- MODULE MCFileStorage ----------------------------
(* Instances of FileStorage for TLC.                                          *)
EXTENDS FileStorage, TLC

CONSTANTS c1, c2, i1, i2

Symmetry == Permutations(Clients) \cup Permutations(Ids)
=============================================================================
