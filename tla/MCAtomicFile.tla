---------------------------- MODULE MCAtomicFile -----------------------------
(* Instances of AtomicFile for TLC: contents of one and of two blocks.        *)
EXTENDS AtomicFile, TLC

CONSTANTS c1, c2, c3

Sizes == [i \in Inodes |-> IF i = c1 THEN 2 ELSE 1]
=============================================================================
