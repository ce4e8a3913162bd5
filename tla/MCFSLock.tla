------------------------------ MODULE MCFSLock -------------------------------
(* Instances of FSLock for TLC.                                               *)
EXTENDS FSLock

CONSTANTS p1, p2
=============================================================================
