-------------------------------- MODULE MCRun --------------------------------
(* Instances of Run for TLC.                                                  *)
EXTENDS Run

CONSTANTS f1, f2, f3
=============================================================================
