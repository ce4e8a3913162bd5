-------------------------------- MODULE MCTry --------------------------------
(* Instances of Try for TLC.                                                  *)
EXTENDS Try

CONSTANTS f1, f2, e1, e2

(* A combineErrors that ignores e1: it keeps the error it had.                *)
IgnoreE1 ==
  [p \in {e1, e2, Nil} \X {e1, e2} |-> IF p[2] = e1 THEN p[1] ELSE p[2]]
=============================================================================
