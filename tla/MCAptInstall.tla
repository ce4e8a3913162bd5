---------------------------- MODULE MCAptInstall -----------------------------
(* Instances of Attempt and AptInstall for TLC.                               *)
EXTENDS AptInstall

(* Every strategy with small fields, -1 standing for the negative durations   *)
(* and counts a caller may pass; installAttemptStrategy, scaled down to 3     *)
(* attempts 2 apart, and the strategies of the tests are among them.          *)
SmallStrategies == [Total : {-1, 0, 2, 4}, Delay : {-1, 0, 1, 2}, Min : {-1, 0, 2, 3}]
=============================================================================
