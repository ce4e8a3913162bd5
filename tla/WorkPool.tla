------------------------------ MODULE WorkPool -------------------------------
(* What parallel.Run promises its callers (the comments of                    *)
(* src/parallel/parallel.go): every function handed to Do runs once, at most  *)
(* Max of them at a time, and Wait reports exactly those that failed, after   *)
(* the last one has completed.                                                *)
EXTENDS Naturals, FiniteSets

CONSTANTS Fns, Max

VARIABLES accepted,    \* the functions whose Do has returned
          executing,   \* the functions being run
          done,        \* the functions that have completed
          failed,      \* those of them that returned an error
          report       \* what Wait returned: {} before, then {the failed ones}

vars == <<accepted, executing, done, failed, report>>

Init == accepted = {} /\ executing = {} /\ done = {} /\ failed = {} /\ report = {}

(* Do(f) returns when f has been given a place among the Max.                 *)
Begin(f) ==
  /\ f \notin accepted /\ report = {}
  /\ Cardinality(executing) < Max
  /\ accepted' = accepted \cup {f}
  /\ executing' = executing \cup {f}
  /\ UNCHANGED <<done, failed, report>>

Finish(f) ==
  /\ f \in executing
  /\ executing' = executing \ {f}
  /\ done' = done \cup {f}
  /\ failed' \in {failed, failed \cup {f}}
  /\ UNCHANGED <<accepted, report>>

WaitReturn ==
  /\ report = {} /\ accepted = done
  /\ report' = {failed}
  /\ UNCHANGED <<accepted, executing, done, failed>>

Next == (\E f \in Fns : Begin(f) \/ Finish(f)) \/ WaitReturn

Spec == Init /\ [][Next]_vars
=============================================================================
