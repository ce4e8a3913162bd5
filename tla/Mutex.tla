-------------------------------- MODULE Mutex --------------------------------
(* What an on-disk lock promises (package comment of src/fslock/fslock.go:    *)
(* "On-disk mutex protecting a resource"): the lock is taken only when nobody *)
(* has it and given back only by the one who has it.                          *)
CONSTANT Procs

VARIABLE holders

Init == holders = {}

Acquire(p) == holders = {} /\ holders' = {p}

Release(p) == holders = {p} /\ holders' = {}

Next == \E p \in Procs : Acquire(p) \/ Release(p)

Spec == Init /\ [][Next]_holders
=============================================================================
