------------------------------ MODULE Register -------------------------------
(* What AtomicWriteFile (src/file.go: "atomically writes the filename with    *)
(* the given contents and permissions, replacing any existing file at the     *)
(* same path") promises its callers: a call that succeeds replaces the value  *)
(* in one step, a call that fails does not touch it, and no call acts twice.  *)
CONSTANTS Callers, Initial

VARIABLES value, returned

Init == value \in Initial /\ returned = [c \in Callers |-> "none"]

Write(c) ==
  /\ returned[c] = "none"
  /\ value' = c
  /\ returned' = [returned EXCEPT ![c] = "ok"]

Fail(c) ==
  /\ returned[c] = "none"
  /\ returned' = [returned EXCEPT ![c] = "err"]
  /\ UNCHANGED value

Next == \E c \in Callers : Write(c) \/ Fail(c)

Spec == Init /\ [][Next]_<<value, returned>>
=============================================================================
