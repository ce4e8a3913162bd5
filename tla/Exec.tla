-------------------------------- MODULE Exec ---------------------------------
(* src/exec/exec.go: a RunParams, on which Run, Wait and Process may be       *)
(* called in any order and again, while the process it started writes, ends   *)
(* or is killed.  Two Wait at the same time are not modelled: exec.Cmd does   *)
(* not allow them.  RunCommands is a Run and, if that succeeds, a Wait.       *)
EXTENDS Naturals

CONSTANTS Codes,       \* exit codes
          MaxOutput    \* bound on what a process writes

VARIABLES
  ps,       \* r.ps: nil, notStarted, running, exited, killed
  waited,   \* ps.Wait has returned for this process
  code,     \* the code the process exited with
  output,   \* how much the process has written
  blocked,  \* a Wait is blocked
  answer    \* what the last Wait returned: its error and ExecResponse

execVars == <<ps, waited, code, output, blocked, answer>>

NoAnswer == [err |-> "none", code |-> 0, output |-> 0]

ExecInit ==
  /\ ps = "nil" /\ waited = FALSE /\ code = 0 /\ output = 0
  /\ blocked = FALSE /\ answer = NoAnswer

(* Run makes a new exec.Cmd and new buffers, also if there is one already.    *)
Run ==
  /\ ~blocked
  /\ ps' \in {"running", "notStarted"}
  /\ waited' = FALSE /\ code' = 0 /\ output' = 0 /\ answer' = NoAnswer
  /\ UNCHANGED blocked

(* The process, and whoever kills it through Process.                         *)
ProcessWrite ==
  /\ ps = "running" /\ output < MaxOutput
  /\ output' = output + 1
  /\ UNCHANGED <<ps, waited, code, blocked, answer>>

ProcessExit ==
  /\ ps = "running"
  /\ \E c \in Codes : ps' = "exited" /\ code' = c
  /\ UNCHANGED <<waited, output, blocked, answer>>

Process == IF ps \in {"running", "exited", "killed"} THEN "process" ELSE "nil"

Kill ==
  /\ Process # "nil" /\ ps = "running"
  /\ ps' = "killed"
  /\ UNCHANGED <<waited, code, output, blocked, answer>>

-----------------------------------------------------------------------------
Answer(e, c) == answer' = [err |-> e, code |-> c, output |-> output]

(* Without a process Wait fails, and so does ps.Wait if it was not started or *)
(* has been waited for; the response then comes with the error.               *)
WaitRefused ==
  /\ ~blocked
  /\ \/ ps = "nil" /\ Answer("noProcess", 0)
     \/ ps = "notStarted" /\ Answer("notStarted", 0)
     \/ ps \in {"exited", "killed"} /\ waited /\ Answer("alreadyWaited", 0)
  /\ UNCHANGED <<ps, waited, code, output, blocked>>

WaitCall ==
  /\ ~blocked /\ ps \in {"running", "exited", "killed"} /\ ~waited
  /\ blocked' = TRUE
  /\ UNCHANGED <<ps, waited, code, output, answer>>

(* "A non-zero return code isn't considered an error here": the ExitError of  *)
(* a process that was killed is.  Mutant: neither is.                         *)
anyExit == TRUE
isExited == ps = "exited"

(* ps.Wait returns once the process has ended and the buffers have its        *)
(* output; an error of feeding stdin is returned if the process exits with 0. *)
WaitReturn ==
  /\ blocked /\ ps \in {"exited", "killed"}
  /\ IF ps = "exited" /\ code = 0
       THEN \E e \in {"nil", "stdin"} : Answer(e, 0)
       ELSE IF isExited THEN Answer("nil", code) ELSE Answer("killed", 0)
  /\ blocked' = FALSE /\ waited' = TRUE
  /\ UNCHANGED <<ps, code, output>>

ExecNext ==
  \/ Run \/ ProcessWrite \/ ProcessExit \/ Kill
  \/ WaitRefused \/ WaitCall \/ WaitReturn

ExecSpec == ExecInit /\ [][ExecNext]_execVars

-----------------------------------------------------------------------------
(* A Wait without error is about a process that exited by itself, and has its *)
(* code and all it wrote; a process that exited with a code other than zero   *)
(* is not an error, unless it was waited for before.  A process that was      *)
(* killed, or never started, is always an error.                              *)
ExitReported ==
  /\ answer.err = "nil" =>
       ps = "exited" /\ answer.code = code /\ answer.output = output
  /\ answer.err \notin {"none", "nil"} =>
       ps # "exited" \/ code = 0 \/ answer.err = "alreadyWaited"
=============================================================================
