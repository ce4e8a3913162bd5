--------------------------------- MODULE Run ---------------------------------
(* parallel.Run (src/parallel/parallel.go): run functions concurrently, at    *)
(* most Max at a time.  Do hands its function over on the unbuffered channel  *)
(* work, starting a runner goroutine first if there may be one more; Wait     *)
(* closes the channel and collects the errors of the runners from the         *)
(* unbuffered channel results.                                                *)
(*                                                                            *)
(* The channel work is modelled with its two queues, because a send in a      *)
(* select with a default succeeds only if a receiver is already parked.  The  *)
(* runner started by Do(f) is called runner f.                                *)
EXTENDS Naturals, Sequences, FiniteSets

CONSTANTS Fns,   \* the functions, each passed to one call of Do
          Max    \* the argument of NewRun, which panics if it is less than 1

ASSUME MaxAssumption == Max \in Nat \ {0}

Nobody == "nobody"

ASSUME FnsAssumption == Nobody \notin Fns

VARIABLES
  do,        \* do[f]: where the call Do(f) is
  sendq,     \* the senders parked on work, first come first served
  recvq,     \* the runners parked on work
  closed,    \* work is closed
  running,   \* r.running
  runner,    \* runner[g]: where runner g is
  task,      \* task[g]: the function runner g has received
  errs,      \* errs[g]: the errors runner g has collected, as a set of functions
  wait,      \* where the call of Wait is
  left,      \* how many runners Wait has still to hear from
  waitErrs,  \* the errors Wait has collected
  ran,       \* history: the functions that have completed
  failed     \* history: the functions that have returned an error

vars == <<do, sendq, recvq, closed, running, runner, task, errs, wait, left,
          waitErrs, ran, failed>>

waitVars == <<closed, wait, left, waitErrs>>

Init ==                                                          \* NewRun
  /\ do = [f \in Fns |-> "idle"]
  /\ sendq = <<>> /\ recvq = <<>> /\ closed = FALSE
  /\ running = 0
  /\ runner = [g \in Fns |-> "none"]
  /\ task = [g \in Fns |-> Nobody]
  /\ errs = [g \in Fns |-> {}]
  /\ wait = "none" /\ left = 0 /\ waitErrs = {}
  /\ ran = {} /\ failed = {}

-----------------------------------------------------------------------------
(* Do.                                                                        *)

(* The first parked runner takes f; Do returns.                               *)
HandOver(f) ==
  /\ recvq # <<>>
  /\ runner' = [runner EXCEPT ![Head(recvq)] = "run"]
  /\ task' = [task EXCEPT ![Head(recvq)] = f]
  /\ recvq' = Tail(recvq)
  /\ do' = [do EXCEPT ![f] = "returned"]

(* Do may not be called concurrently with Wait, nor after it.                 *)
DoCall(f) ==
  /\ do[f] = "idle" /\ wait = "none"
  /\ do' = [do EXCEPT ![f] = "try"]
  /\ UNCHANGED <<sendq, recvq, running, runner, task, errs, waitVars, ran, failed>>

(* The select with a default.                                                 *)
DoTry(f) ==
  /\ do[f] = "try"
  /\ \/ HandOver(f)
     \/ recvq = <<>> /\ do' = [do EXCEPT ![f] = "lock"] /\ UNCHANGED <<recvq, runner, task>>
  /\ UNCHANGED <<sendq, running, errs, waitVars, ran, failed>>

(* The section guarded by r.mu.                                               *)
mayStart == running < Max

DoLock(f) ==
  /\ do[f] = "lock"
  /\ IF mayStart
       THEN running' = running + 1 /\ runner' = [runner EXCEPT ![f] = "receive"]
       ELSE UNCHANGED <<running, runner>>
  /\ do' = [do EXCEPT ![f] = "send"]
  /\ UNCHANGED <<sendq, recvq, task, errs, waitVars, ran, failed>>

(* The blocking send.                                                         *)
DoSend(f) ==
  /\ do[f] = "send"
  /\ \/ HandOver(f) /\ UNCHANGED sendq
     \/ /\ recvq = <<>>
        /\ sendq' = Append(sendq, f)
        /\ do' = [do EXCEPT ![f] = "blocked"]
        /\ UNCHANGED <<recvq, runner, task>>
  /\ UNCHANGED <<running, errs, waitVars, ran, failed>>

-----------------------------------------------------------------------------
(* The goroutine runner.                                                      *)

(* The receive of "range r.work": from a parked sender, or parking, or the    *)
(* end of the loop.                                                           *)
Receive(g) ==
  /\ runner[g] = "receive"
  /\ sendq # <<>>
  /\ runner' = [runner EXCEPT ![g] = "run"]
  /\ task' = [task EXCEPT ![g] = Head(sendq)]
  /\ do' = [do EXCEPT ![Head(sendq)] = "returned"]
  /\ sendq' = Tail(sendq)
  /\ UNCHANGED <<recvq, running, errs, waitVars, ran, failed>>

Park(g) ==
  /\ runner[g] = "receive"
  /\ sendq = <<>> /\ ~closed
  /\ recvq' = Append(recvq, g)
  /\ runner' = [runner EXCEPT ![g] = "parked"]
  /\ UNCHANGED <<do, sendq, running, task, errs, waitVars, ran, failed>>

RangeEnd(g) ==
  /\ runner[g] = "receive"
  /\ sendq = <<>> /\ closed
  /\ runner' = [runner EXCEPT ![g] = "report"]
  /\ UNCHANGED <<do, sendq, recvq, running, task, errs, waitVars, ran, failed>>

(* f() returns.                                                               *)
stop == "report"                                                  \* mutant
again == "receive"

Complete(g) ==
  /\ runner[g] = "run"
  /\ \/ UNCHANGED <<errs, failed>>
     \/ /\ errs' = [errs EXCEPT ![g] = @ \cup {task[g]}]
        /\ failed' = failed \cup {task[g]}
  /\ ran' = ran \cup {task[g]}
  /\ task' = [task EXCEPT ![g] = Nobody]
  /\ runner' = [runner EXCEPT ![g] = again]
  /\ UNCHANGED <<do, sendq, recvq, running, waitVars>>

-----------------------------------------------------------------------------
(* Wait.                                                                      *)

(* close(r.work) wakes every parked runner; by the contract of Do no sender   *)
(* is parked.                                                                 *)
oneFewer == IF running = 0 THEN 0 ELSE running - 1                \* mutant
toCollect == running

WaitClose ==
  /\ wait = "none"
  /\ \A f \in Fns : do[f] \in {"idle", "returned"}
  /\ closed' = TRUE
  /\ recvq' = <<>>
  /\ runner' = [g \in Fns |-> IF runner[g] = "parked" THEN "receive" ELSE runner[g]]
  /\ left' = toCollect
  /\ wait' = "collect"
  /\ UNCHANGED <<do, sendq, running, task, errs, waitErrs, ran, failed>>

(* A receive from results meets the send of a runner.                         *)
WaitCollect(g) ==
  /\ wait = "collect" /\ left > 0
  /\ runner[g] = "report"
  /\ waitErrs' = waitErrs \cup errs[g]
  /\ left' = left - 1
  /\ runner' = [runner EXCEPT ![g] = "exited"]
  /\ UNCHANGED <<do, sendq, recvq, closed, running, task, errs, wait, ran, failed>>

WaitReturn ==
  /\ wait = "collect" /\ left = 0
  /\ wait' = "returned"
  /\ UNCHANGED <<do, sendq, recvq, closed, running, runner, task, errs, left,
                 waitErrs, ran, failed>>

DoStep(f) == DoTry(f) \/ DoLock(f) \/ DoSend(f)

RunnerStep(g) == Receive(g) \/ Park(g) \/ RangeEnd(g) \/ Complete(g)

WaitStep == WaitReturn \/ \E g \in Fns : WaitCollect(g)

Next ==
  \/ \E f \in Fns : DoCall(f) \/ DoStep(f)
  \/ \E g \in Fns : RunnerStep(g)
  \/ WaitClose \/ WaitStep

Spec == Init /\ [][Next]_vars

(* Goroutines that can run do, and the functions return.  Nobody has to call. *)
LiveSpec ==
  /\ Spec
  /\ \A f \in Fns : WF_vars(DoStep(f)) /\ WF_vars(RunnerStep(f))
  /\ WF_vars(WaitStep)

-----------------------------------------------------------------------------
(* The types of the variables.                                                *)
TypeOK ==
  /\ do \in [Fns -> {"idle", "try", "lock", "send", "blocked", "returned"}]
  /\ sendq \in Seq(Fns) /\ recvq \in Seq(Fns)
  /\ closed \in BOOLEAN
  /\ running \in 0..Max
  /\ runner \in [Fns -> {"none", "receive", "parked", "run", "report", "exited"}]
  /\ task \in [Fns -> Fns \cup {Nobody}]
  /\ errs \in [Fns -> SUBSET Fns]
  /\ wait \in {"none", "collect", "returned"}
  /\ left \in 0..Max
  /\ waitErrs \subseteq Fns /\ ran \subseteq Fns /\ failed \subseteq Fns

executing == {task[g] : g \in {h \in Fns : runner[h] = "run"}}

Pool == INSTANCE WorkPool WITH
  accepted <- {f \in Fns : do[f] = "returned"},
  done     <- ran,
  report   <- IF wait = "returned" THEN {waitErrs} ELSE {}

(* Run is a work pool: each function runs once and by itself, never more than *)
(* Max at a time, and Wait returns after the last, with the errors of all     *)
(* runners.                                                                   *)
Implements == Pool!Spec

(* Every call of Do returns, if the functions do: a runner comes back for it. *)
(* So does Wait: every runner it counts reports to it.                        *)
CallsReturn ==
  /\ \A f \in Fns : (do[f] # "idle") ~> (do[f] = "returned")
  /\ (wait = "collect") ~> (wait = "returned")
=============================================================================
