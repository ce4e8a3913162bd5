--------------------------------- MODULE Try ---------------------------------
(* parallel.Try (src/parallel/try.go): run functions concurrently until one   *)
(* succeeds.  One goroutine, the loop, owns the count of outstanding          *)
(* functions and the combined error.  Callers of Start, the started           *)
(* functions and the loop meet on the unbuffered channels start and result    *)
(* (a send and its receive are one step), on the buffered channel limiter (a  *)
(* counter of free slots) and on the channels close, dying and dead, which    *)
(* are only ever closed.  Every Go select is a disjunction: any ready case    *)
(* may be taken.                                                              *)
(*                                                                            *)
(* A function is identified with the value it would return, so "f is closed"  *)
(* means that Close was called on the value f returned.                       *)
EXTENDS Integers, FiniteSets

CONSTANTS Fns,            \* the functions passed to Start, each at most once
          MaxParallel,    \* the first argument of NewTry
          Errors,         \* the errors the functions return
          combineErrors   \* the second argument of NewTry, as a function;
                          \* chooseLastError where the caller passes nil

Nil        == "nil"
StillAlive == "ErrStillAlive"   \* the tomb's reason before any Kill
ErrStopped == "ErrStopped"
ErrClosed  == "ErrClosed"
Pending    == "pending"         \* the function has not returned yet

chooseLastError == [p \in (Errors \cup {Nil}) \X Errors |-> p[2]]

ASSUME MaxParallelAssumption == MaxParallel \in Int

ASSUME FnsAssumption == IsFiniteSet(Fns) /\ Nil \notin Fns

ASSUME ErrorsAssumption ==
  Errors \cap {Nil, StillAlive, ErrStopped, Pending} = {}

ASSUME CombineErrorsAssumption ==
  combineErrors \in [(Errors \cup {Nil}) \X Errors -> Errors \cup {Nil}]

VARIABLES
  closed,      \* the channel close has been closed
  slots,       \* the number of elements in the channel limiter
  tomb,        \* [reason, dying, dead]
  loop,        \* where the loop goroutine is
  closeSeen,   \* the loop's local variable close is nil
  nrunning,    \* the loop's local variable
  err,         \* the loop's local variable
  ret,         \* [val, err]: what loop() returned
  endResult,   \* the field of that name
  start,       \* where the caller of Start(f) is, or what it returned
  fn,          \* where the goroutine running f is
  out,         \* the error f returned, Nil if it succeeded
  closedVals   \* the values on which Close was called

vars == <<closed, slots, tomb, loop, closeSeen, nrunning, err, ret, endResult,
          start, fn, out, closedVals>>

loopVars == <<loop, closeSeen, nrunning, err, ret, endResult>>
fnVars   == <<fn, out, closedVals>>

limited == MaxParallel > 0

(* The capacity of limiter, and how many elements NewTry puts into it.        *)
capacityOneMore == MaxParallel + 1                                \* mutant
capacity == MaxParallel

Init ==                                                         \* NewTry
  /\ closed = FALSE
  /\ slots = IF limited THEN capacity ELSE 0
  /\ tomb = [reason |-> StillAlive, dying |-> FALSE, dead |-> FALSE]
  /\ loop = "select"
  /\ closeSeen = FALSE
  /\ nrunning = 0
  /\ err = Nil
  /\ ret = [val |-> Nil, err |-> Nil]
  /\ endResult = Nil
  /\ start = [f \in Fns |-> "idle"]
  /\ fn = [f \in Fns |-> "none"]
  /\ out = [f \in Fns |-> Pending]
  /\ closedVals = {}

-----------------------------------------------------------------------------
(* launchpad.net/tomb, as try.go uses it.                                     *)

(* Kill records the first reason that is not nil and closes dying.            *)
KilledFirstOnly(t, reason) ==                                     \* mutant
  [t EXCEPT !.reason = IF t.reason = StillAlive THEN reason ELSE t.reason,
            !.dying  = TRUE]
Killed(t, reason) ==
  [t EXCEPT !.reason = IF t.reason \in {Nil, StillAlive} THEN reason ELSE t.reason,
            !.dying  = TRUE]

(* Done is Kill(nil) followed by closing dead, which wakes Wait.              *)
Done(t) == [Killed(t, Nil) EXCEPT !.dead = TRUE]

-----------------------------------------------------------------------------
(* Start, run by its caller.                                                  *)

StartCall(f) ==
  /\ start[f] = "idle"
  /\ start' = [start EXCEPT ![f] = IF limited THEN "slot" ELSE "send"]
  /\ UNCHANGED <<closed, slots, tomb, loopVars, fnVars>>

slotAvailable == slots > 0

TakeSlot(f) ==
  /\ start[f] = "slot"
  /\ slotAvailable
  /\ slots' = slots - 1
  /\ start' = [start EXCEPT ![f] = "send"]
  /\ UNCHANGED <<closed, tomb, loopVars, fnVars>>

(* Both selects of Start return ErrStopped when the tomb is dying.            *)
StartStopped(f) ==
  /\ start[f] \in {"slot", "send"}
  /\ tomb.dying
  /\ start' = [start EXCEPT ![f] = ErrStopped]
  /\ UNCHANGED <<closed, slots, tomb, loopVars, fnVars>>

(* ... and ErrClosed when close is closed.  A slot taken is not given back.   *)
StartClosed(f) ==
  /\ start[f] \in {"slot", "send"}
  /\ closed
  /\ start' = [start EXCEPT ![f] = ErrClosed]
  /\ UNCHANGED <<closed, slots, tomb, loopVars, fnVars>>

(* The send on start meets the loop's receive, which starts the goroutine.    *)
SendStart(f) ==
  /\ start[f] = "send"
  /\ loop = "select"
  /\ start' = [start EXCEPT ![f] = Nil]
  /\ nrunning' = nrunning + 1
  /\ fn' = [fn EXCEPT ![f] = "running"]
  /\ UNCHANGED <<closed, slots, tomb, loop, closeSeen, err, ret, endResult,
                 out, closedVals>>

-----------------------------------------------------------------------------
(* The goroutine that runs f.                                                 *)

FnReturn(f) ==
  /\ fn[f] = "running"
  /\ \E e \in Errors \cup {Nil} : out' = [out EXCEPT ![f] = e]
  /\ fn' = [fn EXCEPT ![f] = IF limited THEN "release" ELSE "deliver"]
  /\ UNCHANGED <<closed, slots, tomb, loopVars, start, closedVals>>

(* The send on limiter, which blocks while the channel is full.               *)
slotKept == slots                                                 \* mutant
slotFreed == slots + 1

Release(f) ==
  /\ fn[f] = "release"
  /\ slots < capacity
  /\ slots' = slotFreed
  /\ fn' = [fn EXCEPT ![f] = "deliver"]
  /\ UNCHANGED <<closed, tomb, loopVars, start, out, closedVals>>

(* The send on result meets the loop's receive.                               *)
DeliverSuccess(f) ==
  /\ fn[f] = "deliver"
  /\ loop = "select"
  /\ out[f] = Nil
  /\ ret' = [val |-> f, err |-> Nil]
  /\ loop' = "returned"
  /\ fn' = [fn EXCEPT ![f] = "delivered"]
  /\ UNCHANGED <<closed, slots, tomb, closeSeen, nrunning, err, endResult,
                 start, out, closedVals>>

DeliverError(f) ==
  /\ fn[f] = "deliver"
  /\ loop = "select"
  /\ out[f] # Nil
  /\ err' = combineErrors[<<err, out[f]>>]
  /\ nrunning' = nrunning - 1
  /\ IF closeSeen /\ nrunning' = 0
       THEN ret' = [val |-> Nil, err |-> err'] /\ loop' = "returned"
       ELSE UNCHANGED <<ret, loop>>
  /\ fn' = [fn EXCEPT ![f] = "delivered"]
  /\ UNCHANGED <<closed, slots, tomb, closeSeen, endResult,
                 start, out, closedVals>>

(* Nobody wants the result: a value is closed.                                *)
leaveOpen(f) == closedVals                                        \* mutant
closeValue(f) == IF out[f] = Nil THEN closedVals \cup {f} ELSE closedVals

Discard(f) ==
  /\ fn[f] = "deliver"
  /\ tomb.dying
  /\ closedVals' = closeValue(f)
  /\ fn' = [fn EXCEPT ![f] = "discarded"]
  /\ UNCHANGED <<closed, slots, tomb, loopVars, start, out>>

-----------------------------------------------------------------------------
(* The loop's other cases, and the goroutine that called it.                  *)

dyingAndDrained == tomb.dying /\ nrunning = 0                     \* mutant
dying == tomb.dying

LoopDying ==
  /\ loop = "select"
  /\ dying
  /\ ret' = [val |-> Nil, err |-> IF err = Nil THEN ErrStopped ELSE err]
  /\ loop' = "returned"
  /\ UNCHANGED <<closed, slots, tomb, closeSeen, nrunning, err, endResult,
                 start, fnVars>>

returnAtOnce == TRUE                                              \* mutant
returnLater == FALSE                                              \* mutant
nothingRuns == nrunning = 0

LoopClose ==
  /\ loop = "select"
  /\ closed /\ ~closeSeen
  /\ closeSeen' = TRUE
  /\ IF nothingRuns
       THEN ret' = [val |-> Nil, err |-> err] /\ loop' = "returned"
       ELSE UNCHANGED <<ret, loop>>
  /\ UNCHANGED <<closed, slots, tomb, nrunning, err, endResult,
                 start, fnVars>>

LoopSetResult ==
  /\ loop = "returned"
  /\ endResult' = ret.val
  /\ loop' = "kill"
  /\ UNCHANGED <<closed, slots, tomb, closeSeen, nrunning, err, ret,
                 start, fnVars>>

LoopKill ==
  /\ loop = "kill"
  /\ tomb' = Killed(tomb, ret.err)
  /\ loop' = "done"
  /\ UNCHANGED <<closed, slots, closeSeen, nrunning, err, ret, endResult,
                 start, fnVars>>

LoopDone ==
  /\ loop = "done"
  /\ tomb' = Done(tomb)
  /\ loop' = "exited"
  /\ UNCHANGED <<closed, slots, closeSeen, nrunning, err, ret, endResult,
                 start, fnVars>>

-----------------------------------------------------------------------------
(* The other methods.  Close holds closeMutex for its whole body.             *)

Close ==
  /\ ~closed
  /\ closed' = TRUE
  /\ UNCHANGED <<slots, tomb, loopVars, start, fnVars>>

killNil == Killed(tomb, Nil)

Kill ==
  /\ tomb' = killNil
  /\ UNCHANGED <<closed, slots, loopVars, start, fnVars>>

(* What Result, and Wait, return once dead is closed.                         *)
Result == [val |-> endResult, err |-> tomb.reason]

Next ==
  \/ \E f \in Fns : \/ StartCall(f) \/ TakeSlot(f)
                    \/ StartStopped(f) \/ StartClosed(f) \/ SendStart(f)
                    \/ FnReturn(f) \/ Release(f)
                    \/ DeliverSuccess(f) \/ DeliverError(f) \/ Discard(f)
  \/ LoopDying \/ LoopClose \/ LoopSetResult \/ LoopKill \/ LoopDone
  \/ Close \/ Kill

Spec == Init /\ [][Next]_vars

(* Every goroutine that can run does run.  Nothing makes a caller call Start, *)
(* Close or Kill, and nothing makes a started function return.                *)
LoopStep ==
  \/ \E f \in Fns : SendStart(f) \/ DeliverSuccess(f) \/ DeliverError(f)
  \/ LoopDying \/ LoopClose \/ LoopSetResult \/ LoopKill \/ LoopDone

StartStep(f) == TakeSlot(f) \/ StartStopped(f) \/ StartClosed(f) \/ SendStart(f)

DeliverStep(f) ==
  Release(f) \/ DeliverSuccess(f) \/ DeliverError(f) \/ Discard(f)

LiveSpec ==
  /\ Spec
  /\ WF_vars(LoopStep)
  /\ \A f \in Fns : WF_vars(StartStep(f)) /\ WF_vars(DeliverStep(f))

-----------------------------------------------------------------------------
(* The types of the variables.                                                *)
TypeOK ==
  /\ closed \in BOOLEAN /\ closeSeen \in BOOLEAN
  /\ slots \in Nat
  /\ tomb \in [reason : Errors \cup {Nil, StillAlive, ErrStopped},
               dying : BOOLEAN, dead : BOOLEAN]
  /\ loop \in {"select", "returned", "kill", "done", "exited"}
  /\ nrunning \in Int
  /\ err \in Errors \cup {Nil}
  /\ ret \in [val : Fns \cup {Nil}, err : Errors \cup {Nil, ErrStopped}]
  /\ endResult \in Fns \cup {Nil}
  /\ start \in [Fns -> {"idle", "slot", "send", Nil, ErrStopped, ErrClosed}]
  /\ fn \in [Fns -> {"none", "running", "release", "deliver",
                     "delivered", "discarded"}]
  /\ out \in [Fns -> Errors \cup {Nil, Pending}]
  /\ closedVals \subseteq Fns

running     == {f \in Fns : fn[f] = "running"}
outstanding == {f \in Fns : fn[f] \in {"running", "release", "deliver"}}
leaked      == {f \in Fns : start[f] = ErrClosed}

(* "If maxParallel is positive, it limits the number of concurrently running  *)
(* functions" (NewTry), and the goroutine that gives a slot back never blocks *)
(* on the limiter channel.                                                    *)
ParallelBounded ==
  limited => /\ Cardinality(running) <= MaxParallel
             /\ \A f \in Fns : fn[f] = "release" => slots < MaxParallel

(* No value leaks and no value is closed under the feet of its user: a value  *)
(* whose goroutine has ended is closed exactly if it is not the one the loop  *)
(* returned, and the value Result reports is never closed.                    *)
ValueOwned ==
  /\ \A f \in Fns : out[f] = Nil =>
       /\ fn[f] = "delivered" => ret.val = f /\ f \notin closedVals
       /\ fn[f] = "discarded" => ret.val # f /\ f \in closedVals
  /\ endResult # Nil => endResult \notin closedVals /\ endResult = ret.val

(* "The Try will terminate when all outstanding functions have completed (or  *)
(* earlier if one succeeds)" (Close): unless it was killed, the loop does not *)
(* give up while a function it started may still succeed.                     *)
CloseWaitsForAll ==
  (loop # "select" /\ ret.val = Nil /\ ~tomb.dying) => outstanding = {}

(* What Result reports once the Try is dead: the success if there is one,     *)
(* with no error; otherwise the last combined error, whatever Kill (with its  *)
(* nil reason) raced with.  With neither a success nor an error to report it  *)
(* is ErrStopped, or, of a Try that was closed, a nil value and a nil error   *)
(* (the doc of Result has ErrStopped for both).                               *)
ResultReported ==
  tomb.dead =>
    /\ Result.val # Nil => Result.err = Nil
    /\ Result.val = Nil /\ err # Nil => Result.err = err
    /\ Result.val = Nil /\ err = Nil =>
         Result.err = ErrStopped \/ (closed /\ Result.err = Nil)
    /\ Result.err = ErrStopped => Result.val = Nil /\ err = Nil
    /\ (\E f \in Fns : fn[f] = "delivered" /\ out[f] = Nil) => Result.val # Nil

(* The started functions heed the doc of Start and return.                    *)
FunctionsReturn == \A f \in Fns : (fn[f] = "running") ~> (fn[f] # "running")

(* A killed Try completes even if no started function ever returns ("the Try  *)
(* does not wait for all started functions to return before completing"), a   *)
(* closed one if its functions return.  Every call of Start returns if the    *)
(* functions do: slots come back, and a caller waiting for a slot or for the  *)
(* loop learns that the Try is finishing.                                     *)
TryCompletes ==
  /\ tomb.dying ~> tomb.dead
  /\ FunctionsReturn => (closed ~> tomb.dead)
  /\ FunctionsReturn =>
       \A f \in Fns : (start[f] \in {"slot", "send"})
                        ~> (start[f] \in {Nil, ErrStopped, ErrClosed})
=============================================================================
