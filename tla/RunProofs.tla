------------------------------ MODULE RunProofs ------------------------------
(* What parallel.Run guarantees for any functions and any limit: it is a work *)
(* pool.                                                                      *)
EXTENDS Run, FiniteSetTheorems, TLAPS

(* The goroutines that exist or existed, and those Wait has not heard from.   *)
started == {g \in Fns : runner[g] # "none"}
unheard == {g \in Fns : runner[g] \notin {"none", "exited"}}

(* The runner of Do(f) is started by the call itself, once.                   *)
StartInv == \A f \in Fns : do[f] \in {"idle", "try", "lock"} => runner[f] = "none"

(* r.running counts the runners, so Wait counts those it has to hear from.    *)
CountInv ==
  /\ IsFiniteSet(started) /\ Cardinality(started) = running
  /\ IF wait = "none" THEN unheard = started ELSE Cardinality(unheard) = left
  /\ wait = "returned" => left = 0

(* Nobody is queued twice on the channel work, or queued without being parked *)
(* there.                                                                     *)
QueueInv ==
  /\ \A i \in 1..Len(sendq) : do[sendq[i]] = "blocked"
  /\ \A i, j \in 1..Len(sendq) : sendq[i] = sendq[j] => i = j
  /\ \A i \in 1..Len(recvq) : runner[recvq[i]] = "parked"
  /\ \A i, j \in 1..Len(recvq) : recvq[i] = recvq[j] => i = j

(* A function whose Do has returned is with exactly one runner, or has run.   *)
TaskInv ==
  /\ \A g \in Fns : runner[g] = "run" =>
       task[g] \in Fns /\ do[task[g]] = "returned" /\ task[g] \notin ran
  /\ \A g, h \in Fns : runner[g] = "run" /\ runner[h] = "run" /\ task[g] = task[h] => g = h
  /\ \A f \in ran : do[f] = "returned"
  /\ \A f \in Fns : do[f] = "returned" /\ f \notin ran =>
       \E g \in Fns : runner[g] = "run" /\ task[g] = f

(* Wait has the error of a failed function, or a runner still brings it.      *)
ErrInv ==
  /\ waitErrs \subseteq failed
  /\ \A g \in Fns : errs[g] \subseteq failed
  /\ \A f \in failed : f \in waitErrs \/ \E g \in unheard : f \in errs[g]

(* Once Wait has been called, no call of Do is in progress.                   *)
ClosedInv ==
  /\ closed <=> wait # "none"
  /\ closed =>
       sendq = <<>> /\ recvq = <<>> /\ \A f \in Fns : do[f] \in {"idle", "returned"}

RunInv == TypeOK /\ StartInv /\ CountInv /\ QueueInv /\ TaskInv /\ ErrInv /\ ClosedInv

-----------------------------------------------------------------------------

LEMMA StartStep == RunInv /\ [Next]_vars => StartInv'
<1> SUFFICES ASSUME RunInv, [Next]_vars PROVE StartInv'
  OBVIOUS
<1> USE MaxAssumption, FnsAssumption DEF RunInv, TypeOK, StartInv, QueueInv
<1>1. ASSUME NEW f \in Fns, DoCall(f) PROVE StartInv'
  BY <1>1 DEF DoCall, waitVars
<1>2. ASSUME NEW f \in Fns, DoTry(f) PROVE StartInv'
  BY <1>2 DEF DoTry, HandOver, waitVars
<1>3. ASSUME NEW f \in Fns, DoLock(f) PROVE StartInv'
  BY <1>3 DEF DoLock, mayStart, waitVars
<1>4. ASSUME NEW f \in Fns, DoSend(f) PROVE StartInv'
  BY <1>4 DEF DoSend, HandOver, waitVars
<1>5. ASSUME NEW g \in Fns, Receive(g) PROVE StartInv'
  BY <1>5 DEF Receive, waitVars
<1>6. ASSUME NEW g \in Fns, Park(g) PROVE StartInv'
  BY <1>6 DEF Park, waitVars
<1>7. ASSUME NEW g \in Fns, RangeEnd(g) PROVE StartInv'
  BY <1>7 DEF RangeEnd, waitVars
<1>8. ASSUME NEW g \in Fns, Complete(g) PROVE StartInv'
  BY <1>8 DEF Complete, again, waitVars
<1>9. CASE WaitClose
  BY <1>9 DEF WaitClose, toCollect
<1>10. ASSUME NEW g \in Fns, WaitCollect(g) PROVE StartInv'
  BY <1>10 DEF WaitCollect
<1>11. CASE WaitReturn
  BY <1>11 DEF WaitReturn
<1>12. CASE UNCHANGED vars
  BY <1>12 DEF vars
<1> QED
  BY <1>1, <1>2, <1>3, <1>4, <1>5, <1>6, <1>7, <1>8, <1>9, <1>10, <1>11,
     <1>12 DEF Next, DoStep, RunnerStep, WaitStep

(* The runner a function is handed to was parked, and leaves the queue.       *)
LEMMA HandOverQueue ==
  ASSUME RunInv, NEW f \in Fns, HandOver(f)
  PROVE  /\ Head(recvq) \in Fns /\ runner[Head(recvq)] = "parked"
         /\ recvq' \in Seq(Fns)
         /\ \A i \in 1..Len(recvq') : runner'[recvq'[i]] = "parked"
         /\ \A i, j \in 1..Len(recvq') : recvq'[i] = recvq'[j] => i = j
<1> USE DEF RunInv, TypeOK, QueueInv
<1>1. recvq # <<>> /\ recvq' = Tail(recvq)
      /\ runner' = [runner EXCEPT ![Head(recvq)] = "run"]
  BY DEF HandOver
<1>2. Len(recvq) >= 1 /\ Head(recvq) = recvq[1] /\ recvq[1] \in Fns
  BY <1>1
<1>3. /\ recvq' \in Seq(Fns) /\ Len(recvq') = Len(recvq) - 1
      /\ \A i \in 1..Len(recvq') : recvq'[i] = recvq[i + 1] /\ recvq[i + 1] \in Fns
  BY <1>1, <1>2
<1>4. \A i \in 1..Len(recvq') : i + 1 \in 1..Len(recvq) /\ i + 1 # 1
  BY <1>3
<1>5. \A i \in 1..Len(recvq') : recvq'[i] # Head(recvq)
  BY <1>2, <1>3, <1>4
<1>6. \A i \in 1..Len(recvq') : runner'[recvq'[i]] = "parked"
  BY <1>1, <1>3, <1>4, <1>5
<1>7. \A i, j \in 1..Len(recvq') : recvq'[i] = recvq'[j] => i = j
  <2> SUFFICES ASSUME NEW i \in 1..Len(recvq'), NEW j \in 1..Len(recvq'), recvq'[i] = recvq'[j]
               PROVE  i = j
    OBVIOUS
  <2>1. recvq[i + 1] = recvq[j + 1] /\ i + 1 \in 1..Len(recvq) /\ j + 1 \in 1..Len(recvq)
    BY <1>3, <1>4
  <2>2. i + 1 = j + 1
    BY <2>1
  <2> QED
    BY <2>2
<1> QED
  BY <1>2, <1>3, <1>6, <1>7

LEMMA QueueStep == RunInv /\ [Next]_vars => QueueInv'
<1> SUFFICES ASSUME RunInv, [Next]_vars PROVE QueueInv'
  OBVIOUS
<1> USE MaxAssumption, FnsAssumption DEF RunInv, TypeOK, QueueInv, ClosedInv, StartInv
<1>1. ASSUME NEW f \in Fns, DoCall(f) PROVE QueueInv'
  BY <1>1 DEF DoCall, waitVars
<1>2. ASSUME NEW f \in Fns, DoTry(f) PROVE QueueInv'
  <2>1. CASE HandOver(f)
    BY <1>2, <2>1, HandOverQueue DEF DoTry, HandOver, waitVars
  <2>2. CASE recvq = <<>>
    BY <1>2, <2>2 DEF DoTry, HandOver, waitVars
  <2> QED
    BY <1>2, <2>1, <2>2 DEF DoTry
<1>3. ASSUME NEW f \in Fns, DoLock(f) PROVE QueueInv'
  <2>1. runner[f] = "none" /\ \A g \in Fns : runner[g] = "parked" => runner'[g] = "parked"
    BY <1>3 DEF DoLock, mayStart
  <2> QED
    BY <1>3, <2>1 DEF DoLock
<1>4. ASSUME NEW f \in Fns, DoSend(f) PROVE QueueInv'
  <2>1. CASE HandOver(f)
    BY <1>4, <2>1, HandOverQueue DEF DoSend, HandOver, waitVars
  <2>2. CASE recvq = <<>>
    <3>1. sendq' = Append(sendq, f) /\ do' = [do EXCEPT ![f] = "blocked"] /\ do[f] = "send"
          /\ UNCHANGED <<recvq, runner>>
      BY <1>4, <2>2 DEF DoSend, HandOver
    <3>2. /\ Len(sendq') = Len(sendq) + 1 /\ sendq'[Len(sendq) + 1] = f
          /\ \A i \in 1..Len(sendq) : sendq'[i] = sendq[i] /\ sendq[i] \in Fns /\ sendq[i] # f
      BY <3>1
    <3>3. \A i \in 1..Len(sendq') : do'[sendq'[i]] = "blocked"
      BY <3>1, <3>2
    <3>4. \A i, j \in 1..Len(sendq') : sendq'[i] = sendq'[j] => i = j
      BY <3>1, <3>2
    <3> QED
      BY <3>1, <3>3, <3>4
  <2> QED
    BY <1>4, <2>1, <2>2 DEF DoSend
<1>5. ASSUME NEW g \in Fns, Receive(g) PROVE QueueInv'
  BY <1>5 DEF Receive, waitVars
<1>6. ASSUME NEW g \in Fns, Park(g) PROVE QueueInv'
  BY <1>6 DEF Park, waitVars
<1>7. ASSUME NEW g \in Fns, RangeEnd(g) PROVE QueueInv'
  BY <1>7 DEF RangeEnd, waitVars
<1>8. ASSUME NEW g \in Fns, Complete(g) PROVE QueueInv'
  BY <1>8 DEF Complete, again, waitVars
<1>9. CASE WaitClose
  BY <1>9 DEF WaitClose, toCollect
<1>10. ASSUME NEW g \in Fns, WaitCollect(g) PROVE QueueInv'
  BY <1>10 DEF WaitCollect
<1>11. CASE WaitReturn
  BY <1>11 DEF WaitReturn
<1>12. CASE UNCHANGED vars
  BY <1>12 DEF vars
<1> QED
  BY <1>1, <1>2, <1>3, <1>4, <1>5, <1>6, <1>7, <1>8, <1>9, <1>10, <1>11,
     <1>12 DEF Next, DoStep, RunnerStep, WaitStep

LEMMA TaskStep == RunInv /\ [Next]_vars => TaskInv'
<1> SUFFICES ASSUME RunInv, [Next]_vars PROVE TaskInv'
  OBVIOUS
<1> USE MaxAssumption, FnsAssumption DEF RunInv, TypeOK, QueueInv, TaskInv, ClosedInv, StartInv, Nobody
<1>1. ASSUME NEW f \in Fns, DoCall(f) PROVE TaskInv'
  BY <1>1 DEF DoCall, waitVars
<1>2. ASSUME NEW f \in Fns, DoTry(f) PROVE TaskInv'
  <2>1. CASE HandOver(f)
    BY <1>2, <2>1, HandOverQueue DEF DoTry, HandOver, waitVars
  <2>2. CASE recvq = <<>>
    BY <1>2, <2>2 DEF DoTry, HandOver, waitVars
  <2> QED
    BY <1>2, <2>1, <2>2 DEF DoTry
<1>3. ASSUME NEW f \in Fns, DoLock(f) PROVE TaskInv'
  <2>1. UNCHANGED <<task, ran>> /\ do[f] = "lock" /\ runner[f] # "run"
    BY <1>3 DEF DoLock
  <2>2. \A g \in Fns : do'[g] = "returned" <=> do[g] = "returned"
    BY <1>3 DEF DoLock
  <2>3. \A g \in Fns : runner'[g] = "run" <=> runner[g] = "run"
    BY <1>3, <2>1 DEF DoLock
  <2> QED
    BY <2>1, <2>2, <2>3
<1>4. ASSUME NEW f \in Fns, DoSend(f) PROVE TaskInv'
  <2>1. CASE HandOver(f)
    BY <1>4, <2>1, HandOverQueue DEF DoSend, HandOver, waitVars
  <2>2. CASE recvq = <<>>
    <3>1. UNCHANGED <<task, ran, runner>>
      BY <1>4, <2>2 DEF DoSend, HandOver
    <3>2. \A g \in Fns : do'[g] = "returned" <=> do[g] = "returned"
      BY <1>4, <2>2 DEF DoSend, HandOver
    <3> QED
      BY <3>1, <3>2
  <2> QED
    BY <1>4, <2>1, <2>2 DEF DoSend
<1>5. ASSUME NEW g \in Fns, Receive(g) PROVE TaskInv'
  BY <1>5 DEF Receive, waitVars
<1>6. ASSUME NEW g \in Fns, Park(g) PROVE TaskInv'
  BY <1>6 DEF Park, waitVars
<1>7. ASSUME NEW g \in Fns, RangeEnd(g) PROVE TaskInv'
  BY <1>7 DEF RangeEnd, waitVars
<1>8. ASSUME NEW g \in Fns, Complete(g) PROVE TaskInv'
  BY <1>8 DEF Complete, again, waitVars
<1>9. CASE WaitClose
  BY <1>9 DEF WaitClose, toCollect
<1>10. ASSUME NEW g \in Fns, WaitCollect(g) PROVE TaskInv'
  BY <1>10 DEF WaitCollect
<1>11. CASE WaitReturn
  BY <1>11 DEF WaitReturn
<1>12. CASE UNCHANGED vars
  BY <1>12 DEF vars
<1> QED
  BY <1>1, <1>2, <1>3, <1>4, <1>5, <1>6, <1>7, <1>8, <1>9, <1>10, <1>11,
     <1>12 DEF Next, DoStep, RunnerStep, WaitStep

LEMMA ErrStep == RunInv /\ [Next]_vars => ErrInv'
<1> SUFFICES ASSUME RunInv, [Next]_vars PROVE ErrInv'
  OBVIOUS
<1> USE MaxAssumption, FnsAssumption DEF RunInv, TypeOK, ErrInv, TaskInv, QueueInv, StartInv, unheard, Nobody
<1>1. ASSUME NEW f \in Fns, DoCall(f) PROVE ErrInv'
  BY <1>1 DEF DoCall, waitVars
<1>2. ASSUME NEW f \in Fns, DoTry(f) PROVE ErrInv'
  <2>1. CASE HandOver(f)
    BY <1>2, <2>1, HandOverQueue DEF DoTry, HandOver, waitVars
  <2>2. CASE recvq = <<>>
    BY <1>2, <2>2 DEF DoTry, HandOver, waitVars
  <2> QED
    BY <1>2, <2>1, <2>2 DEF DoTry
<1>3. ASSUME NEW f \in Fns, DoLock(f) PROVE ErrInv'
  BY <1>3 DEF DoLock, mayStart, waitVars
<1>4. ASSUME NEW f \in Fns, DoSend(f) PROVE ErrInv'
  <2>1. CASE HandOver(f)
    BY <1>4, <2>1, HandOverQueue DEF DoSend, HandOver, waitVars
  <2>2. CASE recvq = <<>>
    BY <1>4, <2>2 DEF DoSend, HandOver, waitVars
  <2> QED
    BY <1>4, <2>1, <2>2 DEF DoSend
<1>5. ASSUME NEW g \in Fns, Receive(g) PROVE ErrInv'
  BY <1>5 DEF Receive, waitVars
<1>6. ASSUME NEW g \in Fns, Park(g) PROVE ErrInv'
  BY <1>6 DEF Park, waitVars
<1>7. ASSUME NEW g \in Fns, RangeEnd(g) PROVE ErrInv'
  BY <1>7 DEF RangeEnd, waitVars
<1>8. ASSUME NEW g \in Fns, Complete(g) PROVE ErrInv'
  BY <1>8 DEF Complete, again, waitVars
<1>9. CASE WaitClose
  BY <1>9 DEF WaitClose, toCollect
<1>10. ASSUME NEW g \in Fns, WaitCollect(g) PROVE ErrInv'
  BY <1>10 DEF WaitCollect
<1>11. CASE WaitReturn
  BY <1>11 DEF WaitReturn
<1>12. CASE UNCHANGED vars
  BY <1>12 DEF vars
<1> QED
  BY <1>1, <1>2, <1>3, <1>4, <1>5, <1>6, <1>7, <1>8, <1>9, <1>10, <1>11,
     <1>12 DEF Next, DoStep, RunnerStep, WaitStep

LEMMA ClosedStep == RunInv /\ [Next]_vars => ClosedInv'
<1> SUFFICES ASSUME RunInv, [Next]_vars PROVE ClosedInv'
  OBVIOUS
<1> USE MaxAssumption, FnsAssumption DEF RunInv, TypeOK, ClosedInv, QueueInv
<1>1. ASSUME NEW f \in Fns, DoCall(f) PROVE ClosedInv'
  BY <1>1 DEF DoCall, waitVars
<1>2. ASSUME NEW f \in Fns, DoTry(f) PROVE ClosedInv'
  <2>1. CASE HandOver(f)
    BY <1>2, <2>1, HandOverQueue DEF DoTry, HandOver, waitVars
  <2>2. CASE recvq = <<>>
    BY <1>2, <2>2 DEF DoTry, HandOver, waitVars
  <2> QED
    BY <1>2, <2>1, <2>2 DEF DoTry
<1>3. ASSUME NEW f \in Fns, DoLock(f) PROVE ClosedInv'
  BY <1>3 DEF DoLock, mayStart, waitVars
<1>4. ASSUME NEW f \in Fns, DoSend(f) PROVE ClosedInv'
  <2>1. CASE HandOver(f)
    BY <1>4, <2>1, HandOverQueue DEF DoSend, HandOver, waitVars
  <2>2. CASE recvq = <<>>
    BY <1>4, <2>2 DEF DoSend, HandOver, waitVars
  <2> QED
    BY <1>4, <2>1, <2>2 DEF DoSend
<1>5. ASSUME NEW g \in Fns, Receive(g) PROVE ClosedInv'
  BY <1>5 DEF Receive, waitVars
<1>6. ASSUME NEW g \in Fns, Park(g) PROVE ClosedInv'
  BY <1>6 DEF Park, waitVars
<1>7. ASSUME NEW g \in Fns, RangeEnd(g) PROVE ClosedInv'
  BY <1>7 DEF RangeEnd, waitVars
<1>8. ASSUME NEW g \in Fns, Complete(g) PROVE ClosedInv'
  BY <1>8 DEF Complete, again, waitVars
<1>9. CASE WaitClose
  BY <1>9 DEF WaitClose, toCollect
<1>10. ASSUME NEW g \in Fns, WaitCollect(g) PROVE ClosedInv'
  BY <1>10 DEF WaitCollect
<1>11. CASE WaitReturn
  BY <1>11 DEF WaitReturn
<1>12. CASE UNCHANGED vars
  BY <1>12 DEF vars
<1> QED
  BY <1>1, <1>2, <1>3, <1>4, <1>5, <1>6, <1>7, <1>8, <1>9, <1>10, <1>11,
     <1>12 DEF Next, DoStep, RunnerStep, WaitStep

(* Only DoLock starts a runner and only WaitCollect sees one off.             *)
LEMMA RunnersKept ==
  ASSUME RunInv,
         \/ \E f \in Fns : DoCall(f) \/ DoTry(f) \/ DoSend(f) \/ (DoLock(f) /\ ~mayStart)
         \/ \E g \in Fns : RunnerStep(g)
         \/ WaitClose \/ WaitReturn \/ UNCHANGED vars
  PROVE  started' = started /\ unheard' = unheard /\ running' = running
<1> USE DEF RunInv, TypeOK, StartInv, QueueInv, started, unheard
<1>1. ASSUME NEW f \in Fns, DoTry(f) \/ DoSend(f)
      PROVE  started' = started /\ unheard' = unheard /\ running' = running
  <2>1. CASE HandOver(f)
    BY <1>1, <2>1, HandOverQueue DEF DoTry, DoSend, HandOver
  <2>2. CASE ~HandOver(f)
    BY <1>1, <2>2 DEF DoTry, DoSend
  <2> QED
    BY <2>1, <2>2
<1>2. ASSUME NEW f \in Fns, DoCall(f) \/ (DoLock(f) /\ ~mayStart)
      PROVE  started' = started /\ unheard' = unheard /\ running' = running
  BY <1>2 DEF DoCall, DoLock
<1>3. ASSUME NEW g \in Fns, RunnerStep(g)
      PROVE  started' = started /\ unheard' = unheard /\ running' = running
  BY <1>3 DEF RunnerStep, Receive, Park, RangeEnd, Complete, again
<1>4. CASE WaitClose
  BY <1>4 DEF WaitClose
<1>5. CASE WaitReturn \/ UNCHANGED vars
  BY <1>5 DEF WaitReturn, vars
<1> QED
  BY <1>1, <1>2, <1>3, <1>4, <1>5

LEMMA CountStep == RunInv /\ [Next]_vars => TypeOK' /\ CountInv'
<1> SUFFICES ASSUME RunInv, [Next]_vars PROVE TypeOK' /\ CountInv'
  OBVIOUS
<1> USE MaxAssumption
<1>1. IsFiniteSet(started) /\ Cardinality(started) = running
      /\ IsFiniteSet(unheard) /\ Cardinality(unheard) \in Nat
  <2>1. unheard \in SUBSET started
    BY DEF started, unheard
  <2> QED
    BY <2>1, FS_Subset, FS_CardinalityType DEF RunInv, CountInv
<1>2. CountInv'
  <2>1. CASE \/ \E f \in Fns : DoCall(f) \/ DoTry(f) \/ DoSend(f) \/ (DoLock(f) /\ ~mayStart)
             \/ \E g \in Fns : RunnerStep(g)
             \/ UNCHANGED vars
    <3>1. UNCHANGED <<wait, left>>
      BY <2>1 DEF DoCall, DoTry, DoSend, DoLock, RunnerStep, Receive, Park, RangeEnd,
                  Complete, waitVars, vars
    <3>2. started' = started /\ unheard' = unheard /\ running' = running
      BY <2>1, RunnersKept
    <3> QED
      BY <3>1, <3>2 DEF RunInv, CountInv
  <2>2. ASSUME NEW f \in Fns, DoLock(f), mayStart
        PROVE  CountInv'
    <3>1. wait = "none" /\ wait' = "none" /\ f \notin started
      BY <2>2 DEF DoLock, waitVars, RunInv, TypeOK, ClosedInv, StartInv, started
    <3>2. started' = started \cup {f} /\ unheard' = unheard \cup {f} /\ running' = running + 1
      BY <2>2 DEF DoLock, RunInv, TypeOK, started, unheard
    <3> QED
      BY <1>1, <3>1, <3>2, FS_AddElement DEF RunInv, CountInv
  <2>3. CASE WaitClose
    <3>1. started' = started /\ unheard' = unheard /\ running' = running
      BY <2>3, RunnersKept
    <3> QED
      BY <2>3, <3>1 DEF WaitClose, toCollect, RunInv, CountInv
  <2>4. ASSUME NEW g \in Fns, WaitCollect(g)
        PROVE  CountInv'
    <3>1. started' = started /\ unheard' = unheard \ {g} /\ g \in unheard /\ running' = running
      BY <2>4 DEF WaitCollect, RunInv, TypeOK, started, unheard
    <3>2. Cardinality(unheard') = Cardinality(unheard) - 1
      BY <1>1, <3>1, FS_RemoveElement
    <3> QED
      BY <2>4, <3>1, <3>2 DEF WaitCollect, RunInv, CountInv
  <2>5. CASE WaitReturn
    <3>1. started' = started /\ unheard' = unheard /\ running' = running
      BY <2>5, RunnersKept
    <3> QED
      BY <2>5, <3>1 DEF WaitReturn, RunInv, CountInv
  <2>6. ASSUME NEW f \in Fns, DoCall(f) \/ DoStep(f)
        PROVE  CountInv'
    BY <2>1, <2>2, <2>6 DEF DoStep
  <2> QED
    BY <2>1, <2>3, <2>4, <2>5, <2>6 DEF Next, WaitStep
<1>3. TypeOK'
  <2> USE DEF RunInv, TypeOK
  <2>1. ASSUME NEW f \in Fns, DoCall(f) \/ DoLock(f)
        PROVE  TypeOK'
    BY <2>1 DEF DoCall, DoLock, mayStart, waitVars
  <2>2. ASSUME NEW f \in Fns, DoTry(f) \/ DoSend(f)
        PROVE  TypeOK'
    <3>1. CASE HandOver(f)
      BY <2>2, <3>1, HandOverQueue DEF DoTry, DoSend, HandOver, waitVars
    <3>2. CASE ~HandOver(f)
      <4>1. sendq' \in Seq(Fns)
        <5>1. sendq' = sendq \/ sendq' = Append(sendq, f)
          BY <2>2, <3>2 DEF DoTry, DoSend
        <5>2. sendq \in Seq(Fns)
          OBVIOUS
        <5> HIDE DEF RunInv, TypeOK
        <5> QED
          BY <5>1, <5>2
      <4>2. do' \in [Fns -> {"idle", "try", "lock", "send", "blocked", "returned"}]
        BY <2>2, <3>2 DEF DoTry, DoSend
      <4> QED
        BY <2>2, <3>2, <4>1, <4>2 DEF DoTry, DoSend, waitVars
    <3> QED
      BY <3>1, <3>2
  <2>3. ASSUME NEW g \in Fns, RunnerStep(g)
        PROVE  TypeOK'
    <3>1. CASE Receive(g)
      <4>1. Head(sendq) \in Fns /\ sendq' \in Seq(Fns)
        BY <3>1 DEF Receive
      <4> QED
        BY <3>1, <4>1 DEF Receive, waitVars
    <3>2. CASE Park(g)
      <4>1. recvq' \in Seq(Fns)
        BY <3>2 DEF Park
      <4> QED
        BY <3>2, <4>1 DEF Park, waitVars
    <3>3. CASE RangeEnd(g)
      BY <3>3 DEF RangeEnd, waitVars
    <3>4. CASE Complete(g)
      BY <3>4 DEF Complete, again, waitVars, TaskInv
    <3> QED
      BY <2>3, <3>1, <3>2, <3>3, <3>4 DEF RunnerStep
  <2>4. ASSUME NEW g \in Fns, WaitCollect(g)
        PROVE  TypeOK'
    BY <2>4 DEF WaitCollect
  <2>5. CASE WaitClose
    <3>1. runner' \in [Fns -> {"none", "receive", "parked", "run", "report", "exited"}]
      BY <2>5 DEF WaitClose
    <3>2. recvq' \in Seq(Fns) /\ closed' \in BOOLEAN
      BY <2>5 DEF WaitClose
    <3> QED
      BY <2>5, <3>1, <3>2 DEF WaitClose, toCollect
  <2>6. CASE WaitReturn \/ UNCHANGED vars
    BY <2>6 DEF WaitReturn, vars
  <2> QED
    BY <2>1, <2>2, <2>3, <2>4, <2>5, <2>6 DEF Next, DoStep, WaitStep
<1> QED
  BY <1>2, <1>3

LEMMA RunInvariant == Spec => []RunInv
<1>1. Init => RunInv
  <2> SUFFICES ASSUME Init PROVE RunInv
    OBVIOUS
  <2> USE MaxAssumption DEF Init
  <2>1. started = {} /\ unheard = {}
    BY DEF started, unheard
  <2>2. TypeOK /\ StartInv /\ QueueInv
    <3>1. sendq \in Seq(Fns) /\ recvq \in Seq(Fns) /\ Len(sendq) = 0 /\ Len(recvq) = 0
      OBVIOUS
    <3>2. TypeOK
      <4>1. do \in [Fns -> {"idle", "try", "lock", "send", "blocked", "returned"}]
            /\ runner \in [Fns -> {"none", "receive", "parked", "run", "report", "exited"}]
        OBVIOUS
      <4>2. task \in [Fns -> Fns \cup {Nobody}] /\ errs \in [Fns -> SUBSET Fns]
        OBVIOUS
      <4>3. running \in 0..Max /\ left \in 0..Max
        OBVIOUS
      <4>4. closed \in BOOLEAN /\ wait \in {"none", "collect", "returned"}
            /\ waitErrs \subseteq Fns /\ ran \subseteq Fns /\ failed \subseteq Fns
        OBVIOUS
      <4> HIDE DEF Init
      <4> QED
        BY <3>1, <4>1, <4>2, <4>3, <4>4 DEF TypeOK
    <3>3. StartInv
      BY DEF StartInv
    <3>4. QueueInv
      BY <3>1 DEF QueueInv
    <3> QED
      BY <3>2, <3>3, <3>4
  <2>3. TaskInv /\ ErrInv /\ ClosedInv
    BY DEF TaskInv, ErrInv, ClosedInv
  <2>4. CountInv
    BY <2>1, FS_EmptySet DEF CountInv
  <2> QED
    BY <2>2, <2>3, <2>4 DEF RunInv
<1>2. RunInv /\ [Next]_vars => RunInv'
  BY StartStep, QueueStep, TaskStep, ErrStep, ClosedStep, CountStep DEF RunInv
<1> QED
  BY <1>1, <1>2, PTL DEF Spec

(* The variables of parallel.Run have their types: r.running never exceeds    *)
(* the maximum.                                                               *)
THEOREM RunTypeCorrect == Spec => []TypeOK
BY RunInvariant, PTL DEF RunInv

-----------------------------------------------------------------------------
(* A runner that is about to run a function leaves room for it.               *)
LEMMA RoomForOne ==
  ASSUME RunInv, NEW g \in Fns, runner[g] \in {"receive", "parked"}
  PROVE  Cardinality(executing) < Max
<1> DEFINE busy == {h \in Fns : runner[h] = "run"}
<1>1. busy \in SUBSET (started \ {g}) /\ g \in started
  BY DEF started
<1>2. IsFiniteSet(started \ {g}) /\ Cardinality(started \ {g}) = running - 1
  BY <1>1, FS_RemoveElement DEF RunInv, CountInv
<1>3. IsFiniteSet(busy) /\ Cardinality(busy) <= running - 1
  BY <1>1, <1>2, FS_Subset
<1>4. Cardinality({task[h] : h \in busy}) <= Cardinality(busy)
      /\ IsFiniteSet({task[h] : h \in busy})
  <2> DEFINE image == {task[h] : h \in busy}
             given == [h \in busy |-> task[h]]
  <2> HIDE DEF busy
  <2>1. given \in Surjection(busy, image)
    BY DEF Surjection
  <2> QED
    BY <1>3, <2>1, FS_Surjection
<1>5. Cardinality({task[h] : h \in busy}) \in Nat /\ Cardinality(busy) \in Nat
  BY <1>3, <1>4, FS_CardinalityType
<1>6. executing = {task[h] : h \in busy}
  BY DEF executing
<1> HIDE DEF busy
<1> QED
  BY <1>3, <1>4, <1>5, <1>6, MaxAssumption DEF RunInv, TypeOK

(* The variables of the pool, as Run shows them.                              *)
returned == {f \in Fns : do[f] = "returned"}
reported == IF wait = "returned" THEN {waitErrs} ELSE {}
poolVars == <<returned, executing, ran, failed, reported>>

(* A function that changes hands begins.                                      *)
LEMMA BeginStep ==
  ASSUME RunInv, NEW f \in Fns, NEW g \in Fns,
         runner[g] \in {"receive", "parked"}, do[f] # "returned", wait # "returned",
         runner' = [runner EXCEPT ![g] = "run"],
         task' = [task EXCEPT ![g] = f],
         do' = [do EXCEPT ![f] = "returned"],
         UNCHANGED <<wait, waitErrs, ran, failed>>
  PROVE  Pool!Begin(f)
<1>1. Pool!Cardinality(executing) < Max
  BY RoomForOne DEF Pool!Cardinality, Cardinality
<1>2. executing' = executing \cup {f}
  BY DEF executing, RunInv, TypeOK
<1>3. returned' = returned \cup {f} /\ f \notin returned
  BY DEF returned, RunInv, TypeOK
<1>4. reported = {} /\ reported' = reported
  BY DEF reported
<1>5. UNCHANGED <<ran, failed, reported>>
  BY <1>4
<1> QED
  BY <1>1, <1>2, <1>3, <1>4, <1>5 DEF Pool!Begin, returned, reported

(* A function that returns finishes.                                          *)
LEMMA FinishStep ==
  ASSUME RunInv, NEW g \in Fns, Complete(g)
  PROVE  Pool!Finish(task[g]) /\ task[g] \in Fns
<1> USE DEF RunInv, TypeOK
<1>1. task[g] \in executing /\ task[g] \in Fns
  BY DEF Complete, executing, TaskInv
<1>2. executing' = executing \ {task[g]}
  BY DEF Complete, again, executing, TaskInv
<1>3. returned' = returned /\ reported' = reported
  BY DEF Complete, returned, reported, waitVars
<1>4. ran' = ran \cup {task[g]} /\ failed' \in {failed, failed \cup {task[g]}}
  BY DEF Complete
<1> QED
  BY <1>1, <1>2, <1>3, <1>4 DEF Pool!Finish, returned, reported

(* When Wait has heard from every runner, every function has completed and    *)
(* its error has been collected.                                              *)
LEMMA WaitReturnStep ==
  ASSUME RunInv, WaitReturn
  PROVE  Pool!WaitReturn
<1>1. wait = "collect" /\ left = 0 /\ wait' = "returned"
      /\ UNCHANGED <<do, runner, task, waitErrs, ran, failed>>
  BY DEF WaitReturn
<1>2. unheard = {}
  <2>1. unheard \in SUBSET started
    BY DEF started, unheard
  <2>2. IsFiniteSet(unheard) /\ Cardinality(unheard) = 0
    BY <1>1, <2>1, FS_Subset DEF RunInv, CountInv
  <2> QED
    BY <2>2, FS_EmptySet
<1>3. returned = ran
  BY <1>2 DEF returned, unheard, RunInv, TypeOK, TaskInv
<1>4. waitErrs = failed
  BY <1>2 DEF RunInv, ErrInv
<1>5. returned' = returned /\ executing' = executing
  BY <1>1 DEF returned, executing
<1>6. reported = {} /\ reported' = {failed}
  BY <1>1, <1>4 DEF reported
<1> QED
  BY <1>1, <1>3, <1>5, <1>6 DEF Pool!WaitReturn, returned, reported

(* Every step of Run is a step of the pool, or none.                          *)
LEMMA PoolStep == RunInv /\ [Next]_vars => Pool!Next \/ UNCHANGED poolVars
<1> SUFFICES ASSUME RunInv, [Next]_vars PROVE Pool!Next \/ UNCHANGED poolVars
  OBVIOUS
<1> USE DEF Pool!Next
<1>1. ASSUME NEW f \in Fns, DoTry(f) \/ DoSend(f), HandOver(f)
      PROVE  Pool!Begin(f)
  <2>1. Head(recvq) \in Fns /\ runner[Head(recvq)] = "parked"
    BY <1>1, HandOverQueue
  <2>2. do[f] # "returned" /\ wait # "returned"
    BY <1>1 DEF DoTry, DoSend, RunInv, ClosedInv
  <2>3. UNCHANGED <<wait, waitErrs, ran, failed>>
    BY <1>1 DEF DoTry, DoSend, waitVars
  <2> QED
    BY <1>1, <2>1, <2>2, <2>3, BeginStep DEF HandOver
<1>2. ASSUME NEW f \in Fns, DoCall(f) \/ DoStep(f), ~HandOver(f)
      PROVE  UNCHANGED poolVars
  <2>1. UNCHANGED <<wait, waitErrs, ran, failed, task>>
    BY <1>2 DEF DoCall, DoStep, DoTry, DoLock, DoSend, waitVars
  <2>2. returned' = returned
    BY <1>2 DEF DoCall, DoStep, DoTry, DoLock, DoSend, returned, RunInv, TypeOK
  <2>3. \A h \in Fns : runner'[h] = "run" <=> runner[h] = "run"
    BY <1>2 DEF DoCall, DoStep, DoTry, DoLock, DoSend, RunInv, TypeOK, StartInv
  <2> QED
    BY <2>1, <2>2, <2>3 DEF poolVars, executing, reported
<1>3. ASSUME NEW g \in Fns, Receive(g)
      PROVE  \E f \in Fns : Pool!Begin(f)
  <2>1. PICK f \in Fns : f = Head(sendq) /\ do[f] = "blocked"
    BY <1>3 DEF Receive, RunInv, TypeOK, QueueInv
  <2>2. wait # "returned"
    BY <1>3 DEF Receive, RunInv, ClosedInv
  <2>3. Pool!Begin(f)
    BY <1>3, <2>1, <2>2, BeginStep DEF Receive, waitVars
  <2> QED
    BY <2>3
<1>4. ASSUME NEW g \in Fns, Park(g) \/ RangeEnd(g) \/ WaitCollect(g)
      PROVE  UNCHANGED poolVars
  <2>1. \A h \in Fns : runner'[h] = "run" <=> runner[h] = "run"
    BY <1>4 DEF Park, RangeEnd, WaitCollect, RunInv, TypeOK
  <2>2. UNCHANGED <<do, task, ran, failed>> /\ reported' = reported
    BY <1>4 DEF Park, RangeEnd, WaitCollect, reported, waitVars
  <2> QED
    BY <2>1, <2>2 DEF poolVars, executing, returned
<1>5. CASE WaitClose
  <2>1. \A h \in Fns : runner'[h] = "run" <=> runner[h] = "run"
    BY <1>5 DEF WaitClose, RunInv, TypeOK
  <2>2. UNCHANGED <<do, task, ran, failed>> /\ reported' = reported
    BY <1>5 DEF WaitClose, reported
  <2> QED
    BY <2>1, <2>2 DEF poolVars, executing, returned
<1>6. CASE UNCHANGED vars
  BY <1>6 DEF vars, poolVars, returned, executing, reported
<1>7. ASSUME NEW f \in Fns, DoCall(f) \/ DoStep(f)
      PROVE  Pool!Next \/ UNCHANGED poolVars
  <2>1. CASE HandOver(f) /\ (DoTry(f) \/ DoSend(f))
    BY <1>1, <2>1
  <2>2. CASE HandOver(f) /\ ~(DoTry(f) \/ DoSend(f))
    BY <1>7, <2>2 DEF DoCall, DoStep, DoLock, HandOver, RunInv, TypeOK
  <2> QED
    BY <1>2, <1>7, <2>1, <2>2
<1>8. ASSUME NEW g \in Fns, Complete(g)
      PROVE  Pool!Next
  BY <1>8, FinishStep
<1>9. CASE WaitReturn
  BY <1>9, WaitReturnStep
<1> QED
  BY <1>3, <1>4, <1>5, <1>6, <1>7, <1>8, <1>9 DEF Next, RunnerStep, WaitStep

(* parallel.Run implements the work pool, for any functions and any maximum:  *)
(* each function passed to Do runs once, no more than Max run at a time, and  *)
(* Wait returns the errors of exactly those that failed, after the last.      *)
THEOREM WorkPoolImplemented == Spec => Implements
<1>1. Init => Pool!Init
  BY DEF Init, Pool!Init, executing
<1>2. RunInv /\ [Next]_vars => [Pool!Next]_(Pool!vars)
  BY PoolStep DEF poolVars, returned, reported, Pool!vars
<1> QED
  BY <1>1, <1>2, RunInvariant, PTL DEF Spec, Implements, Pool!Spec
=============================================================================
