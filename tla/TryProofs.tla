------------------------------ MODULE TryProofs ------------------------------
(* What Try guarantees for any functions, limit, errors and combineErrors.    *)
EXTENDS Try, FiniteSetTheorems, TLAPS

(* The types, which need that a function delivers only after it returned.     *)
TypeInv ==
  /\ TypeOK
  /\ \A f \in Fns : fn[f] \in {"none", "running"} \/ out[f] # Pending

(* A goroutine exists only for a function whose Start returned nil; the value *)
(* the loop returned was delivered, the values closed were discarded.         *)
FnInv ==
  \A f \in Fns :
    /\ fn[f] # "none" => start[f] = Nil
    /\ ret.val = f => fn[f] = "delivered" /\ out[f] = Nil
    /\ f \in closedVals => fn[f] = "discarded" /\ out[f] = Nil

(* What loop() has returned, and how far its caller has passed that on.       *)
LoopInv ==
  /\ loop = "select" => ret.val = Nil
  /\ endResult = IF loop \in {"select", "returned"} THEN Nil ELSE ret.val
  /\ tomb.dead => loop = "exited"
  /\ IF loop \in {"done", "exited"} THEN tomb.reason = ret.err
                                    ELSE tomb.reason \in {StillAlive, Nil}
  /\ ret.val # Nil => ret.err = Nil
  /\ (loop # "select" /\ ret.val = Nil) =>
       ret.err = err \/ (ret.err = ErrStopped /\ err = Nil)
  /\ (loop # "select" /\ ret.val = Nil /\ ret.err = Nil) => closed
  /\ closeSeen => closed

ResultInv == TypeInv /\ FnInv /\ LoopInv /\ ValueOwned

(* Before anything kills the Try, the loop's counter counts the functions     *)
(* that it started and has not heard of.                                      *)
CountInv ==
  /\ loop = "select" /\ ~tomb.dying => nrunning = Cardinality(outstanding)
  /\ CloseWaitsForAll

(* The callers and goroutines that hold a slot.  A Start that finds the Try   *)
(* closed or stopped keeps its slot for ever, hence no equality below.        *)
slotUsers == {f \in Fns : start[f] = "send" \/ fn[f] \in {"running", "release"}}

SlotInv == limited => slots + Cardinality(slotUsers) <= MaxParallel

-----------------------------------------------------------------------------
LEMMA TypeStep == TypeInv /\ [Next]_vars => TypeInv'
<1> SUFFICES ASSUME TypeInv, [Next]_vars PROVE TypeInv'
  OBVIOUS
<1> USE MaxParallelAssumption, ErrorsAssumption
    DEF TypeInv, TypeOK, loopVars, fnVars, Nil, StillAlive, ErrStopped, ErrClosed, Pending
<1>1. ASSUME NEW f \in Fns, StartCall(f) PROVE TypeInv'
  BY <1>1 DEF StartCall
<1>2. ASSUME NEW f \in Fns, TakeSlot(f) PROVE TypeInv'
  BY <1>2 DEF TakeSlot, slotAvailable
<1>3. ASSUME NEW f \in Fns, StartStopped(f) PROVE TypeInv'
  BY <1>3 DEF StartStopped
<1>4. ASSUME NEW f \in Fns, StartClosed(f) PROVE TypeInv'
  BY <1>4 DEF StartClosed
<1>5. ASSUME NEW f \in Fns, SendStart(f) PROVE TypeInv'
  BY <1>5 DEF SendStart
<1>6. ASSUME NEW f \in Fns, FnReturn(f) PROVE TypeInv'
  BY <1>6 DEF FnReturn
<1>7. ASSUME NEW f \in Fns, Release(f) PROVE TypeInv'
  BY <1>7 DEF Release, slotFreed
<1>8. ASSUME NEW f \in Fns, DeliverSuccess(f) PROVE TypeInv'
  BY <1>8 DEF DeliverSuccess
<1>9. ASSUME NEW f \in Fns, DeliverError(f) PROVE TypeInv'
  <2>1. out[f] \in Errors /\ err \in Errors \cup {Nil}
    BY <1>9 DEF DeliverError
  <2>2. <<err, out[f]>> \in (Errors \cup {Nil}) \X Errors
    BY <2>1
  <2>3. combineErrors[<<err, out[f]>>] \in Errors \cup {Nil}
    BY <2>2, CombineErrorsAssumption
  <2>4. err' \in Errors \cup {Nil} /\ nrunning' \in Int
    BY <1>9, <2>3 DEF DeliverError
  <2>5. /\ ret' \in [val : Fns \cup {Nil}, err : Errors \cup {Nil, ErrStopped}]
        /\ loop' \in {"select", "returned", "kill", "done", "exited"}
    BY <1>9, <2>4 DEF DeliverError
  <2>6. /\ fn' = [fn EXCEPT ![f] = "delivered"]
        /\ UNCHANGED <<closed, slots, tomb, closeSeen, endResult,
                       start, out, closedVals>>
        /\ fn[f] = "deliver"
    BY <1>9 DEF DeliverError
  <2> QED
    BY <2>4, <2>5, <2>6
<1>10. ASSUME NEW f \in Fns, Discard(f) PROVE TypeInv'
  BY <1>10 DEF Discard, closeValue
<1>11. CASE LoopDying
  BY <1>11 DEF LoopDying
<1>12. CASE LoopClose
  BY <1>12 DEF LoopClose
<1>13. CASE LoopSetResult
  BY <1>13 DEF LoopSetResult
<1>14. CASE LoopKill
  BY <1>14 DEF LoopKill, Killed
<1>15. CASE LoopDone
  BY <1>15 DEF LoopDone, Done, Killed
<1>16. CASE Close
  BY <1>16 DEF Close
<1>17. CASE Kill
  <2>1. tomb' \in [reason : Errors \cup {Nil, StillAlive, ErrStopped},
                   dying : BOOLEAN, dead : BOOLEAN]
    BY <1>17 DEF Kill, killNil, Killed
  <2>2. UNCHANGED <<closed, slots, loopVars, start, fnVars>>
    BY <1>17 DEF Kill
  <2> QED
    BY <2>1, <2>2
<1>18. CASE UNCHANGED vars
  BY <1>18 DEF vars
<1> QED
  BY <1>1, <1>2, <1>3, <1>4, <1>5, <1>6, <1>7, <1>8, <1>9,
     <1>10, <1>11, <1>12, <1>13, <1>14, <1>15, <1>16, <1>17, <1>18 DEF Next

LEMMA TypeInit == Init => TypeInv
<1> SUFFICES ASSUME Init PROVE TypeInv
  OBVIOUS
<1> USE DEF Init, Nil, StillAlive, ErrStopped, ErrClosed, Pending
<1>1. slots \in Nat
  BY MaxParallelAssumption DEF limited, capacity
<1>2. tomb \in [reason : Errors \cup {Nil, StillAlive, ErrStopped},
                dying : BOOLEAN, dead : BOOLEAN]
  OBVIOUS
<1>3. ret \in [val : Fns \cup {Nil}, err : Errors \cup {Nil, ErrStopped}]
  OBVIOUS
<1>4. closed \in BOOLEAN /\ closeSeen \in BOOLEAN
  OBVIOUS
<1>5. /\ loop = "select" /\ nrunning = 0 /\ err = Nil /\ endResult = Nil
      /\ start = [f \in Fns |-> "idle"] /\ fn = [f \in Fns |-> "none"]
      /\ out = [f \in Fns |-> Pending] /\ closedVals = {}
  OBVIOUS
<1> HIDE DEF Init
<1> QED
  BY <1>1, <1>2, <1>3, <1>4, <1>5 DEF TypeInv, TypeOK

(* The variables have their types.                                            *)
THEOREM TryTypeCorrect == Spec => []TypeOK
<1>1. TypeInv => TypeOK
  BY DEF TypeInv
<1> QED
  BY <1>1, TypeInit, TypeStep, PTL DEF Spec

-----------------------------------------------------------------------------
(* The result: who owns a value, and what Result reports.                     *)
LEMMA FnStep == TypeInv /\ TypeInv' /\ FnInv /\ LoopInv /\ [Next]_vars => FnInv'
<1> SUFFICES ASSUME TypeInv, TypeInv', FnInv, LoopInv, [Next]_vars PROVE FnInv'
  OBVIOUS
<1> USE FnsAssumption
    DEF TypeInv, TypeOK, FnInv, loopVars, fnVars, Nil, Pending, ErrStopped, ErrClosed
<1>1. ASSUME NEW f \in Fns, StartCall(f) PROVE FnInv'
  BY <1>1 DEF StartCall
<1>2. ASSUME NEW f \in Fns, TakeSlot(f) PROVE FnInv'
  BY <1>2 DEF TakeSlot
<1>3. ASSUME NEW f \in Fns, StartStopped(f) PROVE FnInv'
  BY <1>3 DEF StartStopped
<1>4. ASSUME NEW f \in Fns, StartClosed(f) PROVE FnInv'
  BY <1>4 DEF StartClosed
<1>5. ASSUME NEW f \in Fns, SendStart(f) PROVE FnInv'
  BY <1>5 DEF SendStart
<1>6. ASSUME NEW f \in Fns, FnReturn(f) PROVE FnInv'
  BY <1>6 DEF FnReturn
<1>7. ASSUME NEW f \in Fns, Release(f) PROVE FnInv'
  BY <1>7 DEF Release
<1>8. ASSUME NEW f \in Fns, DeliverSuccess(f) PROVE FnInv'
  BY <1>8 DEF DeliverSuccess, LoopInv
<1>9. ASSUME NEW f \in Fns, DeliverError(f) PROVE FnInv'
  BY <1>9 DEF DeliverError, LoopInv
<1>10. ASSUME NEW f \in Fns, Discard(f) PROVE FnInv'
  BY <1>10 DEF Discard, closeValue
<1>11. CASE LoopDying
  BY <1>11 DEF LoopDying
<1>12. CASE LoopClose
  BY <1>12 DEF LoopClose
<1>13. CASE LoopSetResult
  BY <1>13 DEF LoopSetResult
<1>14. CASE LoopKill
  BY <1>14 DEF LoopKill
<1>15. CASE LoopDone
  BY <1>15 DEF LoopDone
<1>16. CASE Close
  BY <1>16 DEF Close
<1>17. CASE Kill
  BY <1>17 DEF Kill
<1>18. CASE UNCHANGED vars
  BY <1>18 DEF vars
<1> QED
  BY <1>1, <1>2, <1>3, <1>4, <1>5, <1>6, <1>7, <1>8, <1>9,
     <1>10, <1>11, <1>12, <1>13, <1>14, <1>15, <1>16, <1>17, <1>18 DEF Next

LEMMA LoopInvStep == TypeInv /\ TypeInv' /\ LoopInv /\ [Next]_vars => LoopInv'
<1> SUFFICES ASSUME TypeInv, TypeInv', LoopInv, [Next]_vars PROVE LoopInv'
  OBVIOUS
<1> USE FnsAssumption, ErrorsAssumption
    DEF TypeInv, TypeOK, LoopInv, loopVars, fnVars, Nil, StillAlive, ErrStopped
<1>1. ASSUME NEW f \in Fns, StartCall(f) PROVE LoopInv'
  BY <1>1 DEF StartCall
<1>2. ASSUME NEW f \in Fns, TakeSlot(f) PROVE LoopInv'
  BY <1>2 DEF TakeSlot
<1>3. ASSUME NEW f \in Fns, StartStopped(f) PROVE LoopInv'
  BY <1>3 DEF StartStopped
<1>4. ASSUME NEW f \in Fns, StartClosed(f) PROVE LoopInv'
  BY <1>4 DEF StartClosed
<1>5. ASSUME NEW f \in Fns, SendStart(f) PROVE LoopInv'
  BY <1>5 DEF SendStart
<1>6. ASSUME NEW f \in Fns, FnReturn(f) PROVE LoopInv'
  BY <1>6 DEF FnReturn
<1>7. ASSUME NEW f \in Fns, Release(f) PROVE LoopInv'
  BY <1>7 DEF Release
<1>8. ASSUME NEW f \in Fns, DeliverSuccess(f) PROVE LoopInv'
  BY <1>8 DEF DeliverSuccess
<1>9. ASSUME NEW f \in Fns, DeliverError(f) PROVE LoopInv'
  BY <1>9 DEF DeliverError
<1>10. ASSUME NEW f \in Fns, Discard(f) PROVE LoopInv'
  BY <1>10 DEF Discard
<1>11. CASE LoopDying
  BY <1>11 DEF LoopDying
<1>12. CASE LoopClose
  BY <1>12 DEF LoopClose
<1>13. CASE LoopSetResult
  BY <1>13 DEF LoopSetResult
<1>14. CASE LoopKill
  BY <1>14 DEF LoopKill, Killed
<1>15. CASE LoopDone
  BY <1>15 DEF LoopDone, Done, Killed
<1>16. CASE Close
  BY <1>16 DEF Close
<1>17. CASE Kill
  BY <1>17 DEF Kill, killNil, Killed
<1>18. CASE UNCHANGED vars
  BY <1>18 DEF vars
<1> QED
  BY <1>1, <1>2, <1>3, <1>4, <1>5, <1>6, <1>7, <1>8, <1>9,
     <1>10, <1>11, <1>12, <1>13, <1>14, <1>15, <1>16, <1>17, <1>18 DEF Next

LEMMA OwnedStep ==
  TypeInv /\ TypeInv' /\ FnInv /\ LoopInv /\ LoopInv' /\ ValueOwned /\ [Next]_vars
    => ValueOwned'
<1> SUFFICES ASSUME TypeInv, TypeInv', FnInv, LoopInv, LoopInv', ValueOwned,
                    [Next]_vars
             PROVE  ValueOwned'
  OBVIOUS
<1> USE FnsAssumption DEF TypeInv, TypeOK, FnInv, ValueOwned, loopVars, fnVars, Nil
<1>1. ASSUME NEW f \in Fns, StartCall(f) PROVE ValueOwned'
  BY <1>1 DEF StartCall
<1>2. ASSUME NEW f \in Fns, TakeSlot(f) PROVE ValueOwned'
  BY <1>2 DEF TakeSlot
<1>3. ASSUME NEW f \in Fns, StartStopped(f) PROVE ValueOwned'
  BY <1>3 DEF StartStopped
<1>4. ASSUME NEW f \in Fns, StartClosed(f) PROVE ValueOwned'
  BY <1>4 DEF StartClosed
<1>5. ASSUME NEW f \in Fns, SendStart(f) PROVE ValueOwned'
  BY <1>5 DEF SendStart
<1>6. ASSUME NEW f \in Fns, FnReturn(f) PROVE ValueOwned'
  BY <1>6 DEF FnReturn
<1>7. ASSUME NEW f \in Fns, Release(f) PROVE ValueOwned'
  BY <1>7 DEF Release
<1>8. ASSUME NEW f \in Fns, DeliverSuccess(f) PROVE ValueOwned'
  BY <1>8 DEF DeliverSuccess, LoopInv
<1>9. ASSUME NEW f \in Fns, DeliverError(f) PROVE ValueOwned'
  BY <1>9 DEF DeliverError, LoopInv
<1>10. ASSUME NEW f \in Fns, Discard(f) PROVE ValueOwned'
  BY <1>10 DEF Discard, closeValue, LoopInv
<1>11. CASE LoopDying
  BY <1>11 DEF LoopDying, LoopInv
<1>12. CASE LoopClose
  BY <1>12 DEF LoopClose, LoopInv
<1>13. CASE LoopSetResult
  BY <1>13 DEF LoopSetResult, LoopInv
<1>14. CASE LoopKill
  BY <1>14 DEF LoopKill
<1>15. CASE LoopDone
  BY <1>15 DEF LoopDone
<1>16. CASE Close
  BY <1>16 DEF Close
<1>17. CASE Kill
  BY <1>17 DEF Kill
<1>18. CASE UNCHANGED vars
  BY <1>18 DEF vars
<1> QED
  BY <1>1, <1>2, <1>3, <1>4, <1>5, <1>6, <1>7, <1>8, <1>9,
     <1>10, <1>11, <1>12, <1>13, <1>14, <1>15, <1>16, <1>17, <1>18 DEF Next

LEMMA ResultInit == Init => FnInv /\ LoopInv /\ ValueOwned
<1> SUFFICES ASSUME Init PROVE FnInv /\ LoopInv /\ ValueOwned
  OBVIOUS
<1>1. ret.val = Nil /\ endResult = Nil /\ loop = "select" /\ tomb.reason = StillAlive
  BY DEF Init
<1>2. ~tomb.dead /\ ~closeSeen
  BY DEF Init
<1>3. /\ fn = [f \in Fns |-> "none"] /\ out = [f \in Fns |-> Pending]
      /\ closedVals = {}
  BY DEF Init
<1> QED
  BY <1>1, <1>2, <1>3, FnsAssumption DEF FnInv, LoopInv, ValueOwned, Nil, Pending

LEMMA ResultInvariant == Spec => []ResultInv
<1>1. Init => ResultInv
  BY TypeInit, ResultInit DEF ResultInv
<1>2. ResultInv /\ [Next]_vars => ResultInv'
  BY TypeStep, FnStep, LoopInvStep, OwnedStep DEF ResultInv
<1> QED
  BY <1>1, <1>2, PTL DEF Spec

(* Each value is reported by Result or closed, exactly one of the two, and    *)
(* the value reported is never closed (runFunc, loop).                        *)
THEOREM ValueOwnedHolds == Spec => []ValueOwned
<1>1. ResultInv => ValueOwned
  BY DEF ResultInv
<1> QED
  BY <1>1, ResultInvariant, PTL

(* A dead Try reports its success, or its last combined error; if there is    *)
(* neither, ErrStopped or, after Close, nothing.  Whatever Kill raced with    *)
(* (Result, NewTry).                                                          *)
THEOREM ResultReportedHolds == Spec => []ResultReported
<1>1. ResultInv => ResultReported
  <2> SUFFICES ASSUME ResultInv, tomb.dead PROVE ResultReported
    BY DEF ResultReported
  <2>1. /\ loop = "exited" /\ endResult = ret.val /\ tomb.reason = ret.err
        /\ ret.val # Nil => ret.err = Nil
        /\ ret.val = Nil => ret.err = err \/ (ret.err = ErrStopped /\ err = Nil)
        /\ ret.val = Nil /\ ret.err = Nil => closed
    BY DEF ResultInv, LoopInv
  <2>2. err # ErrStopped /\ ErrStopped # Nil
    BY ErrorsAssumption DEF ResultInv, TypeInv, TypeOK, ErrStopped, Nil
  <2>3. \A f \in Fns : fn[f] = "delivered" /\ out[f] = Nil => ret.val # Nil
    BY FnsAssumption DEF ResultInv, ValueOwned
  <2> QED
    BY <2>1, <2>2, <2>3 DEF ResultReported, Result
<1> QED
  BY <1>1, ResultInvariant, PTL

-----------------------------------------------------------------------------
(* Counting.                                                                  *)
LEMMA SubsetFinite == ASSUME NEW S \in SUBSET Fns
                      PROVE  IsFiniteSet(S) /\ Cardinality(S) \in Nat
BY FnsAssumption, FS_Subset, FS_CardinalityType

LEMMA CountStep == ResultInv /\ CountInv /\ [Next]_vars => CountInv'
<1> SUFFICES ASSUME ResultInv, CountInv, [Next]_vars PROVE CountInv'
  OBVIOUS
<1>0. outstanding \in SUBSET Fns
  BY DEF outstanding
<1> USE DEF ResultInv, TypeInv, TypeOK, CountInv, CloseWaitsForAll, loopVars, fnVars
<1>1. ASSUME NEW f \in Fns, StartCall(f) PROVE CountInv'
  BY <1>1 DEF StartCall, outstanding
<1>2. ASSUME NEW f \in Fns, TakeSlot(f) PROVE CountInv'
  BY <1>2 DEF TakeSlot, outstanding
<1>3. ASSUME NEW f \in Fns, StartStopped(f) PROVE CountInv'
  BY <1>3 DEF StartStopped, outstanding
<1>4. ASSUME NEW f \in Fns, StartClosed(f) PROVE CountInv'
  BY <1>4 DEF StartClosed, outstanding
<1>5. ASSUME NEW f \in Fns, SendStart(f) PROVE CountInv'
  <2>1. f \notin outstanding /\ outstanding' = outstanding \cup {f}
    BY <1>5 DEF SendStart, outstanding, FnInv, Nil
  <2>2. Cardinality(outstanding') = Cardinality(outstanding) + 1
    BY <1>0, <2>1, SubsetFinite, FS_AddElement
  <2> QED
    BY <1>5, <2>2 DEF SendStart
<1>6. ASSUME NEW f \in Fns, FnReturn(f) PROVE CountInv'
  <2>1. outstanding' = outstanding
    BY <1>6 DEF FnReturn, outstanding
  <2> QED
    BY <1>6, <2>1 DEF FnReturn
<1>7. ASSUME NEW f \in Fns, Release(f) PROVE CountInv'
  <2>1. outstanding' = outstanding
    BY <1>7 DEF Release, outstanding
  <2> QED
    BY <1>7, <2>1 DEF Release
<1>8. ASSUME NEW f \in Fns, DeliverSuccess(f) PROVE CountInv'
  BY <1>8, FnsAssumption DEF DeliverSuccess, Nil
<1>9. ASSUME NEW f \in Fns, DeliverError(f) PROVE CountInv'
  <2>1. f \in outstanding /\ outstanding' = outstanding \ {f}
    BY <1>9 DEF DeliverError, outstanding
  <2>2. Cardinality(outstanding') = Cardinality(outstanding) - 1
    BY <1>0, <2>1, SubsetFinite, FS_RemoveElement
  <2>3. Cardinality(outstanding') = 0 => outstanding' = {}
    BY <1>0, <2>1, SubsetFinite, FS_EmptySet
  <2> QED
    BY <1>9, <2>2, <2>3 DEF DeliverError
<1>10. ASSUME NEW f \in Fns, Discard(f) PROVE CountInv'
  BY <1>10 DEF Discard
<1>11. CASE LoopDying
  BY <1>11 DEF LoopDying, dying
<1>12. CASE LoopClose
  <2>1. Cardinality(outstanding) = 0 => outstanding = {}
    BY <1>0, SubsetFinite, FS_EmptySet
  <2>2. outstanding' = outstanding
    BY <1>12 DEF LoopClose, outstanding
  <2> QED
    BY <1>12, <2>1, <2>2 DEF LoopClose, nothingRuns
<1>13. CASE LoopSetResult
  BY <1>13 DEF LoopSetResult, outstanding
<1>14. CASE LoopKill
  BY <1>14 DEF LoopKill, Killed
<1>15. CASE LoopDone
  BY <1>15 DEF LoopDone, Done, Killed
<1>16. CASE Close
  BY <1>16 DEF Close, outstanding
<1>17. CASE Kill
  BY <1>17 DEF Kill, killNil, Killed
<1>18. CASE UNCHANGED vars
  BY <1>18 DEF vars, outstanding
<1> QED
  BY <1>1, <1>2, <1>3, <1>4, <1>5, <1>6, <1>7, <1>8, <1>9,
     <1>10, <1>11, <1>12, <1>13, <1>14, <1>15, <1>16, <1>17, <1>18 DEF Next

(* A closed Try that is not killed waits for every function it started, or    *)
(* for a success (loop, Close).                                               *)
THEOREM CloseWaitsForAllHolds == Spec => []CloseWaitsForAll
<1>1. Init => CountInv
  <2> SUFFICES ASSUME Init PROVE CountInv
    OBVIOUS
  <2>1. outstanding = {} /\ nrunning = 0 /\ loop = "select"
    BY DEF Init, outstanding
  <2> QED
    BY <2>1, FS_EmptySet DEF CountInv, CloseWaitsForAll
<1>2. CountInv => CloseWaitsForAll
  BY DEF CountInv
<1> QED
  BY <1>1, <1>2, CountStep, ResultInvariant, PTL DEF Spec

LEMMA SlotStep == ResultInv /\ SlotInv /\ [Next]_vars => SlotInv'
<1> SUFFICES ASSUME limited, ResultInv, SlotInv, [Next]_vars
             PROVE  slots' + Cardinality(slotUsers') <= MaxParallel
  BY DEF SlotInv, limited
<1>0. /\ slotUsers \in SUBSET Fns /\ Cardinality(slotUsers) \in Nat
      /\ slots + Cardinality(slotUsers) <= MaxParallel /\ slots \in Nat
  BY SubsetFinite DEF slotUsers, SlotInv, ResultInv, TypeInv, TypeOK
(* A step that takes nothing and gives nothing back, except perhaps the slot  *)
(* of a caller of Start that is turned away.                                  *)
<1>a. ASSUME UNCHANGED slots, slotUsers' \subseteq slotUsers
      PROVE  slots' + Cardinality(slotUsers') <= MaxParallel
  <2>1. /\ Cardinality(slotUsers') <= Cardinality(slotUsers)
        /\ Cardinality(slotUsers') \in Nat
    BY <1>0, <1>a, SubsetFinite, FS_Subset
  <2> QED
    BY <1>0, <1>a, <2>1, MaxParallelAssumption
<1> USE DEF ResultInv, TypeInv, TypeOK, loopVars, fnVars
<1>1. ASSUME NEW f \in Fns, StartCall(f) PROVE slots' + Cardinality(slotUsers') <= MaxParallel
  <2>1. slotUsers' = slotUsers
    BY <1>1 DEF StartCall, slotUsers
  <2> QED
    BY <1>1, <1>a, <2>1 DEF StartCall
<1>2. ASSUME NEW f \in Fns, TakeSlot(f) PROVE slots' + Cardinality(slotUsers') <= MaxParallel
  <2>1. f \notin slotUsers /\ slotUsers' = slotUsers \cup {f}
    BY <1>2 DEF TakeSlot, slotUsers, FnInv, Nil
  <2>2. Cardinality(slotUsers') = Cardinality(slotUsers) + 1
    BY <1>0, <2>1, SubsetFinite, FS_AddElement
  <2> QED
    BY <1>2, <1>0, <2>2, MaxParallelAssumption DEF TakeSlot
<1>3. ASSUME NEW f \in Fns, StartStopped(f) PROVE slots' + Cardinality(slotUsers') <= MaxParallel
  <2>1. slotUsers' \subseteq slotUsers
    BY <1>3 DEF StartStopped, slotUsers, ErrStopped
  <2> QED
    BY <1>3, <1>a, <2>1 DEF StartStopped
<1>4. ASSUME NEW f \in Fns, StartClosed(f) PROVE slots' + Cardinality(slotUsers') <= MaxParallel
  <2>1. slotUsers' \subseteq slotUsers
    BY <1>4 DEF StartClosed, slotUsers, ErrClosed
  <2> QED
    BY <1>4, <1>a, <2>1 DEF StartClosed
<1>5. ASSUME NEW f \in Fns, SendStart(f) PROVE slots' + Cardinality(slotUsers') <= MaxParallel
  BY <1>5, <1>a DEF SendStart, slotUsers
<1>6. ASSUME NEW f \in Fns, FnReturn(f) PROVE slots' + Cardinality(slotUsers') <= MaxParallel
  BY <1>6, <1>a DEF FnReturn, slotUsers
<1>7. ASSUME NEW f \in Fns, Release(f) PROVE slots' + Cardinality(slotUsers') <= MaxParallel
  <2>1. f \in slotUsers /\ slotUsers' = slotUsers \ {f}
    BY <1>7 DEF Release, slotUsers, FnInv, Nil
  <2>2. Cardinality(slotUsers') = Cardinality(slotUsers) - 1
    BY <1>0, <2>1, SubsetFinite, FS_RemoveElement
  <2> QED
    BY <1>7, <1>0, <2>2, MaxParallelAssumption DEF Release, slotFreed
<1>8. ASSUME NEW f \in Fns, DeliverSuccess(f) PROVE slots' + Cardinality(slotUsers') <= MaxParallel
  BY <1>8, <1>a DEF DeliverSuccess, slotUsers
<1>9. ASSUME NEW f \in Fns, DeliverError(f) PROVE slots' + Cardinality(slotUsers') <= MaxParallel
  BY <1>9, <1>a DEF DeliverError, slotUsers
<1>10. ASSUME NEW f \in Fns, Discard(f) PROVE slots' + Cardinality(slotUsers') <= MaxParallel
  BY <1>10, <1>a DEF Discard, slotUsers
<1>11. CASE LoopDying
  BY <1>11, <1>a DEF LoopDying, slotUsers
<1>12. CASE LoopClose
  BY <1>12, <1>a DEF LoopClose, slotUsers
<1>13. CASE LoopSetResult
  BY <1>13, <1>a DEF LoopSetResult, slotUsers
<1>14. CASE LoopKill
  BY <1>14, <1>a DEF LoopKill, slotUsers
<1>15. CASE LoopDone
  BY <1>15, <1>a DEF LoopDone, slotUsers
<1>16. CASE Close
  BY <1>16, <1>a DEF Close, slotUsers
<1>17. CASE Kill
  BY <1>17, <1>a DEF Kill, slotUsers
<1>18. CASE UNCHANGED vars
  BY <1>18, <1>a DEF vars, slotUsers
<1> QED
  BY <1>1, <1>2, <1>3, <1>4, <1>5, <1>6, <1>7, <1>8, <1>9,
     <1>10, <1>11, <1>12, <1>13, <1>14, <1>15, <1>16, <1>17, <1>18 DEF Next

(* "If maxParallel is positive, it limits the number of concurrently running  *)
(* functions" (NewTry), and giving a slot back never blocks (runFunc).        *)
THEOREM ParallelBoundedHolds == Spec => []ParallelBounded
<1>1. Init => SlotInv
  <2> SUFFICES ASSUME Init PROVE SlotInv
    OBVIOUS
  <2>1. slotUsers = {} /\ (limited => slots = MaxParallel)
    BY DEF Init, slotUsers, capacity
  <2> QED
    BY <2>1, FS_EmptySet, MaxParallelAssumption DEF SlotInv
<1>2. ResultInv /\ SlotInv => ParallelBounded
  <2> SUFFICES ASSUME ResultInv, SlotInv, limited
               PROVE  /\ Cardinality(running) <= MaxParallel
                      /\ \A f \in Fns : fn[f] = "release" => slots < MaxParallel
    BY DEF ParallelBounded
  <2>1. /\ slotUsers \in SUBSET Fns /\ IsFiniteSet(slotUsers)
        /\ Cardinality(slotUsers) \in Nat
        /\ slots + Cardinality(slotUsers) <= MaxParallel /\ slots \in Nat
    BY SubsetFinite DEF slotUsers, SlotInv, ResultInv, TypeInv, TypeOK
  <2>2. Cardinality(running) <= Cardinality(slotUsers) /\ Cardinality(running) \in Nat
    <3>1. running \subseteq slotUsers
      BY DEF running, slotUsers
    <3> QED
      BY <2>1, <3>1, FS_Subset, SubsetFinite
  <2>3. ASSUME NEW f \in Fns, fn[f] = "release" PROVE Cardinality(slotUsers) # 0
    BY <2>1, <2>3, FS_EmptySet DEF slotUsers
  <2> QED
    BY <2>1, <2>2, <2>3, MaxParallelAssumption
<1> QED
  BY <1>1, <1>2, SlotStep, ResultInvariant, PTL DEF Spec
=============================================================================
