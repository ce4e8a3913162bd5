---------------------------- MODULE FSLockProofs -----------------------------
(* What FSLock guarantees for any number of processes, faults and crashes.    *)
EXTENDS FSLock, TLAPS

Places == {"idle", "crashed"} \cup Locking \cup Unlocking \cup Breaking

(* Directories stay directories when their files are written or removed.      *)
LEMMA DirectoryTyped ==
  /\ Absent \in Directory /\ EmptyDir \in Directory
  /\ \A d \in Directory, h \in Procs \cup {None}, m \in BOOLEAN :
       /\ [d EXCEPT !.held = h] \in Directory
       /\ [d EXCEPT !.message = m] \in Directory
  /\ \A d \in Directory, n \in Files : Without(d, n) \in Directory
BY DEF Directory, Absent, EmptyDir, Without, None

(* The two ways in which an operation can end, and the return of a lock call, *)
(* keep the types.                                                            *)
LEMMA FaultTyped == TypeOK /\ (Fault \/ NoFault) => faults' \in 0..MaxFaults
BY BoundsAssumption DEF TypeOK, Fault, NoFault

LEMMA GotoTyped ==
  ASSUME TypeOK, NEW p, NEW l \in Places, Goto(p, l)
  PROVE  pc' \in [Procs -> Places]
BY DEF TypeOK, Goto, Places

CallTyped ==
  /\ temp \in [Procs -> Directory]
  /\ mode \in [Procs -> Modes \cup {None}]
  /\ message \in [Procs -> BOOLEAN]
  /\ expired \in [Procs -> BOOLEAN]

LEMMA LockReturnTyped ==
  ASSUME TypeOK, NEW p, LockReturn(p)
  PROVE  CallTyped' /\ pc' \in [Procs -> Places]
<1>1. pc' \in [Procs -> Places]
  BY GotoTyped DEF LockReturn, Places
<1>2. temp' \in [Procs -> Directory]
  BY DirectoryTyped DEF TypeOK, LockReturn
<1>3. mode' \in [Procs -> Modes \cup {None}]
  BY DEF TypeOK, LockReturn
<1>4. message' \in [Procs -> BOOLEAN]
  BY DEF TypeOK, LockReturn
<1>5. expired' \in [Procs -> BOOLEAN]
  BY DEF TypeOK, LockReturn
<1> QED
  BY <1>1, <1>2, <1>3, <1>4, <1>5 DEF CallTyped

LEMMA CallUnchanged == TypeOK /\ UNCHANGED callVars => CallTyped'
BY DEF TypeOK, callVars, CallTyped

(* The other variables have their types.                                      *)
RestTyped ==
  /\ dir \in Directory
  /\ grave \in [Procs -> Directory]
  /\ names \in [Procs -> SUBSET Files]
  /\ holders \subseteq Procs /\ misled \subseteq Procs /\ broken \in BOOLEAN
  /\ faults \in 0..MaxFaults /\ crashes \in 0..MaxCrashes

LEMMA TypeParts == TypeOK <=> CallTyped /\ pc \in [Procs -> Places] /\ RestTyped
BY DEF TypeOK, CallTyped, RestTyped, Places

(* Every step keeps the types.                                                *)
LEMMA TypeStep == TypeOK /\ [Next]_vars => TypeOK'
<1> SUFFICES ASSUME TypeOK, [Next]_vars
             PROVE  CallTyped' /\ pc' \in [Procs -> Places] /\ RestTyped'
  BY DEF TypeOK, CallTyped, RestTyped, Places
<1>t. CallTyped /\ pc \in [Procs -> Places] /\ RestTyped
  BY TypeParts
<1> USE DirectoryTyped, FaultTyped, GotoTyped, CallUnchanged
    DEF Places, Locking, Unlocking, Breaking
<1>1. ASSUME NEW p \in Procs, LockCall(p)
      PROVE  CallTyped' /\ pc' \in [Procs -> Places] /\ RestTyped'
  <2>1. mode' \in [Procs -> Modes \cup {None}]
    BY <1>1, <1>t DEF LockCall, CallTyped
  <2>2. message' \in [Procs -> BOOLEAN]
    BY <1>1, <1>t DEF LockCall, CallTyped
  <2> QED
    BY <1>1, <1>t, <2>1, <2>2 DEF LockCall, CallTyped, RestTyped
<1>2. ASSUME NEW p \in Procs, AcquireStat(p)
      PROVE  CallTyped' /\ pc' \in [Procs -> Places] /\ RestTyped'
  <2>1. RestTyped'
    BY <1>2, <1>t DEF AcquireStat, RestTyped
  <2>2. CallTyped' /\ pc' \in [Procs -> Places]
    BY <1>2, LockReturnTyped DEF AcquireStat, stat
  <2> QED
    BY <2>1, <2>2
<1>3. ASSUME NEW p \in Procs, AcquireTempDir(p)
      PROVE  CallTyped' /\ pc' \in [Procs -> Places] /\ RestTyped'
  <2>1. RestTyped'
    BY <1>3, <1>t DEF AcquireTempDir, RestTyped
  <2>2. CASE LockReturn(p)
    BY <2>1, <2>2, LockReturnTyped
  <2>3. CASE ~LockReturn(p)
    BY <1>3, <1>t, <2>1, <2>3 DEF AcquireTempDir, CallTyped
  <2> QED
    BY <2>2, <2>3
<1>4. ASSUME NEW p \in Procs, AcquireWrite(p)
      PROVE  CallTyped' /\ pc' \in [Procs -> Places] /\ RestTyped'
  <2>1. RestTyped'
    BY <1>4, <1>t DEF AcquireWrite, RestTyped
  <2>2. CASE LockReturn(p)
    BY <2>1, <2>2, LockReturnTyped
  <2>3. CASE ~LockReturn(p)
    <3>1. temp' \in [Procs -> Directory]
      <4>1. temp[p] \in Directory /\ message[p] \in BOOLEAN
        BY <1>t DEF CallTyped
      <4> DEFINE d == [[temp[p] EXCEPT !.held = p] EXCEPT !.message = message[p]]
      <4>2. d \in Directory
        BY <4>1
      <4>3. temp' = [temp EXCEPT ![p] = d]
        BY <1>4, <1>t, <2>3 DEF AcquireWrite, CallTyped, nonce
      <4> QED
        BY <4>2, <4>3, <1>t DEF CallTyped
    <3> QED
      BY <1>4, <1>t, <2>1, <2>3, <3>1 DEF AcquireWrite, CallTyped
  <2> QED
    BY <2>2, <2>3
<1>5. ASSUME NEW p \in Procs, AcquireRename(p)
      PROVE  CallTyped' /\ pc' \in [Procs -> Places] /\ RestTyped'
  BY <1>5, <1>t, LockReturnTyped DEF AcquireRename, CallTyped, RestTyped
<1>6. ASSUME NEW p \in Procs, AcquireBeaten(p) \/ Continue(p) \/ Sleep(p)
      PROVE  CallTyped' /\ pc' \in [Procs -> Places] /\ RestTyped'
  BY <1>6, <1>t DEF AcquireBeaten, Continue, Sleep, callVars, RestTyped, Goto
<1>7. ASSUME NEW p \in Procs, AcquireCleanup(p)
      PROVE  CallTyped' /\ pc' \in [Procs -> Places] /\ RestTyped'
  BY <1>7, <1>t DEF AcquireCleanup, CallTyped, RestTyped
<1>8. ASSUME NEW p \in Procs, GiveUp(p)
      PROVE  CallTyped' /\ pc' \in [Procs -> Places] /\ RestTyped'
  BY <1>8, <1>t, LockReturnTyped DEF GiveUp, RestTyped
<1>9. ASSUME NEW p \in Procs, Expire(p)
      PROVE  CallTyped' /\ pc' \in [Procs -> Places] /\ RestTyped'
  BY <1>9, <1>t DEF Expire, CallTyped, RestTyped
<1>10. ASSUME NEW p \in Procs, UnlockCheck(p)
       PROVE  CallTyped' /\ pc' \in [Procs -> Places] /\ RestTyped'
  <2>1. RestTyped'
    BY <1>10, <1>t DEF UnlockCheck, RestTyped
  <2>2. CallTyped' /\ pc' \in [Procs -> Places]
    BY <1>10, <1>t DEF UnlockCheck, callVars
  <2> QED
    BY <2>1, <2>2
<1>11. ASSUME NEW p \in Procs, UnlockRename(p) \/ UnlockFail(p)
       PROVE  CallTyped' /\ pc' \in [Procs -> Places] /\ RestTyped'
  BY <1>11, <1>t DEF UnlockRename, UnlockFail, vacated, callVars, RestTyped
<1>12. ASSUME NEW p \in Procs, UnlockRemove(p)
       PROVE  CallTyped' /\ pc' \in [Procs -> Places] /\ RestTyped'
  <2>1. grave' \in [Procs -> Directory]
    <3>1. CASE grave' = [grave EXCEPT ![p] = Absent]
      BY <1>t, <3>1 DEF RestTyped
    <3>2. ASSUME NEW h \in {grave[p].held, None}, NEW m \in {grave[p].message, FALSE},
                 grave' = [grave EXCEPT ![p].held = h, ![p].message = m]
          PROVE  grave' \in [Procs -> Directory]
      <4>1. grave[p] \in Directory
        BY <1>t DEF RestTyped
      <4>2. h \in Procs \cup {None} /\ m \in BOOLEAN
        <5>1. grave[p].held \in Procs \cup {None} /\ grave[p].message \in BOOLEAN
          BY <4>1 DEF Directory
        <5> QED
          BY <3>2, <5>1
      <4> DEFINE d == [[grave[p] EXCEPT !.held = h] EXCEPT !.message = m]
      <4>3. d \in Directory
        BY <4>1, <4>2
      <4>4. grave' = [grave EXCEPT ![p] = d]
        BY <1>t, <3>2 DEF RestTyped
      <4> QED
        BY <4>3, <4>4, <1>t DEF RestTyped
    <3> QED
      BY <1>12, <3>1, <3>2 DEF UnlockRemove
  <2> QED
    BY <1>12, <1>t, <2>1 DEF UnlockRemove, callVars, RestTyped
<1>13. ASSUME NEW p \in Procs, BreakList(p)
       PROVE  CallTyped' /\ pc' \in [Procs -> Places] /\ RestTyped'
  <2>1. RestTyped'
    BY <1>13, <1>t DEF BreakList, FilesOf, RestTyped
  <2>2. CallTyped' /\ pc' \in [Procs -> Places]
    BY <1>13, <1>t DEF BreakList, callVars
  <2> QED
    BY <2>1, <2>2
<1>14. ASSUME NEW p \in Procs, BreakUnlink(p)
       PROVE  CallTyped' /\ pc' \in [Procs -> Places] /\ RestTyped'
  <2>1. PICK n \in names[p] : /\ dir' = Without(dir, n)
                              /\ names' = [names EXCEPT ![p] = @ \ {n}]
                              /\ Goto(p, IF names[p] = {n} THEN "rmdir" ELSE "unlink")
    BY <1>14 DEF BreakUnlink
  <2>2. n \in Files /\ names' \in [Procs -> SUBSET Files]
    BY <1>t, <2>1 DEF RestTyped
  <2> QED
    BY <1>14, <1>t, <2>1, <2>2 DEF BreakUnlink, callVars, RestTyped
<1>15. ASSUME NEW p \in Procs, BreakRmdir(p) \/ Crash(p)
       PROVE  CallTyped' /\ pc' \in [Procs -> Places] /\ RestTyped'
  BY <1>15, <1>t, BoundsAssumption DEF BreakRmdir, Crash, callVars, RestTyped
<1>16. CASE UNCHANGED vars
  BY <1>16, <1>t DEF vars, callVars, RestTyped
<1> QED
  BY <1>1, <1>2, <1>3, <1>4, <1>5, <1>6, <1>7, <1>8, <1>9, <1>10, <1>11, <1>12,
     <1>13, <1>14, <1>15, <1>16
  DEF Next, LockStep, UnlockStep, BreakStep

(* The variables have their types.                                            *)
THEOREM TypeCorrect == Spec => []TypeOK
<1>1. Init => TypeOK
  <2> SUFFICES ASSUME Init PROVE CallTyped /\ pc \in [Procs -> Places] /\ RestTyped
    BY TypeParts
  <2>0. broken \in BOOLEAN
    BY DEF Init
  <2>1. RestTyped
    BY <2>0, BoundsAssumption, DirectoryTyped DEF Init, RestTyped
  <2> QED
    BY <2>1, DirectoryTyped DEF Init, CallTyped, Places
<1> QED
  BY <1>1, TypeStep, PTL DEF Spec

-----------------------------------------------------------------------------
(* With or without BreakLock: the process recorded in the lock thinks that it *)
(* has the lock or was misled.  What a process renames onto lockDir() records *)
(* itself.                                                                    *)
Prepared == \A p \in Procs : pc[p] = "rename" => temp[p].held = p

HeldInv == HeldIsHolder /\ Prepared

LEMMA HeldStep == TypeOK /\ HeldInv /\ [Next]_vars => HeldInv'
<1> SUFFICES ASSUME TypeOK, HeldInv, [Next]_vars PROVE HeldInv'
  OBVIOUS
<1>t. /\ temp \in [Procs -> Directory] /\ pc \in [Procs -> Places]
      /\ dir \in Directory
  BY DEF TypeOK, Places
<1> USE ProcsAssumption DEF HeldInv, HeldIsHolder, Prepared, IsLocked, Goto, callVars
<1>1. ASSUME NEW p \in Procs,
             \/ LockCall(p) \/ AcquireStat(p) \/ AcquireTempDir(p) \/ AcquireBeaten(p)
             \/ AcquireCleanup(p) \/ Continue(p) \/ GiveUp(p) \/ Sleep(p) \/ Expire(p)
      PROVE  HeldInv'
  <2>1. UNCHANGED <<dir, holders, misled>>
    BY <1>1 DEF LockCall, AcquireStat, AcquireTempDir, AcquireBeaten, AcquireCleanup,
                Continue, GiveUp, Sleep, Expire
  <2>2. Prepared'
    BY <1>1, <1>t DEF LockCall, AcquireStat, AcquireTempDir, AcquireBeaten,
       AcquireCleanup, Continue, GiveUp, Sleep, Expire, stat, LockReturn, Places
  <2> QED
    BY <2>1, <2>2
<1>2. ASSUME NEW p \in Procs, AcquireWrite(p) PROVE HeldInv'
  <2>1. Prepared'
    BY <1>2, <1>t DEF AcquireWrite, nonce, LockReturn, Directory
  <2> QED
    BY <1>2, <2>1 DEF AcquireWrite
<1>3. ASSUME NEW p \in Procs, AcquireRename(p) PROVE HeldInv'
  BY <1>3, <1>t DEF AcquireRename, LockReturn
<1>4. ASSUME NEW p \in Procs, UnlockCheck(p) PROVE HeldInv'
  BY <1>4, <1>t DEF UnlockCheck, IsLockHeld
<1>5. ASSUME NEW p \in Procs, UnlockRename(p) PROVE HeldInv'
  BY <1>5, <1>t DEF UnlockRename, vacated, Absent
<1>6. ASSUME NEW p \in Procs, UnlockFail(p) \/ UnlockRemove(p) PROVE HeldInv'
  BY <1>6, <1>t DEF UnlockFail, UnlockRemove
<1>7. ASSUME NEW p \in Procs, BreakList(p) \/ BreakRmdir(p) PROVE HeldInv'
  BY <1>7, <1>t DEF BreakList, BreakRmdir, Absent
<1>8. ASSUME NEW p \in Procs, BreakUnlink(p) PROVE HeldInv'
  BY <1>8, <1>t DEF BreakUnlink, Without, Directory
<1>9. ASSUME NEW p \in Procs, Crash(p) PROVE HeldInv'
  BY <1>9, <1>t DEF Crash
<1>10. CASE UNCHANGED vars
  BY <1>10 DEF vars
<1> QED
  BY <1>1, <1>2, <1>3, <1>4, <1>5, <1>6, <1>7, <1>8, <1>9, <1>10
  DEF Next, LockStep, UnlockStep, BreakStep

LEMMA HeldInvariant == Spec => []HeldInv
<1>1. Init => HeldInv
  BY DEF Init, HeldInv, HeldIsHolder, Prepared, IsLocked, Absent
<1> QED
  BY <1>1, TypeCorrect, HeldStep, PTL DEF Spec

(* The lock is never recorded as held by a process that did not take it or    *)
(* has given it up, even with BreakLock in the middle of anything; and that   *)
(* process thinks that it has the lock unless an Unlock failed to read it.    *)
THEOREM HeldIsHolderHolds == Spec => []HeldIsHolder
BY HeldInvariant, PTL DEF HeldInv

-----------------------------------------------------------------------------
(* Until the first BreakLock.  The inductive invariant: nobody is in          *)
(* BreakLock, a prepared directory exists, whoever is about to unlock has the *)
(* lock, and the properties to be shown.                                      *)
NoneBreaks == \A p \in Procs : pc[p] \notin Breaking

TempExists == \A p \in Procs : pc[p] \in {"write", "rename"} => temp[p].exists

UnlockerHolds == \A p \in Procs : pc[p] = "unlock" => dir.held = p

Unbroken ==
  /\ NoneBreaks /\ TempExists /\ UnlockerHolds
  /\ \A p \in holders : dir.held = p
  /\ dir.exists => IsLocked
  /\ UnlockMovesOwn

MutexInv == ~broken => Unbroken

LEMMA MutexStep == TypeOK /\ HeldInv /\ MutexInv /\ [Next]_vars => MutexInv'
<1> SUFFICES ASSUME TypeOK, HeldInv, Unbroken, ~broken, [Next]_vars, ~broken'
             PROVE  Unbroken'
  <2>1. ASSUME [Next]_vars, broken PROVE broken'
    BY <2>1 DEF Next, LockStep, UnlockStep, BreakStep, LockCall, AcquireStat,
       AcquireTempDir, AcquireWrite, AcquireRename, AcquireBeaten, AcquireCleanup,
       Continue, GiveUp, Sleep, Expire, UnlockCheck, UnlockRename, UnlockFail,
       UnlockRemove, BreakList, BreakUnlink, BreakRmdir, Crash, vars
  <2> QED
    BY <2>1 DEF MutexInv, TypeOK
<1>t. /\ temp \in [Procs -> Directory] /\ grave \in [Procs -> Directory]
      /\ pc \in [Procs -> Places] /\ dir \in Directory /\ holders \subseteq Procs
  BY DEF TypeOK, Places
<1> USE ProcsAssumption
    DEF HeldInv, HeldIsHolder, Prepared, Unbroken, NoneBreaks, TempExists, UnlockerHolds,
        UnlockMovesOwn, IsLocked, Breaking, Goto, callVars
(* Steps that touch neither the lock nor the graves.                          *)
<1>1. ASSUME NEW p \in Procs, UNCHANGED <<dir, grave, holders, misled>>,
             pc' = [pc EXCEPT ![p] = pc'[p]],
             pc'[p] \notin Breaking \cup {"unlock"},
             \A q \in Procs \ {p} : temp'[q] = temp[q],
             pc'[p] \in {"write", "rename"} => temp'[p].exists
      PROVE  Unbroken'
  BY <1>1, <1>t
<1>2. ASSUME NEW p \in Procs,
             \/ LockCall(p) \/ AcquireStat(p) \/ AcquireBeaten(p) \/ AcquireCleanup(p)
             \/ Continue(p) \/ GiveUp(p) \/ Sleep(p) \/ Crash(p)
      PROVE  Unbroken'
  <2>1. /\ UNCHANGED <<dir, grave, holders, misled>>
        /\ \A q \in Procs \ {p} : temp'[q] = temp[q]
    BY <1>2, <1>t DEF LockCall, AcquireStat, AcquireBeaten, AcquireCleanup, Continue,
                      GiveUp, Sleep, Crash, LockReturn
  <2>2. /\ pc' = [pc EXCEPT ![p] = pc'[p]]
        /\ pc'[p] \notin Breaking \cup {"unlock", "write", "rename"}
    BY <1>2, <1>t DEF LockCall, AcquireStat, AcquireBeaten, AcquireCleanup, Continue,
                      GiveUp, Sleep, Crash, LockReturn, stat
  <2> QED
    BY <1>1, <2>1, <2>2
<1>3. ASSUME NEW p \in Procs, AcquireTempDir(p) \/ AcquireWrite(p) PROVE Unbroken'
  <2>1. /\ UNCHANGED <<dir, grave, holders, misled>>
        /\ \A q \in Procs \ {p} : temp'[q] = temp[q]
        /\ pc' = [pc EXCEPT ![p] = pc'[p]]
        /\ pc'[p] \notin Breaking \cup {"unlock"}
    BY <1>3, <1>t DEF AcquireTempDir, AcquireWrite, LockReturn
  <2>2. pc'[p] \in {"write", "rename"} => temp'[p].exists
    BY <1>3, <1>t DEF AcquireTempDir, AcquireWrite, LockReturn, EmptyDir, Directory
  <2> QED
    BY <1>1, <2>1, <2>2
<1>4. ASSUME NEW p \in Procs, AcquireRename(p) PROVE Unbroken'
  <2>1. dir.held = None /\ holders = {}
    BY <1>4, <1>t DEF AcquireRename, CanReplace, Absent, EmptyDir
  <2> QED
    BY <1>4, <1>t, <2>1 DEF AcquireRename, LockReturn
<1>5. ASSUME NEW p \in Procs, Expire(p) PROVE Unbroken'
  BY <1>5 DEF Expire
<1>6. ASSUME NEW p \in Procs, UnlockCheck(p) PROVE Unbroken'
  BY <1>6, <1>t DEF UnlockCheck, IsLockHeld
<1>7. ASSUME NEW p \in Procs, UnlockRename(p) PROVE Unbroken'
  <2>1. dir.held = p /\ holders \subseteq {p}
    BY <1>7, <1>t DEF UnlockRename
  <2> QED
    BY <1>7, <1>t, <2>1 DEF UnlockRename, vacated, Absent
<1>8. ASSUME NEW p \in Procs, UnlockFail(p) PROVE Unbroken'
  BY <1>8, <1>1, <1>t DEF UnlockFail
<1>9. ASSUME NEW p \in Procs, UnlockRemove(p) PROVE Unbroken'
  <2>1. UnlockMovesOwn'
    BY <1>9, <1>t DEF UnlockRemove, Absent, Directory
  <2> QED
    BY <1>9, <1>t, <2>1 DEF UnlockRemove
<1>10. ASSUME NEW p \in Procs, BreakList(p) \/ BreakUnlink(p) \/ BreakRmdir(p)
       PROVE  FALSE
  BY <1>10, <1>t DEF BreakList, BreakUnlink, BreakRmdir
<1>11. CASE UNCHANGED vars
  BY <1>11 DEF vars
<1> QED
  BY <1>2, <1>3, <1>4, <1>5, <1>6, <1>7, <1>8, <1>9, <1>10, <1>11
  DEF Next, LockStep, UnlockStep, BreakStep

LEMMA MutexInvariant == Spec => []MutexInv
<1>1. Init => MutexInv
  BY DEF Init, MutexInv, Unbroken, NoneBreaks, TempExists, UnlockerHolds,
         UnlockMovesOwn, Absent, Breaking
<1>2. TypeOK /\ HeldInv /\ MutexInv /\ [Next]_vars => MutexInv'
  BY MutexStep
<1> QED
  BY <1>1, <1>2, TypeCorrect, HeldInvariant, PTL DEF Spec

(* Mutual exclusion, until the first BreakLock: the lock on disk is that of   *)
(* every process that got it and has not unlocked it, so there is at most one *)
(* such process; and a lock directory always names its holder.                *)
THEOREM HolderOnDiskHolds == Spec => []HolderOnDisk
<1>1. MutexInv => HolderOnDisk
  BY DEF MutexInv, Unbroken, HolderOnDisk
<1> QED
  BY <1>1, MutexInvariant, PTL

(* Until the first BreakLock, Unlock never moves another process's lock away. *)
THEOREM UnlockedOwnHolds == Spec => []UnlockedOwn
<1>1. MutexInv => UnlockedOwn
  BY DEF MutexInv, Unbroken, UnlockedOwn
<1> QED
  BY <1>1, MutexInvariant, PTL

(* The on-disk lock implements the abstract mutex; a BreakLock takes the lock *)
(* from its holder, and nobody is taken to have it from then on.              *)
THEOREM MutexImplemented == Spec => Implements
<1> DEFINE held == IF broken THEN {} ELSE holders
<1>1. Init => Abstract!Init
  BY DEF Init, Abstract!Init
<1>2. TypeOK /\ MutexInv /\ [Next]_vars => [Abstract!Next]_held
  <2> SUFFICES ASSUME TypeOK, MutexInv, Next, held' # held
               PROVE  Abstract!Next
    BY DEF vars
  <2> USE ProcsAssumption
  <2>1. PICK p \in Procs : \/ AcquireRename(p) \/ UnlockRename(p) \/ UnlockCheck(p)
                           \/ BreakList(p)
    BY DEF Next, LockStep, UnlockStep, BreakStep, LockCall, AcquireStat, AcquireTempDir,
           AcquireWrite, AcquireBeaten, AcquireCleanup, Continue, GiveUp, Sleep, Expire,
           UnlockFail, UnlockRemove, BreakUnlink, BreakRmdir, Crash
  <2>u. ~broken /\ Unbroken /\ held = holders
    BY <2>1 DEF AcquireRename, UnlockRename, UnlockCheck, BreakList, MutexInv
  <2>o. \A p1, p2 \in holders : p1 = p2
    BY <2>u DEF Unbroken
  <2>2. CASE AcquireRename(p)
    <3>1. holders = {}
      BY <2>2, <2>u DEF TypeOK, AcquireRename, CanReplace, Absent, EmptyDir, Unbroken
    <3>2. held' = {p}
      BY <2>2, <2>u, <3>1 DEF AcquireRename
    <3> QED
      BY <2>u, <3>1, <3>2 DEF Abstract!Next, Abstract!Acquire
  <2>3. CASE UnlockRename(p)
    <3>1. holders = {p}
      <4>1. p \in holders
        BY <2>3, <2>u DEF UnlockRename
      <4> QED
        BY <2>o, <4>1 DEF TypeOK
    <3>2. held' = {}
      BY <2>3, <2>u, <3>1 DEF UnlockRename
    <3> QED
      BY <2>u, <3>1, <3>2 DEF Abstract!Next, Abstract!Release
  <2>4. CASE UnlockCheck(p)
    <3>1. p \in holders /\ held' = holders \ {p}
      BY <2>4, <2>u DEF UnlockCheck
    <3>2. holders = {p}
      BY <2>o, <3>1 DEF TypeOK
    <3> QED
      BY <2>u, <3>1, <3>2 DEF Abstract!Next, Abstract!Release
  <2>5. CASE BreakList(p)
    <3>1. held' = {} /\ holders # {}
      BY <2>5, <2>u DEF BreakList
    <3>2. PICK q \in Procs : holders = {q}
      BY <2>o, <3>1 DEF TypeOK
    <3> QED
      BY <2>u, <3>1, <3>2 DEF Abstract!Next, Abstract!Release
  <2> QED
    BY <2>1, <2>2, <2>3, <2>4, <2>5
<1> QED
  BY <1>1, <1>2, TypeCorrect, MutexInvariant, PTL DEF Spec, Implements, Abstract!Spec
=============================================================================
