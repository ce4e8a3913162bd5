------------------------------- MODULE FSLock --------------------------------
(* src/fslock/fslock.go: a mutex on a shared filesystem.  The lock is the     *)
(* directory lockDir(); it is taken by renaming a prepared directory onto     *)
(* that name and released by renaming it away.  Every process has a Lock      *)
(* object of its own with a unique nonce, which we identify with the process. *)
(* One filesystem operation is one step; processes interleave between them,   *)
(* may crash between them, and any operation may fail (at most MaxFaults      *)
(* times).  A process that restarts has a new nonce, so it is a new process.  *)
EXTENDS Naturals, FiniteSets

CONSTANTS Procs,       \* the Lock objects, one thread of control each
          Breakers,    \* the processes that may call BreakLock
          Modes,       \* which of Lock, LockWithTimeout and LockWithFunc are called
          MaxFaults,   \* bound on failing filesystem operations
          MaxCrashes   \* bound on crashing processes

ASSUME BreakersAssumption == Breakers \subseteq Procs

ASSUME ModesAssumption == Modes \subseteq {"Lock", "LockWithTimeout", "LockWithFunc"}

ASSUME BoundsAssumption == MaxFaults \in Nat /\ MaxCrashes \in Nat

None == "none"

ASSUME ProcsAssumption == None \notin Procs

VARIABLES
  dir,      \* what is at lockDir()
  temp,     \* temp[p]: the temporary directory p's call has created
  grave,    \* grave[p]: the directory ".name.nonce" that Unlock renames to
  pc,       \* pc[p]: the next filesystem operation of p's call
  mode,     \* mode[p]: which method was called, None if no lock call is on
  message,  \* message[p]: the call has a message
  expired,  \* expired[p]: the deadline of LockWithTimeout has passed
  names,    \* names[p]: the files BreakLock has listed and not yet removed
  holders,  \* the processes that think they have the lock
  misled,   \* history: holders told ErrLockNotHeld because a read failed
  broken,   \* history: BreakLock has been called
  faults, crashes

vars == <<dir, temp, grave, pc, mode, message, expired, names,
          holders, misled, broken, faults, crashes>>

(* What is at a path: nothing or a directory, and the files in it: held, with *)
(* the nonce of a process, and message.                                       *)
Directory == [exists : BOOLEAN, held : Procs \cup {None}, message : BOOLEAN]
Absent    == [exists |-> FALSE, held |-> None, message |-> FALSE]
EmptyDir  == [exists |-> TRUE, held |-> None, message |-> FALSE]
Files     == {"held", "message"}

Locking   == {"stat", "tempdir", "write", "rename", "cleanup", "continue", "sleep"}
Unlocking == {"unlock", "remove"}
Breaking  == {"list", "unlink", "rmdir"}

Init ==                                                         \* NewLock
  /\ dir = Absent
  /\ temp = [p \in Procs |-> Absent]
  /\ grave = [p \in Procs |-> Absent]
  /\ pc = [p \in Procs |-> "idle"]
  /\ mode = [p \in Procs |-> None]
  /\ message = [p \in Procs |-> FALSE]
  /\ expired = [p \in Procs |-> FALSE]
  /\ names = [p \in Procs |-> {}]
  /\ holders = {} /\ misled = {} /\ broken = FALSE
  /\ faults = 0 /\ crashes = 0

-----------------------------------------------------------------------------
callVars == <<temp, mode, message, expired>>

Goto(p, l) == pc' = [pc EXCEPT ![p] = l]

(* A lock call returns, with nil or an error: its locals are gone and the     *)
(* temporary directory, if it left one behind, is never looked at again.      *)
LockReturn(p) ==
  /\ Goto(p, "idle")
  /\ mode' = [mode EXCEPT ![p] = None]
  /\ message' = [message EXCEPT ![p] = FALSE]
  /\ expired' = [expired EXCEPT ![p] = FALSE]
  /\ temp' = [temp EXCEPT ![p] = Absent]

(* A filesystem operation that fails.                                         *)
Fault == faults < MaxFaults /\ faults' = faults + 1

NoFault == UNCHANGED faults

-----------------------------------------------------------------------------
(* Lock, LockWithTimeout and LockWithFunc: lockLoop around acquire.           *)

LockCall(p) ==
  /\ pc[p] = "idle"
  /\ \E m \in Modes : mode' = [mode EXCEPT ![p] = m]
  /\ \E b \in BOOLEAN : message' = [message EXCEPT ![p] = b]
  /\ Goto(p, "stat")
  /\ UNCHANGED <<dir, temp, grave, expired, names, holders, misled, faults, crashes,
                 broken>>

(* os.Stat(lock.lockDir())                                                    *)
statBlind == "continue"                                           \* mutant
stat == IF dir.exists THEN "continue" ELSE "tempdir"

AcquireStat(p) ==
  /\ pc[p] = "stat"
  /\ \/ NoFault /\ Goto(p, stat) /\ UNCHANGED callVars
     \/ Fault /\ LockReturn(p)
  /\ UNCHANGED <<dir, grave, names, holders, misled, crashes, broken>>

(* ioutil.TempDir: a directory nobody else knows.                             *)
AcquireTempDir(p) ==
  /\ pc[p] = "tempdir"
  /\ \/ /\ NoFault
        /\ temp' = [temp EXCEPT ![p] = EmptyDir]
        /\ Goto(p, "write")
        /\ UNCHANGED <<mode, message, expired>>
     \/ Fault /\ LockReturn(p)
  /\ UNCHANGED <<dir, grave, names, holders, misled, crashes, broken>>

(* The two ioutil.WriteFile: nobody else sees the directory yet, so they are  *)
(* one step.  When either fails the directory is left behind.                 *)
nonce(p) == p

AcquireWrite(p) ==
  /\ pc[p] = "write"
  /\ \/ /\ NoFault
        /\ temp' = [temp EXCEPT ![p].held = nonce(p), ![p].message = message[p]]
        /\ Goto(p, "rename")
        /\ UNCHANGED <<mode, message, expired>>
     \/ Fault /\ LockReturn(p)
  /\ UNCHANGED <<dir, grave, names, holders, misled, crashes, broken>>

(* rename(2) puts a directory in place of a name that is free or of an empty  *)
(* directory (os.Rename refuses the latter since Go 1.8).                     *)
CanReplaceAny(d) == TRUE                                          \* mutant
CanReplace(d) == d \in {Absent, EmptyDir}

AcquireRename(p) ==
  /\ pc[p] = "rename"
  /\ NoFault
  /\ CanReplace(dir)
  /\ dir' = temp[p]
  /\ holders' = holders \cup {p} /\ misled' = misled \ {p}
  /\ LockReturn(p)
  /\ UNCHANGED <<grave, names, crashes, broken>>

(* "Any error on rename means we failed."                                     *)
AcquireBeaten(p) ==
  /\ pc[p] = "rename"
  /\ (dir.exists /\ NoFault) \/ Fault
  /\ Goto(p, "cleanup")
  /\ UNCHANGED <<dir, grave, callVars, names, holders, misled, crashes, broken>>

(* os.RemoveAll(tempDirName), whose error is ignored.                         *)
AcquireCleanup(p) ==
  /\ pc[p] = "cleanup"
  /\ temp' = [temp EXCEPT ![p] = Absent]
  /\ Goto(p, "continue")
  /\ UNCHANGED <<dir, grave, mode, message, expired, names, holders, misled, faults,
                 crashes, broken>>

(* continueFunc returns nil: Lock's always does, LockWithTimeout's until the  *)
(* deadline, that of LockWithFunc as the caller pleases.                      *)
noDeadline(p) == TRUE                                             \* mutant
inTime(p) == mode[p] = "LockWithTimeout" => ~expired[p]

Continue(p) ==
  /\ pc[p] = "continue"
  /\ inTime(p)
  /\ Goto(p, "sleep")
  /\ UNCHANGED <<dir, grave, callVars, names, holders, misled, faults, crashes, broken>>

(* ... or an error, ErrTimeout or the caller's.                               *)
GiveUp(p) ==
  /\ pc[p] = "continue"
  /\ ~inTime(p) \/ mode[p] = "LockWithFunc"
  /\ LockReturn(p)
  /\ UNCHANGED <<dir, grave, names, holders, misled, faults, crashes, broken>>

(* time.Sleep(LockWaitDelay).  The message read for the log changes nothing.  *)
Sleep(p) ==
  /\ pc[p] = "sleep"
  /\ Goto(p, "stat")
  /\ UNCHANGED <<dir, grave, callVars, names, holders, misled, faults, crashes, broken>>

(* The deadline passes.                                                       *)
Expire(p) ==
  /\ pc[p] \in Locking /\ mode[p] = "LockWithTimeout" /\ ~expired[p]
  /\ expired' = [expired EXCEPT ![p] = TRUE]
  /\ UNCHANGED <<dir, temp, grave, pc, mode, message, names, holders, misled, faults,
                 crashes, broken>>

-----------------------------------------------------------------------------
(* IsLockHeld and IsLocked: one ReadFile, one Stat of the file held.          *)
IsHeldAtAll(p) == dir.held # None                                 \* mutant
IsLockHeld(p) == dir.held = p

IsLocked == dir.held # None

(* Unlock.  A failing ReadFile counts as not held: ErrLockNotHeld, after      *)
(* which the caller does not think that it has the lock, though it may.       *)
UnlockCheck(p) ==
  /\ pc[p] = "idle"
  /\ \/ NoFault /\ IsLockHeld(p) /\ Goto(p, "unlock") /\ UNCHANGED <<holders, misled>>
     \/ /\ NoFault /\ ~IsLockHeld(p)
        /\ holders' = holders \ {p} /\ misled' = misled \ {p} /\ UNCHANGED pc
     \/ /\ Fault
        /\ holders' = holders \ {p} /\ misled' = misled \cup (holders \cap {p})
        /\ UNCHANGED pc
  /\ UNCHANGED <<dir, grave, callVars, names, crashes, broken>>

(* The rename of whatever is at lockDir() by now.                             *)
kept == dir                                                       \* mutant
vacated == Absent

UnlockRename(p) ==
  /\ pc[p] = "unlock"
  /\ NoFault
  /\ dir.exists /\ CanReplace(grave[p])
  /\ grave' = [grave EXCEPT ![p] = dir]
  /\ dir' = vacated
  /\ holders' = holders \ {p} /\ misled' = misled \ {p}
  /\ Goto(p, "remove")
  /\ UNCHANGED <<callVars, names, crashes, broken>>

(* ... which returns its error.                                               *)
UnlockFail(p) ==
  /\ pc[p] = "unlock"
  /\ ((~dir.exists \/ grave[p].exists) /\ NoFault) \/ Fault
  /\ Goto(p, "idle")
  /\ UNCHANGED <<dir, grave, callVars, names, holders, misled, crashes, broken>>

(* os.RemoveAll(tempDirName), whose error Unlock returns, may stop anywhere.  *)
UnlockRemove(p) ==
  /\ pc[p] = "remove"
  /\ \/ NoFault /\ grave' = [grave EXCEPT ![p] = Absent]
     \/ /\ Fault
        /\ \E h \in {grave[p].held, None}, m \in {grave[p].message, FALSE} :
             grave' = [grave EXCEPT ![p].held = h, ![p].message = m]
  /\ Goto(p, "idle")
  /\ UNCHANGED <<dir, callVars, names, holders, misled, crashes, broken>>

-----------------------------------------------------------------------------
(* BreakLock: os.RemoveAll(lockDir()) lists the directory, removes the files  *)
(* it saw by their path, then the directory; a missing file is no error, a    *)
(* directory that is not empty is one.                                        *)

FilesOf(d) == {n \in Files : \/ n = "held" /\ d.held # None
                             \/ n = "message" /\ d.message}

Without(d, n) ==
  IF n = "held" THEN [d EXCEPT !.held = None] ELSE [d EXCEPT !.message = FALSE]

BreakList(p) ==
  /\ p \in Breakers
  /\ pc[p] = "idle"
  /\ IF dir \in {Absent, EmptyDir}
       THEN dir' = Absent /\ UNCHANGED <<names, pc>>
       ELSE /\ names' = [names EXCEPT ![p] = FilesOf(dir)]
            /\ Goto(p, "unlink")
            /\ UNCHANGED dir
  /\ broken' = TRUE
  /\ UNCHANGED <<grave, callVars, holders, misled, faults, crashes>>

BreakUnlink(p) ==
  /\ pc[p] = "unlink"
  /\ \E n \in names[p] :
       /\ dir' = Without(dir, n)
       /\ names' = [names EXCEPT ![p] = @ \ {n}]
       /\ Goto(p, IF names[p] = {n} THEN "rmdir" ELSE "unlink")
  /\ UNCHANGED <<grave, callVars, holders, misled, faults, crashes, broken>>

BreakRmdir(p) ==
  /\ pc[p] = "rmdir"
  /\ dir' = IF dir = EmptyDir THEN Absent ELSE dir
  /\ Goto(p, "idle")
  /\ UNCHANGED <<grave, callVars, names, holders, misled, faults, crashes, broken>>

-----------------------------------------------------------------------------
(* The process dies.  What it has on disk stays.                              *)
Crash(p) ==
  /\ crashes < MaxCrashes
  /\ pc[p] # "crashed"
  /\ crashes' = crashes + 1
  /\ pc' = [pc EXCEPT ![p] = "crashed"]
  /\ UNCHANGED <<dir, grave, callVars, names, holders, misled, faults, broken>>

LockStep(p) ==
  \/ AcquireStat(p) \/ AcquireTempDir(p) \/ AcquireWrite(p) \/ AcquireRename(p)
  \/ AcquireBeaten(p) \/ AcquireCleanup(p) \/ Continue(p) \/ GiveUp(p) \/ Sleep(p)

UnlockStep(p) == UnlockRename(p) \/ UnlockFail(p) \/ UnlockRemove(p)

BreakStep(p) == BreakUnlink(p) \/ BreakRmdir(p)

Next ==
  \E p \in Procs :
    \/ LockCall(p) \/ LockStep(p) \/ Expire(p)
    \/ UnlockCheck(p) \/ UnlockStep(p)
    \/ BreakList(p) \/ BreakStep(p)
    \/ Crash(p)

Spec == Init /\ [][Next]_vars

(* A process that is in the middle of a call and does not crash goes on, and  *)
(* time passes.  Nobody has to call anything.                                 *)
LiveSpec ==
  /\ Spec
  /\ \A p \in Procs : /\ WF_vars(LockStep(p) \/ UnlockStep(p) \/ BreakStep(p))
                      /\ WF_vars(Expire(p))

-----------------------------------------------------------------------------
(* The types of the variables.                                                *)
TypeOK ==
  /\ dir \in Directory
  /\ temp \in [Procs -> Directory]
  /\ grave \in [Procs -> Directory]
  /\ pc \in [Procs -> {"idle", "crashed"} \cup Locking \cup Unlocking \cup Breaking]
  /\ mode \in [Procs -> Modes \cup {None}]
  /\ message \in [Procs -> BOOLEAN]
  /\ expired \in [Procs -> BOOLEAN]
  /\ names \in [Procs -> SUBSET Files]
  /\ holders \subseteq Procs /\ misled \subseteq Procs /\ broken \in BOOLEAN
  /\ faults \in 0..MaxFaults /\ crashes \in 0..MaxCrashes

(* Whoever got the lock has it on disk until it is released, whatever the     *)
(* others do, fail to do or leave undone; hence at most one process has it.   *)
(* And a lock directory is published whole: whoever sees it can tell who has  *)
(* the lock, so that IsLocked and the Stat in acquire agree.  All until the   *)
(* first BreakLock.                                                           *)
HolderOnDisk ==
  ~broken => /\ \A p \in holders : dir.held = p
             /\ dir.exists => IsLocked

(* The recorded holder took the lock and has not given it up, also with       *)
(* BreakLock in the middle of anything.  It thinks that it has the lock       *)
(* (unless it crashed), or an Unlock that could not read the nonce told it    *)
(* ErrLockNotHeld; nothing else leaves a lock on behalf of a process that     *)
(* does not think it has it.                                                  *)
HeldIsHolder == IsLocked => dir.held \in holders \cup misled

(* "Unlock releases a held lock": what Unlock moves away is its own lock.     *)
UnlockMovesOwn == \A p \in Procs : grave[p].held \in {p, None}

(* ... which it is until the first BreakLock, through faults and crashes.     *)
UnlockedOwn == ~broken => UnlockMovesOwn

Abstract == INSTANCE Mutex WITH holders <- IF broken THEN {} ELSE holders

(* The lock implements an abstract mutex, through crashes and I/O errors: it  *)
(* is got only when no process has it, and lost only by its holder's Unlock   *)
(* or a BreakLock, after which nobody is taken to have it.                    *)
Implements == Abstract!Spec

trying == {p \in Procs : pc[p] \in Locking}

(* Lock calls make progress.  LockWithTimeout always returns, a held lock, a  *)
(* crashed holder and lost races notwithstanding; and a free lock does not    *)
(* stay free while processes try to take it: of those that are not stopped by *)
(* their continueFunc, a crash or an I/O error, one gets it.                  *)
LocksProgress ==
  /\ \A p \in Procs : (pc[p] \in Locking /\ mode[p] = "LockWithTimeout")
                        ~> (pc[p] \notin Locking)
  /\ (~dir.exists /\ trying # {}) ~> (dir.exists \/ trying = {})
=============================================================================
