------------------------------- MODULE Voyeur --------------------------------
(* src/voyeur/value.go: a shared value that watchers wait on.  The fields of  *)
(* the Value are guarded by an RWMutex; Next waits on a condition variable    *)
(* whose locker is the read side of that mutex, and the methods that change   *)
(* something (Set, Value.Close, Watcher.Close) take the write side, release   *)
(* it and only then broadcast.                                                *)
(*                                                                            *)
(* A critical section of the write lock is one step; announcing the writer    *)
(* (which keeps new readers out), running the section once the readers have   *)
(* left, and broadcasting are three.                                          *)
EXTENDS Integers

CONSTANTS Watchers,   \* the Watcher objects, each used by one goroutine
          Mutators,   \* the goroutines that call the other methods
          Vals,       \* the values: the nth one the Value is given is Vals[n]
          MaxCalls    \* bound on the calls of the mutators

None == "none"

ASSUME ActorsAssumption ==
  None \notin Watchers \cup Mutators /\ Watchers \cap Mutators = {}

ASSUME MaxCallsAssumption == MaxCalls \in Nat

(* No step looks at a value, so it is no loss to name them in the order in    *)
(* which they are set, and best for them to be different.                     *)
Values == {Vals[n] : n \in DOMAIN Vals}

ASSUME ValsAssumption ==
  1..(MaxCalls + 1) \subseteq DOMAIN Vals /\ None \notin Values

VARIABLES
  val, version, closed, inited,   \* the Value; inited: wait.L is set
  readers,   \* who holds mu for reading
  writer,    \* who holds mu for writing, or waits only for the readers to leave
  waiting,   \* the notify list of the condition variable
  wversion, current, wclosed,     \* the Watchers
  wpc,       \* wpc[w]: where w's call of Next is
  mpc, op,   \* where a mutator's call is, and which call
  calls      \* number of mutator calls so far

valueVars == <<val, version, closed>>
watchVars == <<wversion, current>>
vars == <<val, version, closed, inited, readers, writer, waiting, wversion,
          current, wclosed, wpc, mpc, op, calls>>

Ops == {<<"Set", None>>, <<"Close", None>>}
         \cup {<<"WatcherClose", w>> : w \in Watchers}

NoOp == <<None, None>>

(* The zero Value, NewValue(nil) and NewValue(x); each watcher comes from     *)
(* Watch.                                                                     *)
Init ==
  /\ \/ val = None /\ version = 0 /\ inited \in BOOLEAN
     \/ val = Vals[1] /\ version = 1 /\ inited = TRUE
  /\ closed = FALSE
  /\ readers = {} /\ writer = None /\ waiting = {}
  /\ wversion = [w \in Watchers |-> 0]
  /\ current = [w \in Watchers |-> None]
  /\ wclosed = [w \in Watchers |-> FALSE]
  /\ wpc = [w \in Watchers |-> "idle"]
  /\ mpc = [m \in Mutators |-> "idle"]
  /\ op = [m \in Mutators |-> NoOp]
  /\ calls = 0

-----------------------------------------------------------------------------
(* Set, Value.Close and Watcher.Close.                                        *)

Call(m) ==
  /\ mpc[m] = "idle"
  /\ calls < MaxCalls
  /\ calls' = calls + 1
  /\ \E o \in Ops : op' = [op EXCEPT ![m] = o]
  /\ mpc' = [mpc EXCEPT ![m] = "lock"]
  /\ UNCHANGED <<valueVars, inited, readers, writer, waiting, watchVars,
                 wclosed, wpc>>

(* mu.Lock(): exclude the other writers and new readers ...                   *)
Lock(m) ==
  /\ mpc[m] = "lock"
  /\ writer = None
  /\ writer' = m
  /\ mpc' = [mpc EXCEPT ![m] = "locked"]
  /\ UNCHANGED <<valueVars, inited, readers, waiting, watchVars, wclosed, wpc,
                 op, calls>>

(* What the methods do to the fields under the lock.                          *)
Set ==
  /\ val' = Vals[version + 1]
  /\ version' = version + 1
  /\ UNCHANGED <<closed, wclosed>>

ValueClose == closed' = TRUE /\ UNCHANGED <<val, version, wclosed>>

WatcherClose(w) ==
  wclosed' = [wclosed EXCEPT ![w] = TRUE] /\ UNCHANGED valueVars

(* ... wait for the readers, run the section and unlock.  Mutant: a mutex     *)
(* that is not shared with the readers.                                       *)
ownMutex == TRUE
noReaders == readers = {}

Mutate(m) ==
  /\ mpc[m] = "locked"
  /\ noReaders
  /\ inited' = TRUE
  /\ \/ op[m][1] = "Set" /\ Set
     \/ op[m][1] = "Close" /\ ValueClose
     \/ op[m][1] = "WatcherClose" /\ WatcherClose(op[m][2])
  /\ writer' = None
  /\ mpc' = [mpc EXCEPT ![m] = "broadcast"]
  /\ UNCHANGED <<readers, waiting, watchVars, wpc, op, calls>>

(* The sets of waiters that one notification may wake.                        *)
Signalled == IF waiting = {} THEN {{}} ELSE {{w} : w \in waiting} \* mutant
Notified == {waiting}

Broadcast(m) ==
  /\ mpc[m] = "broadcast"
  /\ \E s \in Notified : waiting' = waiting \ s
  /\ mpc' = [mpc EXCEPT ![m] = "idle"]
  /\ op' = [op EXCEPT ![m] = NoOp]
  /\ UNCHANGED <<valueVars, inited, readers, writer, watchVars, wclosed, wpc,
                 calls>>

-----------------------------------------------------------------------------
(* Next.                                                                      *)

NextCall(w) ==
  /\ wpc[w] = "idle"
  /\ wpc' = [wpc EXCEPT ![w] = "rlock"]
  /\ UNCHANGED <<valueVars, inited, readers, writer, waiting, watchVars,
                 wclosed, mpc, op, calls>>

(* Another round of the loop begins, under the read lock.                     *)
Round(w) ==
  /\ readers' = readers \cup {w}
  /\ wpc' = [wpc EXCEPT ![w] = "check"]

(* mu.RLock(), also the one after the initialisation; a Value that is not     *)
(* initialised is unlocked again at once.                                     *)
RLock(w) ==
  /\ wpc[w] = "rlock"
  /\ writer = None
  /\ IF inited
       THEN Round(w)
       ELSE wpc' = [wpc EXCEPT ![w] = "initlock"] /\ UNCHANGED readers
  /\ UNCHANGED <<valueVars, inited, writer, waiting, watchVars, wclosed, mpc,
                 op, calls>>

InitLock(w) ==
  /\ wpc[w] = "initlock"
  /\ writer = None
  /\ writer' = w
  /\ wpc' = [wpc EXCEPT ![w] = "initlocked"]
  /\ UNCHANGED <<valueVars, inited, readers, waiting, watchVars, wclosed, mpc,
                 op, calls>>

InitValue(w) ==
  /\ wpc[w] = "initlocked"
  /\ readers = {}
  /\ inited' = TRUE
  /\ writer' = None
  /\ wpc' = [wpc EXCEPT ![w] = "rlock"]
  /\ UNCHANGED <<valueVars, readers, waiting, watchVars, wclosed, mpc, op,
                 calls>>

(* The loop's two ways out, with the deferred RUnlock ...                     *)
NextReturn(w) ==
  /\ wpc' = [wpc EXCEPT ![w] = "idle"]
  /\ readers' = readers \ {w}
  /\ UNCHANGED <<valueVars, inited, writer, waiting, wclosed, mpc, op, calls>>

(* A new version, and then its value: what keeps them together is that no     *)
(* writer runs between the two.                                               *)
NextVersion(w) ==
  /\ wpc[w] = "check"
  /\ wversion[w] # version
  /\ wversion' = [wversion EXCEPT ![w] = version]
  /\ wpc' = [wpc EXCEPT ![w] = "copy"]
  /\ UNCHANGED <<valueVars, inited, readers, writer, waiting, current, wclosed,
                 mpc, op, calls>>

NextTrue(w) ==
  /\ wpc[w] = "copy"
  /\ current' = [current EXCEPT ![w] = val]
  /\ UNCHANGED wversion
  /\ NextReturn(w)

NextFalse(w) ==
  /\ wpc[w] = "check"
  /\ wversion[w] = version
  /\ closed \/ wclosed[w]
  /\ NextReturn(w)
  /\ UNCHANGED watchVars

(* ... and wait.Wait(): join the notify list, then release the read lock ...  *)
CondAdd(w) ==
  /\ wpc[w] = "check"
  /\ wversion[w] = version
  /\ ~closed /\ ~wclosed[w]
  /\ waiting' = waiting \cup {w}
  /\ wpc' = [wpc EXCEPT ![w] = "added"]
  /\ UNCHANGED <<valueVars, inited, readers, writer, watchVars, wclosed, mpc,
                 op, calls>>

CondUnlock(w) ==
  /\ wpc[w] = "added"
  /\ readers' = readers \ {w}
  /\ wpc' = [wpc EXCEPT ![w] = "parked"]
  /\ UNCHANGED <<valueVars, inited, writer, waiting, watchVars, wclosed, mpc,
                 op, calls>>

(* ... sleep until a broadcast, take the lock back and go round again.        *)
CondWake(w) ==
  /\ wpc[w] = "parked"
  /\ w \notin waiting
  /\ writer = None
  /\ Round(w)
  /\ UNCHANGED <<valueVars, inited, writer, waiting, watchVars, wclosed, mpc,
                 op, calls>>

MutatorStep(m) == Lock(m) \/ Mutate(m) \/ Broadcast(m)

NextStep(w) ==
  \/ RLock(w) \/ InitLock(w) \/ InitValue(w) \/ NextVersion(w) \/ NextTrue(w)
  \/ NextFalse(w) \/ CondAdd(w) \/ CondUnlock(w) \/ CondWake(w)

Next ==
  \/ \E m \in Mutators : Call(m) \/ MutatorStep(m)
  \/ \E w \in Watchers : NextCall(w) \/ NextStep(w)

Spec == Init /\ [][Next]_vars

(* A goroutine that can run runs; nobody has to make another call.            *)
LiveSpec ==
  /\ Spec
  /\ \A m \in Mutators : WF_vars(MutatorStep(m))
  /\ \A w \in Watchers : WF_vars(NextStep(w))

-----------------------------------------------------------------------------
(* The types of the variables.                                                *)
TypeOK ==
  /\ val \in Values \cup {None} /\ version \in Nat
  /\ closed \in BOOLEAN /\ inited \in BOOLEAN
  /\ readers \subseteq Watchers /\ waiting \subseteq Watchers
  /\ writer \in Watchers \cup Mutators \cup {None}
  /\ wversion \in [Watchers -> Nat]
  /\ current \in [Watchers -> Values \cup {None}]
  /\ wclosed \in [Watchers -> BOOLEAN]
  /\ wpc \in [Watchers -> {"idle", "rlock", "initlock", "initlocked", "check",
                           "copy", "added", "parked"}]
  /\ mpc \in [Mutators -> {"idle", "lock", "locked", "broadcast"}]
  /\ op \in [Mutators -> Ops \cup {NoOp}]
  /\ calls \in 0..MaxCalls

(* There is something for w's call of Next to return.                         *)
Ready(w) == wversion[w] # version \/ closed \/ wclosed[w]

(* No lost wake-up: whenever a watcher sleeps (or is about to) although its   *)
(* Next has something to return, a goroutine that made the change has still   *)
(* to broadcast.  The broadcast is made without the lock.                     *)
NoLostWakeup ==
  \A w \in waiting : Ready(w) => \E m \in Mutators : mpc[m] = "broadcast"

(* What a watcher has is what the Value was at the version the watcher has    *)
(* (or, until Next has copied the value, is about to have), and no watcher is *)
(* ahead of the Value: Next returns each value with its own version and never *)
(* one twice, although version and value are read one after the other.        *)
CurrentIsVersion ==
  \A w \in Watchers :
    /\ wversion[w] \in 0..version
    /\ LET seen == IF wpc[w] = "copy" THEN val ELSE current[w] IN
       seen = IF wversion[w] = 0 THEN None ELSE Vals[wversion[w]]

(* Next returns once there is a change or a close to report; Set and the two  *)
(* Close return, however many watchers wait.                                  *)
CallsReturn ==
  /\ \A w \in Watchers : Ready(w) ~> (wpc[w] = "idle")
  /\ \A m \in Mutators : (mpc[m] # "idle") ~> (mpc[m] = "idle")
=============================================================================
