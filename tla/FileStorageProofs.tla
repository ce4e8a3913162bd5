-------------------------- MODULE FileStorageProofs --------------------------
(* What the storage wrapper guarantees for any number of clients, ids and     *)
(* failing store calls.                                                       *)
EXTENDS FileStorage, TLAPS

(* The methods that a store call may belong to.                               *)
CallOf ==
  \A c \in Clients :
    /\ pc[c] \in {"idle", "closemeta"} => op[c] = NoOp /\ id[c] = NoId
    /\ pc[c] \in {"addfile", "setstored"} => op[c] \in {"Add", "SetFile"}
    /\ pc[c] = "rollback" => op[c] = "Add"
    /\ pc[c] = "removemeta" => op[c] = "Remove" /\ id[c] \in removeCalled
    /\ pc[c] = "getfile" => op[c] = "Get"
    /\ id[c] \notin unused

(* An id that was not generated has left no trace.                            *)
Fresh ==
  \A i \in unused : meta[i] = "absent" /\ i \notin raw /\ addResult[i] = "none"

(* An id is added once, and there is no result before the Add returns.        *)
AddedOnce ==
  /\ \A c \in Clients : op[c] = "Add" => addResult[id[c]] = "none"
  /\ \A c, d \in Clients : op[c] = "Add" /\ op[d] = "Add" /\ id[c] = id[d] => c = d

(* What a call relies on between two of its store calls, as long as Remove is *)
(* not called.                                                                *)
FileThere ==
  \A c \in Clients :
    /\ pc[c] = "setstored" => id[c] \in raw \cup removeCalled
    /\ pc[c] = "getfile" => id[c] \in raw \cup removeCalled

StorageInv ==
  TypeOK /\ CallOf /\ Fresh /\ AddedOnce /\ FileThere /\ AddedIsFound /\ GetServed

(* Two calls that change something for one id have been seen to overlap.      *)
Changing(c) == op[c] \in {"Add", "SetFile", "Remove"}

RaceSeen ==
  \A c, d \in Clients :
    c # d /\ Changing(c) /\ Changing(d) /\ id[c] = id[d] => id[c] \in raced

(* A file without a document, also while calls are on, and what the calls     *)
(* that lead there know.                                                      *)
OrphanInv ==
  /\ \A i \in raw : meta[i] = "absent" => i \in storedFailed \cup raced
  /\ \A c \in Clients :
       /\ pc[c] \in {"addfile", "setstored"} /\ meta[id[c]] = "absent" => id[c] \in raced
       /\ pc[c] = "addfile" /\ op[c] = "Add" /\ id[c] \in raw => id[c] \in raced
       /\ pc[c] = "rollback" /\ id[c] \in raw => id[c] \in storedFailed \cup raced
       /\ pc[c] = "removemeta" /\ id[c] \in raw => id[c] \in raced
-----------------------------------------------------------------------------
(* What client c may do next.                                                 *)
Step(c) ==
  \/ Add(c) \/ SetFile(c) \/ AddFile(c) \/ SetStored(c) \/ Rollback(c)
  \/ Remove(c) \/ RemoveMetadata(c)
  \/ Get(c) \/ GetFile(c) \/ CloseRaw(c) \/ CloseMeta(c)

LEMMA TypeStep ==
  ASSUME TypeOK, NEW c \in Clients, Step(c)
  PROVE  TypeOK'
BY MaxFaultsAssumption
DEF TypeOK, Step, Add, SetFile, AddFile, SetStored, Rollback, Remove, RemoveMetadata, Get, GetFile,
      CloseRaw, CloseMeta, Fault, NoFault, Goto, Return, Ready, Enter, Overlap, AddDone,
      AddFileFailed, RolledBack, RemoveFile, isStored, CloseStore

LEMMA CallOfStep ==
  ASSUME TypeOK, CallOf, NEW c \in Clients, Step(c)
  PROVE  CallOf'
BY IdsAssumption
DEF TypeOK, CallOf, Step, Add, SetFile, AddFile, SetStored, Rollback, Remove, RemoveMetadata, Get, GetFile,
      CloseRaw, CloseMeta, Fault, NoFault, Goto, Return, Ready, Enter, Overlap, AddDone,
      AddFileFailed, RolledBack, RemoveFile, isStored, CloseStore

LEMMA FreshStep ==
  ASSUME TypeOK, CallOf, Fresh, NEW c \in Clients, Step(c)
  PROVE  Fresh'
BY DEF TypeOK, CallOf, Fresh, Step, Add, SetFile, AddFile, SetStored, Rollback, Remove, RemoveMetadata, Get, GetFile,
      CloseRaw, CloseMeta, Fault, NoFault, Goto, Return, Ready, Enter, Overlap, AddDone,
      AddFileFailed, RolledBack, RemoveFile, isStored, CloseStore

LEMMA AddedOnceStep ==
  ASSUME TypeOK, CallOf, Fresh, AddedOnce, NEW c \in Clients, Step(c)
  PROVE  AddedOnce'
BY DEF TypeOK, CallOf, Fresh, AddedOnce, NoOp, Step, Add, SetFile, AddFile, SetStored, Rollback, Remove, RemoveMetadata, Get, GetFile,
      CloseRaw, CloseMeta, Fault, NoFault, Goto, Return, Ready, Enter, Overlap, AddDone,
      AddFileFailed, RolledBack, RemoveFile, isStored, CloseStore

LEMMA FileThereStep ==
  ASSUME TypeOK, CallOf, AddedIsFound, FileThere, NEW c \in Clients, Step(c)
  PROVE  FileThere'
BY DEF TypeOK, CallOf, AddedIsFound, Found, FileThere, Step, Add, SetFile, AddFile, SetStored, Rollback, Remove, RemoveMetadata, Get, GetFile,
      CloseRaw, CloseMeta, Fault, NoFault, Goto, Return, Ready, Enter, Overlap, AddDone,
      AddFileFailed, RolledBack, RemoveFile, isStored, CloseStore

(* Only an Add that is on takes back what Add has added, and only Remove what *)
(* is marked stored.                                                          *)
LEMMA AddedIsFoundStep ==
  ASSUME TypeOK, CallOf, Fresh, AddedOnce, FileThere, AddedIsFound, NEW c \in Clients, Step(c)
  PROVE  AddedIsFound'
<1> USE DEF TypeOK, AddedIsFound, Found
<1>1. CASE Add(c)
  BY <1>1 DEF Add, Fresh
<1>2. CASE AddFile(c)
  BY <1>2 DEF AddFile
<1>3. CASE SetStored(c)
  <2>1. CASE UNCHANGED <<meta, addResult>>
    BY <1>3, <2>1 DEF SetStored
  <2>2. CASE /\ meta[id[c]] # "absent" /\ meta' = [meta EXCEPT ![id[c]] = "stored"]
             /\ AddDone(c, "file")
    <3>1. id[c] \in Ids /\ id[c] \in raw \cup removeCalled /\ UNCHANGED <<raw, removeCalled>>
      BY <1>3 DEF SetStored, FileThere
    <3> QED
      BY <2>2, <3>1 DEF AddDone
  <2> QED
    BY <1>3, <2>1, <2>2 DEF SetStored
<1>4. CASE Rollback(c)
  <2>1. id[c] \in Ids /\ addResult[id[c]] = "none"
    BY <1>4 DEF Rollback, CallOf, AddedOnce
  <2> QED
    BY <1>4, <2>1 DEF Rollback, RolledBack, AddDone
<1>5. CASE Remove(c)
  BY <1>5 DEF Remove, RemoveFile
<1>6. CASE RemoveMetadata(c)
  BY <1>6 DEF RemoveMetadata, CallOf
<1>7. CASE SetFile(c) \/ Get(c) \/ GetFile(c) \/ CloseRaw(c) \/ CloseMeta(c)
  BY <1>7 DEF SetFile, Get, GetFile, CloseRaw, CloseMeta
<1> QED
  BY <1>1, <1>2, <1>3, <1>4, <1>5, <1>6, <1>7 DEF Step

LEMMA GetServedStep ==
  ASSUME TypeOK, FileThere, GetServed, NEW c \in Clients, Step(c)
  PROVE  GetServed'
BY DEF TypeOK, FileThere, GetServed, Step, Add, SetFile, AddFile, SetStored, Rollback, Remove, RemoveMetadata, Get, GetFile,
      CloseRaw, CloseMeta, Fault, NoFault, Goto, Return, Ready, Enter, Overlap, AddDone,
      AddFileFailed, RolledBack, RemoveFile, isStored, CloseStore

LEMMA RaceSeenStep ==
  ASSUME TypeOK, CallOf, RaceSeen, NEW c \in Clients, Step(c)
  PROVE  RaceSeen'
BY DEF TypeOK, CallOf, RaceSeen, Changing, NoOp, Step, Add, SetFile, AddFile, SetStored, Rollback, Remove, RemoveMetadata, Get, GetFile,
      CloseRaw, CloseMeta, Fault, NoFault, Goto, Return, Ready, Enter, Overlap, AddDone,
      AddFileFailed, RolledBack, RemoveFile, isStored, CloseStore

(* A file loses its document in a Rollback or a RemoveMetadata, or comes      *)
(* without one in an AddFile; the file was then added by the same call, whose *)
(* SetStored failed, or by one that overlaps.                                 *)
LEMMA OrphanStep ==
  ASSUME TypeOK, CallOf, Fresh, RaceSeen, OrphanInv, NEW c \in Clients, Step(c)
  PROVE  OrphanInv'
<1> USE DEF TypeOK, CallOf, OrphanInv
<1>1. CASE Add(c)
  BY <1>1 DEF Add, Ready, Enter, Fresh
<1>2. CASE SetFile(c)
  BY <1>2 DEF SetFile, Ready, Enter, Overlap
<1>3. CASE AddFile(c)
  BY <1>3 DEF AddFile, AddFileFailed, Goto, Return, RaceSeen, Changing
<1>4. CASE SetStored(c)
  BY <1>4 DEF SetStored, AddFileFailed, Goto, Return
<1>5. CASE Rollback(c)
  BY <1>5 DEF Rollback, RolledBack, Return, RaceSeen, Changing
<1>6. CASE Remove(c)
  BY <1>6 DEF Remove, RemoveFile, Ready, Enter, Overlap
<1>7. CASE RemoveMetadata(c)
  BY <1>7 DEF RemoveMetadata, Return, RaceSeen, Changing
<1>8. CASE Get(c) \/ GetFile(c)
  BY <1>8 DEF Get, GetFile, Ready, Enter, Return
<1>9. CASE CloseRaw(c) \/ CloseMeta(c)
  BY <1>9 DEF CloseRaw, CloseMeta, Ready, Goto, Return
<1> QED
  BY <1>1, <1>2, <1>3, <1>4, <1>5, <1>6, <1>7, <1>8, <1>9 DEF Step

-----------------------------------------------------------------------------
LEMMA StorageInvariant == Spec => []StorageInv
<1>1. Init => StorageInv
  BY MaxFaultsAssumption, IdsAssumption
  DEF Init, StorageInv, TypeOK, CallOf, Fresh, AddedOnce, FileThere, AddedIsFound, GetServed,
      NoOp
<1>2. StorageInv /\ [Next]_vars => StorageInv'
  <2> SUFFICES ASSUME StorageInv, [Next]_vars PROVE StorageInv'
    OBVIOUS
  <2>1. ASSUME NEW c \in Clients, Step(c) PROVE StorageInv'
    BY <2>1, TypeStep, CallOfStep, FreshStep, AddedOnceStep, FileThereStep,
       AddedIsFoundStep, GetServedStep DEF StorageInv
  <2>2. CASE UNCHANGED vars
    BY <2>2 DEF vars, StorageInv, TypeOK, CallOf, Fresh, AddedOnce, FileThere,
                AddedIsFound, Found, GetServed
  <2> QED
    BY <2>1, <2>2 DEF Next, Step
<1> QED
  BY <1>1, <1>2, PTL DEF Spec

(* The variables have their types.                                            *)
THEOREM TypeCorrect == Spec => []TypeOK
BY StorageInvariant, PTL DEF StorageInv

(* What Add has stored can be got until somebody calls Remove, and a failed   *)
(* Add leaves no metadata unless removing it failed as well.                  *)
THEOREM AddedIsFoundHolds == Spec => []AddedIsFound
BY StorageInvariant, PTL DEF StorageInv

(* A Get that finds the metadata of a stored file finds the file too, unless  *)
(* Remove was called for it.                                                  *)
THEOREM GetServedHolds == Spec => []GetServed
BY StorageInvariant, PTL DEF StorageInv

(* A file without a document is one whose SetStored failed, or one that two   *)
(* overlapping calls were about.                                              *)
THEOREM OrphanExplainedHolds == Spec => []OrphanExplained
<1>1. Init => RaceSeen /\ OrphanInv
  BY DEF Init, RaceSeen, Changing, OrphanInv, NoOp
<1>2. StorageInv /\ RaceSeen /\ OrphanInv /\ [Next]_vars => RaceSeen' /\ OrphanInv'
  <2> SUFFICES ASSUME StorageInv, RaceSeen, OrphanInv, [Next]_vars
               PROVE  RaceSeen' /\ OrphanInv'
    OBVIOUS
  <2>1. ASSUME NEW c \in Clients, Step(c) PROVE RaceSeen' /\ OrphanInv'
    BY <2>1, RaceSeenStep, OrphanStep DEF StorageInv
  <2>2. CASE UNCHANGED vars
    BY <2>2 DEF vars, RaceSeen, Changing, OrphanInv
  <2> QED
    BY <2>1, <2>2 DEF Next, Step
<1>3. OrphanInv => OrphanExplained
  BY DEF OrphanInv, OrphanExplained
<1> QED
  BY <1>1, <1>2, <1>3, StorageInvariant, PTL DEF Spec

=============================================================================
