----------------------------- MODULE FileStorage -----------------------------
(* src/filestorage: the wrapper fileStorage keeps a file in two stores, its   *)
(* metadata in a MetadataStorage and its bytes in a RawFileStorage.  Each     *)
(* call of a store is one step, which may fail (at most MaxFaults times);     *)
(* clients interleave between the steps.  The stores are external: they are   *)
(* modelled from the contracts in src/filestorage/interfaces.go.  Metadata    *)
(* and List make one call each that changes nothing.  The contracts do not    *)
(* say what a store does when it is closed under a call, so nobody closes the *)
(* storage during a call or begins one after it.                              *)
EXTENDS Naturals, FiniteSets

CONSTANTS Clients,     \* the goroutines that use the storage
          Ids,         \* the IDs the metadata store generates, each once
          MaxFaults    \* bound on failing calls of a store

ASSUME MaxFaultsAssumption == MaxFaults \in Nat

VARIABLES
  meta,      \* meta[i]: the document i is absent, not marked stored, or stored
  raw,       \* the ids with a file in the raw storage
  unused,    \* the ids not generated yet
  pc, op,    \* the next store call of a client, and the method it is in
  id,        \* the id a client's call is about
  faults,
  addResult,     \* history: what Add did with an id it had got
  removeCalled,  \* history: the ids Remove was called for
  storedFailed,  \* history: the ids for which SetStored failed after AddFile
  raced,         \* history: the ids two overlapping calls were about
  missed,        \* history: the ids whose metadata Get found and whose file not
  shut           \* shut[s]: how the Close of store s ended, if it was called

vars == <<meta, raw, unused, pc, op, id, faults, addResult, removeCalled,
          storedFailed, raced, missed, shut>>

NoId == "noID"
NoOp == "none"

ASSUME IdsAssumption == NoId \notin Ids

Init ==                                                  \* NewFileStorage
  /\ meta = [i \in Ids |-> "absent"]
  /\ raw = {}
  /\ unused = Ids
  /\ pc = [c \in Clients |-> "idle"]
  /\ op = [c \in Clients |-> NoOp]
  /\ id = [c \in Clients |-> NoId]
  /\ faults = 0
  /\ addResult = [i \in Ids |-> "none"]
  /\ removeCalled = {} /\ storedFailed = {} /\ raced = {} /\ missed = {}
  /\ shut = [s \in {"raw", "meta"} |-> "open"]

-----------------------------------------------------------------------------
Fault   == faults < MaxFaults /\ faults' = faults + 1
NoFault == UNCHANGED faults

Goto(c, l) == pc' = [pc EXCEPT ![c] = l] /\ UNCHANGED <<op, id>>

Return(c) ==
  /\ pc' = [pc EXCEPT ![c] = "idle"]
  /\ op' = [op EXCEPT ![c] = NoOp]
  /\ id' = [id EXCEPT ![c] = NoId]

Quiet == \A c \in Clients : pc[c] = "idle"

Ready(c) == pc[c] = "idle" /\ shut["raw"] = "open"

(* A method's first store call has succeeded for id i; l is the next one.     *)
Enter(c, o, i, l) ==
  /\ pc' = [pc EXCEPT ![c] = l]
  /\ op' = [op EXCEPT ![c] = o]
  /\ id' = [id EXCEPT ![c] = i]

(* A call about i begins while another one is on.                             *)
Overlap(c, i) ==
  raced' = IF \E d \in Clients \ {c} : id[d] = i THEN raced \cup {i} ELSE raced

AddDone(c, r) ==
  addResult' = IF op[c] = "Add" THEN [addResult EXCEPT ![id[c]] = r] ELSE addResult

-----------------------------------------------------------------------------
(* Add, and metaStorage.AddMetadata, its first call.  Without a file that is  *)
(* all it does.                                                               *)
Add(c) ==
  /\ Ready(c)
  /\ \/ Fault /\ UNCHANGED <<meta, unused, addResult, pc, op, id>>
     \/ /\ NoFault
        /\ \E i \in unused :
             /\ unused' = unused \ {i}
             /\ meta' = [meta EXCEPT ![i] = "unstored"]
             /\ \/ Enter(c, "Add", i, "addfile") /\ UNCHANGED addResult
                \/ /\ addResult' = [addResult EXCEPT ![i] = "noFile"]
                   /\ UNCHANGED <<pc, op, id>>
  /\ UNCHANGED <<raw, removeCalled, storedFailed, raced, missed, shut>>

(* SetFile, and s.Metadata(id), its first call.  Any id that was ever         *)
(* generated may be asked for; a document that is not there is an error.      *)
SetFile(c) ==
  /\ Ready(c)
  /\ \E i \in Ids \ unused :
       /\ Overlap(c, i)
       /\ \/ NoFault /\ meta[i] # "absent" /\ Enter(c, "SetFile", i, "addfile")
          \/ NoFault /\ meta[i] = "absent" /\ UNCHANGED <<pc, op, id>>
          \/ Fault /\ UNCHANGED <<pc, op, id>>
  /\ UNCHANGED <<meta, raw, unused, addResult, removeCalled, storedFailed, missed, shut>>

(* addFile: rawStorage.AddFile, which fails if there is a file already.  An   *)
(* error makes Add remove the metadata and SetFile return.                    *)
AddFileFailed(c) ==
  IF op[c] = "Add" THEN Goto(c, "rollback") ELSE Return(c)

AddFile(c) ==
  /\ pc[c] = "addfile"
  /\ \/ NoFault /\ id[c] \notin raw /\ raw' = raw \cup {id[c]} /\ Goto(c, "setstored")
     \/ NoFault /\ id[c] \in raw /\ AddFileFailed(c) /\ UNCHANGED raw
     \/ Fault /\ AddFileFailed(c) /\ UNCHANGED raw
  /\ UNCHANGED <<meta, unused, addResult, removeCalled, storedFailed, raced, missed, shut>>

(* addFile: metaStorage.SetStored, which fails if there is no document.  The  *)
(* raw file stays where it is.                                                *)
SetStored(c) ==
  /\ pc[c] = "setstored"
  /\ \/ /\ NoFault /\ meta[id[c]] # "absent"
        /\ meta' = [meta EXCEPT ![id[c]] = "stored"]
        /\ AddDone(c, "file")
        /\ Return(c)
        /\ UNCHANGED storedFailed
     \/ /\ (NoFault /\ meta[id[c]] = "absent") \/ Fault
        /\ AddFileFailed(c)
        /\ storedFailed' = storedFailed \cup {id[c]}
        /\ UNCHANGED <<meta, addResult>>
  /\ UNCHANGED <<raw, unused, removeCalled, raced, missed, shut>>

(* Add: metaStorage.RemoveMetadata, "the metadata we just added", which fails *)
(* if somebody has removed it.                                                *)
NotRolledBack(c) == meta                                          \* mutant
RolledBack(c) == [meta EXCEPT ![id[c]] = "absent"]

Rollback(c) ==
  /\ pc[c] = "rollback"
  /\ \/ /\ NoFault /\ meta[id[c]] # "absent"
        /\ meta' = RolledBack(c)
        /\ AddDone(c, "failed")
     \/ /\ (NoFault /\ meta[id[c]] = "absent") \/ Fault
        /\ AddDone(c, "rollbackFailed")
        /\ UNCHANGED meta
  /\ Return(c)
  /\ UNCHANGED <<raw, unused, removeCalled, storedFailed, raced, missed, shut>>

(* Remove, and rawStorage.RemoveFile, its first call; a missing file is fine. *)
RemoveNothing(i) == raw                                           \* mutant
RemoveFile(i) == raw \ {i}

Remove(c) ==
  /\ Ready(c)
  /\ \E i \in Ids \ unused :
       /\ removeCalled' = removeCalled \cup {i}
       /\ Overlap(c, i)
       /\ \/ NoFault /\ raw' = RemoveFile(i) /\ Enter(c, "Remove", i, "removemeta")
          \/ Fault /\ UNCHANGED <<raw, pc, op, id>>
  /\ UNCHANGED <<meta, unused, addResult, storedFailed, missed, shut>>

(* Remove: metaStorage.RemoveMetadata.                                        *)
RemoveMetadata(c) ==
  /\ pc[c] = "removemeta"
  /\ \/ NoFault /\ meta' = [meta EXCEPT ![id[c]] = "absent"]
     \/ Fault /\ UNCHANGED meta
  /\ Return(c)
  /\ UNCHANGED <<raw, unused, addResult, removeCalled, storedFailed, raced, missed, shut>>

(* Get, and s.Metadata(id), its first call; a document without the stored     *)
(* mark is not found ...                                                      *)
anyDocument(i) == meta[i] # "absent"                              \* mutant
isStored(i) == meta[i] = "stored"

Get(c) ==
  /\ Ready(c)
  /\ \E i \in Ids \ unused :
       \/ NoFault /\ isStored(i) /\ Enter(c, "Get", i, "getfile")
       \/ ((NoFault /\ ~isStored(i)) \/ Fault) /\ UNCHANGED <<pc, op, id>>
  /\ UNCHANGED <<meta, raw, unused, addResult, removeCalled, storedFailed, raced, missed, shut>>

(* ... and rawStorage.File, whose error Get returns.                          *)
GetFile(c) ==
  /\ pc[c] = "getfile"
  /\ \/ NoFault /\ id[c] \in raw /\ UNCHANGED missed
     \/ NoFault /\ id[c] \notin raw /\ missed' = missed \cup {id[c]}
     \/ Fault /\ UNCHANGED missed
  /\ Return(c)
  /\ UNCHANGED <<meta, raw, unused, addResult, removeCalled, storedFailed, raced, shut>>

(* Close closes the raw storage and then the metadata storage, whether the    *)
(* first succeeds or not, and returns nil if both did.                        *)
CloseStore(s) ==
  \/ NoFault /\ shut' = [shut EXCEPT ![s] = "closed"]
  \/ Fault /\ shut' = [shut EXCEPT ![s] = "failed"]

CloseRaw(c) ==
  /\ Ready(c) /\ Quiet /\ CloseStore("raw") /\ Goto(c, "closemeta")
  /\ UNCHANGED <<meta, raw, unused, addResult, removeCalled, storedFailed, raced, missed>>

CloseMeta(c) ==
  /\ pc[c] = "closemeta" /\ CloseStore("meta") /\ Return(c)
  /\ UNCHANGED <<meta, raw, unused, addResult, removeCalled, storedFailed, raced, missed>>

Next ==
  \E c \in Clients :
    \/ Add(c) \/ SetFile(c) \/ AddFile(c) \/ SetStored(c) \/ Rollback(c)
    \/ Remove(c) \/ RemoveMetadata(c)
    \/ Get(c) \/ GetFile(c) \/ CloseRaw(c) \/ CloseMeta(c)

Spec == Init /\ [][Next]_vars

-----------------------------------------------------------------------------
(* The types of the variables.                                                *)
TypeOK ==
  /\ meta \in [Ids -> {"absent", "unstored", "stored"}]
  /\ raw \subseteq Ids /\ unused \subseteq Ids
  /\ pc \in [Clients -> {"idle", "addfile", "setstored", "rollback", "removemeta",
                         "getfile", "closemeta"}]
  /\ op \in [Clients -> {NoOp, "Add", "SetFile", "Remove", "Get"}]
  /\ id \in [Clients -> Ids \cup {NoId}]
  /\ \A c \in Clients : pc[c] \notin {"idle", "closemeta"} => id[c] \in Ids
  /\ faults \in 0..MaxFaults
  /\ addResult \in [Ids -> {"none", "noFile", "file", "failed", "rollbackFailed"}]
  /\ removeCalled \subseteq Ids /\ storedFailed \subseteq Ids /\ raced \subseteq Ids
  /\ missed \subseteq Ids
  /\ shut \in [{"raw", "meta"} -> {"open", "closed", "failed"}]

(* Get(i) returns the file and its metadata.                                  *)
Found(i) == meta[i] = "stored" /\ i \in raw

(* What Add has stored can be got, and what is marked stored is there, until  *)
(* somebody calls Remove; an Add that failed leaves no metadata, unless       *)
(* removing it failed as well.                                                *)
AddedIsFound ==
  /\ \A i \in Ids \ removeCalled :
       /\ addResult[i] = "file" => Found(i)
       /\ addResult[i] = "noFile" => meta[i] # "absent"
       /\ meta[i] = "stored" => Found(i)
  /\ \A i \in Ids : addResult[i] = "failed" => meta[i] = "absent"

(* A Get that finds the metadata of a stored file finds the file too, though  *)
(* it looks for it later, unless Remove was called for it.                    *)
GetServed == missed \subseteq removeCalled

(* A file without a document is one whose SetStored failed, an error its      *)
(* caller was told of, or one that two overlapping calls were about.          *)
OrphanExplained ==
  Quiet => \A i \in raw : meta[i] = "absent" => i \in storedFailed \cup raced

(* "Every file must have a corresponding metadata doc stored in the system"   *)
(* (package comment): once all calls have returned, without any store having  *)
(* failed.                                                                    *)
FileHasMetadata ==
  (Quiet /\ storedFailed = {}) => \A i \in raw : meta[i] # "absent"
=============================================================================
