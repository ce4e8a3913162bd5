----------------------------- MODULE AtomicFile ------------------------------
(* The helpers that replace a file or a link while others read it:            *)
(* AtomicWriteFile and CopyFile (src/file.go), WriteYaml and ReadYaml         *)
(* (src/trivial.go) and symlink.Replace (src/symlink/symlink.go), called      *)
(* concurrently on the same paths.  The disk is a map from names to inodes    *)
(* and the contents of each inode; one filesystem operation, or the reading   *)
(* or writing of one block, is one step.  Any operation may fail and any      *)
(* caller may die between two of them, at most MaxFaults times in all; what   *)
(* is on disk then stays.  Every caller makes one call; a second call by the  *)
(* same process is another caller.  Blocks lost in a crash of the whole       *)
(* machine are not modelled.                                                  *)
EXTENDS Naturals, Sequences, FiniteSets

CONSTANTS Callers,     \* one call each
          Calls,       \* the functions that are called
          Size,        \* Size[c]: the number of blocks of what c writes
          MaxFaults    \* bound on failing operations and crashes

None == "none"
Old  == "old"          \* what is there before any call

(* A caller creates at most one inode, which we identify with the caller, and *)
(* one name of its own: a temporary file or link, or the destination of its   *)
(* copy.                                                                      *)
Paths  == {"file", "yaml", "preparing", "link"}
Names  == Callers \cup Paths
Inodes == Callers \cup {Old}

ASSUME CallersAssumption == Callers \cap (Paths \cup {None, Old}) = {}
ASSUME SizeAssumption == Size \in [Inodes -> Nat \ {0}] /\ MaxFaults \in Nat
ASSUME CallsAssumption ==
  Calls \subseteq {"AtomicWriteFile", "CopyFile", "WriteYaml", "ReadYaml", "Replace"}

VARIABLES
  at,      \* at[n]: the inode name n leads to, or None
  data,    \* data[i]: the blocks of inode i, and whether it has the
           \* permissions the caller asked for
  proc,    \* proc[c]: the call c makes, its next operation, the inode it has
           \* open, its offset in it, and what it returned
  faulty   \* history: <<c, l>> if c's operation l failed, or c died there

vars == <<at, data, proc, faulty>>

Content(w) == [k \in 1..Size[w] |-> <<w, k>>]

Whole(i) == \E w \in Inodes : data[i].blocks = Content(w)

Init ==
  /\ \E p \in SUBSET {"file", "yaml"} :
       at = [n \in Names |-> IF n \in p \cup {"link"} THEN Old ELSE None]
  /\ data = [i \in Inodes |-> [blocks |-> IF i = Old THEN Content(Old) ELSE <<>>,
                               mode |-> i = Old]]
  /\ proc \in [Callers -> [call : Calls, pc : {"start"}, fd : {None}, pos : {0},
                           result : {None}]]
  /\ faulty = {}

-----------------------------------------------------------------------------
At(c, f, l) == proc[c].call = f /\ proc[c].pc = l

Fault(c) ==
  /\ Cardinality(faulty) < MaxFaults
  /\ faulty' = faulty \cup {<<c, proc[c].pc>>}

(* The current operation succeeds and l is next, succeeds and moves the       *)
(* offset, succeeds as the last one, or fails and its error is returned.      *)
Goto(c, l)    == proc' = [proc EXCEPT ![c].pc = l] /\ UNCHANGED faulty
Advance(c, l) == proc' = [proc EXCEPT ![c].pc = l, ![c].pos = @ + 1] /\ UNCHANGED faulty
Returned(c, r) == [proc EXCEPT ![c].pc = "returned", ![c].result = r]
Return(c, r)  == proc' = Returned(c, r) /\ UNCHANGED faulty
Fails(c)      == proc' = Returned(c, "err") /\ Fault(c) /\ UNCHANGED <<at, data>>

(* rename(2): name n now leads to what name s led to.                         *)
Renamed(s, n) == [at EXCEPT ![n] = at[s], ![s] = None]

(* write(2) of c's next block at c's offset in inode i.                       *)
Written(c, i) ==
  LET p == proc[c].pos + 1
      b == data[i].blocks
  IN  [data EXCEPT ![i].blocks =
         IF p <= Len(b) THEN [b EXCEPT ![p] = <<c, p>>] ELSE Append(b, <<c, p>>)]

anyBlock(c) == TRUE                                               \* mutant
lastBlock(c) == proc[c].pos + 1 = Size[c]

-----------------------------------------------------------------------------
(* AtomicWriteFile: AtomicWriteFileAndChange with a chmod as the change.      *)

TempFile(c) ==
  /\ At(c, "AtomicWriteFile", "start")
  /\ \/ Goto(c, "write") /\ at' = [at EXCEPT ![c] = c] /\ UNCHANGED data
     \/ Fails(c)

(* The deferred function cleans up after an error in one of the next three.   *)
OrReturn(c) == Fails(c)                                           \* mutant
OrGoOn(c) ==                                                      \* mutant
  proc' = [proc EXCEPT ![c].pc = "rename"] /\ Fault(c) /\ UNCHANGED <<at, data>>
OrUndo(c) ==
  proc' = [proc EXCEPT ![c].pc = "undo"] /\ Fault(c) /\ UNCHANGED <<at, data>>

WriteTemp(c) ==
  /\ At(c, "AtomicWriteFile", "write")
  /\ \/ /\ Advance(c, IF lastBlock(c) THEN "chmod" ELSE "write")
        /\ data' = Written(c, c)
        /\ UNCHANGED at
     \/ OrUndo(c)

ChmodTemp(c) ==
  /\ At(c, "AtomicWriteFile", "chmod")
  /\ \/ Goto(c, "rename") /\ data' = [data EXCEPT ![c].mode = TRUE] /\ UNCHANGED at
     \/ OrUndo(c)

(* f.Close, whose error is ignored, and ReplaceFile.                          *)
RenameTemp(c) ==
  /\ At(c, "AtomicWriteFile", "rename")
  /\ \/ Return(c, "ok") /\ at' = Renamed(c, "file") /\ UNCHANGED data
     \/ OrUndo(c)

(* "Don't leave the temp file lying around on error": os.Remove, whose error  *)
(* is ignored.                                                                *)
Undo(c) ==
  /\ At(c, "AtomicWriteFile", "undo")
  /\ \/ Return(c, "err") /\ at' = [at EXCEPT ![c] = None] /\ UNCHANGED data
     \/ Fails(c)

-----------------------------------------------------------------------------
(* WriteYaml.  The sibling ".preparing" has one name for all callers and is   *)
(* opened with O_CREATE, but neither O_TRUNC nor O_EXCL.                      *)

preparing(c) == IF at["preparing"] = None THEN c ELSE at["preparing"]

OpenPreparing(c) ==
  /\ At(c, "WriteYaml", "start")
  /\ \/ /\ proc' = [proc EXCEPT ![c].pc = "write", ![c].fd = preparing(c)]
        /\ at' = [at EXCEPT !["preparing"] = preparing(c)]
        /\ UNCHANGED <<data, faulty>>
     \/ Fails(c)

(* f.Write, and f.Close, whose error is ignored.                              *)
WritePreparing(c) ==
  /\ At(c, "WriteYaml", "write")
  /\ \/ /\ Advance(c, IF lastBlock(c) THEN "rename" ELSE "write")
        /\ data' = Written(c, proc[c].fd)
        /\ UNCHANGED at
     \/ Fails(c)

(* ReplaceFile(prep, path), which fails if somebody has renamed prep before.  *)
RenamePreparing(c) ==
  /\ At(c, "WriteYaml", "rename")
  /\ \/ /\ at["preparing"] # None
        /\ Return(c, "ok") /\ at' = Renamed("preparing", "yaml") /\ UNCHANGED data
     \/ at["preparing"] = None /\ Return(c, "err") /\ UNCHANGED <<at, data>>
     \/ Fails(c)

-----------------------------------------------------------------------------
(* CopyFile of "file", which creates its destination first, and ReadYaml of   *)
(* "yaml"; data[c] is then what ReadFile has read.                            *)

Create(c) ==
  /\ At(c, "CopyFile", "start")
  /\ \/ Goto(c, "open") /\ at' = [at EXCEPT ![c] = c] /\ UNCHANGED data
     \/ Fails(c)

Opens(c, n) ==
  \/ /\ at[n] # None
     /\ proc' = [proc EXCEPT ![c].pc = "copy", ![c].fd = at[n]]
     /\ UNCHANGED <<at, data, faulty>>
  \/ at[n] = None /\ Return(c, "err") /\ UNCHANGED <<at, data>>
  \/ Fails(c)

Open(c) == At(c, "CopyFile", "open") /\ Opens(c, "file")

ReadYaml(c) == At(c, "ReadYaml", "start") /\ Opens(c, "yaml")

(* A round of io.Copy, or of ReadFile.                                        *)
CopyBlock(c) ==
  LET from == data[proc[c].fd].blocks IN
  /\ proc[c].pc = "copy"
  /\ \/ /\ proc[c].pos < Len(from)
        /\ data' = [data EXCEPT ![c].blocks = Append(@, from[proc[c].pos + 1])]
        /\ Advance(c, "copy") /\ UNCHANGED at
     \/ proc[c].pos >= Len(from) /\ Return(c, "ok") /\ UNCHANGED <<at, data>>
     \/ Fails(c)

-----------------------------------------------------------------------------
(* symlink.Replace; the blocks stand for the link's target.                   *)

linkAssumed(c) == at                                              \* mutant
linked(c) == [at EXCEPT ![c] = c]

NewLink(c) ==
  /\ At(c, "Replace", "start")
  /\ \/ /\ Goto(c, "stat")
        /\ at' = linked(c)
        /\ data' = [data EXCEPT ![c].blocks = Content(c)]
     \/ Fails(c)

(* os.Stat follows the link, so it also fails when the target is missing.     *)
StatLink(c) ==
  /\ At(c, "Replace", "stat")
  /\ (at["link"] # None /\ Goto(c, "unlink")) \/ Goto(c, "rename")
  /\ UNCHANGED <<at, data>>

RemoveLink(c) ==
  /\ At(c, "Replace", "unlink")
  /\ \/ Goto(c, "rename") /\ at' = [at EXCEPT !["link"] = None] /\ UNCHANGED data
     \/ Fails(c)

RenameLink(c) ==
  /\ At(c, "Replace", "rename")
  /\ \/ Return(c, "ok") /\ at' = Renamed(c, "link") /\ UNCHANGED data
     \/ Fails(c)

-----------------------------------------------------------------------------
Crash(c) ==
  /\ proc[c].pc \notin {"start", "returned", "crashed"}
  /\ Fault(c)
  /\ proc' = [proc EXCEPT ![c].pc = "crashed"]
  /\ UNCHANGED <<at, data>>

Next ==
  \E c \in Callers :
    \/ TempFile(c) \/ WriteTemp(c) \/ ChmodTemp(c) \/ RenameTemp(c) \/ Undo(c)
    \/ OpenPreparing(c) \/ WritePreparing(c) \/ RenamePreparing(c)
    \/ Create(c) \/ Open(c) \/ ReadYaml(c) \/ CopyBlock(c)
    \/ NewLink(c) \/ StatLink(c) \/ RemoveLink(c) \/ RenameLink(c)
    \/ Crash(c)

Spec == Init /\ [][Next]_vars

-----------------------------------------------------------------------------
(* What a reader of "file" finds: somebody's whole contents, with the         *)
(* permissions that go with it, or a mixture.                                 *)
shown ==
  IF at["file"] = None THEN None
  ELSE LET i == at["file"]
       IN  IF data[i] = [blocks |-> Content(i), mode |-> TRUE] THEN i ELSE "mixture"

writers == {c \in Callers : proc[c].call = "AtomicWriteFile"}

Abstract == INSTANCE Register WITH
  Initial <- {Old, None}, value <- shown,
  returned <- [c \in Callers |-> IF c \in writers THEN proc[c].result ELSE None]

(* AtomicWriteFile implements the abstract register, however its calls, their *)
(* failures and the deaths of callers interleave.                             *)
FileImplements == Abstract!Spec

(* An AtomicWriteFile that has returned leaves no temporary file, unless      *)
(* removing it failed as well.                                                *)
TempRemoved ==
  \A c \in writers :
    proc[c].pc = "returned" => at[c] = None \/ <<c, "undo">> \in faulty

(* A WriteYaml has opened the ".preparing" file of another: one that is still *)
(* at work, failed or died.                                                   *)
disturbed ==
  \E c \in Callers : proc[c].call = "WriteYaml" /\ proc[c].fd \notin {None, c}

(* "WriteYaml ... writes it to a file, atomically": the file at the path is   *)
(* whole at any time.                                                         *)
YamlAtomic == at["yaml"] # None => Whole(at["yaml"])

(* As long as no two WriteYaml share the file they prepare, the file is whole *)
(* and ReadYaml reads it whole; CopyFile of a file that AtomicWriteFile       *)
(* replaces while it reads gets one whole version, if it returns nil.         *)
ReadsWhole ==
  /\ ~disturbed => YamlAtomic
  /\ \A c \in Callers :
       /\ proc[c].result = "ok"
       /\ proc[c].call = "CopyFile" \/ (proc[c].call = "ReadYaml" /\ ~disturbed)
       => Whole(c)

(* Replace is not atomic, but it never loses the link on its own: if there is *)
(* none, a Replace is between the removal and the rename, was killed there or *)
(* saw the rename fail.                                                       *)
LinkExplained ==
  at["link"] = None
    => \E c \in Callers : /\ proc[c].call = "Replace"
                          /\ proc[c].pc = "rename" \/ <<c, "rename">> \in faulty
=============================================================================
