-------------------------- MODULE AtomicFileProofs ---------------------------
(* What the file helpers guarantee for any number of callers, any sizes of    *)
(* contents and any number of failures and deaths.                            *)
EXTENDS AtomicFile, TLAPS

(* The operations after which a call is.                                      *)
Stages == {"start", "write", "chmod", "rename", "undo", "open", "copy", "stat",
           "unlink", "returned", "crashed"}

(* The types of the variables.                                                *)
AtTyped == at \in [Names -> Inodes \cup {None}]

DataTyped == data \in [Inodes -> [blocks : Seq(Inodes \X Nat), mode : BOOLEAN]]

ProcTyped ==
  proc \in [Callers -> [call : Calls, pc : Stages, fd : Inodes \cup {None},
                        pos : Nat, result : {None, "ok", "err"}]]

(* A call that reads or writes through a descriptor has opened one.           *)
FdOpen ==
  \A c \in Callers :
    At(c, "WriteYaml", "write") \/ proc[c].pc = "copy" => proc[c].fd # None

TypeOK == AtTyped /\ DataTyped /\ ProcTyped /\ FdOpen

(* The first n blocks of what w writes.                                       *)
Prefix(w, n) == [k \in 1..n |-> <<w, k>>]

(* A name of a caller's own leads to nothing or to its own inode, and to      *)
(* nothing before the call; only a call that has returned has a result, and   *)
(* only CopyFile and ReadYaml copy.                                           *)
OwnNames ==
  \A c \in Callers :
    /\ at[c] \in {None, c}
    /\ proc[c].result # None => proc[c].pc = "returned"
    /\ proc[c].pc = "copy" => proc[c].call \in {"CopyFile", "ReadYaml"}
    /\ proc[c].pc = "start" => at[c] = None /\ proc[c].pos = 0 /\ proc[c].fd = None

(* WriteYaml's callers write and rename inodes of WriteYaml's callers only,   *)
(* and of those only one that somebody has opened.                            *)
YamlFiles == {c \in Callers : proc[c].call = "WriteYaml" /\ proc[c].pc # "start"}

YamlOwned ==
  /\ at["preparing"] \in YamlFiles \cup {None}
  /\ at["yaml"] \in YamlFiles \cup {None, Old}
  /\ \A c \in Callers : proc[c].call = "WriteYaml" =>
       /\ proc[c].fd \in YamlFiles \cup {None}
       /\ proc[c].pc = "write" => proc[c].pos < Size[c]

(* How far an AtomicWriteFile has come with its temporary file.               *)
Progress(c) ==
  /\ proc[c].pc \in {"write", "chmod", "rename", "undo"} => at[c] = c
  /\ proc[c].pc = "start" => data[c].blocks = <<>>
  /\ proc[c].pc = "write" =>
       proc[c].pos < Size[c] /\ data[c].blocks = Prefix(c, proc[c].pos)
  /\ proc[c].pc = "chmod" => data[c].blocks = Content(c)
  /\ proc[c].pc = "rename" \/ proc[c].result = "ok" =>
       data[c] = [blocks |-> Content(c), mode |-> TRUE]

TempWritten == \A c \in writers : Progress(c)

(* What "file" leads to is what a call that has returned nil has written.     *)
Stored == {Old} \cup {c \in writers : proc[c].result = "ok"}

FileStored ==
  /\ at["file"] \in Stored \cup {None}
  /\ data[Old] = [blocks |-> Content(Old), mode |-> TRUE]

FileInv == TypeOK /\ OwnNames /\ YamlOwned /\ TempWritten /\ FileStored /\ TempRemoved

(* A copy has read the first blocks of one version.                           *)
CopyInv ==
  \A c \in Callers : proc[c].call = "CopyFile" =>
    /\ proc[c].pc \in {"start", "open"} => data[c].blocks = <<>> /\ proc[c].pos = 0
    /\ proc[c].pc = "copy" =>
         /\ proc[c].fd \in Stored /\ proc[c].pos <= Size[proc[c].fd]
         /\ data[c].blocks = Prefix(proc[c].fd, proc[c].pos)
    /\ proc[c].result = "ok" => Whole(c)

(* The same of WriteYaml and ReadYaml, as long as no two calls share the file *)
(* they prepare: then whoever writes or renames it is the one who made it.    *)
YamlStored ==
  {Old} \cup {c \in Callers : proc[c].call = "WriteYaml" /\ proc[c].result = "ok"}

YamlInv ==
  /\ at["yaml"] \in YamlStored \cup {None}
  /\ \A c \in Callers :
       /\ proc[c].call = "WriteYaml" =>
            /\ proc[c].pc \in {"write", "rename"} => at["preparing"] = c /\ proc[c].fd = c
            /\ proc[c].pc = "start" => data[c].blocks = <<>>
            /\ proc[c].pc = "write" => data[c].blocks = Prefix(c, proc[c].pos)
            /\ proc[c].pc = "rename" \/ proc[c].result = "ok" => data[c].blocks = Content(c)
       /\ proc[c].call = "ReadYaml" =>
            /\ proc[c].pc = "start" => data[c].blocks = <<>> /\ proc[c].pos = 0
            /\ proc[c].pc = "copy" =>
                 /\ proc[c].fd \in YamlStored /\ proc[c].pos <= Size[proc[c].fd]
                 /\ data[c].blocks = Prefix(proc[c].fd, proc[c].pos)
            /\ proc[c].result = "ok" => Whole(c)

ReadInv == CopyInv /\ (~disturbed => YamlInv)

(* A Replace that has made its link still has it.                             *)
LinkInv ==
  /\ \A c \in Callers :
       proc[c].call = "Replace" /\ proc[c].pc \in {"stat", "unlink", "rename"} => at[c] = c
  /\ LinkExplained

-----------------------------------------------------------------------------
(* What c may do next.                                                        *)
Step(c) ==
  \/ TempFile(c) \/ WriteTemp(c) \/ ChmodTemp(c) \/ RenameTemp(c) \/ Undo(c)
  \/ OpenPreparing(c) \/ WritePreparing(c) \/ RenamePreparing(c)
  \/ Create(c) \/ Open(c) \/ ReadYaml(c) \/ CopyBlock(c)
  \/ NewLink(c) \/ StatLink(c) \/ RemoveLink(c) \/ RenameLink(c)
  \/ Crash(c)

LEMMA CallersApart ==
  ASSUME NEW c \in Callers
  PROVE  c \notin {"file", "yaml", "preparing", "link", "none", "old"}
BY CallersAssumption DEF Paths, None, Old

LEMMA ContentTyped ==
  ASSUME NEW w \in Inodes
  PROVE  /\ Content(w) \in Seq(Inodes \X Nat) /\ Content(w) = Prefix(w, Size[w])
         /\ Len(Content(w)) = Size[w]
BY SizeAssumption DEF Content, Prefix

LEMMA WrittenTyped ==
  ASSUME TypeOK, NEW c \in Callers, NEW i \in Inodes
  PROVE  \E n \in Seq(Inodes \X Nat) : Written(c, i) = [data EXCEPT ![i].blocks = n]
<1> DEFINE p == proc[c].pos + 1
           b == data[i].blocks
           n == IF p <= Len(b) THEN [b EXCEPT ![p] = <<c, p>>] ELSE Append(b, <<c, p>>)
<1>1. p \in Nat /\ p > 0
  BY DEF TypeOK, ProcTyped
<1>2. c \in Inodes /\ b \in Seq(Inodes \X Nat)
  BY DEF TypeOK, DataTyped, Inodes
<1>3. <<c, p>> \in Inodes \X Nat
  BY <1>1, <1>2
<1>4. n \in Seq(Inodes \X Nat)
  <2> HIDE DEF b
  <2>1. CASE p <= Len(b)
    BY <1>1, <1>2, <1>3, <2>1
  <2>2. CASE ~(p <= Len(b))
    BY <1>2, <1>3, <2>2
  <2> QED
    BY <2>1, <2>2
<1>5. Written(c, i) = [data EXCEPT ![i].blocks = n]
  BY DEF Written
<1> QED
  BY <1>4, <1>5

(* Every step writes to one inode at most: c's own, or in WriteYaml the one   *)
(* it has open, and no call that has returned or died writes.                 *)
LEMMA DataStep ==
  ASSUME TypeOK, NEW c \in Callers, Step(c)
  PROVE  \/ UNCHANGED data
         \/ /\ proc[c].pc \notin {"returned", "crashed"}
            /\ \E i \in Inodes :
                 /\ i = IF At(c, "WriteYaml", "write") THEN proc[c].fd ELSE c
                 /\ \/ data' = [data EXCEPT ![i].mode = TRUE]
                    \/ \E n \in Seq(Inodes \X Nat) : data' = [data EXCEPT ![i].blocks = n]
<1>1. c \in Inodes
  BY DEF Inodes
<1>2. CASE WriteTemp(c)
  <2>1. At(c, "AtomicWriteFile", "write") /\ (data' = Written(c, c) \/ UNCHANGED data)
    BY <1>2 DEF WriteTemp, OrUndo
  <2>2. \E n \in Seq(Inodes \X Nat) : Written(c, c) = [data EXCEPT ![c].blocks = n]
    BY <1>1, WrittenTyped
  <2> QED
    BY <1>1, <2>1, <2>2 DEF At
<1>3. CASE WritePreparing(c)
  <2>1. At(c, "WriteYaml", "write") /\ (data' = Written(c, proc[c].fd) \/ UNCHANGED data)
    BY <1>3 DEF WritePreparing, Fails
  <2>2. proc[c].fd \in Inodes
    BY <2>1 DEF TypeOK, ProcTyped, FdOpen
  <2>3. \E n \in Seq(Inodes \X Nat) :
          Written(c, proc[c].fd) = [data EXCEPT ![proc[c].fd].blocks = n]
    BY <2>2, WrittenTyped
  <2> QED
    BY <2>1, <2>2, <2>3 DEF At
<1>4. CASE CopyBlock(c)
  <2> DEFINE from == data[proc[c].fd].blocks
  <2>1. /\ proc[c].pc = "copy"
        /\ \/ UNCHANGED data
           \/ /\ proc[c].pos < Len(from)
              /\ data' = [data EXCEPT ![c].blocks = Append(@, from[proc[c].pos + 1])]
    BY <1>4 DEF CopyBlock, Fails
  <2>2. proc[c].fd \in Inodes /\ proc[c].pos \in Nat
    BY <2>1 DEF TypeOK, ProcTyped, FdOpen
  <2>3. from \in Seq(Inodes \X Nat) /\ data[c].blocks \in Seq(Inodes \X Nat)
    BY <1>1, <2>2 DEF TypeOK, DataTyped
  <2>4. proc[c].pos < Len(from) =>
          Append(data[c].blocks, from[proc[c].pos + 1]) \in Seq(Inodes \X Nat)
    BY <2>2, <2>3
  <2> QED
    BY <1>1, <2>1, <2>4 DEF At
<1>5. CASE NewLink(c)
  BY <1>1, <1>5, ContentTyped DEF NewLink, Fails, At
<1>6. CASE ChmodTemp(c)
  BY <1>1, <1>6 DEF ChmodTemp, OrUndo, At
<1> QED
  BY <1>2, <1>3, <1>4, <1>5, <1>6
  DEF Step, Fails, Opens, OrUndo, TempFile, RenameTemp, Undo, OpenPreparing,
      RenamePreparing, Create, Open, ReadYaml, StatLink, RemoveLink, RenameLink, Crash

(* A step changes the names and the state of no other caller, and goes on     *)
(* with the same call.                                                        *)
LEMMA CallerStep ==
  ASSUME TypeOK, NEW c \in Callers, Step(c)
  PROVE  /\ \A d \in Callers \ {c} : proc'[d] = proc[d] /\ at'[d] = at[d]
         /\ proc'[c].call = proc[c].call /\ proc'[c].pc # "start"
         /\ faulty \subseteq faulty'
<1>1. \A d \in Callers \ {c} : proc'[d] = proc[d]
  BY DEF TypeOK, ProcTyped, At, Goto, Advance, Return, Returned, Step, Fails, Opens, OrUndo,
         preparing, TempFile, WriteTemp, ChmodTemp, RenameTemp, Undo, OpenPreparing,
         WritePreparing, RenamePreparing, Create, Open, ReadYaml, CopyBlock, NewLink,
         StatLink, RemoveLink, RenameLink, Crash
<1>2. \A d \in Callers \ {c} : at'[d] = at[d]
  BY CallersApart
  DEF TypeOK, AtTyped, Names, Paths, Step, Fails, OrUndo, Renamed, Opens, preparing, linked,
      TempFile, WriteTemp, ChmodTemp, RenameTemp, Undo, OpenPreparing, WritePreparing,
      RenamePreparing, Create, Open, ReadYaml, CopyBlock, NewLink, StatLink, RemoveLink,
      RenameLink, Crash
<1>3. proc'[c].call = proc[c].call /\ proc'[c].pc # "start"
  <2>1. CASE TempFile(c) \/ WriteTemp(c) \/ ChmodTemp(c) \/ RenameTemp(c) \/ Undo(c)
    BY <2>1 DEF TypeOK, ProcTyped, TempFile, WriteTemp, ChmodTemp, RenameTemp, Undo, Goto,
                Advance, Return, Returned, Fails, OrUndo
  <2>2. CASE OpenPreparing(c) \/ WritePreparing(c) \/ RenamePreparing(c)
    BY <2>2 DEF TypeOK, ProcTyped, OpenPreparing, WritePreparing, RenamePreparing, Goto,
                Advance, Return, Returned, Fails, Opens
  <2>3. CASE Create(c) \/ Open(c) \/ ReadYaml(c) \/ CopyBlock(c)
    BY <2>3 DEF TypeOK, ProcTyped, Create, Open, ReadYaml, CopyBlock, Goto, Advance, Return,
                Returned, Fails, Opens
  <2>4. CASE NewLink(c) \/ StatLink(c) \/ RemoveLink(c) \/ RenameLink(c) \/ Crash(c)
    BY <2>4 DEF TypeOK, ProcTyped, NewLink, StatLink, RemoveLink, RenameLink, Crash, Goto,
                Return, Returned, Fails
  <2> QED
    BY <2>1, <2>2, <2>3, <2>4 DEF Step
<1>4. faulty \subseteq faulty'
  BY DEF Fault, Step, Goto, Advance, Return, Fails, Opens, OrUndo, TempFile, WriteTemp,
         ChmodTemp, RenameTemp, Undo, OpenPreparing, WritePreparing, RenamePreparing, Create,
         Open, ReadYaml, CopyBlock, NewLink, StatLink, RemoveLink, RenameLink, Crash
<1> QED
  BY <1>1, <1>2, <1>3, <1>4

(* The types are kept.                                                        *)
LEMMA TypeStep ==
  ASSUME TypeOK, NEW c \in Callers, Step(c)
  PROVE  TypeOK'
<1>1. AtTyped'
  BY DEF TypeOK, AtTyped, Names, Inodes, Paths, Step, Fails, Opens, OrUndo, Renamed,
         preparing, linked, TempFile, WriteTemp, ChmodTemp, RenameTemp, Undo,
         OpenPreparing, WritePreparing, RenamePreparing, Create, Open, ReadYaml,
         CopyBlock, NewLink, StatLink, RemoveLink, RenameLink, Crash
<1>2. ProcTyped'
  <2>1. CASE TempFile(c) \/ WriteTemp(c) \/ ChmodTemp(c) \/ RenameTemp(c) \/ Undo(c)
    BY <2>1 DEF TypeOK, ProcTyped, Stages, TempFile, WriteTemp, ChmodTemp, RenameTemp, Undo,
                Goto, Advance, Return, Returned, Fails, OrUndo, At
  <2>2. CASE OpenPreparing(c) \/ WritePreparing(c) \/ RenamePreparing(c)
    BY <2>2 DEF TypeOK, ProcTyped, AtTyped, Names, Paths, Inodes, Stages, preparing, At,
                OpenPreparing, WritePreparing, RenamePreparing, Goto, Advance, Return,
                Returned, Fails, Opens
  <2>3. CASE Create(c) \/ Open(c) \/ ReadYaml(c) \/ CopyBlock(c)
    BY <2>3 DEF TypeOK, ProcTyped, AtTyped, Names, Paths, Inodes, Stages, At, Create, Open,
                ReadYaml, CopyBlock, Goto, Advance, Return, Returned, Fails, Opens
  <2>4. CASE NewLink(c) \/ StatLink(c) \/ RemoveLink(c) \/ RenameLink(c) \/ Crash(c)
    BY <2>4 DEF TypeOK, ProcTyped, Stages, NewLink, StatLink, RemoveLink, RenameLink, Crash,
                Goto, Return, Returned, Fails, At
  <2> QED
    BY <2>1, <2>2, <2>3, <2>4 DEF Step
<1>3. DataTyped'
  <2>1. CASE UNCHANGED data
    BY <2>1 DEF TypeOK, DataTyped
  <2>2. ASSUME NEW i \in Inodes, data' = [data EXCEPT ![i].mode = TRUE] PROVE DataTyped'
    BY <2>2 DEF TypeOK, DataTyped
  <2>3. ASSUME NEW i \in Inodes, NEW n \in Seq(Inodes \X Nat),
               data' = [data EXCEPT ![i].blocks = n]
        PROVE  DataTyped'
    BY <2>3 DEF TypeOK, DataTyped
  <2> QED
    BY <2>1, <2>2, <2>3, DataStep
<1>4. FdOpen'
  <2>1. proc'[c].pc = "copy" \/ At(c, "WriteYaml", "write")' => proc'[c].fd # None
    <3> USE DEF TypeOK, ProcTyped, At, Goto, Advance, Return, Returned, Fails
    <3>1. CASE TempFile(c) \/ WriteTemp(c) \/ ChmodTemp(c) \/ RenameTemp(c) \/ Undo(c)
      BY <3>1 DEF TempFile, WriteTemp, ChmodTemp, RenameTemp, Undo, OrUndo
    <3>2. CASE OpenPreparing(c)
      <4>1. c # None
        BY CallersApart DEF None
      <4> QED
        BY <3>2, <4>1 DEF OpenPreparing, preparing
    <3>3. CASE WritePreparing(c) \/ RenamePreparing(c)
      BY <3>3 DEF WritePreparing, RenamePreparing, FdOpen
    <3>4. CASE Create(c) \/ Open(c) \/ ReadYaml(c)
      BY <3>4 DEF Create, Open, ReadYaml, Opens
    <3>5. CASE CopyBlock(c)
      BY <3>5 DEF CopyBlock, FdOpen
    <3>6. CASE NewLink(c) \/ StatLink(c) \/ RemoveLink(c) \/ RenameLink(c) \/ Crash(c)
      BY <3>6 DEF NewLink, StatLink, RemoveLink, RenameLink, Crash
    <3> HIDE DEF TypeOK, ProcTyped, At, Goto, Advance, Return, Returned, Fails
    <3> QED
      BY <3>1, <3>2, <3>3, <3>4, <3>5, <3>6 DEF Step
  <2> QED
    BY <2>1, CallerStep DEF TypeOK, FdOpen, At
<1> QED
  BY <1>1, <1>2, <1>3, <1>4 DEF TypeOK

-----------------------------------------------------------------------------
LEMMA OwnNamesStep ==
  ASSUME TypeOK, OwnNames, NEW c \in Callers, Step(c)
  PROVE  OwnNames' /\ proc[c].pc \notin {"returned", "crashed"}
<1>1. /\ proc[c].pc \notin {"returned", "crashed"}
      /\ at'[c] \in {None, c}
      /\ proc'[c].result # None => proc'[c].pc = "returned"
      /\ proc'[c].pc = "copy" => proc[c].call \in {"CopyFile", "ReadYaml"}
  <2>1. proc[c].pc \notin {"returned", "crashed"}
    BY DEF Step, At, TempFile, WriteTemp, ChmodTemp, RenameTemp, Undo, OpenPreparing,
           WritePreparing, RenamePreparing, Create, Open, ReadYaml, CopyBlock, NewLink,
           StatLink, RemoveLink, RenameLink, Crash
  <2>2. at'[c] \in {None, c}
    BY CallersApart
    DEF OwnNames, TypeOK, AtTyped, Names, Paths, Step, Fails, Opens, OrUndo, Renamed,
        preparing, linked, TempFile, WriteTemp, ChmodTemp, RenameTemp, Undo, OpenPreparing,
        WritePreparing, RenamePreparing, Create, Open, ReadYaml, CopyBlock, NewLink,
        StatLink, RemoveLink, RenameLink, Crash
  <2>3. /\ proc'[c].result # None => proc'[c].pc = "returned"
        /\ proc'[c].pc = "copy" => proc[c].call \in {"CopyFile", "ReadYaml"}
    <3>1. proc[c].result = None
      BY <2>1 DEF OwnNames
    <3> USE DEF TypeOK, ProcTyped, At, Goto, Advance, Return, Returned, Fails
    <3>2. CASE TempFile(c) \/ WriteTemp(c) \/ ChmodTemp(c) \/ RenameTemp(c) \/ Undo(c)
      BY <3>1, <3>2 DEF TempFile, WriteTemp, ChmodTemp, RenameTemp, Undo, OrUndo
    <3>3. CASE OpenPreparing(c) \/ WritePreparing(c) \/ RenamePreparing(c)
      BY <3>1, <3>3 DEF OpenPreparing, WritePreparing, RenamePreparing
    <3>4. CASE Create(c) \/ Open(c) \/ ReadYaml(c)
      BY <3>1, <3>4 DEF Create, Open, ReadYaml, Opens
    <3>5. CASE CopyBlock(c)
      BY <3>1, <3>5 DEF CopyBlock, OwnNames
    <3>6. CASE NewLink(c) \/ StatLink(c) \/ RemoveLink(c) \/ RenameLink(c) \/ Crash(c)
      BY <3>1, <3>6 DEF NewLink, StatLink, RemoveLink, RenameLink, Crash
    <3> HIDE DEF TypeOK, ProcTyped, At, Goto, Advance, Return, Returned, Fails
    <3> QED
      BY <3>2, <3>3, <3>4, <3>5, <3>6 DEF Step
  <2> QED
    BY <2>1, <2>2, <2>3
<1> QED
  BY <1>1, CallerStep DEF OwnNames

LEMMA YamlOwnedStep ==
  ASSUME TypeOK, OwnNames, YamlOwned, NEW c \in Callers, Step(c)
  PROVE  YamlOwned'
<1>1. YamlFiles \subseteq YamlFiles' /\ (proc[c].call = "WriteYaml" => c \in YamlFiles')
  BY CallerStep DEF YamlFiles
<1>2. /\ at'["preparing"] \in YamlFiles' \cup {None}
      /\ at'["yaml"] \in YamlFiles' \cup {None, Old}
      /\ proc[c].call = "WriteYaml" => proc'[c].fd \in YamlFiles' \cup {None}
  <2> USE DEF TypeOK, AtTyped, ProcTyped, Names, Paths, Inodes, At, Goto, Advance, Return,
        Returned, Step, Fails, Opens, OrUndo, Renamed, preparing, linked, TempFile,
        WriteTemp, ChmodTemp, RenameTemp, Undo, OpenPreparing, WritePreparing,
        RenamePreparing, Create, Open, ReadYaml, CopyBlock, NewLink, StatLink,
        RemoveLink, RenameLink, Crash
  <2>1. at'["preparing"] \in YamlFiles' \cup {None}
    BY <1>1, CallersApart DEF YamlOwned
  <2>2. at'["yaml"] \in YamlFiles' \cup {None, Old}
    BY <1>1, CallersApart DEF YamlOwned
  <2>3. proc[c].call = "WriteYaml" => proc'[c].fd \in YamlFiles' \cup {None}
    BY <1>1, CallersApart DEF YamlOwned
  <2> QED
    BY <2>1, <2>2, <2>3
<1>3. proc[c].call = "WriteYaml" /\ proc'[c].pc = "write" => proc'[c].pos < Size[c]
  <2> SUFFICES ASSUME proc[c].call = "WriteYaml", proc'[c].pc = "write"
               PROVE  proc'[c].pos < Size[c]
    OBVIOUS
  <2>1. c \in Inodes /\ Size[c] \in Nat \ {0}
    BY SizeAssumption DEF Inodes
  <2>2. CASE OpenPreparing(c)
    BY <2>1, <2>2 DEF OpenPreparing, Fails, Returned, At, OwnNames, TypeOK, ProcTyped
  <2>3. CASE WritePreparing(c)
    BY <2>1, <2>3 DEF WritePreparing, Advance, lastBlock, Fails, Returned, At, YamlOwned,
                      TypeOK, ProcTyped
  <2>4. CASE RenamePreparing(c) \/ Crash(c)
    BY <2>4 DEF RenamePreparing, Crash, Return, Fails, Returned, TypeOK, ProcTyped
  <2>5. CASE CopyBlock(c)
    BY <2>5 DEF CopyBlock, Advance, Return, Fails, Returned, TypeOK, ProcTyped
  <2> QED
    BY <2>2, <2>3, <2>4, <2>5
    DEF Step, At, TempFile, WriteTemp, ChmodTemp, RenameTemp, Undo, Create, Open,
        ReadYaml, NewLink, StatLink, RemoveLink, RenameLink
<1>4. ASSUME NEW d \in Callers, proc'[d].call = "WriteYaml"
      PROVE  /\ proc'[d].fd \in YamlFiles' \cup {None}
             /\ proc'[d].pc = "write" => proc'[d].pos < Size[d]
  BY <1>1, <1>2, <1>3, <1>4, CallerStep DEF YamlOwned
<1> QED
  BY <1>2, <1>4 DEF YamlOwned

LEMMA PrefixGrows ==
  ASSUME NEW w \in Inodes, NEW n \in Nat
  PROVE  /\ Prefix(w, n) \in Seq(Inodes \X Nat) /\ Len(Prefix(w, n)) = n
         /\ \A k \in 1..n : Prefix(w, n)[k] = <<w, k>>
         /\ Append(Prefix(w, n), <<w, n + 1>>) = Prefix(w, n + 1)
         /\ Prefix(w, 0) = <<>>
<1>1. /\ Prefix(w, n) \in Seq(Inodes \X Nat) /\ Len(Prefix(w, n)) = n
      /\ \A k \in 1..n : Prefix(w, n)[k] = <<w, k>>
  BY DEF Prefix
<1>2. Prefix(w, n + 1) \in Seq(Inodes \X Nat) /\ Len(Prefix(w, n + 1)) = n + 1
  BY DEF Prefix
<1>3. Append(Prefix(w, n), <<w, n + 1>>) = Prefix(w, n + 1)
  BY <1>1, <1>2 DEF Prefix
<1>4. Prefix(w, 0) = <<>>
  BY DEF Prefix
<1> QED
  BY <1>1, <1>3, <1>4

(* Writing one more block of one's own.                                       *)
LEMMA WriteBlock ==
  ASSUME TypeOK, NEW c \in Callers, data[c].blocks = Prefix(c, proc[c].pos)
  PROVE  Written(c, c)[c].blocks = Prefix(c, proc[c].pos + 1)
<1>1. c \in Inodes /\ proc[c].pos \in Nat
  BY DEF Inodes, TypeOK, ProcTyped
<1>2. Len(Prefix(c, proc[c].pos)) = proc[c].pos
  BY <1>1, PrefixGrows
<1>3. Written(c, c)[c].blocks = Append(data[c].blocks, <<c, proc[c].pos + 1>>)
  BY <1>1, <1>2 DEF Written, TypeOK, DataTyped
<1> QED
  BY <1>1, <1>3, PrefixGrows

(* Nobody else writes what an AtomicWriteFile, a CopyFile, a ReadYaml or a    *)
(* Replace has made, nor what was there before.                               *)
LEMMA DataKept ==
  ASSUME TypeOK, YamlOwned, NEW c \in Callers, Step(c), NEW i \in Inodes \ {c},
         i = Old \/ proc[i].call # "WriteYaml"
  PROVE  data'[i] = data[i]
<1>1. Old \notin Callers
  BY CallersApart DEF Old
<1>2. At(c, "WriteYaml", "write") => proc[c].fd # i
  BY <1>1 DEF TypeOK, FdOpen, YamlOwned, YamlFiles, At
<1> QED
  BY <1>2, DataStep DEF TypeOK, DataTyped

LEMMA TempWrittenStep ==
  ASSUME TypeOK, OwnNames, YamlOwned, TempWritten, NEW c \in Callers, Step(c)
  PROVE  TempWritten'
<1>1. writers' = writers
  BY CallerStep DEF writers
<1>2. ASSUME NEW d \in writers, d # c
      PROVE  data'[d] = data[d] /\ proc'[d] = proc[d] /\ at'[d] = at[d]
  <2>1. d \in Callers /\ d \in Inodes \ {c} /\ proc[d].call # "WriteYaml"
    BY <1>2 DEF writers, Inodes
  <2> QED
    BY <2>1, <1>2, DataKept, CallerStep
<1>3. ASSUME c \in writers
      PROVE  /\ proc'[c].pc \in {"write", "chmod", "rename", "undo"} => at'[c] = c
             /\ proc'[c].pc # "start"
             /\ proc'[c].pc = "write" =>
                  proc'[c].pos < Size[c] /\ data'[c].blocks = Prefix(c, proc'[c].pos)
             /\ proc'[c].pc = "chmod" => data'[c].blocks = Content(c)
             /\ proc'[c].pc = "rename" \/ proc'[c].result = "ok" =>
                  data'[c] = [blocks |-> Content(c), mode |-> TRUE]
  <2>1. c \in Inodes /\ c \in Names /\ Size[c] \in Nat \ {0} /\ proc[c].pos \in Nat
    BY SizeAssumption DEF Inodes, Names, TypeOK, ProcTyped
  <2>2. proc[c].call = "AtomicWriteFile" /\ proc[c].result # "ok" /\ proc'[c].pc # "start"
    BY <1>3, OwnNamesStep, CallerStep DEF writers, OwnNames, None
  <2>3. CASE TempFile(c)
    <3>1. Prefix(c, 0) = <<>> /\ data[c].blocks = <<>> /\ proc[c].pos = 0
      BY <1>3, <2>1, <2>3, PrefixGrows DEF TempFile, At, TempWritten, Progress, OwnNames
    <3> QED
      BY <1>3, <2>1, <2>2, <2>3, <3>1
      DEF TempFile, Goto, Fails, Returned, At, TypeOK, ProcTyped, AtTyped
  <2>4. CASE WriteTemp(c)
    <3>1. CASE OrUndo(c)
      BY <1>3, <2>2, <2>4, <3>1 DEF WriteTemp, OrUndo, At, TempWritten, Progress, TypeOK, ProcTyped
    <3>2. CASE ~OrUndo(c)
      <4>1. /\ proc[c].pc = "write" /\ at' = at /\ data' = Written(c, c)
            /\ proc' = [proc EXCEPT ![c].pc = IF lastBlock(c) THEN "chmod" ELSE "write",
                                    ![c].pos = @ + 1]
        BY <2>4, <3>2 DEF WriteTemp, Advance, At
      <4>2. /\ proc[c].pos < Size[c] /\ data[c].blocks = Prefix(c, proc[c].pos) /\ at[c] = c
        BY <1>3, <4>1 DEF TempWritten, Progress
      <4>4. data'[c].blocks = Prefix(c, proc[c].pos + 1)
        BY <4>1, <4>2, WriteBlock
      <4>5. /\ proc'[c].pc = IF lastBlock(c) THEN "chmod" ELSE "write"
            /\ proc'[c].pos = proc[c].pos + 1 /\ proc'[c].result = proc[c].result
        BY <4>1 DEF TypeOK, ProcTyped
      <4> QED
        <5>1. Content(c) = Prefix(c, Size[c])
          BY <2>1, ContentTyped
        <5> QED
          BY <2>1, <2>2, <4>1, <4>2, <4>4, <4>5, <5>1 DEF lastBlock
    <3> QED
      BY <3>1, <3>2
  <2>5. CASE ChmodTemp(c)
    <3>1. CASE OrUndo(c)
      BY <1>3, <2>2, <2>5, <3>1 DEF ChmodTemp, OrUndo, At, TempWritten, Progress, TypeOK, ProcTyped
    <3>2. CASE ~OrUndo(c)
      <4>1. /\ proc[c].pc = "chmod" /\ at' = at /\ data' = [data EXCEPT ![c].mode = TRUE]
            /\ proc' = [proc EXCEPT ![c].pc = "rename"]
        BY <2>5, <3>2 DEF ChmodTemp, Goto, At
      <4>2. data[c].blocks = Content(c) /\ at[c] = c
        BY <1>3, <4>1 DEF TempWritten, Progress
      <4>3. data'[c] = [blocks |-> Content(c), mode |-> TRUE]
        BY <2>1, <4>1, <4>2 DEF TypeOK, DataTyped
      <4> QED
        BY <2>2, <4>1, <4>2, <4>3 DEF TypeOK, ProcTyped
    <3> QED
      BY <3>1, <3>2
  <2>6. CASE RenameTemp(c)
    BY <1>3, <2>1, <2>2, <2>6
    DEF RenameTemp, Return, Returned, OrUndo, At, TempWritten, Progress, TypeOK, ProcTyped
  <2>7. CASE Undo(c)
    BY <1>3, <2>1, <2>2, <2>7
    DEF Undo, Return, Fails, Returned, At, TempWritten, Progress, TypeOK, ProcTyped
  <2>8. CASE Crash(c)
    BY <2>2, <2>8 DEF Crash, TypeOK, ProcTyped
  <2> QED
    BY <2>2, <2>3, <2>4, <2>5, <2>6, <2>7, <2>8
    DEF Step, At, OpenPreparing, WritePreparing, RenamePreparing, Create, Open, ReadYaml,
        CopyBlock, OwnNames, NewLink, StatLink, RemoveLink, RenameLink
<1>4. ASSUME NEW d \in writers, d # c PROVE Progress(d)'
  BY <1>2, <1>4 DEF TempWritten, Progress
<1>5. c \in writers => Progress(c)'
  BY <1>3 DEF Progress
<1> QED
  BY <1>1, <1>4, <1>5, Zenon DEF TempWritten

(* What "file" leads to is only changed by the rename of an AtomicWriteFile,  *)
(* and then to what that has written.                                         *)
LEMMA FileStep ==
  ASSUME TypeOK, OwnNames, TempWritten, NEW c \in Callers, Step(c)
  PROVE  \/ at'["file"] = at["file"]
         \/ c \in writers /\ at'["file"] = c /\ proc'[c].result = "ok"
<1>1. "file" \in Names /\ c # "file"
  BY CallersApart DEF Names, Paths
<1>2. CASE RenameTemp(c) /\ ~OrUndo(c)
  <2>1. at[c] = c /\ c \in writers
    BY <1>2 DEF RenameTemp, At, TempWritten, Progress, writers
  <2> QED
    BY <1>1, <1>2, <2>1
    DEF RenameTemp, Renamed, Return, Returned, TypeOK, AtTyped, ProcTyped
<1>3. CASE OrUndo(c)
  BY <1>3 DEF OrUndo
<1> QED
  BY <1>1, <1>2, <1>3
  DEF TypeOK, AtTyped, Step, Fails, Opens, Renamed, preparing, linked, TempFile, WriteTemp,
      ChmodTemp, RenameTemp, Undo, OpenPreparing, WritePreparing, RenamePreparing, Create,
      Open, ReadYaml, CopyBlock, NewLink, StatLink, RemoveLink, RenameLink, Crash

LEMMA FileStoredStep ==
  ASSUME TypeOK, OwnNames, YamlOwned, TempWritten, FileStored, NEW c \in Callers, Step(c)
  PROVE  FileStored' /\ Stored \subseteq Stored'
<1>1. writers' = writers
  BY CallerStep DEF writers
<1>2. Stored \subseteq Stored'
  BY <1>1, CallerStep, OwnNamesStep DEF Stored, OwnNames, None, writers
<1>3. at'["file"] \in Stored' \cup {None}
  BY <1>1, <1>2, FileStep DEF Stored, FileStored
<1>4. data'[Old] = data[Old]
  <2>1. Old \in Inodes \ {c}
    BY CallersApart DEF Inodes, Old
  <2> QED
    BY <2>1, DataKept
<1> QED
  BY <1>2, <1>3, <1>4 DEF FileStored

LEMMA TempRemovedStep ==
  ASSUME TypeOK, OwnNames, TempWritten, TempRemoved, NEW c \in Callers, Step(c)
  PROVE  TempRemoved'
<1>1. writers' = writers
  BY CallerStep DEF writers
<1>2. ASSUME NEW d \in writers, d # c, proc'[d].pc = "returned"
      PROVE  at'[d] = None \/ <<d, "undo">> \in faulty'
  BY <1>2, CallerStep DEF TempRemoved, writers
<1>3. ASSUME c \in writers, proc'[c].pc = "returned"
      PROVE  at'[c] = None \/ <<c, "undo">> \in faulty'
  <2>1. c \in Names /\ "file" \in Names /\ c # "file" /\ proc[c].call = "AtomicWriteFile"
    BY <1>3, CallersApart DEF Names, Paths, writers
  <2>2. CASE TempFile(c)
    BY <1>3, <2>2 DEF TempFile, Goto, Fails, At, OwnNames, TypeOK, ProcTyped
  <2>3. CASE RenameTemp(c)
    BY <1>3, <2>1, <2>3
    DEF RenameTemp, Renamed, OrUndo, Return, Returned, TypeOK, ProcTyped, AtTyped
  <2>4. CASE Undo(c)
    BY <2>1, <2>4 DEF Undo, Fails, Fault, At, TypeOK, AtTyped
  <2>5. CASE WriteTemp(c) \/ ChmodTemp(c) \/ Crash(c)
    BY <1>3, <2>5
    DEF WriteTemp, ChmodTemp, Crash, Advance, Goto, OrUndo, TypeOK, ProcTyped
  <2> QED
    BY <2>1, <2>2, <2>3, <2>4, <2>5
    DEF Step, At, OpenPreparing, WritePreparing, RenamePreparing, Create, Open, ReadYaml,
        CopyBlock, NewLink, StatLink, RemoveLink, RenameLink, OwnNames
<1> QED
  BY <1>1, <1>2, <1>3 DEF TempRemoved, writers

(* The invariant of the files that AtomicWriteFile writes.                    *)
LEMMA FileInvariant == Spec => []FileInv
<1>1. Init => FileInv
  <2> SUFFICES ASSUME Init PROVE FileInv
    OBVIOUS
  <2>1. AtTyped /\ ProcTyped /\ FdOpen
    BY DEF Init, AtTyped, ProcTyped, FdOpen, Names, Inodes, Stages, At
  <2>2. DataTyped
    BY ContentTyped DEF Init, DataTyped, Inodes
  <2>3. OwnNames
    BY CallersApart DEF Init, OwnNames, Names
  <2>4. YamlOwned
    BY DEF Init, YamlOwned, YamlFiles, Names, Paths
  <2>5. TempWritten
    BY CallersApart DEF Init, TempWritten, Progress, writers, Inodes, Old, None
  <2>6. FileStored
    BY DEF Init, FileStored, Stored, Names, Paths, Inodes
  <2>7. TempRemoved
    BY DEF Init, TempRemoved, writers
  <2> QED
    BY <2>1, <2>2, <2>3, <2>4, <2>5, <2>6, <2>7 DEF FileInv, TypeOK
<1>2. FileInv /\ [Next]_vars => FileInv'
  <2> SUFFICES ASSUME FileInv, [Next]_vars PROVE FileInv'
    OBVIOUS
  <2>1. ASSUME NEW c \in Callers, Step(c) PROVE FileInv'
    BY <2>1, TypeStep, OwnNamesStep, YamlOwnedStep, TempWrittenStep, FileStoredStep,
       TempRemovedStep DEF FileInv
  <2>2. CASE UNCHANGED vars
    BY <2>2
    DEF vars, FileInv, TypeOK, AtTyped, ProcTyped, FdOpen, At, DataTyped, OwnNames, YamlOwned,
        YamlFiles, TempWritten, Progress, FileStored, Stored, TempRemoved, writers
  <2> QED
    BY <2>1, <2>2 DEF Next, Step
<1> QED
  BY <1>1, <1>2, PTL DEF Spec

(* An AtomicWriteFile that has returned leaves no temporary file, unless      *)
(* removing it failed as well.                                                *)
THEOREM TempRemovedHolds == Spec => []TempRemoved
BY FileInvariant, PTL DEF FileInv

-----------------------------------------------------------------------------
(* A reader of "file" finds what the name leads to, never a mixture.          *)
LEMMA ShownIsStored == FileInv => shown = at["file"]
<1> SUFFICES ASSUME FileInv, at["file"] # None PROVE shown = at["file"]
  BY DEF shown
<1>1. at["file"] \in Stored
  BY DEF FileInv, FileStored
<1>2. data[at["file"]] = [blocks |-> Content(at["file"]), mode |-> TRUE]
  BY <1>1 DEF FileInv, FileStored, Stored, TempWritten, Progress
<1> QED
  BY <1>2 DEF shown

(* How a call of AtomicWriteFile returns.                                     *)
LEMMA ResultStep ==
  ASSUME FileInv, NEW c \in writers, Step(c)
  PROVE  /\ proc[c].result = None
         /\ \/ proc'[c].result \in {None, "err"}
            \/ proc'[c].result = "ok" /\ at'["file"] = c
<1>1. /\ c \in Callers /\ c \in Names /\ "file" \in Names /\ c # "file"
      /\ proc[c].call = "AtomicWriteFile"
  BY CallersApart DEF Names, Paths, writers
<1>2. proc[c].result = None
  BY <1>1, OwnNamesStep DEF FileInv, OwnNames
<1>3. CASE RenameTemp(c)
  BY <1>1, <1>2, <1>3
  DEF RenameTemp, Renamed, OrUndo, Return, Returned, At, FileInv, TempWritten, Progress, TypeOK,
      AtTyped, ProcTyped
<1>4. CASE TempFile(c) \/ WriteTemp(c) \/ ChmodTemp(c) \/ Undo(c) \/ Crash(c)
  BY <1>1, <1>2, <1>4
  DEF TempFile, WriteTemp, ChmodTemp, Undo, Crash, OrUndo, Goto, Advance, Fails, Return,
      Returned, FileInv, TypeOK, ProcTyped
<1> QED
  BY <1>1, <1>2, <1>3, <1>4
  DEF Step, At, OpenPreparing, WritePreparing, RenamePreparing, Create, Open, ReadYaml,
      CopyBlock, NewLink, StatLink, RemoveLink, RenameLink, OwnNames, FileInv

(* AtomicWriteFile implements the abstract register: the rename is the one    *)
(* step that replaces the value, and a call that fails leaves it.             *)
THEOREM RegisterImplemented == Spec => FileImplements
<1> DEFINE returned == [c \in Callers |-> IF c \in writers THEN proc[c].result ELSE None]
<1>1. Init => Abstract!Init
  <2> SUFFICES ASSUME Init PROVE shown \in {Old, None} /\ returned = [c \in Callers |-> "none"]
    BY DEF Abstract!Init
  <2>1. shown \in {Old, None}
    BY DEF Init, shown, Names, Paths, Inodes, Old, None
  <2>2. returned = [c \in Callers |-> "none"]
    BY DEF Init, None
  <2> QED
    BY <2>1, <2>2
<1>0. (FileInv => shown = at["file"])'
  BY ShownIsStored, PTL
<1>2. FileInv /\ FileInv' /\ [Next]_vars => [Abstract!Next]_<<shown, returned>>
  <2> SUFFICES ASSUME FileInv, FileInv', [Next]_vars
               PROVE  Abstract!Next \/ UNCHANGED <<shown, returned>>
    OBVIOUS
  <2>1. shown = at["file"] /\ shown' = at'["file"]
    BY <1>0, ShownIsStored
  <2>2. CASE UNCHANGED vars
    BY <2>2 DEF vars, shown, writers
  <2>3. ASSUME NEW c \in Callers, Step(c)
        PROVE  Abstract!Next \/ UNCHANGED <<shown, returned>>
    <3>1. TypeOK /\ OwnNames /\ TempWritten
      BY DEF FileInv
    <3>2. writers' = writers
      BY <2>3, <3>1, CallerStep DEF writers
    <3>3. \A d \in Callers \ {c} : returned'[d] = returned[d]
      BY <2>3, <3>1, <3>2, CallerStep
    <3>4. CASE c \notin writers
      BY <2>1, <2>3, <3>1, <3>2, <3>3, <3>4, FileStep
    <3>5. CASE c \in writers /\ proc'[c].result = "ok"
      <4>1. /\ returned[c] = "none" /\ at'["file"] = c
            /\ returned' = [returned EXCEPT ![c] = "ok"]
        <5>1. proc[c].result = None /\ at'["file"] = c
          BY <2>3, <3>5, ResultStep DEF None
        <5>2. returned'[c] = "ok" /\ returned[c] = "none"
          BY <3>2, <3>5, <5>1 DEF None
        <5> QED
          BY <3>3, <5>1, <5>2
      <4> QED
        BY <2>1, <4>1 DEF Abstract!Next, Abstract!Write
    <3>6. CASE c \in writers /\ proc'[c].result = "err"
      <4>1. /\ returned[c] = "none" /\ at'["file"] = at["file"]
            /\ returned' = [returned EXCEPT ![c] = "err"]
        <5>1. proc[c].result = None /\ at'["file"] = at["file"]
          BY <2>3, <3>1, <3>6, ResultStep, FileStep
        <5>2. returned'[c] = "err" /\ returned[c] = "none"
          BY <3>2, <3>6, <5>1 DEF None
        <5> QED
          BY <3>3, <5>1, <5>2
      <4> QED
        BY <2>1, <4>1 DEF Abstract!Next, Abstract!Fail
    <3>7. CASE c \in writers /\ proc'[c].result = None
      <4>1. returned' = returned /\ at'["file"] = at["file"]
        BY <2>3, <3>1, <3>2, <3>3, <3>7, ResultStep, FileStep DEF None
      <4> QED
        BY <2>1, <4>1
    <3> QED
      BY <2>3, <3>4, <3>5, <3>6, <3>7, ResultStep
  <2> QED
    BY <2>2, <2>3 DEF Next, Step
<1> QED
  BY <1>1, <1>2, FileInvariant, PTL DEF Spec, FileImplements, Abstract!Spec

-----------------------------------------------------------------------------
LEMMA LinkStep ==
  ASSUME TypeOK, OwnNames, LinkInv, NEW c \in Callers, Step(c)
  PROVE  LinkInv'
<1>1. c \in Names /\ "link" \in Names /\ c \notin {"file", "yaml", "preparing", "link", None}
  BY CallersApart DEF Names, Paths, None
<1>2. proc[c].call = "Replace" /\ proc'[c].pc \in {"stat", "unlink", "rename"} => at'[c] = c
  <2>1. CASE NewLink(c) \/ StatLink(c) \/ RemoveLink(c)
    BY <1>1, <2>1
    DEF NewLink, StatLink, RemoveLink, linked, Goto, Fails, Returned, At, LinkInv, TypeOK,
        AtTyped, ProcTyped
  <2>2. CASE RenameLink(c) \/ Crash(c)
    BY <2>2 DEF RenameLink, Crash, Return, Fails, Returned, TypeOK, ProcTyped
  <2> QED
    BY <2>1, <2>2
    DEF Step, At, TempFile, WriteTemp, ChmodTemp, RenameTemp, Undo, OpenPreparing,
        WritePreparing, RenamePreparing, Create, Open, ReadYaml, CopyBlock, OwnNames
<1>3. \A d \in Callers :
        proc'[d].call = "Replace" /\ proc'[d].pc \in {"stat", "unlink", "rename"} => at'[d] = d
  BY <1>2, CallerStep DEF LinkInv
<1> DEFINE Lost(d) == proc[d].call = "Replace" /\ (proc[d].pc = "rename" \/ <<d, "rename">> \in faulty)
           LostNext(d) ==
             proc'[d].call = "Replace" /\ (proc'[d].pc = "rename" \/ <<d, "rename">> \in faulty')
<1> SUFFICES at'["link"] = None => \E d \in Callers : LostNext(d)
  BY <1>3 DEF LinkInv, LinkExplained
<1>a. at["link"] = None => \E d \in Callers : Lost(d)
  BY DEF LinkInv, LinkExplained
<1>b. \A d \in Callers : Lost(d) /\ (d = c => proc[c].pc # "rename" \/ <<c, "rename">> \in faulty')
                       => LostNext(d)
  BY CallerStep
<1>4. CASE proc[c].call = "Replace"
  <2>1. CASE RemoveLink(c)
    <3>1. CASE Fails(c)
      <4>1. at' = at /\ proc[c].pc = "unlink"
        BY <2>1, <3>1 DEF RemoveLink, Fails, At
      <4> QED
        BY <1>a, <1>b, <4>1
    <3>2. CASE ~Fails(c)
      <4>1. proc'[c].pc = "rename" /\ proc'[c].call = "Replace"
        BY <1>4, <2>1, <3>2, CallerStep DEF RemoveLink, Goto, TypeOK, ProcTyped
      <4> QED
        BY <4>1
    <3> QED
      BY <3>1, <3>2
  <2>2. CASE RenameLink(c)
    <3>1. CASE Fails(c)
      <4>1. <<c, "rename">> \in faulty' /\ proc'[c].call = "Replace"
        BY <1>4, <2>2, <3>1, CallerStep DEF RenameLink, Fails, Fault, At
      <4> QED
        BY <4>1
    <3>2. CASE ~Fails(c)
      <4>1. at'["link"] = c
        BY <1>1, <2>2, <3>2 DEF RenameLink, Renamed, At, LinkInv, TypeOK, AtTyped
      <4> QED
        BY <1>1, <4>1
    <3> QED
      BY <3>1, <3>2
  <2>3. CASE Crash(c)
    <3>1. at' = at /\ <<c, proc[c].pc>> \in faulty'
      BY <2>3 DEF Crash, Fault
    <3> QED
      BY <1>a, <1>b, <3>1
  <2>4. CASE NewLink(c) \/ StatLink(c)
    <3>1. at'["link"] = at["link"] /\ proc[c].pc \in {"start", "stat"}
      BY <1>1, <2>4 DEF NewLink, StatLink, linked, Fails, At, TypeOK, AtTyped
    <3> QED
      BY <1>a, <1>b, <3>1
  <2> QED
    BY <1>4, <2>1, <2>2, <2>3, <2>4
    DEF Step, At, TempFile, WriteTemp, ChmodTemp, RenameTemp, Undo, OpenPreparing,
        WritePreparing, RenamePreparing, Create, Open, ReadYaml, CopyBlock, OwnNames
<1>5. CASE proc[c].call # "Replace"
  <2>1. at'["link"] = at["link"]
    BY <1>1, <1>5
    DEF TypeOK, AtTyped, Step, At, Fails, Opens, OrUndo, Renamed, preparing, linked, TempFile,
        WriteTemp, ChmodTemp, RenameTemp, Undo, OpenPreparing, WritePreparing,
        RenamePreparing, Create, Open, ReadYaml, CopyBlock, NewLink, StatLink, RemoveLink,
        RenameLink, Crash
  <2> QED
    BY <1>a, <1>b, <1>5, <2>1
<1> QED
  BY <1>4, <1>5

(* Replace never loses the link on its own: if there is none, a Replace is    *)
(* between the removal and the rename, was killed there or saw it fail.       *)
THEOREM LinkExplainedHolds == Spec => []LinkExplained
<1>1. Init => LinkInv
  BY DEF Init, LinkInv, LinkExplained, Names, Paths, Old, None
<1>2. FileInv /\ LinkInv /\ [Next]_vars => LinkInv'
  <2> SUFFICES ASSUME FileInv, LinkInv, [Next]_vars PROVE LinkInv'
    OBVIOUS
  <2>1. ASSUME NEW c \in Callers, Step(c) PROVE LinkInv'
    BY <2>1, LinkStep DEF FileInv
  <2>2. CASE UNCHANGED vars
    BY <2>2 DEF vars, LinkInv, LinkExplained
  <2> QED
    BY <2>1, <2>2 DEF Next, Step
<1>3. LinkInv => LinkExplained
  BY DEF LinkInv
<1> QED
  BY <1>1, <1>2, <1>3, FileInvariant, PTL DEF Spec

-----------------------------------------------------------------------------
(* Copying one more block of a file that is whole.                            *)
LEMMA CopyStep ==
  ASSUME TypeOK, NEW c \in Callers, CopyBlock(c), NEW i \in Inodes, proc[c].fd = i,
         data[i].blocks = Content(i), proc[c].pos <= Size[i],
         data[c].blocks = Prefix(i, proc[c].pos), proc[c].result = None
  PROVE  /\ proc'[c].pc = "copy" =>
              /\ proc'[c].fd = i /\ proc'[c].pos <= Size[i]
              /\ data'[c].blocks = Prefix(i, proc'[c].pos)
         /\ proc'[c].result = "ok" => data'[c].blocks = Content(i)
<1>1. /\ c \in Inodes /\ proc[c].pos \in Nat /\ Size[i] \in Nat
      /\ Len(Content(i)) = Size[i] /\ Content(i) = Prefix(i, Size[i])
  BY SizeAssumption, ContentTyped DEF Inodes, TypeOK, ProcTyped
<1>2. CASE /\ proc[c].pos < Len(Content(i)) /\ Advance(c, "copy")
           /\ data' = [data EXCEPT ![c].blocks = Append(@, Content(i)[proc[c].pos + 1])]
  <2>1. Content(i)[proc[c].pos + 1] = <<i, proc[c].pos + 1>>
    BY <1>1, <1>2 DEF Prefix
  <2>2. data'[c].blocks = Append(Prefix(i, proc[c].pos), <<i, proc[c].pos + 1>>)
    BY <1>1, <1>2, <2>1 DEF TypeOK, DataTyped
  <2>3. data'[c].blocks = Prefix(i, proc[c].pos + 1)
    BY <1>1, <2>2, PrefixGrows
  <2>4. /\ proc'[c].pos = proc[c].pos + 1 /\ proc'[c].fd = i
        /\ proc'[c].result = proc[c].result
    BY <1>2 DEF Advance, TypeOK, ProcTyped
  <2> QED
    BY <1>1, <1>2, <2>3, <2>4 DEF None
<1>3. CASE proc[c].pos >= Len(Content(i)) /\ Return(c, "ok") /\ UNCHANGED data
  <2>1. proc[c].pos = Size[i] /\ proc'[c].pc = "returned"
    BY <1>1, <1>3 DEF Return, Returned, TypeOK, ProcTyped
  <2> QED
    BY <1>1, <1>3, <2>1
<1>4. CASE Fails(c)
  BY <1>4 DEF Fails, Returned, TypeOK, ProcTyped
<1> QED
  BY <1>2, <1>3, <1>4 DEF CopyBlock

LEMMA CopyInvStep ==
  ASSUME FileInv, CopyInv, NEW c \in Callers, Step(c)
  PROVE  CopyInv'
<1>0. TypeOK /\ OwnNames /\ YamlOwned /\ TempWritten /\ FileStored
  BY DEF FileInv
<1>1. Stored \subseteq Stored' /\ Stored \subseteq Inodes
  BY <1>0, FileStoredStep DEF Stored, Inodes, writers
<1>2. ASSUME NEW d \in Callers, d # c, proc[d].call = "CopyFile"
      PROVE  proc'[d] = proc[d] /\ data'[d] = data[d]
  BY <1>0, <1>2, DataKept, CallerStep DEF Inodes
<1>3. ASSUME proc[c].call = "CopyFile"
      PROVE  /\ proc'[c].pc \in {"start", "open"} =>
                  data'[c].blocks = <<>> /\ proc'[c].pos = 0
             /\ proc'[c].pc = "copy" =>
                  /\ proc'[c].fd \in Stored /\ proc'[c].pos <= Size[proc'[c].fd]
                  /\ data'[c].blocks = Prefix(proc'[c].fd, proc'[c].pos)
             /\ proc'[c].result = "ok" =>
                  \E w \in Inodes : data'[c].blocks = Content(w)
  <2>1. /\ proc[c].result = None /\ c \in Inodes
        /\ proc[c].pc = "copy" => proc[c].fd \in Stored
    BY <1>0, <1>3, OwnNamesStep DEF OwnNames, Inodes, CopyInv
  <2>2. CASE Create(c)
    BY <1>0, <1>3, <2>1, <2>2
    DEF Create, Goto, Fails, Returned, At, CopyInv, TypeOK, ProcTyped, None
  <2>3. CASE Open(c)
    <3>1. CASE at["file"] # None /\ ~Fails(c)
      <4>1. at["file"] \in Stored /\ Size[at["file"]] \in Nat /\ Prefix(at["file"], 0) = <<>>
        BY <1>0, <1>1, <3>1, SizeAssumption, PrefixGrows DEF FileStored
      <4>2. /\ data' = data /\ proc[c].pc = "open"
            /\ proc' = [proc EXCEPT ![c].pc = "copy", ![c].fd = at["file"]]
        BY <2>3, <3>1 DEF Open, Opens, At
      <4>3. data[c].blocks = <<>> /\ proc[c].pos = 0
        BY <1>3, <4>2 DEF CopyInv
      <4>4. /\ proc'[c].pc = "copy" /\ proc'[c].fd = at["file"] /\ proc'[c].pos = 0
            /\ proc'[c].result = None
        BY <1>0, <2>1, <4>2, <4>3 DEF TypeOK, ProcTyped
      <4> QED
        BY <4>1, <4>2, <4>3, <4>4 DEF None
    <3>2. CASE at["file"] = None \/ Fails(c)
      BY <1>0, <2>3, <3>2
      DEF Open, Opens, Fails, Return, Returned, TypeOK, ProcTyped
    <3> QED
      BY <3>1, <3>2
  <2>4. CASE CopyBlock(c)
    <3>1. /\ proc[c].fd \in Stored /\ proc[c].pos <= Size[proc[c].fd]
          /\ data[c].blocks = Prefix(proc[c].fd, proc[c].pos)
      BY <1>3, <2>4 DEF CopyInv, CopyBlock
    <3>2. data[proc[c].fd].blocks = Content(proc[c].fd) /\ proc[c].fd \in Inodes
      <4>1. data[proc[c].fd] = [blocks |-> Content(proc[c].fd), mode |-> TRUE]
        BY <1>0, <3>1 DEF Stored, FileStored, TempWritten, Progress
      <4> QED
        BY <1>1, <3>1, <4>1
    <3>3. proc'[c].pc \in {"copy", "returned"}
      BY <1>0, <2>4
      DEF CopyBlock, Advance, Return, Fails, Returned, TypeOK, ProcTyped
    <3> QED
      BY <1>0, <2>1, <2>4, <3>1, <3>2, <3>3, CopyStep
  <2>5. CASE Crash(c)
    BY <1>0, <2>1, <2>5 DEF Crash, TypeOK, ProcTyped, None
  <2> QED
    BY <1>3, <2>2, <2>3, <2>4, <2>5
    DEF Step, At, TempFile, WriteTemp, ChmodTemp, RenameTemp, Undo, OpenPreparing,
        WritePreparing, RenamePreparing, ReadYaml, NewLink, StatLink, RemoveLink, RenameLink
<1>4. \A d \in Callers : proc'[d].call = proc[d].call
  BY <1>0, CallerStep
<1>5. SUFFICES ASSUME NEW d \in Callers, proc[d].call = "CopyFile"
               PROVE  /\ proc'[d].pc \in {"start", "open"} =>
                           data'[d].blocks = <<>> /\ proc'[d].pos = 0
                      /\ proc'[d].pc = "copy" =>
                           /\ proc'[d].fd \in Stored' /\ proc'[d].pos <= Size[proc'[d].fd]
                           /\ data'[d].blocks = Prefix(proc'[d].fd, proc'[d].pos)
                      /\ proc'[d].result = "ok" =>
                           \E w \in Inodes : data'[d].blocks = Content(w)
  BY <1>4 DEF CopyInv, Whole
<1>6. CASE d # c
  BY <1>1, <1>2, <1>5, <1>6 DEF CopyInv, Whole
<1> QED
  BY <1>1, <1>3, <1>5, <1>6

(* While every WriteYaml prepares a file of its own, each writes to its own   *)
(* inode only, and nobody else renames it.                                    *)
LEMMA YamlInvStep ==
  ASSUME FileInv, ~disturbed, YamlInv, NEW c \in Callers, Step(c), ~disturbed'
  PROVE  YamlInv'
<1>0. TypeOK /\ OwnNames /\ YamlOwned /\ FileStored
  BY DEF FileInv
<1>1. YamlStored \subseteq YamlStored' /\ YamlStored \subseteq Inodes
  BY <1>0, CallerStep, OwnNamesStep DEF YamlStored, Inodes, OwnNames, None
<1>2. /\ c \in Inodes /\ Size[c] \in Nat \ {0} /\ proc[c].pos \in Nat /\ c \in Names
      /\ {"yaml", "preparing"} \subseteq Names
      /\ c \notin {"yaml", "preparing", "file", "link", None}
  BY <1>0, SizeAssumption, CallersApart DEF Inodes, Names, Paths, None, TypeOK, ProcTyped
<1>3. /\ proc[c].result = None /\ proc'[c].call = proc[c].call /\ proc'[c].pc # "start"
      /\ \A d \in Callers \ {c} : proc'[d] = proc[d]
  BY <1>0, OwnNamesStep, CallerStep DEF OwnNames
<1>4. \A i \in Inodes \ {c} : data'[i] = data[i]
  <2>1. At(c, "WriteYaml", "write") => proc[c].fd = c
    BY <1>0 DEF disturbed, At, TypeOK, FdOpen
  <2> QED
    BY <1>0, <2>1, DataStep DEF TypeOK, DataTyped
(* The name of the file that is prepared.                                     *)
<1>5. ASSUME NEW d \in Callers \ {c}, proc[d].call = "WriteYaml",
             proc[d].pc \in {"write", "rename"}
      PROVE  at'["preparing"] = d
  <2>1. at["preparing"] = d /\ d # None
    BY <1>5, CallersApart DEF YamlInv, None
  <2>2. CASE RenamePreparing(c)
    <3>1. proc[c].call = "WriteYaml" /\ proc[c].pc = "rename"
      BY <2>2 DEF RenamePreparing, At
    <3> QED
      BY <2>1, <3>1 DEF YamlInv
  <2> QED
    BY <1>0, <1>2, <2>1, <2>2
    DEF TypeOK, AtTyped, Step, Fails, Opens, OrUndo, Renamed, preparing, linked, TempFile,
        WriteTemp, ChmodTemp, RenameTemp, Undo, OpenPreparing, WritePreparing, Create, Open,
        ReadYaml, CopyBlock, NewLink, StatLink, RemoveLink, RenameLink, Crash
(* A step of a WriteYaml ...                                                  *)
<1>6. ASSUME proc[c].call = "WriteYaml"
      PROVE  /\ proc'[c].pc \in {"write", "rename"} =>
                  at'["preparing"] = c /\ proc'[c].fd = c
             /\ proc'[c].pc = "write" => data'[c].blocks = Prefix(c, proc'[c].pos)
             /\ proc'[c].pc = "rename" \/ proc'[c].result = "ok" =>
                  data'[c].blocks = Content(c)
             /\ at'["yaml"] \in YamlStored' \cup {None}
  <2>1. CASE Fails(c) \/ Crash(c)
    <3>1. /\ UNCHANGED <<at, data>> /\ proc'[c].pc \in {"returned", "crashed"}
          /\ proc'[c].result \in {None, "err"}
      BY <1>0, <1>3, <2>1 DEF Fails, Crash, Returned, TypeOK, ProcTyped
    <3> QED
      BY <1>1, <3>1 DEF YamlInv, None
  <2>2. CASE OpenPreparing(c) /\ ~Fails(c)
    <3>1. /\ proc[c].pc = "start" /\ data' = data
          /\ proc' = [proc EXCEPT ![c].pc = "write", ![c].fd = preparing(c)]
          /\ at' = [at EXCEPT !["preparing"] = preparing(c)]
      BY <2>2 DEF OpenPreparing, At
    <3>2. /\ proc'[c].fd = preparing(c) /\ proc'[c].pos = proc[c].pos
          /\ proc'[c].result = None /\ proc'[c].pc = "write"
      BY <1>0, <1>3, <3>1 DEF TypeOK, ProcTyped
    <3>3. preparing(c) = c
      <4>1. preparing(c) # None
        BY <1>2 DEF preparing
      <4> QED
        BY <1>3, <1>6, <3>2, <4>1 DEF disturbed
    <3>4. data[c].blocks = <<>> /\ proc[c].pos = 0 /\ Prefix(c, 0) = <<>>
      BY <1>0, <1>2, <1>6, <3>1, PrefixGrows DEF YamlInv, OwnNames
    <3>5. at'["yaml"] = at["yaml"] /\ at'["preparing"] = c
      BY <1>0, <1>2, <3>1, <3>3 DEF TypeOK, AtTyped
    <3> QED
      BY <1>1, <3>1, <3>2, <3>3, <3>4, <3>5 DEF YamlInv, None
  <2>3. CASE WritePreparing(c) /\ ~Fails(c)
    <3>1. /\ proc[c].pc = "write" /\ at' = at /\ data' = Written(c, proc[c].fd)
          /\ proc' = [proc EXCEPT ![c].pc = IF lastBlock(c) THEN "rename" ELSE "write",
                                  ![c].pos = @ + 1]
      BY <2>3 DEF WritePreparing, Advance, At
    <3>2. /\ at["preparing"] = c /\ proc[c].fd = c
          /\ data[c].blocks = Prefix(c, proc[c].pos)
      BY <1>6, <3>1 DEF YamlInv
    <3>3. data'[c].blocks = Prefix(c, proc[c].pos + 1)
      BY <1>0, <3>1, <3>2, WriteBlock
    <3>4. /\ proc'[c].pc = IF lastBlock(c) THEN "rename" ELSE "write"
          /\ proc'[c].pos = proc[c].pos + 1 /\ proc'[c].fd = c /\ proc'[c].result = None
      BY <1>0, <1>3, <3>1, <3>2 DEF TypeOK, ProcTyped
    <3>5. Content(c) = Prefix(c, Size[c])
      BY <1>2, ContentTyped
    <3> QED
      BY <1>1, <1>2, <3>1, <3>2, <3>3, <3>4, <3>5 DEF YamlInv, lastBlock, None
  <2>4. CASE RenamePreparing(c) /\ ~Fails(c)
    <3>1. proc[c].pc = "rename" /\ data' = data
      BY <2>4 DEF RenamePreparing, At
    <3>2. at["preparing"] = c /\ data[c].blocks = Content(c)
      BY <1>6, <3>1 DEF YamlInv
    <3>3. Return(c, "ok") /\ at' = Renamed("preparing", "yaml")
      BY <1>2, <2>4, <3>2 DEF RenamePreparing
    <3>4. proc'[c].pc = "returned" /\ proc'[c].result = "ok" /\ at'["yaml"] = c
      BY <1>0, <1>2, <3>2, <3>3 DEF Return, Returned, Renamed, TypeOK, ProcTyped, AtTyped
    <3> QED
      BY <1>3, <1>6, <3>1, <3>2, <3>4 DEF YamlStored
  <2> QED
    BY <1>0, <1>6, <2>1, <2>2, <2>3, <2>4
    DEF Step, At, TempFile, WriteTemp, ChmodTemp, RenameTemp, Undo, Create, Open, ReadYaml,
        CopyBlock, NewLink, StatLink, RemoveLink, RenameLink, OwnNames
(* ... of a ReadYaml ...                                                      *)
<1>7. ASSUME proc[c].call = "ReadYaml"
      PROVE  /\ proc'[c].pc = "copy" =>
                  /\ proc'[c].fd \in YamlStored /\ proc'[c].pos <= Size[proc'[c].fd]
                  /\ data'[c].blocks = Prefix(proc'[c].fd, proc'[c].pos)
             /\ proc'[c].result = "ok" =>
                  \E w \in Inodes : data'[c].blocks = Content(w)
  <2>1. CASE ReadYaml(c)
    <3>1. CASE at["yaml"] # None /\ ~Fails(c)
      <4>1. at["yaml"] \in YamlStored /\ Size[at["yaml"]] \in Nat /\ Prefix(at["yaml"], 0) = <<>>
        BY <1>1, <3>1, SizeAssumption, PrefixGrows DEF YamlInv
      <4>2. /\ data' = data /\ proc[c].pc = "start"
            /\ proc' = [proc EXCEPT ![c].pc = "copy", ![c].fd = at["yaml"]]
        BY <2>1, <3>1 DEF ReadYaml, Opens, At
      <4>3. data[c].blocks = <<>> /\ proc[c].pos = 0
        BY <1>7, <4>2 DEF YamlInv
      <4>4. /\ proc'[c].pc = "copy" /\ proc'[c].fd = at["yaml"] /\ proc'[c].pos = 0
            /\ proc'[c].result = None
        BY <1>0, <1>3, <4>2, <4>3 DEF TypeOK, ProcTyped
      <4> QED
        BY <4>1, <4>2, <4>3, <4>4 DEF None
    <3>2. CASE at["yaml"] = None \/ Fails(c)
      BY <1>0, <2>1, <3>2 DEF ReadYaml, Opens, Fails, Return, Returned, TypeOK, ProcTyped
    <3> QED
      BY <3>1, <3>2
  <2>2. CASE CopyBlock(c)
    <3>1. /\ proc[c].fd \in YamlStored /\ proc[c].pos <= Size[proc[c].fd]
          /\ data[c].blocks = Prefix(proc[c].fd, proc[c].pos)
      BY <1>7, <2>2 DEF YamlInv, CopyBlock
    <3>2. data[proc[c].fd].blocks = Content(proc[c].fd) /\ proc[c].fd \in Inodes
      BY <1>0, <1>1, <3>1 DEF YamlStored, YamlInv, FileStored
    <3> QED
      BY <1>0, <1>3, <2>2, <3>1, <3>2, CopyStep
  <2>3. CASE Crash(c)
    BY <1>0, <1>3, <2>3 DEF Crash, TypeOK, ProcTyped, None
  <2> QED
    BY <1>7, <2>1, <2>2, <2>3
    DEF Step, At, TempFile, WriteTemp, ChmodTemp, RenameTemp, Undo, OpenPreparing,
        WritePreparing, RenamePreparing, Create, Open, NewLink, StatLink, RemoveLink,
        RenameLink
(* ... and of any other.                                                      *)
<1>8. ASSUME proc[c].call # "WriteYaml" PROVE at'["yaml"] = at["yaml"]
  BY <1>0, <1>2, <1>8
  DEF TypeOK, AtTyped, Step, At, Fails, Opens, OrUndo, Renamed, linked, TempFile, WriteTemp,
      ChmodTemp, RenameTemp, Undo, OpenPreparing, WritePreparing, RenamePreparing, Create,
      Open, ReadYaml, CopyBlock, NewLink, StatLink, RemoveLink, RenameLink, Crash
<1>9. at'["yaml"] \in YamlStored' \cup {None}
  BY <1>1, <1>6, <1>8 DEF YamlInv
<1>10. ASSUME NEW d \in Callers, proc'[d].call = "WriteYaml"
       PROVE  /\ proc'[d].pc \in {"write", "rename"} =>
                   at'["preparing"] = d /\ proc'[d].fd = d
              /\ proc'[d].pc = "start" => data'[d].blocks = <<>>
              /\ proc'[d].pc = "write" => data'[d].blocks = Prefix(d, proc'[d].pos)
              /\ proc'[d].pc = "rename" \/ proc'[d].result = "ok" =>
                   data'[d].blocks = Content(d)
  <2>1. CASE d = c
    BY <1>3, <1>6, <1>10, <2>1
  <2>2. CASE d # c
    BY <1>3, <1>4, <1>5, <1>10, <2>2 DEF YamlInv, Inodes
  <2> QED
    BY <2>1, <2>2
<1>11. ASSUME NEW d \in Callers, proc'[d].call = "ReadYaml"
       PROVE  /\ proc'[d].pc = "start" => data'[d].blocks = <<>> /\ proc'[d].pos = 0
              /\ proc'[d].pc = "copy" =>
                   /\ proc'[d].fd \in YamlStored' /\ proc'[d].pos <= Size[proc'[d].fd]
                   /\ data'[d].blocks = Prefix(proc'[d].fd, proc'[d].pos)
              /\ proc'[d].result = "ok" =>
                   \E w \in Inodes : data'[d].blocks = Content(w)
  <2>1. CASE d = c
    BY <1>1, <1>3, <1>7, <1>11, <2>1
  <2>2. CASE d # c
    BY <1>1, <1>3, <1>4, <1>11, <2>2 DEF YamlInv, Inodes, Whole
  <2> QED
    BY <2>1, <2>2
<1> QED
  BY <1>9, <1>10, <1>11 DEF YamlInv, Whole

LEMMA ReadInvariant == Spec => []ReadInv
<1>1. Init => ReadInv
  <2> SUFFICES ASSUME Init PROVE ReadInv
    OBVIOUS
  <2>1. \A c \in Callers : /\ proc[c].pc = "start" /\ proc[c].result = None /\ proc[c].pos = 0
                           /\ data[c].blocks = <<>>
    BY CallersApart DEF Init, Inodes, Old
  <2>2. at["yaml"] \in {None, Old}
    BY DEF Init, Names, Paths
  <2> QED
    BY <2>1, <2>2 DEF ReadInv, CopyInv, YamlInv, YamlStored, None
<1>2. FileInv /\ ReadInv /\ [Next]_vars => ReadInv'
  <2> SUFFICES ASSUME FileInv, ReadInv, [Next]_vars PROVE ReadInv'
    OBVIOUS
  <2>1. ASSUME NEW c \in Callers, Step(c) PROVE ReadInv'
    (* Who has opened the file of another keeps it open.                      *)
    <3>1. disturbed => disturbed'
      <4>1. TypeOK /\ OwnNames
        BY DEF FileInv
      <4>2. proc[c].call = "WriteYaml" => proc'[c].fd = proc[c].fd \/ proc[c].fd = None
        BY <2>1, <4>1
        DEF TypeOK, ProcTyped, OwnNames, At, Goto, Advance, Return, Returned, Step, Fails,
            Opens, OrUndo, TempFile, WriteTemp, ChmodTemp, RenameTemp, Undo, OpenPreparing,
            WritePreparing, RenamePreparing, Create, Open, ReadYaml, CopyBlock, NewLink,
            StatLink, RemoveLink, RenameLink, Crash
      <4> QED
        BY <2>1, <4>1, <4>2, CallerStep DEF disturbed
    <3>2. CopyInv'
      BY <2>1, CopyInvStep DEF ReadInv
    <3>3. ~disturbed' => YamlInv'
      BY <2>1, <3>1, YamlInvStep DEF ReadInv
    <3> QED
      BY <3>2, <3>3 DEF ReadInv
  <2>2. CASE UNCHANGED vars
    BY <2>2
    DEF vars, ReadInv, CopyInv, YamlInv, Stored, YamlStored, writers, disturbed, Whole
  <2> QED
    BY <2>1, <2>2 DEF Next, Step
<1> QED
  BY <1>1, <1>2, FileInvariant, PTL DEF Spec

(* A file that is replaced while it is read is read whole: always by CopyFile *)
(* of what AtomicWriteFile writes, and by ReadYaml as long as no two          *)
(* WriteYaml share the file they prepare.                                     *)
THEOREM ReadsWholeHolds == Spec => []ReadsWhole
<1>1. FileInv /\ ReadInv => ReadsWhole
  <2> SUFFICES ASSUME FileInv, ReadInv PROVE ReadsWhole
    OBVIOUS
  <2>1. ~disturbed => YamlAtomic
    <3> SUFFICES ASSUME ~disturbed, at["yaml"] # None PROVE Whole(at["yaml"])
      BY DEF YamlAtomic
    <3>1. at["yaml"] \in YamlStored
      BY DEF ReadInv, YamlInv
    <3>2. data[at["yaml"]].blocks = Content(at["yaml"]) /\ at["yaml"] \in Inodes
      BY <3>1 DEF YamlStored, ReadInv, YamlInv, FileInv, FileStored, Inodes
    <3> QED
      BY <3>2 DEF Whole
  <2> QED
    BY <2>1 DEF ReadsWhole, ReadInv, CopyInv, YamlInv
<1> QED
  BY <1>1, FileInvariant, ReadInvariant, PTL

=============================================================================
