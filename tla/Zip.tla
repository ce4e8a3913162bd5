--------------------------------- MODULE Zip ---------------------------------
(* src/zip/zip.go: Extract, with its extractor, of the entries of an archive  *)
(* into a tree that may hold files already.  An entry's name is its cleaned,  *)
(* relative path; an absolute one differs only for a sourceRoot that is not   *)
(* empty.  It may begin with ".."s, which lead up from the target; the tree   *)
(* has to hold what they lead to, so that there are fewer of them than        *)
(* targetRoot has parts.  A link leads to a name in the target that nothing   *)
(* has ("inside"), or out of it ("outside").                                  *)
EXTENDS Tree

CONSTANT targetRoot    \* the directory that Extract fills, which may not be there

ASSUME TargetAssumption == targetRoot \in Seq(STRING) /\ targetRoot # <<>>

zipFrame == <<tool, root, src, stack, archive, hash, fileList, prefix, before>>

isSanePath(p) == ~Within(p, <<"..">>)

(* A cleaned path has ".." only at its beginning, here u times.               *)
leadsUp(n, u) == \A i \in 1..Len(n) : n[i] = ".." <=> i <= u

(* filepath.Join                                                              *)
Joined(r, n) ==
  LET u == CHOOSE u \in 0..Len(n) : leadsUp(n, u)
  IN  SubSeq(r, 1, Len(r) - u) \o SubSeq(n, u + 1, Len(n))

(* targetPath: entries outside of sourceRoot are skipped.                     *)
selected(e) == Within(e.name, prefix)
targetPath(e) == Joined(targetRoot, SubSeq(e.name, Len(prefix) + 1, Len(e.name)))

(* MkdirAll of the parent of target p, with mode 0777.                        *)
parentsOK(p) == CanMkdirAll(dst, Parent(p), {"r", "w", "x", "g"})
withParents(p) == MkdirAll(dst, Parent(p), {"r", "w", "x", "g"})

(* A new node in place of what is at p in tree t.                             *)
CanReplace(t, p) == IF Exists(t, p) THEN CanRemove(t, p) ELSE CanCreate(t, p)
Replaced(t, p, n) == Put(Removed(t, p), p, n)

(* Mutant: replaces a directory that is there.                                *)
remakeDir(t, p, e) ==
  Replaced(t, p, [type |-> "dir", mode |-> e.mode \ Umask, body |-> None])

writeDir(t, p, e) ==
  IF IsDir(t, p) THEN [t EXCEPT ![p].mode = e.mode]
  ELSE Replaced(t, p, [type |-> "dir", mode |-> e.mode \ Umask, body |-> None])

writeFile(t, p, e) ==
  Replaced(t, p, [type |-> "file", mode |-> e.mode \ Umask, body |-> e.body])

writeSymlink(t, p, e) ==
  Replaced(t, p, [type |-> "link", mode |-> {"r", "w", "x"}, body |-> e.body])

written(t, p, e) ==
  CASE e.type = "dir"  -> writeDir(t, p, e)
    [] e.type = "link" -> writeSymlink(t, p, e)
    [] e.type = "file" -> writeFile(t, p, e)

(* The switch of extract, and checkSymlink.                                   *)
acceptable(e) ==
  e.type \in {"dir", "link", "file"} /\ (e.type = "link" => e.body # "outside")

writable(p, e) ==
  /\ parentsOK(p) /\ acceptable(e)
  /\ LET t == withParents(p) IN
     \/ e.type = "dir" /\ IsDir(t, p) /\ Reachable(t, p)
     \/ CanReplace(t, p)

IsEntry(e) ==
  /\ e = [name |-> e.name, type |-> e.type, mode |-> e.mode, body |-> e.body]
  /\ e.name \in Seq(STRING)
  /\ \E u \in 0..Len(e.name) : leadsUp(e.name, u) /\ u < Len(targetRoot)

(* Extract is called, for any tree in which no link leads to a directory.     *)
ZipInit ==
  /\ tool = "Zip" /\ root \in BOOLEAN
  /\ IsTree(dst) /\ before = dst
  /\ archive \in Seq({archive[k] : k \in 1..Len(archive)})
  /\ \A k \in 1..Len(archive) : IsEntry(archive[k])
  /\ prefix \in Seq(STRING)
  /\ src = dst /\ stack = <<>> /\ hash = <<>> /\ pos = 0 /\ fileList = {}
  /\ result = None /\ faulty = FALSE

running == tool = "Zip" /\ result = None

ZipEntry ==
  /\ running /\ isSanePath(prefix) /\ pos < Len(archive)
  /\ LET e == archive[pos + 1]
         p == targetPath(e) IN
     \/ ~selected(e) /\ UNCHANGED dst
     \/ selected(e) /\ writable(p, e) /\ dst' = written(withParents(p), p, e)
  /\ pos' = pos + 1
  /\ UNCHANGED <<zipFrame, result, faulty>>

(* An entry that cannot be written leaves the parents it made, and what a     *)
(* RemoveAll that failed has left.                                            *)
leftBehind(p, e) ==
  LET t == IF parentsOK(p) THEN withParents(p) ELSE dst
      below == {q \in DOMAIN t : q # p /\ Within(q, p) /\ CanRemove(t, q)} IN
  {t} \cup (IF parentsOK(p) /\ acceptable(e) THEN {Removed(t, q) : q \in below} ELSE {})

(* A failing operation comes before or after the old entry is removed, or in  *)
(* the middle of the contents.                                                *)
interrupted(p, e) ==
  IF ~writable(p, e) THEN {dst}
  ELSE LET t == withParents(p) IN
       {dst, t} \cup (IF e.type = "dir" /\ IsDir(t, p) THEN {} ELSE {Removed(t, p)})
                \cup (IF e.type = "file" THEN {written(t, p, [e EXCEPT !.body = "partial"])}
                                         ELSE {})

(* The first error ends it.                                                   *)
ZipFails ==
  /\ running
  /\ \/ ~isSanePath(prefix) /\ NoFault /\ UNCHANGED dst
     \/ /\ isSanePath(prefix) /\ pos < Len(archive)
        /\ LET e == archive[pos + 1]
               p == targetPath(e) IN
           /\ selected(e)
           /\ \/ ~writable(p, e) /\ NoFault /\ dst' \in leftBehind(p, e)
              \/ Fault /\ dst' \in interrupted(p, e)
  /\ Stop("err")
  /\ UNCHANGED <<zipFrame, pos>>

ZipDone ==
  /\ running /\ isSanePath(prefix) /\ pos = Len(archive)
  /\ Stop("ok")
  /\ UNCHANGED <<zipFrame, dst, pos, faulty>>

ZipNext == ZipEntry \/ ZipFails \/ ZipDone

ZipSpec == ZipInit /\ [][ZipNext]_treeVars

-----------------------------------------------------------------------------
chosen == {k \in 1..Len(archive) : selected(archive[k])}

Target(k) == targetPath(archive[k])

(* Entry k is overwritten by a later one: at its path, or by a file or link   *)
(* in place of a directory above it.                                          *)
overwritten(k) ==
  \E j \in chosen : /\ j > k /\ Within(Target(k), Target(j))
                    /\ Target(j) = Target(k) \/ archive[j].type # "dir"

asExtracted(k) ==
  LET e == archive[k] IN
  /\ Exists(dst, Target(k))
  /\ dst[Target(k)].type = e.type
  /\ e.type # "dir" => dst[Target(k)].body = e.body
  /\ e.type # "link" => dst[Target(k)].mode \in {e.mode, e.mode \ Umask}

(* "overwriting existing files and directories only where necessary": every   *)
(* selected entry that no later one overwrites is there; what was there is as *)
(* it was, but for the targets themselves and what was below a target that is *)
(* now a file or a link; and what is new is a target or on the way to one.    *)
(* The target of a name that begins with ".." is outside of targetRoot, and   *)
(* is written all the same.                                                   *)
ZipExtracted ==
  tool = "Zip" =>
    /\ result = "ok" => \A k \in chosen : ~overwritten(k) => asExtracted(k)
    /\ \A p \in DOMAIN before :
         (\A k \in chosen : p # Target(k) /\ (Within(p, Target(k)) => archive[k].type = "dir"))
           => Exists(dst, p) /\ dst[p] = before[p]
    /\ \A p \in DOMAIN dst \ DOMAIN before : \E k \in chosen : Within(Target(k), p)
=============================================================================
