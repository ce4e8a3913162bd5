------------------------------- MODULE FsCopy --------------------------------
(* src/fs/copy.go: Copy(src, dst) of the entry on the stack, recursively.     *)
(* The stack of directories being read is the stack of calls of copyDir.      *)
EXTENDS Tree

copyFrame == <<archive, hash, pos, fileList, prefix, tool, root, src, before>>

(* Copy is called, for the one entry of src.                                  *)
CopyInit ==
  /\ tool = "Copy" /\ root \in BOOLEAN
  /\ IsTree(src) /\ \E p \in DOMAIN src : Children(src, <<>>) = {p}
  /\ IsTree(dst) /\ before = dst
  /\ stack = <<[dir |-> <<>>, left |-> Children(src, <<>>)]>>
  /\ archive = <<>> /\ hash = <<>> /\ pos = 0 /\ fileList = {} /\ prefix = <<>>
  /\ result = None /\ faulty = FALSE

(* "The source directory doesn't have write permission, so give the new       *)
(* directory write permission anyway": the test and the bits are 0500, read   *)
(* and search permission, as the code has them.                               *)
dirMode(m) == IF m \cap {"r", "x"} = {} THEN m \cup {"r", "x"} ELSE m

copyable(p) ==
  /\ Reachable(src, p) /\ ~Exists(dst, p)
  /\ src[p].type \in {"link", "dir", "file"}
  /\ src[p].type # "link" => Allowed(src, p, {"r"})
  /\ CanCreate(dst, p)

(* copySymLink and copyFile make the same node, copyFile with a Chmod in the  *)
(* presence of umask; copyDir begins with Mkdir.                              *)
copied(p) ==
  IF src[p].type = "dir" THEN [src[p] EXCEPT !.mode = dirMode(@) \ Umask] ELSE src[p]

CopyEntry ==
  /\ tool = "Copy" /\ result = None
  /\ \E p \in top.left :
       /\ copyable(p) /\ NoFault
       /\ dst' = Put(dst, p, copied(p))
       /\ stack' = IF src[p].type = "dir" THEN Entered(p) ELSE Taken(p)
  /\ UNCHANGED <<copyFrame, result>>

(* Copy "might be left partially written".                                    *)
CopyFails ==
  /\ tool = "Copy" /\ result = None
  /\ \E p \in top.left :
       \/ ~copyable(p) /\ NoFault /\ UNCHANGED dst
       \/ Fault /\ UNCHANGED dst
       \/ /\ Fault /\ copyable(p) /\ src[p].type = "file"
          /\ \E m \in {src[p].mode, src[p].mode \ Umask} :
               dst' = Put(dst, p, [src[p] EXCEPT !.mode = m, !.body = "partial"])
  /\ Stop("err")
  /\ UNCHANGED <<copyFrame, stack>>

(* The end of copyDir: Chmod, with the mode it has changed.  Mutant: without. *)
asMade(p) == dst
chmodDir(p) == [dst EXCEPT ![p].mode = dirMode(src[p].mode)]

CopyDirDone ==
  /\ tool = "Copy" /\ result = None /\ top.left = {} /\ Len(stack) > 1
  /\ \/ /\ NoFault /\ dst' = chmodDir(top.dir)
        /\ stack' = SubSeq(stack, 1, Len(stack) - 1)
        /\ UNCHANGED result
     \/ Fault /\ Stop("err") /\ UNCHANGED <<dst, stack>>
  /\ UNCHANGED copyFrame

CopyDone ==
  /\ tool = "Copy" /\ result = None /\ top.left = {} /\ Len(stack) = 1
  /\ Stop("ok")
  /\ UNCHANGED <<copyFrame, dst, stack, faulty>>

CopyNext == CopyEntry \/ CopyFails \/ CopyDirDone \/ CopyDone

CopySpec == CopyInit /\ [][CopyNext]_treeVars

-----------------------------------------------------------------------------
(* A copy that succeeds has the entries, contents, link targets and           *)
(* permissions of the source (only a directory that its owner may neither     *)
(* read nor search is given both), whatever happens, what was there before is *)
(* as it was, and without a failing operation a copy fails only because of    *)
(* what is there: an existing destination, a file of another type, something  *)
(* unreadable, or a directory with entries that does not let its owner create *)
(* them.                                                                      *)
CopyFaithful ==
  tool = "Copy" =>
    /\ \A p \in DOMAIN before : Exists(dst, p) /\ dst[p] = before[p]
    /\ result = "ok" =>
         /\ DOMAIN dst = DOMAIN src \cup DOMAIN before
         /\ \A p \in DOMAIN src \ {<<>>} :
              \/ dst[p] = src[p]
              \/ /\ src[p].type = "dir" /\ src[p].mode \cap {"r", "x"} = {}
                 /\ dst[p] = [src[p] EXCEPT !.mode = @ \cup {"r", "x"}]
    /\ result = "err" /\ ~faulty =>
         \E p \in DOMAIN src \ {<<>>} :
           \/ p \in DOMAIN before
           \/ src[p].type = "special"
           \/ ~root /\ src[p].type # "link" /\ "r" \notin src[p].mode
           \/ ~root /\ Children(src, p) # {} /\ ~ {"w", "x"} \subseteq src[p].mode
=============================================================================
