-------------------------------- MODULE Tree ---------------------------------
(* Trees of files, as fs.Copy, tar and zip see them: a tree maps the paths    *)
(* that exist to nodes.  The path <<>> is a directory that is always there,   *)
(* the one the tool works in.  Of a node's permissions we keep those of its   *)
(* owner, who runs the tool, and "g", which stands for the bits that the      *)
(* umask takes away.  The three tools walk trees alone, one entry per step.   *)
EXTENDS Naturals, Sequences, FiniteSets, TLC

CONSTANTS Umask        \* the bits that new files and directories lose

ASSUME UmaskAssumption == Umask \cap {"r", "w", "x"} = {}

VARIABLES
  tool,     \* the function that is running
  root,     \* it runs as root, whom permissions do not stop
  src,      \* the tree that is read
  dst,      \* the tree that is written
  stack,    \* the directories being read: [dir, left], the innermost last
  archive,  \* the entries written to, or read from, the archive
  hash,     \* what the hash has been given
  pos,      \* the number of entries extracted
  fileList, \* the argument fileList of TarFiles
  prefix,   \* the argument strip of TarFiles, sourceRoot of Extract
  result,   \* what the function returned
  faulty,   \* history: an operation has failed
  before    \* history: dst as the function found it

treeVars == <<tool, root, src, dst, stack, archive, hash, pos, fileList, prefix,
              result, faulty, before>>

None == "none"

Parent(p) == SubSeq(p, 1, Len(p) - 1)

Within(p, q) == Len(q) <= Len(p) /\ SubSeq(p, 1, Len(q)) = q

Exists(t, p) == p \in DOMAIN t

IsDir(t, p) == Exists(t, p) /\ t[p].type = "dir"

Children(t, p) == {q \in DOMAIN t : q # <<>> /\ Parent(q) = p}

Put(t, p, n) == [q \in DOMAIN t \cup {p} |-> IF q = p THEN n ELSE t[q]]

Removed(t, p) == [q \in {q \in DOMAIN t : ~Within(q, p)} |-> t[q]]

(* The permissions of the kernel.                                             *)
Allowed(t, p, bits) == root \/ bits \subseteq t[p].mode

Reachable(t, p) ==
  \A k \in 0..(Len(p) - 1) :
    LET d == SubSeq(p, 1, k) IN IsDir(t, d) /\ Allowed(t, d, {"x"})

CanCreate(t, p) ==
  p # <<>> /\ Reachable(t, p) /\ Allowed(t, Parent(p), {"w", "x"})

(* os.RemoveAll of a path that exists.                                        *)
CanRemove(t, p) ==
  /\ CanCreate(t, p)
  /\ \A q \in DOMAIN t : Within(q, p) /\ Children(t, q) # {}
                           => Allowed(t, q, {"r", "w", "x"})

(* os.MkdirAll(p, m) makes the directories missing on the way to p, and p.    *)
MissingDirs(t, p) == {SubSeq(p, 1, k) : k \in 0..Len(p)} \ DOMAIN t

CanMkdirAll(t, p, m) ==
  LET missing == MissingDirs(t, p) IN
  /\ \A k \in 0..Len(p) : Exists(t, SubSeq(p, 1, k)) => IsDir(t, SubSeq(p, 1, k))
  /\ missing = {} => Reachable(t, p)
  /\ missing # {} => CanCreate(t, CHOOSE q \in missing : \A r \in missing : Within(r, q))
  /\ Cardinality(missing) > 1 => root \/ {"w", "x"} \subseteq m

MkdirAll(t, p, m) ==
  [q \in DOMAIN t \cup MissingDirs(t, p) |->
     IF q \in DOMAIN t THEN t[q] ELSE [type |-> "dir", mode |-> m \ Umask, body |-> None]]

(* What a file system may hold: directories only have entries, and the owner  *)
(* may do what he likes in the directory <<>>.                                *)
IsNode(n) ==
  /\ n = [type |-> n.type, mode |-> n.mode, body |-> n.body]
  /\ n.type \in {"dir", "file", "link", "special"}

IsTree(t) ==
  /\ t = [p \in DOMAIN t |-> t[p]] /\ DOMAIN t \subseteq Seq(STRING)
  /\ IsDir(t, <<>>) /\ {"r", "w", "x"} \subseteq t[<<>>].mode
  /\ \A p \in DOMAIN t :
       IsNode(t[p]) /\ \A k \in 0..(Len(p) - 1) : IsDir(t, SubSeq(p, 1, k))

-----------------------------------------------------------------------------
top == stack[Len(stack)]

(* p has been taken from the innermost directory.                             *)
Taken(p) == [stack EXCEPT ![Len(stack)].left = @ \ {p}]

Entered(p) == Append(Taken(p), [dir |-> p, left |-> Children(src, p)])

Stop(r) == result' = r

Fault == ~faulty /\ faulty' = TRUE

NoFault == UNCHANGED faulty
=============================================================================
