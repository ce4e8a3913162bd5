----------------------------- MODULE TreeProofs ------------------------------
(* What fs.Copy, the archiving and extracting of tar, and the extracting of   *)
(* zip guarantee for any trees, archives and permissions.                     *)
EXTENDS FsCopy, Tar, Zip, FiniteSetTheorems, SequenceTheorems,
        WellFoundedInduction, TLAPS

(* fs.Copy.                                                                   *)

(* The trees of Copy, which only adds to dst.                                 *)
TreesInv ==
  /\ tool = "Copy" /\ IsTree(src) /\ IsTree(before)
  /\ dst = [p \in DOMAIN dst |-> dst[p]]
  /\ DOMAIN dst \subseteq DOMAIN src \cup DOMAIN before
  /\ \A p \in DOMAIN before : p \in DOMAIN dst /\ dst[p] = before[p]

(* The stack of calls of copyDir is a path of src: each of its directories is *)
(* in the one before, and what is left of it are entries of it.               *)
StackInv ==
  /\ stack \in Seq([dir : DOMAIN src, left : SUBSET DOMAIN src]) /\ stack # <<>>
  /\ \A j \in 1..Len(stack) :
       /\ Len(stack[j].dir) = j - 1 /\ IsDir(src, stack[j].dir)
       /\ \A i \in 1..j : SubSeq(stack[j].dir, 1, i - 1) = stack[i].dir
       /\ \A p \in stack[j].left : p # <<>> /\ Parent(p) = stack[j].dir

(* The directories being copied have been made, with the umask.               *)
OpenInv ==
  \A j \in 2..Len(stack) :
    LET d == stack[j].dir IN
    d \in DOMAIN dst \ DOMAIN before /\ dst[d] = copied(d)

(* What Copy makes of an entry, when it is done with it.                      *)
final(p) == IF src[p].type = "dir" THEN [src[p] EXCEPT !.mode = dirMode(@)] ELSE src[p]

isOpen(p) == \E j \in 1..Len(stack) : stack[j].dir = p

(* Each entry has been copied, or it or a directory above it is still left.   *)
isCopied(p) == p \in DOMAIN dst \ DOMAIN before /\ (isOpen(p) \/ dst[p] = final(p))

isLeft(p) == \E k \in 1..Len(p), j \in 1..Len(stack) : SubSeq(p, 1, k) \in stack[j].left

CopiedInv == \A p \in DOMAIN src \ {<<>>} : isCopied(p) \/ isLeft(p)

(* Until an error, what is left has not been copied, and what has been copied *)
(* is in a directory.                                                         *)
LeftInv ==
  result # "err" =>
    /\ \A j \in 1..Len(stack) : \A p \in stack[j].left \cap DOMAIN dst : p \in DOMAIN before
    /\ \A p \in DOMAIN dst \ DOMAIN before : p # <<>> /\ Parent(p) \in DOMAIN dst

(* Why a copy may fail by itself.                                             *)
explained ==
  \E p \in DOMAIN src \ {<<>>} :
    \/ p \in DOMAIN before
    \/ src[p].type = "special"
    \/ ~root /\ src[p].type # "link" /\ "r" \notin src[p].mode
    \/ ~root /\ Children(src, p) # {} /\ ~ {"w", "x"} \subseteq src[p].mode

ResultInv ==
  /\ result \in {None, "ok", "err"}
  /\ result = "ok" => Len(stack) = 1 /\ top.left = {}
  /\ result = "err" /\ ~faulty => explained

CopyInv ==
  TreesInv /\ StackInv /\ OpenInv /\ CopiedInv /\ LeftInv /\ ResultInv

-----------------------------------------------------------------------------
(* Paths and their prefixes.                                                  *)
LEMMA PathPrefix ==
  ASSUME NEW p \in Seq(STRING), NEW k \in 0..Len(p)
  PROVE  /\ SubSeq(p, 1, k) \in Seq(STRING) /\ Len(SubSeq(p, 1, k)) = k
         /\ \A j \in 0..k : SubSeq(SubSeq(p, 1, k), 1, j) = SubSeq(p, 1, j)
<1> DEFINE q == SubSeq(p, 1, k)
<1>1. \A i \in 1..Len(p) : p[i] \in STRING
  BY ElementOfSeq
<1>2. q \in Seq(STRING) /\ Len(q) = k /\ \A i \in 1..k : q[i] = p[i]
  BY <1>1, SubSeqProperties
<1>3. ASSUME NEW j \in 0..k PROVE SubSeq(q, 1, j) = SubSeq(p, 1, j)
  <2> HIDE DEF q
  <2>1. \A i \in 1..j : q[i] \in STRING /\ p[i] \in STRING
    BY <1>1, <1>2
  <2>2. SubSeq(q, 1, j) \in Seq(STRING) /\ Len(SubSeq(q, 1, j)) = j
        /\ \A i \in 1..j : SubSeq(q, 1, j)[i] = q[i]
    BY <2>1, SubSeqProperties
  <2>3. SubSeq(p, 1, j) \in Seq(STRING) /\ Len(SubSeq(p, 1, j)) = j
        /\ \A i \in 1..j : SubSeq(p, 1, j)[i] = p[i]
    BY <2>1, SubSeqProperties
  <2> QED
    BY <1>2, <2>2, <2>3, SeqEqual
<1> QED
  BY <1>2, <1>3

LEMMA PathParent ==
  ASSUME NEW p \in Seq(STRING), p # <<>>
  PROVE  /\ Len(p) \in Nat \ {0} /\ Parent(p) \in Seq(STRING) /\ Len(Parent(p)) = Len(p) - 1
         /\ \A k \in 0..(Len(p) - 1) : SubSeq(Parent(p), 1, k) = SubSeq(p, 1, k)
<1>1. Len(p) \in Nat \ {0}
  BY EmptySeq
<1>2. Len(p) - 1 \in 0..Len(p) /\ Parent(p) = SubSeq(p, 1, Len(p) - 1)
  BY <1>1 DEF Parent
<1>3. Parent(p) \in Seq(STRING) /\ Len(Parent(p)) = Len(p) - 1
  BY <1>2, PathPrefix
<1>4. \A k \in 0..(Len(p) - 1) : SubSeq(Parent(p), 1, k) = SubSeq(p, 1, k)
  BY <1>2, PathPrefix
<1> QED
  BY <1>1, <1>3, <1>4

(* The directories above an entry of a tree are in the tree.                  *)
LEMMA Above ==
  ASSUME NEW t, IsTree(t), NEW p \in DOMAIN t, p # <<>>, NEW k \in 0..(Len(p) - 1)
  PROVE  /\ SubSeq(p, 1, k) \in DOMAIN t /\ t[SubSeq(p, 1, k)].type = "dir"
         /\ SubSeq(p, 1, k + 1) \in Children(t, SubSeq(p, 1, k))
<1>1. p \in Seq(STRING) /\ Len(p) \in Nat \ {0}
  BY PathParent DEF IsTree
<1>2. SubSeq(p, 1, k) \in DOMAIN t /\ t[SubSeq(p, 1, k)].type = "dir"
  BY DEF IsTree, IsDir, Exists
<1>3. SubSeq(p, 1, k + 1) \in DOMAIN t
  <2>1. CASE k + 1 = Len(p)
    BY <1>1, <2>1, SubSeqFull
  <2>2. CASE k + 1 # Len(p)
    BY <1>1, <2>2 DEF IsTree, IsDir, Exists
  <2> QED
    BY <2>1, <2>2
<1>4. Len(SubSeq(p, 1, k + 1)) = k + 1 /\ SubSeq(SubSeq(p, 1, k + 1), 1, k) = SubSeq(p, 1, k)
  BY <1>1, PathPrefix
<1>5. SubSeq(p, 1, k + 1) # <<>>
  BY <1>1, <1>4, EmptySeq
<1>6. Parent(SubSeq(p, 1, k + 1)) = SubSeq(p, 1, k)
  BY <1>4 DEF Parent
<1> QED
  BY <1>2, <1>3, <1>5, <1>6 DEF Children

-----------------------------------------------------------------------------
Frames == [dir : DOMAIN src, left : SUBSET DOMAIN src]

LEMMA FrameExcept ==
  ASSUME NEW D, NEW L, NEW r \in [dir : D, left : L], NEW l
  PROVE  [r EXCEPT !.left = l] = [dir |-> r.dir, left |-> l]
OBVIOUS

(* What Taken and Entered do to the stack.                                    *)
LEMMA TakenStack ==
  ASSUME stack \in Seq(Frames), stack # <<>>, NEW q \in top.left
  PROVE  /\ Taken(q) \in Seq(Frames) /\ Len(Taken(q)) = Len(stack) /\ Len(stack) \in Nat \ {0}
         /\ \A j \in 1..Len(stack) :
              /\ Taken(q)[j].dir = stack[j].dir
              /\ Taken(q)[j].left = IF j = Len(stack) THEN stack[j].left \ {q} ELSE stack[j].left
<1> DEFINE n == Len(stack)
           e == [dir |-> stack[n].dir, left |-> stack[n].left \ {q}]
<1>1. stack \in Seq(Frames) /\ n \in Nat \ {0}
  BY EmptySeq
<1>2. \A j \in 1..n : stack[j] \in Frames
  BY <1>1, ElementOfSeq
<1>3. e \in Frames
  BY <1>1, <1>2 DEF Frames
<1>4. Taken(q) = [stack EXCEPT ![n] = e]
  <2>1. [stack[n] EXCEPT !.left = @ \ {q}] = e
    <3> DEFINE r == stack[n]
               l == stack[n].left \ {q}
    <3>1. r \in [dir : DOMAIN src, left : SUBSET DOMAIN src]
      BY <1>1, <1>2 DEF Frames
    <3> HIDE DEF r, l
    <3>2. [r EXCEPT !.left = l] = [dir |-> r.dir, left |-> l]
      BY <3>1, FrameExcept, Zenon
    <3> QED
      BY <3>2 DEF r, l
  <2> QED
    BY <2>1 DEF Taken
<1>0. e.dir = stack[n].dir /\ e.left = stack[n].left \ {q}
  OBVIOUS
<1> HIDE DEF e
<1>5. /\ Taken(q) \in Seq(Frames) /\ Len(Taken(q)) = n
      /\ \A j \in 1..n : Taken(q)[j] = IF j = n THEN e ELSE stack[j]
  BY <1>1, <1>3, <1>4, ExceptSeq
<1> QED
  BY <1>0, <1>1, <1>5

LEMMA EnteredStack ==
  ASSUME stack \in Seq(Frames), stack # <<>>, NEW q \in top.left, q \in DOMAIN src
  PROVE  /\ Entered(q) \in Seq(Frames) /\ Len(Entered(q)) = Len(stack) + 1
         /\ \A j \in 1..Len(stack) : Entered(q)[j] = Taken(q)[j]
         /\ Entered(q)[Len(stack) + 1] = [dir |-> q, left |-> Children(src, q)]
<1>1. [dir |-> q, left |-> Children(src, q)] \in Frames
  BY DEF Frames, Children
<1> QED
  BY <1>1, TakenStack, AppendProperties DEF Entered

(* One entry is taken, which becomes the innermost directory if it is one.    *)
LEMMA EntryStack ==
  ASSUME TreesInv, StackInv, NEW q \in top.left,
         stack' = IF src[q].type = "dir" THEN Entered(q) ELSE Taken(q)
  PROVE  /\ q \in DOMAIN src \ {<<>>} /\ q \in Seq(STRING) /\ Len(stack) \in Nat \ {0}
         /\ Len(q) = Len(stack) /\ q \in stack[Len(stack)].left
         /\ \A j \in 1..Len(stack) : SubSeq(q, 1, j - 1) = stack[j].dir
         /\ stack' \in Seq(Frames)
         /\ \A j \in 1..Len(stack) :
              /\ stack'[j].dir = stack[j].dir
              /\ stack'[j].left = IF j = Len(stack) THEN stack[j].left \ {q} ELSE stack[j].left
         /\ IF src[q].type = "dir"
              THEN /\ Len(stack') = Len(stack) + 1
                   /\ stack'[Len(stack) + 1] = [dir |-> q, left |-> Children(src, q)]
              ELSE Len(stack') = Len(stack)
<1> DEFINE n == Len(stack)
<1>1. n \in Nat \ {0} /\ q \in stack[n].left /\ stack[n] \in Frames
  <2>1. n \in Nat \ {0} /\ stack \in Seq(Frames)
    BY EmptySeq DEF StackInv, Frames
  <2> QED
    BY <2>1, ElementOfSeq DEF top
<1>2. q \in DOMAIN src /\ q # <<>> /\ Parent(q) = stack[n].dir /\ Len(stack[n].dir) = n - 1
  BY <1>1 DEF StackInv, Frames
<1>3. q \in Seq(STRING)
  BY <1>2 DEF TreesInv, IsTree
<1>4. Len(q) = n /\ \A k \in 0..(n - 1) : SubSeq(q, 1, k) = SubSeq(stack[n].dir, 1, k)
  BY <1>1, <1>2, <1>3, PathParent
<1>5. \A j \in 1..n : SubSeq(q, 1, j - 1) = stack[j].dir
  BY <1>1, <1>4 DEF StackInv
<1>6. /\ stack' \in Seq(Frames)
      /\ \A j \in 1..n : stack'[j].dir = Taken(q)[j].dir /\ stack'[j].left = Taken(q)[j].left
      /\ IF src[q].type = "dir"
           THEN Len(stack') = n + 1 /\ stack'[n + 1] = [dir |-> q, left |-> Children(src, q)]
           ELSE Len(stack') = n
  <2>0. stack \in Seq(Frames) /\ stack # <<>>
    BY DEF StackInv, Frames
  <2>1. CASE src[q].type = "dir"
    BY <1>2, <2>0, <2>1, EnteredStack
  <2>2. CASE src[q].type # "dir"
    BY <2>0, <2>2, TakenStack
  <2> QED
    BY <2>1, <2>2
<1>7. \A j \in 1..n :
        /\ stack'[j].dir = stack[j].dir
        /\ stack'[j].left = IF j = n THEN stack[j].left \ {q} ELSE stack[j].left
  <2>1. \A j \in 1..n :
          /\ Taken(q)[j].dir = stack[j].dir
          /\ Taken(q)[j].left = IF j = n THEN stack[j].left \ {q} ELSE stack[j].left
    BY TakenStack DEF StackInv, Frames
  <2> QED
    BY <1>6, <2>1
<1> QED
  BY <1>1, <1>2, <1>3, <1>4, <1>5, <1>6, <1>7

(* Copy makes an entry only where nothing is, in a directory that is there.   *)
LEMMA Creatable ==
  ASSUME TreesInv, NEW q \in DOMAIN src, copyable(q)
  PROVE  q \notin DOMAIN dst /\ q \notin DOMAIN before /\ q # <<>> /\ Parent(q) \in DOMAIN dst
<1>1. q \notin DOMAIN dst /\ q # <<>> /\ Reachable(dst, q)
  BY DEF copyable, CanCreate, Exists
<1>2. Len(q) \in Nat \ {0}
  BY <1>1, PathParent DEF TreesInv, IsTree
<1>3. IsDir(dst, SubSeq(q, 1, Len(q) - 1))
  BY <1>1, <1>2 DEF Reachable
<1> QED
  BY <1>1, <1>3 DEF IsDir, Exists, Parent, TreesInv

LEMMA EntryStep ==
  ASSUME CopyInv, CopyEntry
  PROVE  CopyInv'
<1>1. PICK q \in top.left :
        /\ copyable(q) /\ dst' = Put(dst, q, copied(q))
        /\ stack' = IF src[q].type = "dir" THEN Entered(q) ELSE Taken(q)
  BY DEF CopyEntry
<1>2. UNCHANGED <<tool, root, src, before, result>> /\ result = None
  BY DEF CopyEntry, copyFrame
<1> DEFINE n == Len(stack)
<1>3. /\ q \in DOMAIN src \ {<<>>} /\ q \in Seq(STRING) /\ n \in Nat \ {0}
      /\ Len(q) = n /\ q \in stack[n].left
      /\ \A j \in 1..n : SubSeq(q, 1, j - 1) = stack[j].dir
      /\ stack' \in Seq(Frames)
      /\ \A j \in 1..n :
           /\ stack'[j].dir = stack[j].dir
           /\ stack'[j].left = IF j = n THEN stack[j].left \ {q} ELSE stack[j].left
      /\ IF src[q].type = "dir"
           THEN Len(stack') = n + 1 /\ stack'[n + 1] = [dir |-> q, left |-> Children(src, q)]
           ELSE Len(stack') = n
  BY <1>1, EntryStack DEF CopyInv
<1>4. q \notin DOMAIN dst /\ q \notin DOMAIN before /\ q # <<>> /\ Parent(q) \in DOMAIN dst
  BY <1>1, <1>3, Creatable DEF CopyInv
<1>5. /\ DOMAIN dst' = DOMAIN dst \cup {q} /\ dst'[q] = copied(q)
      /\ \A p \in DOMAIN dst : dst'[p] = dst[p]
      /\ dst' = [p \in DOMAIN dst' |-> dst'[p]]
  BY <1>1, <1>4 DEF Put
<1> HIDE DEF n
<1>0. /\ Len(stack') \in {n, n + 1} /\ n = Len(stack)
      /\ \A j \in 1..n : stack'[j].dir = stack[j].dir /\ stack'[j].left \subseteq stack[j].left
  BY <1>3 DEF n
<1>12. /\ n \in Nat \ {0} /\ q \notin stack'[n].left
       /\ \A j \in 1..n : SubSeq(q, 1, j - 1) = stack[j].dir
  <2>1. n \in Nat \ {0} /\ \A j \in 1..n : SubSeq(q, 1, j - 1) = stack[j].dir
    BY <1>3
  <2>2. \A j \in 1..n :
          stack'[j].left = IF j = n THEN stack[j].left \ {q} ELSE stack[j].left
    BY <1>3
  <2>3. n \in 1..n
    BY <2>1
  <2>4. stack'[n].left = stack[n].left \ {q}
    BY <2>2, <2>3, Zenon
  <2> QED
    BY <2>1, <2>4
<1>13. ASSUME NEW j \in 1..n, NEW p \in stack[j].left, p # q \/ j # n
       PROVE  p \in stack'[j].left
  <2>1. stack'[j].left = IF j = n THEN stack[j].left \ {q} ELSE stack[j].left
    BY <1>3
  <2> QED
    BY <1>13, <2>1
<1>6. TreesInv'
  BY <1>2, <1>3, <1>4, <1>5 DEF CopyInv, TreesInv
<1>7. StackInv'
  <2>1. stack' # <<>> /\ stack' \in Seq([dir : DOMAIN src', left : SUBSET DOMAIN src'])
    BY <1>2, <1>3, EmptySeq DEF Frames
  <2>2. ASSUME NEW j \in 1..n
        PROVE  /\ Len(stack'[j].dir) = j - 1 /\ IsDir(src, stack'[j].dir)
               /\ \A i \in 1..j : SubSeq(stack'[j].dir, 1, i - 1) = stack'[i].dir
               /\ \A p \in stack'[j].left : p # <<>> /\ Parent(p) = stack'[j].dir
    <3>1. /\ Len(stack[j].dir) = j - 1 /\ IsDir(src, stack[j].dir)
          /\ \A i \in 1..j : SubSeq(stack[j].dir, 1, i - 1) = stack[i].dir
          /\ \A p \in stack[j].left : p # <<>> /\ Parent(p) = stack[j].dir
      BY <1>0 DEF CopyInv, StackInv
    <3>2. \A i \in 1..j : i \in 1..n
      BY <1>3
    <3> QED
      BY <1>0, <3>1, <3>2
  <2>3. CASE src[q].type = "dir"
    <3>1. stack'[n + 1].dir = q /\ stack'[n + 1].left = Children(src, q)
      BY <1>3, <2>3
    <3>2. SubSeq(q, 1, n) = q
      BY <1>3, SubSeqFull
    <3>3. \A i \in 1..(n + 1) : SubSeq(q, 1, i - 1) = stack'[i].dir
      <4> SUFFICES ASSUME NEW i \in 1..(n + 1) PROVE SubSeq(q, 1, i - 1) = stack'[i].dir
        OBVIOUS
      <4>1. CASE i = n + 1
        BY <1>3, <3>1, <3>2, <4>1
      <4>2. CASE i # n + 1
        BY <1>0, <1>12, <4>2
      <4> QED
        BY <4>1, <4>2
    <3>4. Len(q) = (n + 1) - 1 /\ IsDir(src, q)
      BY <1>3, <2>3 DEF IsDir, Exists
    <3>5. \A p \in Children(src, q) : p # <<>> /\ Parent(p) = q
      BY DEF Children
    <3>6. \A j \in 1..Len(stack') : j \in 1..n \/ j = n + 1
      BY <1>3, <2>3
    <3>7. ASSUME NEW j \in 1..Len(stack')
          PROVE  /\ Len(stack'[j].dir) = j - 1 /\ IsDir(src, stack'[j].dir)
                 /\ \A i \in 1..j : SubSeq(stack'[j].dir, 1, i - 1) = stack'[i].dir
                 /\ \A p \in stack'[j].left : p # <<>> /\ Parent(p) = stack'[j].dir
      BY <2>2, <3>1, <3>3, <3>4, <3>5, <3>6
    <3> QED
      BY <1>2, <2>1, <3>7 DEF StackInv, IsDir, Exists, Parent
  <2>4. CASE src[q].type # "dir"
    BY <1>2, <1>3, <2>1, <2>2, <2>4 DEF StackInv, IsDir, Exists, Parent
  <2> QED
    BY <2>3, <2>4
<1>8. OpenInv'
  <2> SUFFICES ASSUME NEW j \in 2..Len(stack')
               PROVE  stack'[j].dir \in DOMAIN dst' \ DOMAIN before
                      /\ dst'[stack'[j].dir] = copied(stack'[j].dir)
    BY <1>2 DEF OpenInv, copied, dirMode
  <2>1. CASE j \in 1..n
    <3>1. j \in 2..Len(stack)
      BY <1>0, <2>1
    <3>2. stack[j].dir \in DOMAIN dst \ DOMAIN before /\ dst[stack[j].dir] = copied(stack[j].dir)
      BY <3>1 DEF CopyInv, OpenInv
    <3> QED
      BY <1>0, <1>5, <2>1, <3>2
  <2>2. CASE j \notin 1..n
    <3>1. stack'[j].dir = q
      BY <1>3, <2>2
    <3> QED
      BY <1>4, <1>5, <3>1
  <2> QED
    BY <2>1, <2>2
<1>9. CopiedInv'
  <2> SUFFICES ASSUME NEW p \in DOMAIN src \ {<<>>}
               PROVE  isCopied(p)' \/ isLeft(p)'
    BY <1>2 DEF CopiedInv
  <2>0. p \in Seq(STRING) /\ Len(p) \in Nat \ {0}
    BY PathParent DEF CopyInv, TreesInv, IsTree
  <2>1. CASE isCopied(p)
    <3>1. ASSUME NEW j \in 1..n, stack[j].dir = p PROVE isOpen(p)'
      <4>1. j \in 1..Len(stack') /\ stack'[j].dir = p
        BY <1>0, <1>12, <3>1
      <4> QED
        BY <4>1 DEF isOpen
    <3>2. isOpen(p) => isOpen(p)'
      BY <1>0, <3>1 DEF isOpen
    <3> QED
      BY <1>2, <1>4, <1>5, <2>1, <3>2 DEF isCopied, final, dirMode
  <2>2. ASSUME NEW k \in 1..Len(p), NEW j \in 1..n,
               SubSeq(p, 1, k) \in stack[j].left, j # n \/ SubSeq(p, 1, k) # q
        PROVE  isLeft(p)'
    <3>1. SubSeq(p, 1, k) \in stack'[j].left
      BY <1>13, <2>2
    <3>2. j \in 1..Len(stack')
      BY <1>0, <1>12
    <3> QED
      BY <3>1, <3>2 DEF isLeft
  <2>3. ASSUME NEW k \in 1..Len(p), SubSeq(p, 1, k) = q
        PROVE  isCopied(p)' \/ isLeft(p)'
    <3>1. CASE k = Len(p)
      <4>1. p = q
        BY <2>0, <2>3, <3>1, SubSeqFull
      <4>2. CASE src[q].type = "dir"
        <5>1. isOpen(p)'
          <6>1. n + 1 \in 1..Len(stack') /\ stack'[n + 1].dir = p
            BY <1>3, <4>1, <4>2
          <6> QED
            BY <6>1 DEF isOpen
        <5> QED
          BY <1>2, <1>4, <1>5, <4>1, <5>1 DEF isCopied
      <4>3. CASE src[q].type # "dir"
        BY <1>2, <1>4, <1>5, <4>1, <4>3 DEF isCopied, final, copied
      <4> QED
        BY <4>2, <4>3
    <3>2. CASE k # Len(p)
      <4>1. src[q].type = "dir" /\ SubSeq(p, 1, k + 1) \in Children(src, q)
        <5>1. IsTree(src) /\ k \in 0..(Len(p) - 1) /\ p # <<>>
          BY <2>0, <3>2 DEF CopyInv, TreesInv
        <5> QED
          BY <2>3, <5>1, Above
      <4>2. k + 1 \in 1..Len(p) /\ n + 1 \in 1..Len(stack')
        BY <1>3, <2>0, <3>2, <4>1
      <4>3. SubSeq(p, 1, k + 1) \in stack'[n + 1].left
        BY <1>3, <4>1
      <4> QED
        BY <4>2, <4>3 DEF isLeft
    <3> QED
      BY <3>1, <3>2
  <2> QED
    BY <2>1, <2>2, <2>3 DEF CopyInv, CopiedInv, isLeft, n
<1>10. LeftInv'
  <2>1. ASSUME NEW j \in 1..Len(stack'), NEW p \in stack'[j].left, p \in DOMAIN dst'
        PROVE  p \in DOMAIN before
    <3>1. CASE j \in 1..n
      <4>1. p \in stack[j].left
        BY <1>3, <2>1, <3>1
      <4>2. p # q
        <5>1. Len(Parent(p)) = j - 1 /\ Len(Parent(q)) = n - 1
          BY <1>3, <3>1, <4>1, PathParent DEF CopyInv, StackInv, n
        <5> QED
          BY <1>12, <2>1, <3>1, <5>1
      <4> QED
        BY <1>2, <1>5, <2>1, <3>1, <4>1, <4>2 DEF CopyInv, LeftInv, None, n
    <3>2. CASE j \notin 1..n
      <4>1. p \in DOMAIN src /\ p # <<>> /\ Parent(p) = q
        BY <1>3, <2>1, <3>2 DEF Children
      <4>2. p # q
        BY <1>3, <4>1, PathParent
      <4> QED
        BY <1>2, <1>4, <1>5, <2>1, <4>1, <4>2 DEF CopyInv, LeftInv, None
    <3> QED
      BY <3>1, <3>2
  <2>2. ASSUME NEW p \in DOMAIN dst' \ DOMAIN before
        PROVE  p # <<>> /\ Parent(p) \in DOMAIN dst'
    BY <1>2, <1>4, <1>5 DEF CopyInv, LeftInv, None
  <2> QED
    BY <1>2, <2>1, <2>2 DEF LeftInv, Parent
<1>11. ResultInv'
  BY <1>2 DEF ResultInv, None
<1> QED
  BY <1>6, <1>7, <1>8, <1>9, <1>10, <1>11 DEF CopyInv

(* An entry that cannot be copied is one that the property allows for: the    *)
(* directories above it have been made with the permissions of the owner that *)
(* they have in src, or more.                                                 *)
LEMMA Explained ==
  ASSUME CopyInv, result = None, NEW q \in top.left, ~copyable(q)
  PROVE  explained
<1> DEFINE n == Len(stack)
<1>1. /\ n \in Nat \ {0} /\ q \in stack[n].left /\ stack[n] \in Frames
  <2>1. n \in Nat \ {0} /\ stack \in Seq(Frames)
    BY EmptySeq DEF CopyInv, StackInv, Frames
  <2> QED
    BY <2>1, ElementOfSeq DEF top
<1>2. q \in DOMAIN src \ {<<>>} /\ Parent(q) = stack[n].dir /\ Len(stack[n].dir) = n - 1
  BY <1>1 DEF CopyInv, StackInv, Frames
<1>3. IsTree(src) /\ q \in Seq(STRING) /\ Len(q) = n
  BY <1>1, <1>2, PathParent DEF CopyInv, TreesInv, IsTree
<1>4. ASSUME NEW k \in 0..(n - 1)
      PROVE  LET d == SubSeq(q, 1, k) IN
             /\ d = stack[k + 1].dir /\ d \in DOMAIN src /\ src[d].type = "dir"
             /\ Children(src, d) # {}
             /\ k = 0 => d = <<>>
             /\ k # 0 => d # <<>>
  <2>1. SubSeq(q, 1, k) = SubSeq(stack[n].dir, 1, k)
    BY <1>2, <1>3, PathParent
  <2>2. SubSeq(stack[n].dir, 1, (k + 1) - 1) = stack[k + 1].dir
    <3>1. \A j \in 1..n : \A i \in 1..j : SubSeq(stack[j].dir, 1, i - 1) = stack[i].dir
      BY DEF CopyInv, StackInv
    <3>2. n \in 1..n /\ k + 1 \in 1..n
      BY <1>1
    <3> QED
      BY <3>1, <3>2
  <2>3. Len(SubSeq(q, 1, k)) = k /\ SubSeq(q, 1, k) \in Seq(STRING)
    BY <1>3, PathPrefix
  <2>4. (k + 1) - 1 = k
    OBVIOUS
  <2>5. SubSeq(q, 1, k) = stack[k + 1].dir
    BY <2>1, <2>2, <2>4
  <2>6. /\ SubSeq(q, 1, k) \in DOMAIN src /\ src[SubSeq(q, 1, k)].type = "dir"
        /\ Children(src, SubSeq(q, 1, k)) # {}
    BY <1>2, <1>3, Above
  <2>7. /\ k = 0 => SubSeq(q, 1, k) = <<>>
        /\ k # 0 => SubSeq(q, 1, k) # <<>>
    BY <2>3, EmptySeq
  <2> QED
    BY <2>5, <2>6, <2>7
<1>5. ASSUME NEW k \in 0..(n - 1), NEW bits \in SUBSET {"w", "x"},
             ~Allowed(src, SubSeq(q, 1, k), bits)
      PROVE  explained
  <2> DEFINE d == SubSeq(q, 1, k)
  <2>1. ~root /\ ~ bits \subseteq src[d].mode
    BY <1>5 DEF Allowed
  <2>2. d # <<>>
    BY <1>3, <2>1 DEF IsTree
  <2>3. d \in DOMAIN src /\ Children(src, d) # {}
    BY <1>4
  <2> QED
    BY <2>1, <2>2, <2>3 DEF explained
<1>6. ASSUME NEW k \in 0..(n - 1)
      PROVE  /\ IsDir(dst, SubSeq(q, 1, k))
             /\ \A bits \in SUBSET {"w", "x"} :
                  ~Allowed(dst, SubSeq(q, 1, k), bits) => ~Allowed(src, SubSeq(q, 1, k), bits)
  <2> DEFINE d == SubSeq(q, 1, k)
  <2>1. CASE k = 0
    <3>1. d = <<>>
      BY <1>4, <2>1
    <3>2. IsDir(before, <<>>) /\ {"r", "w", "x"} \subseteq before[<<>>].mode
      BY DEF CopyInv, TreesInv, IsTree
    <3>3. <<>> \in DOMAIN dst /\ dst[<<>>] = before[<<>>]
      BY <3>2 DEF CopyInv, TreesInv, IsDir, Exists
    <3> QED
      BY <3>1, <3>2, <3>3 DEF IsDir, Exists, Allowed
  <2>2. CASE k # 0
    <3>0. k + 1 \in 2..n
      BY <1>1, <2>2
    <3>1. d = stack[k + 1].dir /\ d \in DOMAIN src /\ src[d].type = "dir"
      BY <1>4
    <3>2. d \in DOMAIN dst /\ dst[d] = copied(d)
      BY <3>0, <3>1 DEF CopyInv, OpenInv
    <3>3. IsNode(src[d])
      BY <1>3, <3>1 DEF IsTree
    <3>4. copied(d).type = "dir" /\ copied(d).mode = dirMode(src[d].mode) \ Umask
      BY <3>1, <3>3 DEF copied, IsNode
    <3>5. \A b \in {"w", "x"} : b \in src[d].mode => b \in copied(d).mode
      BY <3>4, UmaskAssumption DEF dirMode
    <3> QED
      BY <3>2, <3>4, <3>5 DEF IsDir, Exists, Allowed
  <2> QED
    BY <2>1, <2>2
<1>7. CASE ~Reachable(src, q)
  <2>1. PICK k \in 0..(n - 1) :
          ~(IsDir(src, SubSeq(q, 1, k)) /\ Allowed(src, SubSeq(q, 1, k), {"x"}))
    BY <1>3, <1>7 DEF Reachable
  <2>2. ~Allowed(src, SubSeq(q, 1, k), {"x"})
    BY <1>4, <2>1 DEF IsDir, Exists
  <2> QED
    BY <1>5, <2>2
<1>8. CASE Exists(dst, q)
  <2>1. q \in DOMAIN before
    BY <1>1, <1>8 DEF CopyInv, LeftInv, Exists, None
  <2> QED
    BY <1>2, <2>1 DEF explained
<1>9. CASE src[q].type \notin {"link", "dir", "file"}
  <2>1. src[q].type = "special"
    BY <1>2, <1>3, <1>9 DEF IsTree, IsNode
  <2> QED
    BY <1>2, <2>1 DEF explained
<1>10. CASE src[q].type # "link" /\ ~Allowed(src, q, {"r"})
  BY <1>2, <1>10 DEF explained, Allowed
<1>11. CASE ~CanCreate(dst, q)
  <2>1. CASE ~Reachable(dst, q)
    <3>1. PICK k \in 0..(n - 1) :
            ~(IsDir(dst, SubSeq(q, 1, k)) /\ Allowed(dst, SubSeq(q, 1, k), {"x"}))
      BY <1>3, <2>1 DEF Reachable
    <3>2. ~Allowed(src, SubSeq(q, 1, k), {"x"})
      BY <1>6, <3>1
    <3> QED
      BY <1>5, <3>2
  <2>2. CASE ~Allowed(dst, Parent(q), {"w", "x"})
    <3>1. Parent(q) = SubSeq(q, 1, n - 1) /\ n - 1 \in 0..(n - 1)
      BY <1>1, <1>3 DEF Parent
    <3>2. ~Allowed(src, SubSeq(q, 1, n - 1), {"w", "x"})
      BY <1>6, <2>2, <3>1
    <3> QED
      BY <1>5, <3>1, <3>2
  <2> QED
    BY <1>2, <1>11, <2>1, <2>2 DEF CanCreate
<1> QED
  BY <1>7, <1>8, <1>9, <1>10, <1>11 DEF copyable

(* Steps that leave the trees and the stack alone.                            *)
LEMMA TreesKept ==
  ASSUME CopyInv, UNCHANGED <<tool, src, before, dst, stack>>
  PROVE  TreesInv' /\ StackInv' /\ OpenInv' /\ CopiedInv'
<1>1. TreesInv'
  BY DEF CopyInv, TreesInv
<1>2. StackInv'
  BY DEF CopyInv, StackInv, IsDir, Exists, Parent
<1>3. OpenInv'
  BY DEF CopyInv, OpenInv, copied, dirMode
<1>4. CopiedInv'
  BY DEF CopyInv, CopiedInv, isCopied, isLeft, isOpen, final, dirMode
<1> QED
  BY <1>1, <1>2, <1>3, <1>4

LEMMA FailsStep ==
  ASSUME CopyInv, CopyFails
  PROVE  CopyInv'
<1>1. UNCHANGED <<tool, root, src, before, stack>> /\ result = None /\ result' = "err"
  BY DEF CopyFails, copyFrame, Stop
<1>2. PICK q \in top.left :
        \/ ~copyable(q) /\ UNCHANGED <<dst, faulty>>
        \/ faulty' /\ UNCHANGED dst
        \/ faulty' /\ copyable(q) /\ \E x : dst' = Put(dst, q, x)
  BY DEF CopyFails, Fault, NoFault
<1>3. q \in DOMAIN src
  <2>1. Len(stack) \in Nat \ {0} /\ stack \in Seq(Frames)
    BY EmptySeq DEF CopyInv, StackInv, Frames
  <2>2. stack[Len(stack)] \in Frames
    BY <2>1, ElementOfSeq
  <2> QED
    BY <2>2 DEF top, Frames
<1>4. /\ dst' = [p \in DOMAIN dst' |-> dst'[p]]
      /\ DOMAIN dst \subseteq DOMAIN dst' /\ DOMAIN dst' \subseteq DOMAIN dst \cup {q}
      /\ \A p \in DOMAIN dst : dst'[p] = dst[p]
  <2>1. CASE UNCHANGED dst
    BY <2>1 DEF CopyInv, TreesInv
  <2>2. ASSUME NEW x, copyable(q), dst' = Put(dst, q, x)
        PROVE  <1>4!:
    BY <1>3, <2>2, Creatable DEF Put, CopyInv
  <2> QED
    BY <1>2, <2>1, <2>2
<1>5. TreesInv'
  BY <1>1, <1>3, <1>4 DEF CopyInv, TreesInv
<1>6. StackInv'
  BY <1>1 DEF CopyInv, StackInv, IsDir, Exists, Parent
<1>7. OpenInv'
  BY <1>1, <1>4 DEF CopyInv, OpenInv, copied, dirMode
<1>8. CopiedInv'
  <2> SUFFICES ASSUME NEW p \in DOMAIN src \ {<<>>} PROVE isCopied(p)' \/ isLeft(p)'
    BY <1>1 DEF CopiedInv
  <2>1. isCopied(p) \/ isLeft(p)
    BY DEF CopyInv, CopiedInv
  <2>2. isLeft(p)' <=> isLeft(p)
    BY <1>1 DEF isLeft
  <2>3. (isOpen(p)' <=> isOpen(p)) /\ final(p)' = final(p)
    BY <1>1 DEF isOpen, final, dirMode
  <2> QED
    BY <1>1, <1>4, <2>1, <2>2, <2>3 DEF isCopied
<1>9. LeftInv'
  BY <1>1 DEF LeftInv
<1>10. ResultInv'
  <2>1. explained' <=> explained
    BY <1>1 DEF explained, Children, Parent
  <2>2. ~faulty' => explained
    BY <1>1, <1>2, Explained
  <2> QED
    BY <1>1, <2>1, <2>2 DEF ResultInv
<1> QED
  BY <1>5, <1>6, <1>7, <1>8, <1>9, <1>10 DEF CopyInv

LEMMA NodeExcept ==
  ASSUME NEW n, IsNode(n), NEW a, NEW b
  PROVE  /\ [n EXCEPT !.mode = n.mode] = n
         /\ [[n EXCEPT !.mode = a] EXCEPT !.mode = b] = [n EXCEPT !.mode = b]
BY DEF IsNode

LEMMA DirDoneStep ==
  ASSUME CopyInv, CopyDirDone
  PROVE  CopyInv'
<1>1. UNCHANGED <<tool, root, src, before>> /\ result = None /\ top.left = {} /\ Len(stack) > 1
  BY DEF CopyDirDone, copyFrame
<1> DEFINE n == Len(stack)
           d == stack[n].dir
<1>2. n \in Nat /\ n > 1 /\ stack \in Seq(Frames) /\ stack[n].left = {}
  BY <1>1, EmptySeq DEF CopyInv, StackInv, Frames, top
<1>0. \A j \in 1..n : /\ Len(stack[j].dir) = j - 1 /\ IsDir(src, stack[j].dir)
                       /\ \A i \in 1..j : SubSeq(stack[j].dir, 1, i - 1) = stack[i].dir
                       /\ \A p \in stack[j].left : p # <<>> /\ Parent(p) = stack[j].dir
  BY DEF CopyInv, StackInv
<1>5. n \in 1..n /\ Len(d) = n - 1 /\ IsDir(src, d)
  BY <1>0, <1>2
<1>3. CASE UNCHANGED <<dst, stack>> /\ faulty' /\ result' = "err"
  BY <1>1, <1>3, TreesKept DEF CopyInv, LeftInv, ResultInv
<1>4. CASE dst' = chmodDir(top.dir) /\ stack' = SubSeq(stack, 1, n - 1) /\ UNCHANGED result
  <2>1. /\ stack' \in Seq(Frames) /\ Len(stack') = n - 1
        /\ \A j \in 1..(n - 1) : stack'[j] = stack[j]
    <3>1. \A j \in 1..(n - 1) : stack[j] \in Frames
      BY <1>2, ElementOfSeq
    <3> QED
      BY <1>2, <1>4, <3>1, SubSeqProperties
  <2>2. d \in DOMAIN dst \ DOMAIN before /\ dst[d] = copied(d)
    BY <1>2 DEF CopyInv, OpenInv
  <2>3. d \in DOMAIN src /\ src[d].type = "dir" /\ IsNode(src[d])
    BY <1>5 DEF CopyInv, TreesInv, IsTree, IsDir, Exists
  <2>4. [copied(d) EXCEPT !.mode = dirMode(src[d].mode)] = final(d)
    BY <2>3, NodeExcept DEF copied, final
  <2>5. /\ DOMAIN dst' = DOMAIN dst /\ dst'[d] = final(d)
        /\ \A p \in DOMAIN dst : p # d => dst'[p] = dst[p]
        /\ dst' = [p \in DOMAIN dst' |-> dst'[p]]
    BY <1>4, <2>2, <2>4 DEF chmodDir, top, CopyInv, TreesInv
  <2>6. \A j \in 1..(n - 1) : stack[j].dir # d
    <3> SUFFICES ASSUME NEW j \in 1..(n - 1) PROVE stack[j].dir # d
      OBVIOUS
    <3>1. Len(stack[j].dir) = j - 1 /\ j - 1 # n - 1
      BY <1>0, <1>2
    <3> QED
      BY <1>5, <3>1
  <2> HIDE DEF n, d
  <2>7. TreesInv'
    BY <1>1, <2>2, <2>5 DEF CopyInv, TreesInv
  <2>8. StackInv'
    <3>1. stack' # <<>> /\ stack' \in Seq([dir : DOMAIN src', left : SUBSET DOMAIN src'])
      BY <1>1, <1>2, <2>1, EmptySeq DEF Frames
    <3>2. \A j \in 1..(n - 1) : j \in 1..n /\ \A i \in 1..j : i \in 1..(n - 1)
      BY <1>2
    <3>3. \A j \in 1..(n - 1) :
            /\ Len(stack'[j].dir) = j - 1 /\ IsDir(src, stack'[j].dir)
            /\ \A i \in 1..j : SubSeq(stack'[j].dir, 1, i - 1) = stack'[i].dir
            /\ \A p \in stack'[j].left : p # <<>> /\ Parent(p) = stack'[j].dir
      <4> SUFFICES ASSUME NEW j \in 1..(n - 1)
                   PROVE  /\ Len(stack'[j].dir) = j - 1 /\ IsDir(src, stack'[j].dir)
                          /\ \A i \in 1..j : SubSeq(stack'[j].dir, 1, i - 1) = stack'[i].dir
                          /\ \A p \in stack'[j].left : p # <<>> /\ Parent(p) = stack'[j].dir
        OBVIOUS
      <4>1. stack'[j] = stack[j] /\ \A i \in 1..j : stack'[i] = stack[i]
        BY <2>1, <3>2
      <4>2. j \in 1..n
        BY <3>2
      <4>3. /\ Len(stack[j].dir) = j - 1 /\ IsDir(src, stack[j].dir)
            /\ \A i \in 1..j : SubSeq(stack[j].dir, 1, i - 1) = stack[i].dir
            /\ \A p \in stack[j].left : p # <<>> /\ Parent(p) = stack[j].dir
        BY <1>0, <4>2
      <4> QED
        BY <4>1, <4>3
    <3> QED
      BY <1>1, <2>1, <3>1, <3>3 DEF StackInv, IsDir, Exists, Parent
  <2>9. OpenInv'
    <3> SUFFICES ASSUME NEW j \in 2..(n - 1)
                 PROVE  stack'[j].dir \in DOMAIN dst' \ DOMAIN before
                        /\ dst'[stack'[j].dir] = copied(stack'[j].dir)
      BY <1>1, <2>1 DEF OpenInv, copied, dirMode
    <3>1. j \in 2..Len(stack) /\ stack'[j] = stack[j] /\ stack[j].dir # d
      BY <1>2, <2>1, <2>6 DEF n
    <3>2. stack[j].dir \in DOMAIN dst \ DOMAIN before /\ dst[stack[j].dir] = copied(stack[j].dir)
      BY <3>1 DEF CopyInv, OpenInv
    <3> QED
      BY <2>5, <3>1, <3>2
  <2>10. CopiedInv'
    <3> SUFFICES ASSUME NEW p \in DOMAIN src \ {<<>>}
                 PROVE  isCopied(p)' \/ isLeft(p)'
      BY <1>1 DEF CopiedInv
    <3>1. CASE isCopied(p) /\ p = d
      BY <1>1, <2>2, <2>5, <3>1 DEF isCopied, final, dirMode
    <3>2. CASE isCopied(p) /\ p # d
      <4>1. isOpen(p) => isOpen(p)'
        BY <1>2, <2>1, <3>2 DEF isOpen, n, d
      <4> QED
        BY <1>1, <2>5, <3>2, <4>1 DEF isCopied, final, dirMode
    <3>3. CASE isLeft(p)
      BY <1>2, <2>1, <3>3 DEF isLeft, n
    <3> QED
      BY <3>1, <3>2, <3>3 DEF CopyInv, CopiedInv
  <2>11. LeftInv'
    BY <1>1, <1>2, <1>4, <2>1, <2>5 DEF CopyInv, LeftInv, Parent, n
  <2>12. ResultInv'
    BY <1>1, <1>4 DEF ResultInv, None
  <2> QED
    BY <2>7, <2>8, <2>9, <2>10, <2>11, <2>12 DEF CopyInv
<1> QED
  BY <1>3, <1>4 DEF CopyDirDone, Fault, Stop

LEMMA CopyStep == CopyInv /\ [CopyNext]_treeVars => CopyInv'
<1> SUFFICES ASSUME CopyInv, [CopyNext]_treeVars PROVE CopyInv'
  OBVIOUS
<1>1. CASE CopyDone \/ UNCHANGED treeVars
  <2>1. UNCHANGED <<tool, root, src, before, dst, stack, faulty>>
    BY <1>1 DEF CopyDone, copyFrame, treeVars
  <2>2. \/ UNCHANGED result
        \/ result' = "ok" /\ result = None /\ top.left = {} /\ Len(stack) = 1
    BY <1>1 DEF CopyDone, Stop, treeVars
  <2>3. TreesInv' /\ StackInv' /\ OpenInv' /\ CopiedInv'
    BY <2>1, TreesKept
  <2>4. LeftInv'
    BY <2>1, <2>2 DEF CopyInv, LeftInv, Parent, None
  <2>5. ResultInv'
    BY <2>1, <2>2 DEF CopyInv, ResultInv, explained, Children, Parent, top
  <2> QED
    BY <2>3, <2>4, <2>5 DEF CopyInv
<1> QED
  BY <1>1, EntryStep, FailsStep, DirDoneStep DEF CopyNext

LEMMA CopyStart == CopyInit => CopyInv
<1> SUFFICES ASSUME CopyInit PROVE CopyInv
  OBVIOUS
<1>1. /\ stack \in Seq(Frames) /\ Len(stack) = 1
      /\ stack[1] = [dir |-> <<>>, left |-> Children(src, <<>>)]
  BY DEF CopyInit, Frames, Children, IsTree, IsDir, Exists
<1>2. IsTree(src) /\ IsDir(src, <<>>) /\ before = dst /\ IsTree(dst)
  BY DEF CopyInit, IsTree
<1>3. TreesInv
  BY <1>2 DEF CopyInit, TreesInv, IsTree
<1>4. StackInv
  <2>1. stack # <<>> /\ Len(<<>>) = 0 /\ SubSeq(<<>>, 1, 0) = <<>>
    <3>1. Len(<<>>) = 0 /\ 1 # 0
      BY EmptySeq
    <3>2. stack # <<>>
      <4> SUFFICES ASSUME stack = <<>> PROVE FALSE
        OBVIOUS
      <4>1. Len(stack) = 0 /\ Len(stack) = 1
        BY <1>1, <3>1
      <4> QED
        BY <4>1, <3>1
    <3>3. SubSeq(<<>>, 1, 0) = <<>>
      BY SubSeqEmpty
    <3> QED
      BY <3>1, <3>2, <3>3
  <2>2. stack[1].dir = <<>> /\ \A p \in stack[1].left : p # <<>> /\ Parent(p) = <<>>
    BY <1>1 DEF Children
  <2>3. \A j \in 1..Len(stack) : j = 1 /\ \A i \in 1..j : i = 1 /\ i - 1 = 0
    BY <1>1
  <2> QED
    BY <1>1, <1>2, <2>1, <2>2, <2>3 DEF StackInv, Frames
<1>5. OpenInv
  BY <1>1 DEF OpenInv
<1>6. CopiedInv
  <2> SUFFICES ASSUME NEW p \in DOMAIN src \ {<<>>} PROVE isLeft(p)
    BY DEF CopiedInv
  <2>1. p \in Seq(STRING) /\ Len(p) \in Nat \ {0}
    BY <1>2, PathParent DEF IsTree
  <2>2. SubSeq(p, 1, 0) = <<>>
    BY SubSeqEmpty
  <2>3. SubSeq(p, 1, 0 + 1) \in Children(src, SubSeq(p, 1, 0))
    BY <1>2, <2>1, Above
  <2> QED
    <3>1. SubSeq(p, 1, 1) \in stack[1].left /\ 1 \in 1..Len(p) /\ 1 \in 1..Len(stack)
      <4>1. SubSeq(p, 1, 1) \in Children(src, <<>>)
        <5>1. 0 + 1 = 1
          OBVIOUS
        <5> QED
          BY <2>2, <2>3, <5>1, Zenon
      <4>2. stack[1].left = Children(src, <<>>)
        BY <1>1
      <4> QED
        BY <1>1, <2>1, <4>1, <4>2
    <3> QED
      BY <3>1 DEF isLeft
<1>7. LeftInv
  BY <1>2 DEF LeftInv
<1>8. ResultInv
  BY DEF CopyInit, ResultInv, None
<1> QED
  BY <1>3, <1>4, <1>5, <1>6, <1>7, <1>8 DEF CopyInv

(* fs.Copy copies faithfully, whatever the two trees, however deep, and       *)
(* whatever fails on the way.                                                 *)
THEOREM CopyFaithfulHolds == CopySpec => []CopyFaithful
<1>1. CopyInv => CopyFaithful
  <2> SUFFICES ASSUME CopyInv PROVE CopyFaithful
    OBVIOUS
  <2>1. \A p \in DOMAIN before : Exists(dst, p) /\ dst[p] = before[p]
    BY DEF CopyInv, TreesInv, Exists
  <2>2. ASSUME result = "ok", NEW p \in DOMAIN src \ {<<>>}
        PROVE  p \in DOMAIN dst /\ dst[p] = final(p)
    <3>1. Len(stack) = 1 /\ stack[1].left = {} /\ Len(stack[1].dir) = 0
      <4>1. Len(stack) = 1 /\ stack[1].left = {}
        BY <2>2 DEF CopyInv, ResultInv, top
      <4>2. 1 \in 1..Len(stack)
        BY <4>1
      <4>3. Len(stack[1].dir) = 1 - 1
        BY <4>2 DEF CopyInv, StackInv
      <4> QED
        BY <4>1, <4>3
    <3>2. ~isLeft(p)
      BY <3>1 DEF isLeft
    <3>3. ~isOpen(p)
      BY <3>1, PathParent DEF isOpen, CopyInv, TreesInv, IsTree
    <3> QED
      BY <3>2, <3>3 DEF CopyInv, CopiedInv, isCopied
  <2>3. result = "ok" => DOMAIN dst = DOMAIN src \cup DOMAIN before
    BY <2>2 DEF CopyInv, TreesInv, IsTree, IsDir, Exists
  <2>4. ASSUME NEW p \in DOMAIN src, NEW x, x = final(p)
        PROVE  \/ x = src[p]
               \/ /\ src[p].type = "dir" /\ src[p].mode \cap {"r", "x"} = {}
                  /\ x = [src[p] EXCEPT !.mode = @ \cup {"r", "x"}]
    <3>1. IsNode(src[p])
      BY DEF CopyInv, TreesInv, IsTree
    <3> QED
      BY <2>4, <3>1, NodeExcept DEF final, dirMode
  <2> QED
    BY <2>1, <2>2, <2>3, <2>4 DEF CopyFaithful, CopyInv, ResultInv, explained
<1> QED
  BY <1>1, CopyStart, CopyStep, PTL DEF CopySpec

-----------------------------------------------------------------------------
(* Trees and what is within a path.                                           *)
LEMMA WithinRules ==
  ASSUME NEW p \in Seq(STRING), NEW q \in Seq(STRING)
  PROVE  /\ Within(p, p)
         /\ Within(p, q) => Len(q) \in 0..Len(p) /\ SubSeq(p, 1, Len(q)) = q
         /\ Within(p, q) /\ p # q => Len(q) \in 0..(Len(p) - 1)
         /\ \A k \in 0..Len(p) : Within(p, SubSeq(p, 1, k))
<1>1. Len(p) \in Nat /\ Len(q) \in Nat /\ SubSeq(p, 1, Len(p)) = p
  BY SubSeqFull, LenProperties
<1>2. Within(p, q) => Len(q) \in 0..Len(p) /\ SubSeq(p, 1, Len(q)) = q
  BY <1>1 DEF Within
<1>3. Within(p, q) /\ p # q => Len(q) \in 0..(Len(p) - 1)
  <2> SUFFICES ASSUME Within(p, q), p # q PROVE Len(q) \in 0..(Len(p) - 1)
    OBVIOUS
  <2>1. Len(q) # Len(p)
    <3> SUFFICES ASSUME Len(q) = Len(p) PROVE FALSE
      OBVIOUS
    <3>1. SubSeq(p, 1, Len(q)) = SubSeq(p, 1, Len(p))
      BY Zenon
    <3>2. SubSeq(p, 1, Len(q)) = q /\ SubSeq(p, 1, Len(p)) = p
      BY <1>1, <1>2
    <3> QED
      BY <3>1, <3>2, Zenon
  <2>2. Len(p) \in Nat /\ Len(q) \in Nat /\ Len(q) <= Len(p)
    BY <1>1, <1>2
  <2> QED
    BY <2>1, <2>2
<1>4. \A k \in 0..Len(p) : Within(p, SubSeq(p, 1, k))
  BY <1>1, PathPrefix DEF Within
<1> QED
  BY <1>1, <1>2, <1>3, <1>4 DEF Within

LEMMA WithinTrans ==
  ASSUME NEW p \in Seq(STRING), NEW q \in Seq(STRING), NEW r \in Seq(STRING),
         Within(p, q), Within(q, r)
  PROVE  Within(p, r)
<1>1. Len(p) \in Nat /\ Len(q) \in 0..Len(p) /\ Len(r) \in 0..Len(q)
      /\ SubSeq(p, 1, Len(q)) = q /\ SubSeq(q, 1, Len(r)) = r
  BY WithinRules, LenProperties
<1>2. SubSeq(SubSeq(p, 1, Len(q)), 1, Len(r)) = SubSeq(p, 1, Len(r))
  BY <1>1, PathPrefix
<1> QED
  BY <1>1, <1>2 DEF Within

(* Every directory on the way to p is there.                                  *)
DirsAbove(t, p) == \A k \in 0..(Len(p) - 1) : IsDir(t, SubSeq(p, 1, k))

LEMMA TreeOf ==
  ASSUME NEW t, IsTree(t), NEW p \in DOMAIN t
  PROVE  /\ p \in Seq(STRING) /\ IsNode(t[p]) /\ DirsAbove(t, p)
         /\ \A q \in Seq(STRING) : Within(p, q) /\ p # q => IsDir(t, q)
<1>1. p \in Seq(STRING) /\ IsNode(t[p]) /\ DirsAbove(t, p)
  BY DEF IsTree, DirsAbove
<1>2. ASSUME NEW q \in Seq(STRING), Within(p, q), p # q PROVE IsDir(t, q)
  <2>1. Len(q) \in 0..(Len(p) - 1) /\ SubSeq(p, 1, Len(q)) = q
    BY <1>1, <1>2, WithinRules
  <2> QED
    BY <1>1, <2>1 DEF DirsAbove
<1> QED
  BY <1>1, <1>2

(* The parts of a tree without p are a tree.                                  *)
LEMMA RemovedTree ==
  ASSUME NEW t, IsTree(t), NEW p \in Seq(STRING), p # <<>>
  PROVE  /\ IsTree(Removed(t, p))
         /\ DOMAIN Removed(t, p) = {q \in DOMAIN t : ~Within(q, p)}
         /\ \A q \in DOMAIN t : ~Within(q, p) => Removed(t, p)[q] = t[q]
         /\ \A d \in Seq(STRING) : IsDir(t, d) /\ ~Within(d, p) => IsDir(Removed(t, p), d)
<1> DEFINE u == Removed(t, p)
<1>1. /\ u = [q \in DOMAIN u |-> u[q]]
      /\ DOMAIN u = {q \in DOMAIN t : ~Within(q, p)}
      /\ \A q \in DOMAIN t : ~Within(q, p) => u[q] = t[q]
  BY DEF Removed
<1> HIDE DEF u
<1>2. \A d : IsDir(t, d) /\ ~Within(d, p) => IsDir(u, d)
  BY <1>1 DEF IsDir, Exists
<1>3. ~Within(<<>>, p) /\ Len(<<>>) = 0
  <2>1. Len(<<>>) = 0 /\ Len(p) \in Nat \ {0}
    BY EmptySeq, PathParent
  <2> QED
    BY <2>1 DEF Within
<1>4. IsDir(u, <<>>) /\ u[<<>>].mode = t[<<>>].mode
  BY <1>1, <1>2, <1>3 DEF IsTree, IsDir, Exists
<1>5. ASSUME NEW q \in DOMAIN u
      PROVE  IsNode(u[q]) /\ \A k \in 0..(Len(q) - 1) : IsDir(u, SubSeq(q, 1, k))
  <2>1. q \in DOMAIN t /\ q \in Seq(STRING) /\ ~Within(q, p) /\ Len(q) \in Nat
    BY <1>1, TreeOf, LenProperties
  <2>2. ASSUME NEW k \in 0..(Len(q) - 1) PROVE IsDir(u, SubSeq(q, 1, k))
    <3>1. IsDir(t, SubSeq(q, 1, k)) /\ k \in 0..Len(q)
      BY <2>1 DEF IsTree
    <3>2. SubSeq(q, 1, k) \in Seq(STRING) /\ Within(q, SubSeq(q, 1, k))
      BY <2>1, <3>1, PathPrefix, WithinRules
    <3>3. ~Within(SubSeq(q, 1, k), p)
      BY <2>1, <3>2, WithinTrans
    <3> QED
      BY <1>2, <3>1, <3>3
  <2>3. IsNode(u[q])
    BY <1>1, <2>1, TreeOf
  <2> QED
    BY <2>2, <2>3
<1>6. IsTree(u)
  BY <1>1, <1>4, <1>5 DEF IsTree
<1> QED
  BY <1>1, <1>2, <1>6 DEF u

(* A node put where the directories for it are.                               *)
fits(t, p, n) ==
  IsNode(n) /\ (n.type = "dir" \/ \A q \in DOMAIN t : Within(q, p) => q = p)

LEMMA PutTree ==
  ASSUME NEW t, IsTree(t), NEW p \in Seq(STRING), p # <<>>, DirsAbove(t, p),
         NEW n, fits(t, p, n)
  PROVE  IsTree(Put(t, p, n))
<1> DEFINE u == Put(t, p, n)
<1>1. /\ u = [q \in DOMAIN u |-> u[q]] /\ DOMAIN u = DOMAIN t \cup {p} /\ u[p] = n
      /\ \A q \in DOMAIN t : q # p => u[q] = t[q]
  BY DEF Put
<1> HIDE DEF u
<1>2. \A d : IsDir(t, d) /\ d # p => IsDir(u, d)
  BY <1>1 DEF IsDir, Exists
<1>3. IsDir(u, <<>>) /\ u[<<>>].mode = t[<<>>].mode
  BY <1>1, <1>2 DEF IsTree, IsDir, Exists
<1>4. ASSUME NEW q \in DOMAIN u
      PROVE  IsNode(u[q]) /\ \A k \in 0..(Len(q) - 1) : IsDir(u, SubSeq(q, 1, k))
  <2>1. q \in Seq(STRING) /\ IsNode(u[q]) /\ DirsAbove(t, q) /\ Len(q) \in Nat
    BY <1>1, TreeOf, LenProperties DEF fits
  <2>2. ASSUME NEW k \in 0..(Len(q) - 1) PROVE IsDir(u, SubSeq(q, 1, k))
    <3> DEFINE d == SubSeq(q, 1, k)
    <3>1. IsDir(t, d)
      BY <2>1 DEF DirsAbove
    <3>2. CASE d # p
      BY <1>2, <3>1, <3>2
    <3>3. CASE d = p
      <4>1. k \in 0..Len(q) /\ Len(q) # k
        BY <2>1
      <4>2. Within(q, p) /\ Len(p) = k
        BY <2>1, <3>3, <4>1, PathPrefix, WithinRules
      <4>3. q # p /\ q \in DOMAIN t
        BY <1>1, <4>1, <4>2
      <4>4. n.type = "dir"
        BY <4>2, <4>3 DEF fits
      <4> QED
        BY <1>1, <3>3, <4>4 DEF IsDir, Exists
    <3> QED
      BY <3>2, <3>3
  <2> QED
    BY <2>1, <2>2
<1>5. IsTree(u)
  <2>1. DOMAIN u \subseteq Seq(STRING)
    BY <1>1 DEF IsTree
  <2> QED
    BY <1>1, <1>3, <1>4, <2>1 DEF IsTree
<1> QED
  BY <1>1, <1>5 DEF u

(* os.MkdirAll adds directories.                                              *)
LEMMA MkdirAllTree ==
  ASSUME NEW t, IsTree(t), NEW p \in Seq(STRING), NEW m, CanMkdirAll(t, p, m)
  PROVE  /\ IsTree(MkdirAll(t, p, m)) /\ DirsAbove(MkdirAll(t, p, m), p)
         /\ IsDir(MkdirAll(t, p, m), p)
<1> DEFINE u == MkdirAll(t, p, m)
           nd == [type |-> "dir", mode |-> m \ Umask, body |-> None]
<1>1. /\ u = [q \in DOMAIN u |-> u[q]] /\ DOMAIN u = DOMAIN t \cup MissingDirs(t, p)
      /\ \A q \in DOMAIN t : u[q] = t[q]
      /\ \A q \in MissingDirs(t, p) : q \notin DOMAIN t /\ u[q] = nd
  BY DEF MkdirAll, MissingDirs
<1>2. nd.type = "dir" /\ IsNode(nd)
  BY DEF IsNode
<1> HIDE DEF u, nd
<1>3. \A d : IsDir(t, d) => IsDir(u, d)
  BY <1>1 DEF IsDir, Exists
<1>4. ASSUME NEW k \in 0..Len(p) PROVE IsDir(u, SubSeq(p, 1, k))
  <2>1. CASE SubSeq(p, 1, k) \in DOMAIN t
    <3>1. IsDir(t, SubSeq(p, 1, k))
      BY <2>1 DEF CanMkdirAll, Exists
    <3> QED
      BY <1>3, <3>1
  <2>2. CASE SubSeq(p, 1, k) \notin DOMAIN t
    <3>1. SubSeq(p, 1, k) \in MissingDirs(t, p)
      BY <2>2 DEF MissingDirs
    <3> QED
      BY <1>1, <1>2, <3>1 DEF IsDir, Exists
  <2> QED
    BY <2>1, <2>2
<1>5. ASSUME NEW q \in DOMAIN u
      PROVE  q \in Seq(STRING) /\ IsNode(u[q]) /\ \A k \in 0..(Len(q) - 1) : IsDir(u, SubSeq(q, 1, k))
  <2>1. CASE q \in DOMAIN t
    BY <1>1, <1>3, <2>1, TreeOf DEF DirsAbove
  <2>2. CASE q \in MissingDirs(t, p)
    <3>1. PICK j \in 0..Len(p) : q = SubSeq(p, 1, j)
      BY <2>2 DEF MissingDirs
    <3>2. Len(p) \in Nat /\ q \in Seq(STRING) /\ Len(q) = j
      BY <3>1, PathPrefix, LenProperties
    <3>3. \A k \in 0..(Len(q) - 1) : k \in 0..Len(p) /\ SubSeq(q, 1, k) = SubSeq(p, 1, k)
      BY <3>1, <3>2, PathPrefix
    <3> QED
      BY <1>1, <1>2, <1>4, <2>2, <3>2, <3>3
  <2> QED
    BY <1>1, <2>1, <2>2
<1>6. IsDir(u, <<>>) /\ u[<<>>].mode = t[<<>>].mode
  BY <1>1, <1>3 DEF IsTree, IsDir, Exists
<1>7. IsTree(u)
  BY <1>1, <1>5, <1>6 DEF IsTree
<1>8. Len(p) \in Nat /\ SubSeq(p, 1, Len(p)) = p
  BY LenProperties, SubSeqFull
<1>9. IsDir(u, p)
  <2>1. Len(p) \in 0..Len(p)
    BY <1>8
  <2> QED
    BY <1>4, <1>8, <2>1
<1>10. DirsAbove(u, p)
  BY <1>4, <1>8 DEF DirsAbove
<1> QED
  BY <1>7, <1>9, <1>10 DEF u

-----------------------------------------------------------------------------
(* zip.Extract.  The target stays a tree.                                     *)
EntriesInv ==
  /\ tool = "Zip" /\ IsTree(dst) /\ pos \in 0..Len(archive)
  /\ archive \in Seq({archive[k] : k \in 1..Len(archive)})
  /\ \A k \in 1..Len(archive) : IsEntry(archive[k])
  /\ prefix \in Seq(STRING)
  /\ result \in {None, "ok", "err"} /\ (result = "ok" => pos = Len(archive))

(* Until an error, an entry that has been extracted is there, unless one of   *)
(* those after it has replaced it.                                            *)
replaces(j, k) ==
  /\ j > k /\ Within(Target(k), Target(j))
  /\ Target(j) = Target(k) \/ archive[j].type # "dir"

ExtractedInv ==
  result # "err" =>
    \A k \in chosen :
      k <= pos /\ (\A j \in chosen : j <= pos => ~replaces(j, k)) => asExtracted(k)

(* What no entry has to replace is as it was.                                 *)
spared(x) ==
  \A k \in chosen : x # Target(k) /\ (Within(x, Target(k)) => archive[k].type = "dir")

KeptInv == \A x \in DOMAIN before : spared(x) => Exists(dst, x) /\ dst[x] = before[x]

(* What is new is on the way to a target.                                     *)
NewInv == \A x \in DOMAIN dst \ DOMAIN before : \E k \in chosen : Within(Target(k), x)

ZipInv == EntriesInv /\ ExtractedInv /\ KeptInv /\ NewInv

(* What writing e at p spares: everything but p, and unless e is a directory  *)
(* what is below p.                                                           *)
sparedBy(x, p, e) == x # p /\ (Within(x, p) => e.type = "dir")

(* It adds nothing but p and directories above it.                            *)
keeps(t, u, p, e) ==
  /\ \A x \in DOMAIN t : sparedBy(x, p, e) => x \in DOMAIN u /\ u[x] = t[x]
  /\ \A x \in DOMAIN u \ DOMAIN t : Within(p, x)

(* A name that leads up u times leads up w times only if w is not more.       *)
LEMMA LeadsUpOnce ==
  ASSUME NEW n \in Seq(STRING), NEW u \in 0..Len(n), NEW w \in 0..Len(n),
         leadsUp(n, u), leadsUp(n, w)
  PROVE  w <= u
<1>1. Len(n) \in Nat
  BY LenProperties
<1>2. CASE w = 0
  BY <1>1, <1>2
<1>3. CASE w # 0
  <2>1. w \in 1..Len(n) /\ w <= w
    BY <1>1, <1>3
  <2>2. n[w] = ".."
    BY <2>1 DEF leadsUp
  <2> QED
    BY <2>1, <2>2 DEF leadsUp
<1> QED
  BY <1>2, <1>3

(* filepath.Join keeps some of r when the name does not lead up beyond it.    *)
LEMMA JoinedPath ==
  ASSUME NEW r \in Seq(STRING), NEW n \in Seq(STRING),
         NEW u \in 0..Len(n), leadsUp(n, u), u < Len(r)
  PROVE  Joined(r, n) \in Seq(STRING) /\ Joined(r, n) # <<>>
<1> DEFINE w == CHOOSE v \in 0..Len(n) : leadsUp(n, v)
           a == SubSeq(r, 1, Len(r) - w)
           b == SubSeq(n, w + 1, Len(n))
<1>1. Len(n) \in Nat /\ Len(r) \in Nat
  BY LenProperties
<1>2. w \in 0..Len(n) /\ leadsUp(n, w)
  OBVIOUS
<1>3. Joined(r, n) = a \o b
  BY DEF Joined
<1> HIDE DEF w
<1>4. w <= u
  BY <1>2, LeadsUpOnce
<1>5. Len(r) - w \in 0..Len(r) /\ Len(r) - w # 0
  BY <1>1, <1>2, <1>4
<1>6. a \in Seq(STRING) /\ Len(a) = Len(r) - w
  BY <1>5, PathPrefix
<1>7. b \in Seq(STRING)
  <2>1. \A i \in (w + 1)..Len(n) : n[i] \in STRING
    BY <1>1, <1>2, ElementOfSeq
  <2> QED
    BY <1>1, <1>2, <2>1, SubSeqProperties
<1> HIDE DEF a, b
<1>8. a \o b \in Seq(STRING) /\ Len(a \o b) = Len(a) + Len(b) /\ Len(b) \in Nat
  BY <1>6, <1>7, ConcatProperties, LenProperties
<1>9. Len(a \o b) # 0
  BY <1>1, <1>2, <1>4, <1>6, <1>8
<1>10. a \o b # <<>>
  BY <1>8, <1>9, EmptySeq
<1> QED
  BY <1>3, <1>8, <1>10

LEMMA TargetPath ==
  ASSUME EntriesInv, NEW k \in chosen
  PROVE  Target(k) \in Seq(STRING) /\ Target(k) # <<>> /\ k \in 1..Len(archive)
<1> DEFINE nm == archive[k].name
           c == Len(prefix)
           rest == SubSeq(nm, c + 1, Len(nm))
<1>1. k \in 1..Len(archive) /\ IsEntry(archive[k]) /\ Within(nm, prefix)
  BY DEF chosen, EntriesInv, selected
<1>2. nm \in Seq(STRING) /\ Len(nm) \in Nat /\ c \in 0..Len(nm)
  <2>1. nm \in Seq(STRING)
    BY <1>1 DEF IsEntry
  <2> QED
    BY <1>1, <2>1, LenProperties DEF EntriesInv, Within
<1>3. PICK u \in 0..Len(nm) : leadsUp(nm, u) /\ u < Len(targetRoot)
  BY <1>1 DEF IsEntry
<1>4. Target(k) = Joined(targetRoot, rest)
  BY DEF Target, targetPath
<1> HIDE DEF nm, c
<1>5. /\ rest \in Seq(STRING) /\ Len(rest) = Len(nm) - c
      /\ \A i \in 1..(Len(nm) - c) : rest[i] = nm[c + i]
  <2>1. \A i \in (c + 1)..Len(nm) : nm[i] \in STRING
    BY <1>2, ElementOfSeq
  <2> QED
    BY <1>2, <2>1, SubSeqProperties
<1> HIDE DEF rest
<1>6. targetRoot \in Seq(STRING) /\ Len(targetRoot) \in Nat \ {0}
  BY TargetAssumption, EmptySeq
<1> DEFINE v == IF u <= c THEN 0 ELSE u - c
<1>7. v \in 0..Len(rest) /\ v < Len(targetRoot)
  BY <1>2, <1>3, <1>5, <1>6
<1>8. leadsUp(rest, v)
  <2> SUFFICES ASSUME NEW i \in 1..Len(rest) PROVE rest[i] = ".." <=> i <= v
    BY DEF leadsUp
  <2>1. c + i \in 1..Len(nm) /\ rest[i] = nm[c + i]
    BY <1>2, <1>5
  <2>2. rest[i] = ".." <=> c + i <= u
    BY <1>3, <2>1 DEF leadsUp
  <2>3. c + i <= u <=> i <= v
    BY <1>2, <1>3, <1>5
  <2> QED
    BY <2>2, <2>3
<1> HIDE DEF v
<1>9. Joined(targetRoot, rest) \in Seq(STRING) /\ Joined(targetRoot, rest) # <<>>
  BY <1>5, <1>6, <1>7, <1>8, JoinedPath
<1> QED
  BY <1>1, <1>4, <1>9

(* A node in place of what was at p.                                          *)
LEMMA ReplacedTree ==
  ASSUME NEW t, IsTree(t), NEW p \in Seq(STRING), p # <<>>, DirsAbove(t, p),
         NEW n, IsNode(n)
  PROVE  /\ IsTree(Replaced(t, p, n)) /\ p \in DOMAIN Replaced(t, p, n)
         /\ Replaced(t, p, n)[p] = n
         /\ \A x \in DOMAIN t : ~Within(x, p) =>
              x \in DOMAIN Replaced(t, p, n) /\ Replaced(t, p, n)[x] = t[x]
         /\ DOMAIN Replaced(t, p, n) \subseteq DOMAIN t \cup {p}
<1> DEFINE u == Removed(t, p)
<1>1. /\ IsTree(u) /\ DOMAIN u = {q \in DOMAIN t : ~Within(q, p)}
      /\ \A q \in DOMAIN t : ~Within(q, p) => u[q] = t[q]
      /\ \A d \in Seq(STRING) : IsDir(t, d) /\ ~Within(d, p) => IsDir(u, d)
  BY RemovedTree
<1> HIDE DEF u
<1>2. DirsAbove(u, p)
  <2> SUFFICES ASSUME NEW k \in 0..(Len(p) - 1) PROVE IsDir(u, SubSeq(p, 1, k))
    BY DEF DirsAbove
  <2>1. Len(p) \in Nat /\ k \in 0..Len(p) /\ k < Len(p)
    BY LenProperties
  <2>2. SubSeq(p, 1, k) \in Seq(STRING) /\ Len(SubSeq(p, 1, k)) = k
    BY <2>1, PathPrefix
  <2>3. ~Within(SubSeq(p, 1, k), p)
    BY <2>1, <2>2 DEF Within
  <2> QED
    BY <1>1, <2>2, <2>3 DEF DirsAbove
<1>3. \A q \in DOMAIN u : Within(q, p) => q = p
  BY <1>1
<1>4. /\ IsTree(Put(u, p, n)) /\ DOMAIN Put(u, p, n) = DOMAIN u \cup {p}
      /\ Put(u, p, n)[p] = n /\ \A q \in DOMAIN u : q # p => Put(u, p, n)[q] = u[q]
  <2>1. IsTree(u) /\ DirsAbove(u, p)
    BY <1>1, <1>2
  <2>2. fits(u, p, n)
    BY <1>3 DEF fits
  <2>3. IsTree(Put(u, p, n))
    BY <2>1, <2>2, PutTree
  <2> QED
    BY <2>3 DEF Put
<1>5. \A x \in DOMAIN t : ~Within(x, p) => x # p
  BY WithinRules
<1> QED
  BY <1>1, <1>4, <1>5 DEF Replaced, u

(* What writeDir, writeFile and writeSymlink do to a tree in which the        *)
(* directories above p are there.                                             *)
LEMMA WrittenTree ==
  ASSUME NEW t, IsTree(t), NEW p \in Seq(STRING), p # <<>>, DirsAbove(t, p),
         NEW e, acceptable(e)
  PROVE  /\ IsTree(written(t, p, e)) /\ keeps(t, written(t, p, e), p, e)
         /\ p \in DOMAIN written(t, p, e) /\ written(t, p, e)[p].type = e.type
         /\ e.type # "dir" => written(t, p, e)[p].body = e.body
         /\ e.type # "link" => written(t, p, e)[p].mode \in {e.mode, e.mode \ Umask}
<1> DEFINE u == written(t, p, e)
<1>1. CASE e.type = "dir" /\ IsDir(t, p)
  <2> DEFINE n == [t[p] EXCEPT !.mode = e.mode]
  <2>1. p \in DOMAIN t /\ IsNode(t[p]) /\ t[p].type = "dir"
    BY <1>1, TreeOf DEF IsDir, Exists
  <2>2. IsNode(n) /\ n.type = "dir" /\ n.mode = e.mode
    BY <2>1 DEF IsNode
  <2>3. u = [t EXCEPT ![p] = n]
    BY <1>1 DEF written, writeDir
  <2> HIDE DEF n
  <2>4. u = Put(t, p, n)
    BY <2>1, <2>3 DEF Put, IsTree
  <2>5. /\ IsTree(u) /\ DOMAIN u = DOMAIN t \cup {p} /\ u[p] = n
        /\ \A q \in DOMAIN t : q # p => u[q] = t[q]
    <3>1. fits(t, p, n)
      BY <2>2 DEF fits
    <3>2. IsTree(Put(t, p, n))
      BY <3>1, PutTree
    <3> QED
      BY <2>4, <3>2 DEF Put
  <2>6. DOMAIN u \ DOMAIN t = {}
    BY <2>1, <2>5
  <2> QED
    BY <1>1, <2>2, <2>5, <2>6 DEF keeps, sparedBy
<1>2. CASE ~(e.type = "dir" /\ IsDir(t, p))
  <2>1. PICK n : /\ u = Replaced(t, p, n) /\ IsNode(n) /\ n.type = e.type
                 /\ e.type # "dir" => n.body = e.body
                 /\ e.type # "link" => n.mode = e.mode \ Umask
    <3>1. CASE e.type = "dir"
      <4> WITNESS [type |-> "dir", mode |-> e.mode \ Umask, body |-> None]
      <4> QED
        BY <1>2, <3>1 DEF written, writeDir, IsNode
    <3>2. CASE e.type = "file"
      <4> WITNESS [type |-> "file", mode |-> e.mode \ Umask, body |-> e.body]
      <4> QED
        BY <3>2 DEF written, writeFile, IsNode
    <3>3. CASE e.type = "link"
      <4> WITNESS [type |-> "link", mode |-> {"r", "w", "x"}, body |-> e.body]
      <4> QED
        BY <3>3 DEF written, writeSymlink, IsNode
    <3> QED
      BY <3>1, <3>2, <3>3 DEF acceptable
  <2>2. /\ IsTree(u) /\ p \in DOMAIN u /\ u[p] = n
        /\ \A x \in DOMAIN t : ~Within(x, p) => x \in DOMAIN u /\ u[x] = t[x]
        /\ DOMAIN u \subseteq DOMAIN t \cup {p}
    BY <2>1, ReplacedTree
  <2>3. \A x \in DOMAIN t : sparedBy(x, p, e) => ~Within(x, p)
    BY <1>2, TreeOf DEF sparedBy
  <2>4. Within(p, p)
    BY WithinRules
  <2> HIDE DEF u
  <2> QED
    BY <2>1, <2>2, <2>3, <2>4 DEF keeps, u
<1> QED
  BY <1>1, <1>2

(* MkdirAll of the parent of p.                                               *)
LEMMA ParentsTree ==
  ASSUME IsTree(dst), NEW p \in Seq(STRING), p # <<>>, parentsOK(p)
  PROVE  /\ IsTree(withParents(p)) /\ DirsAbove(withParents(p), p)
         /\ \A x \in DOMAIN dst : x \in DOMAIN withParents(p) /\ withParents(p)[x] = dst[x]
         /\ \A x \in DOMAIN withParents(p) \ DOMAIN dst : Within(p, x)
<1> DEFINE d == Parent(p)
           m == {"r", "w", "x", "g"}
           u == MkdirAll(dst, d, m)
<1>1. /\ Len(p) \in Nat \ {0} /\ d \in Seq(STRING) /\ Len(d) = Len(p) - 1
      /\ \A k \in 0..(Len(p) - 1) : SubSeq(d, 1, k) = SubSeq(p, 1, k)
  BY PathParent
<1>2. CanMkdirAll(dst, d, m)
  BY DEF parentsOK
<1> HIDE DEF d, m
<1>3. IsTree(u) /\ DirsAbove(u, d) /\ IsDir(u, d)
  <2>1. d \in Seq(STRING)
    BY <1>1
  <2> QED
    BY <1>2, <2>1, MkdirAllTree
<1>6. \A q \in DOMAIN dst : q \in DOMAIN u /\ u[q] = dst[q]
  BY DEF MkdirAll
<1>7. \A q \in DOMAIN u \ DOMAIN dst : Within(p, q)
  <2> SUFFICES ASSUME NEW q \in DOMAIN u \ DOMAIN dst PROVE Within(p, q)
    OBVIOUS
  <2>1. PICK k \in 0..Len(d) : q = SubSeq(d, 1, k)
    BY DEF MkdirAll, MissingDirs
  <2>2. k \in 0..Len(p) /\ q = SubSeq(p, 1, k)
    BY <1>1, <2>1
  <2> QED
    BY <2>2, WithinRules
<1>4. u = withParents(p)
  BY DEF withParents, d, m
<1> HIDE DEF u
<1>5. DirsAbove(u, p)
  <2> SUFFICES ASSUME NEW k \in 0..(Len(p) - 1) PROVE IsDir(u, SubSeq(p, 1, k))
    BY DEF DirsAbove
  <2>1. SubSeq(p, 1, k) = SubSeq(d, 1, k) /\ (k = Len(d) \/ k \in 0..(Len(d) - 1))
    BY <1>1
  <2>2. SubSeq(d, 1, Len(d)) = d
    BY <1>1, SubSeqFull
  <2> QED
    BY <1>3, <2>1, <2>2 DEF DirsAbove
<1> QED
  BY <1>3, <1>4, <1>5, <1>6, <1>7

(* The archive, and with it every target, is fixed.                           *)
LEMMA ZipFrame ==
  ASSUME UNCHANGED <<zipFrame>>
  PROVE  /\ chosen' = chosen /\ \A k : Target(k)' = Target(k)
         /\ \A x : spared(x)' <=> spared(x)
         /\ \A j, k : replaces(j, k)' <=> replaces(j, k)
<1>1. archive' = archive /\ prefix' = prefix
  BY DEF zipFrame
<1>2. chosen' = chosen
  BY <1>1 DEF chosen, selected, Within
<1>3. \A k : Target(k)' = Target(k)
  BY <1>1 DEF Target, targetPath
<1> QED
  BY <1>1, <1>2, <1>3 DEF spared, replaces, Within

(* A step that keeps what the entry at hand spares.                           *)
LEMMA KeptStep ==
  ASSUME EntriesInv, KeptInv, UNCHANGED <<zipFrame>>, NEW k \in chosen,
         keeps(dst, dst', Target(k), archive[k])
  PROVE  KeptInv'
<1> SUFFICES ASSUME NEW x \in DOMAIN before, spared(x)
             PROVE  Exists(dst', x) /\ dst'[x] = before[x]
  BY ZipFrame DEF KeptInv, zipFrame, Exists
<1>1. x \in DOMAIN dst /\ dst[x] = before[x]
  BY DEF KeptInv, Exists
<1>2. sparedBy(x, Target(k), archive[k])
  BY DEF spared, sparedBy
<1> QED
  BY <1>1, <1>2 DEF keeps, Exists

LEMMA NewStep ==
  ASSUME EntriesInv, NewInv, UNCHANGED <<zipFrame>>, NEW k \in chosen,
         keeps(dst, dst', Target(k), archive[k])
  PROVE  NewInv'
<1> SUFFICES ASSUME NEW x \in DOMAIN dst' \ DOMAIN before
             PROVE  \E j \in chosen : Within(Target(j), x)
  BY ZipFrame DEF NewInv, zipFrame, Within
<1>1. x \in DOMAIN dst \/ Within(Target(k), x)
  BY DEF keeps
<1> QED
  BY <1>1 DEF NewInv

(* The entry at hand, written.                                                *)
LEMMA ZipWrites ==
  ASSUME EntriesInv, NEW k \in chosen, NEW e, acceptable(e), e.type = archive[k].type,
         parentsOK(Target(k)), NEW u, u = written(withParents(Target(k)), Target(k), e)
  PROVE  /\ IsTree(u) /\ keeps(dst, u, Target(k), archive[k])
         /\ Target(k) \in DOMAIN u /\ u[Target(k)].type = e.type
         /\ e.type # "dir" => u[Target(k)].body = e.body
         /\ e.type # "link" => u[Target(k)].mode \in {e.mode, e.mode \ Umask}
<1> DEFINE p == Target(k)
           t == withParents(p)
<1>1. p \in Seq(STRING) /\ p # <<>> /\ IsTree(dst) /\ parentsOK(p)
  BY TargetPath DEF EntriesInv
<1> HIDE DEF p
<1>2. /\ IsTree(t) /\ DirsAbove(t, p)
      /\ \A x \in DOMAIN dst : x \in DOMAIN t /\ t[x] = dst[x]
      /\ \A x \in DOMAIN t \ DOMAIN dst : Within(p, x)
  BY <1>1, ParentsTree
<1> HIDE DEF t
<1>3. u = written(t, p, e)
  BY DEF t, p
<1>4. /\ IsTree(u) /\ keeps(t, u, p, e)
      /\ p \in DOMAIN u /\ u[p].type = e.type
      /\ e.type # "dir" => u[p].body = e.body
      /\ e.type # "link" => u[p].mode \in {e.mode, e.mode \ Umask}
  BY <1>1, <1>2, <1>3, WrittenTree
<1>5. keeps(dst, u, p, archive[k])
  BY <1>2, <1>4 DEF keeps, sparedBy
<1> QED
  BY <1>4, <1>5 DEF p

LEMMA ZipEntryStep ==
  ASSUME ZipInv, ZipEntry
  PROVE  ZipInv'
<1> DEFINE c == pos + 1
<1>1. /\ UNCHANGED <<zipFrame>> /\ UNCHANGED <<result>> /\ result = None /\ pos < Len(archive)
      /\ pos' = c
  BY DEF ZipEntry, running
<1>2. Len(archive) \in Nat /\ pos \in Nat /\ c \in 1..Len(archive)
  BY <1>1, LenProperties DEF ZipInv, EntriesInv
<1>3. \/ c \notin chosen /\ dst' = dst
      \/ /\ c \in chosen /\ writable(Target(c), archive[c])
         /\ dst' = written(withParents(Target(c)), Target(c), archive[c])
  BY <1>2 DEF ZipEntry, chosen, Target
<1>4. c \in chosen =>
        /\ IsTree(dst') /\ keeps(dst, dst', Target(c), archive[c])
        /\ Target(c) \in DOMAIN dst' /\ dst'[Target(c)].type = archive[c].type
        /\ archive[c].type # "dir" => dst'[Target(c)].body = archive[c].body
        /\ archive[c].type # "link" =>
             dst'[Target(c)].mode \in {archive[c].mode, archive[c].mode \ Umask}
  <2> SUFFICES ASSUME c \in chosen PROVE <1>4!2
    OBVIOUS
  <2>1. parentsOK(Target(c)) /\ acceptable(archive[c])
    BY <1>3 DEF writable
  <2> QED
    BY <1>3, <2>1, ZipWrites DEF ZipInv
<1>5. EntriesInv'
  <2>1. IsTree(dst')
    BY <1>3, <1>4 DEF ZipInv, EntriesInv
  <2>2. pos' \in 0..Len(archive) /\ result' \in {None, "ok", "err"} /\ result' # "ok"
    BY <1>1, <1>2 DEF None
  <2> QED
    BY <1>1, <2>1, <2>2 DEF ZipInv, EntriesInv, zipFrame
<1>6. KeptInv'
  <2>1. CASE c \notin chosen
    BY <1>1, <1>3, <2>1, ZipFrame DEF ZipInv, KeptInv, zipFrame, Exists
  <2>2. CASE c \in chosen
    BY <1>1, <1>4, <2>2, KeptStep DEF ZipInv
  <2> QED
    BY <2>1, <2>2
<1>7. NewInv'
  <2>1. CASE c \notin chosen
    BY <1>1, <1>3, <2>1, ZipFrame DEF ZipInv, NewInv, zipFrame, Within
  <2>2. CASE c \in chosen
    BY <1>1, <1>4, <2>2, NewStep DEF ZipInv
  <2> QED
    BY <2>1, <2>2
<1>8. ExtractedInv'
  <2> SUFFICES ASSUME NEW k \in chosen, k <= c, \A j \in chosen : j <= c => ~replaces(j, k)
               PROVE  asExtracted(k)'
    BY <1>1, ZipFrame DEF ExtractedInv
  <2>0. archive' = archive /\ Target(k)' = Target(k) /\ k \in 1..Len(archive)
    BY <1>1, ZipFrame DEF zipFrame, chosen
  <2>1. CASE k = c
    BY <1>4, <2>0, <2>1 DEF asExtracted, Exists
  <2>2. CASE k # c
    <3>1. k <= pos
      BY <1>2, <2>0, <2>2
    <3>2. \A j \in chosen : j \in Nat /\ (j <= pos => j <= c)
      BY <1>2 DEF chosen
    <3>3. asExtracted(k)
      BY <1>1, <3>1, <3>2 DEF ZipInv, ExtractedInv, None
    <3>4. c \in chosen => sparedBy(Target(k), Target(c), archive[c])
      <4> SUFFICES ASSUME c \in chosen PROVE sparedBy(Target(k), Target(c), archive[c])
        OBVIOUS
      <4>1. ~replaces(c, k) /\ c > k
        BY <1>2, <2>0, <3>1
      <4>2. Within(Target(k), Target(k))
        BY TargetPath, WithinRules DEF ZipInv
      <4> QED
        BY <4>1, <4>2 DEF replaces, sparedBy
    <3>5. Target(k) \in DOMAIN dst' /\ dst'[Target(k)] = dst[Target(k)]
      BY <1>3, <1>4, <3>3, <3>4 DEF keeps, asExtracted, Exists
    <3> QED
      BY <2>0, <3>3, <3>5 DEF asExtracted, Exists
  <2> QED
    BY <2>1, <2>2
<1> QED
  BY <1>5, <1>6, <1>7, <1>8 DEF ZipInv

(* What a failed RemoveAll of p has removed below it, when a directory there  *)
(* is spared: nothing, because one that can be reached would have been kept.  *)
LEMMA LeftBehind ==
  ASSUME EntriesInv, NEW k \in chosen, ~writable(Target(k), archive[k]),
         NEW u \in leftBehind(Target(k), archive[k])
  PROVE  IsTree(u) /\ keeps(dst, u, Target(k), archive[k])
<1> DEFINE p == Target(k)
           e == archive[k]
           t == IF parentsOK(p) THEN withParents(p) ELSE dst
<1>1. p \in Seq(STRING) /\ p # <<>> /\ IsTree(dst)
  BY TargetPath DEF EntriesInv
<1>2. \/ u = t
      \/ /\ parentsOK(p) /\ acceptable(e)
         /\ \E q \in DOMAIN t : /\ q # p /\ Within(q, p) /\ CanRemove(t, q)
                                /\ u = Removed(t, q)
  BY DEF leftBehind
<1>3. ~writable(p, e)
  OBVIOUS
<1> HIDE DEF p
<1>4. /\ IsTree(t) /\ \A x \in DOMAIN dst : x \in DOMAIN t /\ t[x] = dst[x]
      /\ \A x \in DOMAIN t \ DOMAIN dst : Within(p, x)
  BY <1>1, ParentsTree
<1>5. CASE u = t
  BY <1>4, <1>5 DEF keeps, p
<1>6. ASSUME parentsOK(p), acceptable(e), NEW q \in DOMAIN t, q # p, Within(q, p),
             CanRemove(t, q), u = Removed(t, q)
      PROVE  IsTree(u) /\ keeps(dst, u, p, e)
  <2>1. t = withParents(p)
    BY <1>6
  <2>2. ~(e.type = "dir" /\ IsDir(t, p) /\ Reachable(t, p))
    BY <1>3, <1>6, <2>1 DEF writable
  <2> HIDE DEF t
  <2>3. q \in Seq(STRING) /\ IsDir(t, p)
    BY <1>1, <1>4, <1>6, TreeOf
  <2>4. Reachable(t, p) /\ q # <<>>
    <3>1. Reachable(t, q) /\ q # <<>>
      BY <1>6 DEF CanRemove, CanCreate
    <3>2. Len(p) \in 0..Len(q) /\ SubSeq(q, 1, Len(p)) = p /\ Len(q) \in Nat
      BY <1>1, <1>6, <2>3, WithinRules, LenProperties
    <3>3. \A j \in 0..(Len(p) - 1) : j \in 0..(Len(q) - 1) /\ SubSeq(p, 1, j) = SubSeq(q, 1, j)
      <4>1. \A j \in 0..Len(p) : SubSeq(SubSeq(q, 1, Len(p)), 1, j) = SubSeq(q, 1, j)
        BY <2>3, <3>2, PathPrefix
      <4>2. \A j \in 0..Len(p) : SubSeq(p, 1, j) = SubSeq(q, 1, j)
        BY <3>2, <4>1
      <4> QED
        BY <3>2, <4>2
    <3> QED
      BY <3>1, <3>3 DEF Reachable
  <2>5. /\ IsTree(u) /\ DOMAIN u = {x \in DOMAIN t : ~Within(x, q)}
        /\ \A x \in DOMAIN t : ~Within(x, q) => u[x] = t[x]
    BY <1>4, <1>6, <2>3, <2>4, RemovedTree
  <2>6. ASSUME NEW x \in DOMAIN t, sparedBy(x, p, e) PROVE ~Within(x, q)
    <3>1. x \in Seq(STRING)
      BY <1>4, TreeOf
    <3>2. ~Within(x, p)
      BY <2>2, <2>3, <2>4, <2>6 DEF sparedBy
    <3> QED
      BY <1>1, <1>6, <2>3, <3>1, <3>2, WithinTrans
  <2> QED
    BY <1>4, <2>5, <2>6 DEF keeps
<1> QED
  BY <1>2, <1>5, <1>6 DEF p

LEMMA Interrupted ==
  ASSUME EntriesInv, NEW k \in chosen, NEW u \in interrupted(Target(k), archive[k])
  PROVE  IsTree(u) /\ keeps(dst, u, Target(k), archive[k])
<1> DEFINE p == Target(k)
           e == archive[k]
           t == withParents(p)
           part == [e EXCEPT !.body = "partial"]
<1>1. p \in Seq(STRING) /\ p # <<>> /\ IsTree(dst) /\ k \in 1..Len(archive)
  BY TargetPath DEF EntriesInv
<1>2. \/ u = dst
      \/ /\ writable(p, e)
         /\ \/ u = t
            \/ ~(e.type = "dir" /\ IsDir(t, p)) /\ u = Removed(t, p)
            \/ e.type = "file" /\ u = written(t, p, part)
  BY DEF interrupted
<1>3. CASE u = dst
  BY <1>1, <1>3 DEF keeps
<1>4. CASE writable(p, e)
  <2>1. parentsOK(p) /\ acceptable(e)
    BY <1>4 DEF writable
  <2>2. /\ IsTree(t) /\ \A x \in DOMAIN dst : x \in DOMAIN t /\ t[x] = dst[x]
        /\ \A x \in DOMAIN t \ DOMAIN dst : Within(p, x)
    BY <1>1, <2>1, ParentsTree
  <2>3. CASE u = t
    BY <2>2, <2>3 DEF keeps
  <2>4. CASE ~(e.type = "dir" /\ IsDir(t, p)) /\ u = Removed(t, p)
    <3> HIDE DEF t, p
    <3>1. /\ IsTree(u) /\ DOMAIN u = {x \in DOMAIN t : ~Within(x, p)}
          /\ \A x \in DOMAIN t : ~Within(x, p) => u[x] = t[x]
      BY <1>1, <2>2, <2>4, RemovedTree
    <3>2. \A x \in DOMAIN t : sparedBy(x, p, e) => ~Within(x, p)
      BY <1>1, <2>2, <2>4, TreeOf DEF sparedBy
    <3>3. keeps(dst, u, p, e)
      BY <2>2, <3>1, <3>2 DEF keeps
    <3> QED
      BY <3>1, <3>3 DEF p
  <2>5. CASE e.type = "file" /\ u = written(t, p, part)
    <3>1. part.type = e.type
      BY <1>1 DEF EntriesInv, IsEntry
    <3>2. acceptable(part)
      BY <2>5, <3>1 DEF acceptable
    <3> HIDE DEF part
    <3> QED
      BY <2>1, <2>5, <3>1, <3>2, ZipWrites
  <2> QED
    BY <1>2, <1>3, <2>3, <2>4, <2>5
<1> QED
  BY <1>2, <1>3, <1>4

LEMMA ZipFailsStep ==
  ASSUME ZipInv, ZipFails
  PROVE  ZipInv'
<1> DEFINE c == pos + 1
<1>1. UNCHANGED <<zipFrame>> /\ UNCHANGED <<pos>> /\ result' = "err"
  BY DEF ZipFails, Stop
<1>2. Len(archive) \in Nat /\ pos \in Nat /\ (pos < Len(archive) => c \in 1..Len(archive))
  BY LenProperties DEF ZipInv, EntriesInv
<1>3. \/ dst' = dst
      \/ /\ c \in chosen
         /\ \/ ~writable(Target(c), archive[c]) /\ dst' \in leftBehind(Target(c), archive[c])
            \/ dst' \in interrupted(Target(c), archive[c])
  BY <1>2 DEF ZipFails, chosen, Target
<1>4. dst' # dst => /\ c \in chosen /\ IsTree(dst')
                    /\ keeps(dst, dst', Target(c), archive[c])
  BY <1>3, LeftBehind, Interrupted DEF ZipInv
<1>5. EntriesInv'
  BY <1>1, <1>4 DEF ZipInv, EntriesInv, zipFrame
<1>6. KeptInv'
  <2>1. CASE dst' = dst
    BY <1>1, <2>1, ZipFrame DEF ZipInv, KeptInv, zipFrame, Exists
  <2>2. CASE dst' # dst
    BY <1>1, <1>4, <2>2, KeptStep DEF ZipInv
  <2> QED
    BY <2>1, <2>2
<1>7. NewInv'
  <2>1. CASE dst' = dst
    BY <1>1, <2>1, ZipFrame DEF ZipInv, NewInv, zipFrame, Within
  <2>2. CASE dst' # dst
    BY <1>1, <1>4, <2>2, NewStep DEF ZipInv
  <2> QED
    BY <2>1, <2>2
<1> QED
  BY <1>1, <1>5, <1>6, <1>7 DEF ZipInv, ExtractedInv

LEMMA ZipStep == ZipInv /\ [ZipNext]_treeVars => ZipInv'
<1> SUFFICES ASSUME ZipInv, [ZipNext]_treeVars PROVE ZipInv'
  OBVIOUS
<1>1. CASE ZipDone \/ UNCHANGED treeVars
  <2>1. UNCHANGED <<zipFrame>> /\ UNCHANGED <<dst, pos>>
    BY <1>1 DEF ZipDone, zipFrame, treeVars
  <2>2. UNCHANGED result \/ (result = None /\ result' = "ok" /\ pos = Len(archive))
    BY <1>1 DEF ZipDone, running, Stop, treeVars
  <2>3. EntriesInv'
    BY <2>1, <2>2 DEF ZipInv, EntriesInv, zipFrame
  <2>4. KeptInv'
    BY <2>1, ZipFrame DEF ZipInv, KeptInv, zipFrame, Exists
  <2>5. ExtractedInv'
    <3>1. archive' = archive /\ (result' # "err" => result # "err")
      BY <2>1, <2>2 DEF zipFrame, None
    <3>2. \A k \in chosen : asExtracted(k)' <=> asExtracted(k)
      BY <2>1, <3>1, ZipFrame DEF asExtracted, Exists
    <3> QED
      BY <2>1, <3>1, <3>2, ZipFrame DEF ZipInv, ExtractedInv
  <2>6. NewInv'
    BY <2>1, ZipFrame DEF ZipInv, NewInv, zipFrame, Within
  <2> QED
    BY <2>3, <2>4, <2>5, <2>6 DEF ZipInv
<1> QED
  BY <1>1, ZipEntryStep, ZipFailsStep DEF ZipNext

(* Extract puts every selected entry that no later one overwrites where it    *)
(* belongs, spares the rest of the tree even when it fails half way, and adds *)
(* only targets and the directories above them, whatever the permissions, for *)
(* every tree in which no link leads to a directory and every archive whose   *)
(* links do not either and whose names have fewer leading ".."s than          *)
(* targetRoot has parts; those names are extracted outside of targetRoot.     *)
THEOREM ZipExtractedHolds == ZipSpec => []ZipExtracted
<1>1. ZipInit => ZipInv
  <2> SUFFICES ASSUME ZipInit PROVE ZipInv
    OBVIOUS
  <2>1. EntriesInv
    BY LenProperties DEF ZipInit, EntriesInv, None
  <2>2. KeptInv
    BY DEF ZipInit, KeptInv, Exists
  <2>3. \A k \in chosen : ~(k <= pos)
    BY DEF ZipInit, chosen
  <2>4. NewInv
    BY DEF ZipInit, NewInv
  <2> QED
    BY <2>1, <2>2, <2>3, <2>4 DEF ZipInv, ExtractedInv
<1>2. ZipInv => ZipExtracted
  <2> SUFFICES ASSUME ZipInv PROVE ZipExtracted
    OBVIOUS
  <2>1. ASSUME result = "ok", NEW k \in chosen, ~overwritten(k) PROVE asExtracted(k)
    <3>1. pos = Len(archive) /\ \A j \in chosen : j <= pos
      BY <2>1 DEF ZipInv, EntriesInv, chosen
    <3> QED
      BY <2>1, <3>1 DEF ZipInv, ExtractedInv, overwritten, replaces
  <2> QED
    BY <2>1 DEF ZipExtracted, ZipInv, KeptInv, NewInv, spared
<1> QED
  BY <1>1, <1>2, ZipStep, PTL DEF ZipSpec

-----------------------------------------------------------------------------
(* tar.  What TarFiles writes for the entries of src, and the number of them. *)
headers == {header(p) : p \in DOMAIN src \ {<<>>}}

count == IF result = None THEN Len(archive) ELSE Len(archive) - 1

SourceInv ==
  /\ tool = "Tar" /\ IsTree(src) /\ prefix \in Seq(STRING)
  /\ \A p \in DOMAIN src \ {<<>>} : Within(p, prefix)
  /\ stack \in Seq(Frames) /\ stack # <<>>
  /\ \A j \in 1..Len(stack) : <<>> \notin stack[j].left
  /\ result \in {None, "err", "tarred", "ok", "untarFailed"}
  /\ result \notin {None, "err"} => \A j \in 1..Len(stack) : stack[j].left = {}

(* The hash is that of the archive: entries of src, and in the end a trailer. *)
ArchiveInv ==
  /\ archive \in Seq(headers \cup {Trailer}) /\ hash = archive
  /\ result # None => Len(archive) > 0 /\ archive[Len(archive)] = Trailer
  /\ \A k \in 1..count : archive[k] \in headers

(* What a directory holds comes after it, or is still left.                   *)
follows(p, q, k) ==
  \/ \E j \in (k + 1)..count : archive[j] = header(p)
  \/ \E i \in 1..Len(stack) : stack[i].dir = q /\ p \in stack[i].left

WalkInv ==
  \A k \in 1..count, q \in DOMAIN src \ {<<>>} :
    archive[k] = header(q) /\ src[q].type = "dir" =>
      \A p \in Children(src, q) : follows(p, q, k)

(* An entry that has been extracted is there.                                 *)
brought(k) ==
  LET e == archive[k]
      n == dst[e.name] IN
  e.name # <<>> =>
    /\ Exists(dst, e.name) /\ n.type = e.type
    /\ n.type = "file" => n = [type |-> e.type, mode |-> e.mode, body |-> e.body]
    /\ n.type = "link" => n.body = e.body

UntarInv ==
  /\ IsTree(dst) /\ pos \in 0..Len(archive)
  /\ result \in {None, "err"} => pos = 0 /\ DOMAIN dst = {<<>>}
  /\ result # None => pos <= count
  /\ result = "ok" => pos = count
  /\ result # "untarFailed" => \A k \in 1..pos : brought(k)

(* When nothing hinders it, what is there has been extracted, and in every    *)
(* directory of it entries can be made.                                       *)
hindered == \E k \in 1..(Len(archive) - 1) : hinders(k)

PlainInv ==
  /\ result = "tarred" /\ ~hindered =>
       \A x \in DOMAIN dst :
         /\ dst[x].type = "dir" => root \/ {"w", "x"} \subseteq dst[x].mode
         /\ x # <<>> => \E k \in 1..pos : archive[k].name = x
  /\ result = "untarFailed" /\ ~faulty => hindered

(* What is asked for has been archived, or it or a directory above it is      *)
(* still left; nothing else is archived, or left.                             *)
isArchived(p) == \E k \in 1..count : archive[k] = header(p)

isAwaited(p) == \E j \in 1..Len(stack) : \E x \in stack[j].left : Within(p, x)

AskedInv ==
  /\ fileList \subseteq DOMAIN src \ {<<>>}
  /\ \A j \in 1..Len(stack) : stack[j].left \subseteq asked
  /\ \A k \in 1..count : \E p \in asked : archive[k] = header(p)
  /\ \A p \in asked : isArchived(p) \/ isAwaited(p)

TarInv == SourceInv /\ ArchiveInv /\ WalkInv /\ AskedInv /\ UntarInv /\ PlainInv

(* The name of an entry is what follows the prefix.                           *)
LEMMA EntryNamed ==
  ASSUME SourceInv, NEW p \in DOMAIN src \ {<<>>}
  PROVE  /\ p \in Seq(STRING) /\ Len(p) \in Nat /\ Len(prefix) \in 0..Len(p)
         /\ entryName(p) \in Seq(STRING) /\ Len(entryName(p)) = Len(p) - Len(prefix)
         /\ \A i \in 1..Len(prefix) : p[i] = prefix[i]
         /\ \A i \in 1..(Len(p) - Len(prefix)) : entryName(p)[i] = p[Len(prefix) + i]
<1>1. p \in Seq(STRING) /\ prefix \in Seq(STRING) /\ Within(p, prefix)
  BY DEF SourceInv, IsTree
<1>2. Len(p) \in Nat /\ Len(prefix) \in 0..Len(p) /\ SubSeq(p, 1, Len(prefix)) = prefix
  BY <1>1, WithinRules, LenProperties
<1>3. \A i \in 1..Len(p) : p[i] \in STRING
  BY <1>1, ElementOfSeq
<1>4. \A i \in 1..Len(prefix) : p[i] = prefix[i]
  <2>1. \A i \in 1..Len(prefix) : p[i] \in STRING
    BY <1>2, <1>3
  <2>2. \A i \in 1..(Len(prefix) - 1 + 1) : SubSeq(p, 1, Len(prefix))[i] = p[1 + i - 1]
    BY <1>2, <2>1, SubSeqProperties
  <2> QED
    BY <1>2, <2>2
<1>5. entryName(p) = SubSeq(p, Len(prefix) + 1, Len(p))
  BY <1>1 DEF entryName
<1>6. /\ SubSeq(p, Len(prefix) + 1, Len(p)) \in Seq(STRING)
      /\ Len(SubSeq(p, Len(prefix) + 1, Len(p))) = Len(p) - Len(prefix)
      /\ \A i \in 1..(Len(p) - Len(prefix)) :
           SubSeq(p, Len(prefix) + 1, Len(p))[i] = p[Len(prefix) + i]
  <2>1. \A i \in (Len(prefix) + 1)..Len(p) : p[i] \in STRING
    BY <1>2, <1>3
  <2> QED
    BY <1>2, <2>1, SubSeqProperties
<1> QED
  BY <1>1, <1>2, <1>4, <1>5, <1>6

(* No two entries have the same name.                                         *)
LEMMA NamesDiffer ==
  ASSUME SourceInv, NEW p \in DOMAIN src \ {<<>>}, NEW q \in DOMAIN src \ {<<>>},
         entryName(p) = entryName(q)
  PROVE  p = q
<1> DEFINE m == Len(prefix)
<1>1. /\ p \in Seq(STRING) /\ Len(p) \in Nat /\ m \in 0..Len(p)
      /\ Len(entryName(p)) = Len(p) - m
      /\ \A i \in 1..m : p[i] = prefix[i]
      /\ \A i \in 1..(Len(p) - m) : entryName(p)[i] = p[m + i]
  BY EntryNamed
<1>2. /\ q \in Seq(STRING) /\ Len(q) \in Nat /\ m \in 0..Len(q)
      /\ Len(entryName(q)) = Len(q) - m
      /\ \A i \in 1..m : q[i] = prefix[i]
      /\ \A i \in 1..(Len(q) - m) : entryName(q)[i] = q[m + i]
  BY EntryNamed
<1> HIDE DEF m
<1>3. Len(p) = Len(q)
  BY <1>1, <1>2
<1>4. ASSUME NEW i \in 1..Len(p) PROVE p[i] = q[i]
  <2>1. CASE i <= m
    BY <1>1, <1>2, <2>1
  <2>2. CASE i > m
    <3>1. i - m \in 1..(Len(p) - m) /\ m + (i - m) = i
      BY <1>1, <2>2
    <3>2. entryName(p)[i - m] = p[m + (i - m)] /\ entryName(q)[i - m] = q[m + (i - m)]
      BY <1>1, <1>2, <1>3, <3>1
    <3> QED
      BY <3>1, <3>2
  <2> QED
    BY <1>1, <2>1, <2>2
<1> QED
  BY <1>1, <1>2, <1>3, <1>4, SeqEqual

LEMMA HeaderRules ==
  ASSUME SourceInv, NEW p \in DOMAIN src \ {<<>>}
  PROVE  /\ header(p) \in headers /\ header(p) # Trailer
         /\ header(p).name = entryName(p) /\ header(p).type = src[p].type
         /\ header(p).mode = src[p].mode
         /\ header(p).body = IF src[p].type = "link" THEN Resolved(p) ELSE src[p].body
         /\ IsNode(src[p])
<1>1. IsNode(src[p])
  BY DEF SourceInv, IsTree
<1>2. /\ header(p).name = entryName(p) /\ header(p).type = src[p].type
      /\ header(p).mode = src[p].mode
      /\ header(p).body = IF src[p].type = "link" THEN Resolved(p) ELSE src[p].body
  BY DEF header
<1>3. header(p) # Trailer
  <2>1. header(p).type # "trailer" /\ Trailer.type = "trailer"
    BY <1>1, <1>2 DEF IsNode, Trailer
  <2> QED
    BY <2>1
<1>4. header(p) \in headers
  BY DEF headers
<1> QED
  BY <1>1, <1>2, <1>3, <1>4

LEMMA HeaderOf ==
  ASSUME SourceInv, NEW e \in headers
  PROVE  /\ \E p \in DOMAIN src \ {<<>>} : e = header(p)
         /\ \A p \in DOMAIN src \ {<<>>} : e.name = entryName(p) => e = header(p)
<1>1. PICK q \in DOMAIN src \ {<<>>} : e = header(q)
  BY DEF headers
<1>2. ASSUME NEW p \in DOMAIN src \ {<<>>}, e.name = entryName(p) PROVE e = header(p)
  <2>1. entryName(q) = entryName(p)
    BY <1>1, <1>2, HeaderRules
  <2> QED
    BY <1>1, <2>1, NamesDiffer
<1> QED
  BY <1>1, <1>2

(* The directory of an entry that is archived below another.                  *)
LEMMA ParentNamed ==
  ASSUME SourceInv, NEW p \in DOMAIN src \ {<<>>},
         entryName(p) # <<>>, Parent(entryName(p)) # <<>>
  PROVE  /\ Parent(p) \in DOMAIN src \ {<<>>} /\ entryName(Parent(p)) = Parent(entryName(p))
         /\ src[Parent(p)].type = "dir" /\ p \in Children(src, Parent(p))
<1> DEFINE m == Len(prefix)
           e == entryName(p)
           d == Parent(p)
<1>1. /\ p \in Seq(STRING) /\ Len(p) \in Nat /\ m \in 0..Len(p)
      /\ e \in Seq(STRING) /\ Len(e) = Len(p) - m
      /\ \A i \in 1..(Len(p) - m) : e[i] = p[m + i]
  BY EntryNamed
<1>2. Parent(e) \in Seq(STRING) /\ Len(e) \in Nat \ {0} /\ Len(Parent(e)) = Len(e) - 1
  BY <1>1, PathParent
<1>3. Len(Parent(e)) \in Nat \ {0}
  BY <1>2, EmptySeq
<1>4. p # <<>> /\ d \in Seq(STRING) /\ Len(d) = Len(p) - 1
  BY <1>1, PathParent
<1>5. d # <<>>
  BY <1>1, <1>2, <1>3, <1>4, EmptySeq
<1>6. d \in DOMAIN src /\ src[d].type = "dir" /\ p \in Children(src, d)
  <2>1. Len(p) - 1 \in 0..(Len(p) - 1) /\ d = SubSeq(p, 1, Len(p) - 1)
    BY <1>1, <1>2, <1>3 DEF Parent
  <2>2. d \in DOMAIN src /\ src[d].type = "dir"
    BY <2>1 DEF SourceInv, IsTree, IsDir, Exists
  <2> QED
    BY <2>2 DEF Children
<1>7. /\ entryName(d) \in Seq(STRING) /\ Len(entryName(d)) = Len(d) - m
      /\ \A i \in 1..(Len(d) - m) : entryName(d)[i] = d[m + i]
  BY <1>5, <1>6, EntryNamed
<1>8. \A i \in 1..Len(d) : d[i] = p[i]
  <2>1. \A i \in 1..(Len(p) - 1) : p[i] \in STRING
    BY <1>1, ElementOfSeq
  <2>2. \A i \in 1..(Len(p) - 1) : SubSeq(p, 1, Len(p) - 1)[i] = p[i]
    BY <1>1, <1>4, <2>1, SubSeqProperties
  <2> QED
    BY <1>4, <2>2 DEF Parent
<1>9. \A i \in 1..Len(Parent(e)) : Parent(e)[i] = e[i]
  <2>1. \A i \in 1..(Len(e) - 1) : e[i] \in STRING
    BY <1>1, <1>2, ElementOfSeq
  <2>2. \A i \in 1..(Len(e) - 1) : SubSeq(e, 1, Len(e) - 1)[i] = e[i]
    BY <1>1, <1>2, <2>1, SubSeqProperties
  <2> QED
    BY <1>2, <2>2 DEF Parent
<1>10. entryName(d) = Parent(e)
  <2> HIDE DEF d, e, m
  <2>1. Len(entryName(d)) = Len(Parent(e))
    BY <1>1, <1>2, <1>4, <1>7
  <2>2. ASSUME NEW i \in 1..Len(Parent(e)) PROVE entryName(d)[i] = Parent(e)[i]
    <3>1. /\ i \in 1..(Len(d) - m) /\ m + i \in 1..Len(d) /\ i \in 1..(Len(p) - m)
      BY <1>1, <1>2, <1>4
    <3> QED
      BY <1>1, <1>7, <1>8, <1>9, <3>1
  <2> QED
    BY <1>2, <1>7, <2>1, <2>2, SeqEqual
<1> QED
  BY <1>5, <1>6, <1>10

(* The tree that is archived, and what its entries are archived as, is fixed. *)
LEMMA TarFrame ==
  ASSUME UNCHANGED <<tarFrame>>
  PROVE  /\ headers' = headers /\ \A p : header(p)' = header(p) /\ entryName(p)' = entryName(p)
         /\ \A p : Resolved(p)' = Resolved(p)
         /\ asked' = asked /\ fileList' = fileList
<1>1. src' = src /\ prefix' = prefix /\ fileList' = fileList
  BY DEF tarFrame
<1>2. \A p : Resolved(p)' = Resolved(p) /\ entryName(p)' = entryName(p)
  BY <1>1 DEF Resolved, Follow, Exists, entryName, Within
<1>3. \A p : header(p)' = header(p)
  BY <1>1, <1>2 DEF header
<1>4. asked' = asked
  BY <1>1 DEF asked, Within
<1> QED
  BY <1>1, <1>2, <1>3, <1>4 DEF headers

(* What is asked for has a path, and so has what is below it.                 *)
LEMMA AskedRules ==
  ASSUME TarInv
  PROVE  /\ asked \subseteq DOMAIN src \ {<<>>} /\ asked \subseteq Seq(STRING)
         /\ \A q \in asked : Children(src, q) \subseteq asked
<1>1. DOMAIN src \subseteq Seq(STRING) /\ fileList \subseteq DOMAIN src \ {<<>>}
  BY DEF TarInv, SourceInv, IsTree, AskedInv
<1>2. asked \subseteq Seq(STRING)
  BY <1>1 DEF asked
<1>3. ASSUME NEW q \in asked PROVE q # <<>>
  <2>1. PICK f \in fileList : Within(q, f)
    BY DEF asked
  <2>2. Len(f) \in 0..Len(q) /\ Len(f) # 0
    BY <1>1, <1>2, <2>1, WithinRules, EmptySeq
  <2> QED
    BY <2>2, EmptySeq
<1>4. ASSUME NEW q \in asked, NEW x \in Children(src, q) PROVE x \in asked
  <2>1. x \in DOMAIN src /\ x # <<>> /\ Parent(x) = q /\ x \in Seq(STRING)
    BY <1>1 DEF Children
  <2>2. Len(x) \in Nat \ {0} /\ q = SubSeq(x, 1, Len(x) - 1)
    BY <2>1, PathParent DEF Parent
  <2>3. Within(x, q)
    BY <2>1, <2>2, WithinRules
  <2>4. PICK f \in fileList : Within(q, f)
    BY DEF asked
  <2>5. Within(x, f)
    BY <1>1, <1>2, <2>1, <2>3, <2>4, WithinTrans
  <2> QED
    BY <2>1, <2>5 DEF asked
<1> QED
  BY <1>2, <1>3, <1>4 DEF asked

(* Until the archive is complete, nothing has been extracted.                 *)
LEMMA NotExtracted ==
  ASSUME UntarInv, result = None, UNCHANGED <<dst, pos>>, result' \in {None, "err", "tarred"},
         Len(archive) \in Nat, count' \in Nat, Len(archive') \in Nat
  PROVE  UntarInv'
<1>1. IsTree(dst) /\ pos = 0 /\ DOMAIN dst = {<<>>}
  BY DEF UntarInv
<1> QED
  BY <1>1 DEF UntarInv, None

LEMMA TarEntryStep ==
  ASSUME TarInv, TarEntry
  PROVE  TarInv'
<1>1. PICK p \in top.left :
        /\ archive' = Append(archive, header(p)) /\ hash' = Append(hash, header(p))
        /\ stack' = IF src[p].type = "dir" THEN Entered(p) ELSE Taken(p)
  BY DEF TarEntry, WriteBoth, walked
<1>2. UNCHANGED <<tarFrame>> /\ UNCHANGED <<dst, pos, result>> /\ result = None
  BY DEF TarEntry
<1> DEFINE n == Len(stack)
           c == Len(archive)
<1>3. /\ stack \in Seq(Frames) /\ stack # <<>> /\ n \in Nat \ {0}
      /\ p \in stack[n].left /\ p \in DOMAIN src \ {<<>>}
  <2>1. stack \in Seq(Frames) /\ stack # <<>> /\ n \in Nat \ {0}
    BY EmptySeq DEF TarInv, SourceInv
  <2>2. stack[n] \in Frames /\ p \in stack[n].left /\ n \in 1..n
    BY <2>1, ElementOfSeq DEF top
  <2>3. <<>> \notin stack[n].left
    BY <2>2 DEF TarInv, SourceInv
  <2> QED
    BY <2>1, <2>2, <2>3 DEF Frames
<1>4. header(p) \in headers /\ header(p) \in headers \cup {Trailer}
  BY <1>3, HeaderRules DEF TarInv
<1>5. /\ c \in Nat /\ archive' \in Seq(headers \cup {Trailer}) /\ Len(archive') = c + 1
      /\ archive'[c + 1] = header(p) /\ \A k \in 1..c : archive'[k] = archive[k]
  <2>1. archive \in Seq(headers \cup {Trailer})
    BY DEF TarInv, ArchiveInv
  <2> QED
    BY <1>1, <1>4, <2>1, AppendProperties, LenProperties
<1>6. count = c /\ count' = c + 1
  BY <1>2, <1>5 DEF count
<1>7. /\ stack' \in Seq(Frames) /\ stack' # <<>> /\ Len(stack') \in {n, n + 1}
      /\ \A j \in 1..n :
           /\ stack'[j].dir = stack[j].dir
           /\ stack'[j].left = IF j = n THEN stack[j].left \ {p} ELSE stack[j].left
      /\ src[p].type = "dir" => Len(stack') = n + 1
      /\ Len(stack') = n + 1 => stack'[n + 1] = [dir |-> p, left |-> Children(src, p)]
  <2>1. /\ Taken(p) \in Seq(Frames) /\ Len(Taken(p)) = n
        /\ \A j \in 1..n :
              /\ Taken(p)[j].dir = stack[j].dir
              /\ Taken(p)[j].left = IF j = n THEN stack[j].left \ {p} ELSE stack[j].left
    BY <1>3, TakenStack
  <2>2. /\ Entered(p) \in Seq(Frames) /\ Len(Entered(p)) = n + 1
        /\ \A j \in 1..n : Entered(p)[j] = Taken(p)[j]
        /\ Entered(p)[n + 1] = [dir |-> p, left |-> Children(src, p)]
    BY <1>3, EnteredStack
  <2>3. /\ Len(stack') \in {n, n + 1} /\ stack' \in Seq(Frames)
        /\ src[p].type = "dir" => Len(stack') = n + 1
        /\ Len(stack') = n + 1 => stack' = Entered(p)
        /\ \A j \in 1..n : stack'[j] = Taken(p)[j]
    <3>1. n # n + 1
      BY <1>3
    <3> QED
      BY <1>1, <2>1, <2>2, <3>1
  <2>4. stack' # <<>>
    BY <1>3, <2>3, EmptySeq
  <2> QED
    BY <2>1, <2>2, <2>3, <2>4
<1>8. /\ src' = src /\ headers' = headers /\ Frames' = Frames
      /\ asked' = asked /\ fileList' = fileList
      /\ \A x : header(x)' = header(x) /\ Children(src, x)' = Children(src, x)
  BY <1>2, TarFrame DEF tarFrame, Frames, Children, Parent
<1> HIDE DEF n, c
<1>9. SourceInv'
  <2>1. \A j \in 1..Len(stack') : <<>> \notin stack'[j].left
    <3> SUFFICES ASSUME NEW j \in 1..Len(stack') PROVE <<>> \notin stack'[j].left
      OBVIOUS
    <3>1. CASE j \in 1..n
      <4>1. stack'[j].left \subseteq stack[j].left
        BY <1>7, <3>1
      <4>2. <<>> \notin stack[j].left
        BY <3>1 DEF TarInv, SourceInv, n
      <4> QED
        BY <4>1, <4>2
    <3>2. CASE j \notin 1..n
      <4>1. j = n + 1 /\ Len(stack') = n + 1
        BY <1>3, <1>7, <3>2
      <4>2. stack'[j].left = Children(src, p)
        BY <1>7, <4>1
      <4> QED
        BY <4>2 DEF Children
    <3> QED
      BY <3>1, <3>2
  <2>2. stack' \in Seq(Frames') /\ stack' # <<>>
    BY <1>7, <1>8
  <2> QED
    BY <1>2, <2>1, <2>2 DEF TarInv, SourceInv, tarFrame, None, Within
<1>10. ArchiveInv'
  <2>1. \A k \in 1..(c + 1) : archive'[k] \in headers
    <3>1. \A k \in 1..c : archive[k] \in headers
      BY <1>6 DEF TarInv, ArchiveInv
    <3> QED
      BY <1>4, <1>5, <3>1
  <2>2. hash' = archive'
    BY <1>1 DEF TarInv, ArchiveInv
  <2> QED
    BY <1>2, <1>5, <1>6, <1>8, <2>1, <2>2 DEF ArchiveInv, Trailer
<1>11. WalkInv'
  <2> SUFFICES ASSUME NEW k \in 1..(c + 1), NEW q \in DOMAIN src \ {<<>>},
                      archive'[k] = header(q), src[q].type = "dir",
                      NEW x \in Children(src, q)
               PROVE  \/ \E j \in (k + 1)..(c + 1) : archive'[j] = header(x)
                      \/ \E i \in 1..Len(stack') : stack'[i].dir = q /\ x \in stack'[i].left
    BY <1>6, <1>8 DEF WalkInv, follows
  <2>1. CASE k = c + 1
    <3>1. header(p) = header(q)
      BY <1>5, <2>1
    <3>2. p = q
      BY <1>3, <3>1, HeaderRules, NamesDiffer DEF TarInv
    <3>3. stack'[n + 1].dir = q /\ x \in stack'[n + 1].left /\ n + 1 \in 1..Len(stack')
      BY <1>3, <1>7, <3>2
    <3> QED
      BY <3>3
  <2>2. CASE k # c + 1
    <3>1. k \in 1..c /\ archive[k] = header(q)
      BY <1>5, <2>2
    <3>2. follows(x, q, k)
      BY <1>6, <3>1 DEF TarInv, WalkInv
    <3>3. CASE \E j \in (k + 1)..c : archive[j] = header(x)
      BY <1>5, <3>1, <3>3
    <3>4. ASSUME NEW i \in 1..n, stack[i].dir = q, x \in stack[i].left
          PROVE  \/ \E j \in (k + 1)..(c + 1) : archive'[j] = header(x)
                 \/ \E h \in 1..Len(stack') : stack'[h].dir = q /\ x \in stack'[h].left
      <4>1. CASE x = p
        BY <1>5, <3>1, <4>1
      <4>2. CASE x # p
        <5>1. stack'[i].dir = q
          BY <1>7, <3>4
        <5>2. stack'[i].left = IF i = n THEN stack[i].left \ {p} ELSE stack[i].left
          BY <1>7
        <5>3. x \in stack'[i].left
          BY <3>4, <4>2, <5>2
        <5>4. i \in 1..Len(stack')
          BY <1>3, <1>7
        <5> QED
          BY <5>1, <5>3, <5>4
      <4> QED
        BY <4>1, <4>2
    <3> QED
      BY <1>6, <3>2, <3>3, <3>4 DEF follows, n
  <2> QED
    BY <2>1, <2>2
<1>12. UntarInv'
  BY <1>2, <1>5, <1>6, NotExtracted DEF TarInv, c
<1>13. PlainInv'
  BY <1>2 DEF PlainInv, None
<1>14. AskedInv'
  <2>1. p \in asked /\ \A j \in 1..n : stack[j].left \subseteq asked
    BY <1>3 DEF TarInv, AskedInv, n
  <2>2. \A j \in 1..Len(stack') : stack'[j].left \subseteq asked
    <3> SUFFICES ASSUME NEW j \in 1..Len(stack') PROVE stack'[j].left \subseteq asked
      OBVIOUS
    <3>1. CASE j \in 1..n
      <4>1. stack'[j].left \subseteq stack[j].left
        BY <1>7, <3>1
      <4> QED
        BY <2>1, <3>1, <4>1
    <3>2. CASE j \notin 1..n
      <4>1. j = n + 1 /\ Len(stack') = n + 1
        BY <1>3, <1>7, <3>2
      <4>2. stack'[j].left = Children(src, p)
        BY <1>7, <4>1
      <4> QED
        BY <2>1, <4>2, AskedRules
    <3> QED
      BY <3>1, <3>2
  <2>3. \A k \in 1..(c + 1) : \E q \in asked : archive'[k] = header(q)
    <3>1. \A k \in 1..c : \E q \in asked : archive[k] = header(q)
      BY <1>6 DEF TarInv, AskedInv
    <3> QED
      BY <1>5, <2>1, <3>1
  <2>4. ASSUME NEW q \in asked
        PROVE  \/ \E k \in 1..(c + 1) : archive'[k] = header(q)
               \/ \E j \in 1..Len(stack') : \E x \in stack'[j].left : Within(q, x)
    <3>1. isArchived(q) \/ isAwaited(q)
      BY DEF TarInv, AskedInv
    <3>2. CASE isArchived(q)
      <4>1. PICK k \in 1..c : archive[k] = header(q)
        BY <1>6, <3>2 DEF isArchived
      <4> QED
        BY <1>5, <4>1
    <3>3. CASE q = p
      BY <1>5, <3>3
    <3>4. ASSUME NEW j \in 1..n, NEW x \in stack[j].left, Within(q, x), q # p
          PROVE  \E i \in 1..Len(stack') : \E y \in stack'[i].left : Within(q, y)
      <4>1. CASE x # p
        <5>1. stack'[j].left = IF j = n THEN stack[j].left \ {p} ELSE stack[j].left
          BY <1>7
        <5>2. x \in stack'[j].left
          BY <3>4, <4>1, <5>1
        <5>3. j \in 1..Len(stack')
          BY <1>3, <1>7
        <5> QED
          BY <3>4, <5>2, <5>3
      <4>2. CASE x = p
        <5> DEFINE m == Len(p)
                   y == SubSeq(q, 1, m + 1)
        <5>1. /\ q \in Seq(STRING) /\ p \in Seq(STRING) /\ q \in DOMAIN src \ {<<>>}
              /\ Within(q, p) /\ IsTree(src)
          BY <2>1, <3>4, <4>2, AskedRules DEF TarInv, SourceInv
        <5>2. m \in 0..(Len(q) - 1) /\ SubSeq(q, 1, m) = p /\ Len(q) \in Nat
          BY <3>4, <5>1, WithinRules, LenProperties
        <5>3. src[p].type = "dir" /\ y \in Children(src, p)
          <6>1. /\ src[SubSeq(q, 1, m)].type = "dir"
                /\ SubSeq(q, 1, m + 1) \in Children(src, SubSeq(q, 1, m))
            BY <5>1, <5>2, Above
          <6> QED
            BY <5>2, <6>1
        <5>4. Within(q, y)
          <6>1. m + 1 \in 0..Len(q)
            BY <5>2
          <6> QED
            BY <5>1, <6>1, WithinRules
        <5>5. y \in stack'[n + 1].left /\ n + 1 \in 1..Len(stack')
          BY <1>3, <1>7, <5>3
        <5> QED
          BY <5>4, <5>5
      <4> QED
        BY <4>1, <4>2
    <3> QED
      BY <3>1, <3>2, <3>3, <3>4 DEF isAwaited, n
  <2> QED
    BY <1>6, <1>8, <2>2, <2>3, <2>4 DEF TarInv, AskedInv, isArchived, isAwaited, Within
<1> QED
  BY <1>9, <1>10, <1>11, <1>12, <1>13, <1>14 DEF TarInv

(* The trailer, after an error or the last entry.                             *)
LEMMA TrailerStep ==
  ASSUME TarInv, UNCHANGED <<tarFrame>>, UNCHANGED <<dst, stack, pos>>, result = None,
         archive' = Append(archive, Trailer), hash' = Append(hash, Trailer),
         \/ result' = "err"
         \/ result' = "tarred" /\ \A j \in 1..Len(stack) : stack[j].left = {}
  PROVE  TarInv'
<1> DEFINE c == Len(archive)
<1>1. /\ c \in Nat /\ archive' \in Seq(headers \cup {Trailer}) /\ Len(archive') = c + 1
      /\ archive'[c + 1] = Trailer /\ \A k \in 1..c : archive'[k] = archive[k]
  <2>1. archive \in Seq(headers \cup {Trailer})
    BY DEF TarInv, ArchiveInv
  <2> QED
    BY <2>1, AppendProperties, LenProperties
<1>2. count = c /\ count' = c /\ result' # None
  BY <1>1 DEF count, None
<1>3. /\ src' = src /\ headers' = headers /\ Frames' = Frames
      /\ asked' = asked /\ fileList' = fileList
      /\ \A x : header(x)' = header(x) /\ Children(src, x)' = Children(src, x)
  BY TarFrame DEF tarFrame, Frames, Children, Parent
<1> HIDE DEF c
<1>4. SourceInv'
  BY <1>3 DEF TarInv, SourceInv, tarFrame, None, Within
<1>5. ArchiveInv'
  <2>1. hash' = archive' /\ Len(archive') > 0 /\ archive'[Len(archive')] = Trailer
    BY <1>1 DEF TarInv, ArchiveInv
  <2>2. \A k \in 1..c : archive'[k] \in headers
    BY <1>1, <1>2 DEF TarInv, ArchiveInv
  <2> QED
    BY <1>1, <1>2, <1>3, <2>1, <2>2 DEF ArchiveInv, Trailer
<1>6. WalkInv'
  <2> SUFFICES ASSUME NEW k \in 1..c, NEW q \in DOMAIN src \ {<<>>},
                      archive'[k] = header(q), src[q].type = "dir",
                      NEW x \in Children(src, q)
               PROVE  follows(x, q, k)'
    BY <1>2, <1>3 DEF WalkInv
  <2>1. follows(x, q, k)
    BY <1>1, <1>2 DEF TarInv, WalkInv
  <2>2. CASE \E j \in (k + 1)..c : archive[j] = header(x)
    <3>1. PICK j \in (k + 1)..c : archive[j] = header(x)
      BY <2>2
    <3>2. archive'[j] = header(x)' /\ j \in (k + 1)..count'
      BY <1>1, <1>2, <1>3, <3>1
    <3> QED
      BY <3>2 DEF follows
  <2>3. CASE \E i \in 1..Len(stack) : stack[i].dir = q /\ x \in stack[i].left
    BY <2>3 DEF follows
  <2> QED
    BY <1>2, <2>1, <2>2, <2>3 DEF follows
<1>7. UntarInv'
  BY <1>1, <1>2, NotExtracted DEF TarInv, c
<1>8. PlainInv'
  <2>1. DOMAIN dst = {<<>>} /\ {"r", "w", "x"} \subseteq dst[<<>>].mode
    BY DEF TarInv, UntarInv, IsTree
  <2> QED
    BY <2>1 DEF PlainInv
<1>9. AskedInv'
  <2>1. \A k \in 1..c : \E q \in asked : archive'[k] = header(q)
    BY <1>1, <1>2 DEF TarInv, AskedInv
  <2>2. \A q : isAwaited(q)' <=> isAwaited(q)
    BY DEF isAwaited, Within
  <2>3. \A q : isArchived(q) => isArchived(q)'
    BY <1>1, <1>2, <1>3 DEF isArchived
  <2> QED
    BY <1>2, <1>3, <2>1, <2>2, <2>3 DEF TarInv, AskedInv
<1> QED
  BY <1>4, <1>5, <1>6, <1>7, <1>8, <1>9 DEF TarInv

LEMMA TarDirDoneStep ==
  ASSUME TarInv, TarDirDone
  PROVE  TarInv'
<1> DEFINE n == Len(stack)
<1>1. /\ UNCHANGED <<tarFrame>> /\ UNCHANGED <<dst, archive, hash, pos, result, faulty>>
      /\ result = None /\ stack[n].left = {} /\ n > 1 /\ stack' = SubSeq(stack, 1, n - 1)
  BY DEF TarDirDone, top
<1>2. stack \in Seq(Frames) /\ n \in Nat
  BY LenProperties DEF TarInv, SourceInv
<1>3. /\ stack' \in Seq(Frames) /\ Len(stack') = n - 1 /\ stack' # <<>>
      /\ \A j \in 1..(n - 1) : stack'[j] = stack[j]
  <2>1. \A j \in 1..(n - 1) : stack[j] \in Frames
    BY <1>2, ElementOfSeq
  <2>2. /\ stack' \in Seq(Frames) /\ Len(stack') = n - 1
        /\ \A j \in 1..(n - 1) : stack'[j] = stack[j]
    BY <1>1, <1>2, <2>1, SubSeqProperties
  <2>3. stack' # <<>>
    <3>1. Len(stack') # 0 /\ Len(<<>>) = 0
      BY <1>1, <1>2, <2>2, EmptySeq
    <3> QED
      BY <3>1, Zenon
  <2> QED
    BY <2>2, <2>3
<1>4. /\ src' = src /\ headers' = headers /\ Frames' = Frames /\ count' = count
      /\ asked' = asked /\ fileList' = fileList
      /\ \A x : header(x)' = header(x) /\ Children(src, x)' = Children(src, x)
  BY <1>1, TarFrame DEF tarFrame, Frames, Children, Parent, count
<1>5. SourceInv'
  <2>1. \A j \in 1..Len(stack') : <<>> \notin stack'[j].left
    <3>1. \A j \in 1..n : <<>> \notin stack[j].left
      BY DEF TarInv, SourceInv
    <3> QED
      BY <1>2, <1>3, <3>1
  <2> QED
    BY <1>1, <1>3, <1>4, <2>1 DEF TarInv, SourceInv, tarFrame, None, Within
<1>6. ArchiveInv'
  BY <1>1, <1>4 DEF TarInv, ArchiveInv, Trailer
<1>7. WalkInv'
  <2> SUFFICES ASSUME NEW k \in 1..count, NEW q \in DOMAIN src \ {<<>>},
                      archive[k] = header(q), src[q].type = "dir",
                      NEW x \in Children(src, q)
               PROVE  \/ \E j \in (k + 1)..count : archive[j] = header(x)
                      \/ \E i \in 1..Len(stack') : stack'[i].dir = q /\ x \in stack'[i].left
    BY <1>1, <1>4 DEF WalkInv, follows
  <2>1. follows(x, q, k)
    BY DEF TarInv, WalkInv
  <2>2. ASSUME NEW i \in 1..n, stack[i].dir = q, x \in stack[i].left
        PROVE  i \in 1..Len(stack') /\ stack'[i].dir = q /\ x \in stack'[i].left
    <3>1. i # n
      BY <1>1, <2>2
    <3>2. i \in 1..(n - 1)
      BY <1>2, <3>1
    <3> QED
      BY <1>3, <2>2, <3>2
  <2> QED
    BY <2>1, <2>2 DEF follows
<1>8. UntarInv' /\ PlainInv'
  <2>1. \A k : brought(k)' <=> brought(k)
    BY <1>1 DEF brought, Exists
  <2>2. UntarInv'
    BY <1>1, <1>4, <2>1 DEF TarInv, UntarInv
  <2> QED
    BY <1>1, <2>2 DEF PlainInv, None
<1>9. AskedInv'
  <2>1. \A j \in 1..Len(stack') : stack'[j].left \subseteq asked
    <3>1. \A j \in 1..n : stack[j].left \subseteq asked
      BY DEF TarInv, AskedInv
    <3> QED
      BY <1>2, <1>3, <3>1
  <2>2. \A k \in 1..count : \E q \in asked : archive[k] = header(q)
    BY DEF TarInv, AskedInv
  <2>3. ASSUME NEW q, isAwaited(q) PROVE isAwaited(q)'
    <3>1. PICK i \in 1..n : \E x \in stack[i].left : Within(q, x)
      BY <2>3 DEF isAwaited
    <3>2. i # n
      BY <1>1, <3>1
    <3>3. i \in 1..Len(stack') /\ stack'[i] = stack[i]
      BY <1>2, <1>3, <3>2
    <3> QED
      BY <3>1, <3>3 DEF isAwaited, Within
  <2>4. \A q : isArchived(q)' <=> isArchived(q)
    BY <1>1, <1>4 DEF isArchived
  <2> QED
    BY <1>1, <1>4, <2>1, <2>2, <2>3, <2>4 DEF TarInv, AskedInv
<1> QED
  BY <1>5, <1>6, <1>7, <1>8, <1>9 DEF TarInv

(* What UntarFiles makes of a tree with an entry.                             *)
unpacked(t, u, e) ==
  /\ e.name \in DOMAIN u /\ u[e.name].type = e.type
  /\ DOMAIN u = DOMAIN t \cup (IF e.type = "dir" THEN MissingDirs(t, e.name) ELSE {e.name})
  /\ \A x \in DOMAIN t : x # e.name \/ e.type = "dir" => u[x] = t[x]
  /\ e.type # "dir" =>
       e.name # <<>> /\ u[e.name] = [type |-> e.type, mode |-> e.mode, body |-> e.body]
  /\ e.type = "dir" => \A x \in MissingDirs(t, e.name) : u[x].mode = e.mode \ Umask

LEMMA ExtractTree ==
  ASSUME IsTree(dst), NEW e, e.name \in Seq(STRING),
         e.type \in {"dir", "file", "link", "special"}, extractable(e),
         NEW u, u = extracted(e)
  PROVE  IsTree(u) /\ unpacked(dst, u, e)
<1> DEFINE p == e.name
<1>1. CASE e.type = "dir"
  <2>1. CanMkdirAll(dst, p, e.mode) /\ u = MkdirAll(dst, p, e.mode)
    BY <1>1 DEF extractable, extracted
  <2>2. IsTree(u) /\ IsDir(u, p)
    BY <2>1, MkdirAllTree
  <2>3. /\ DOMAIN u = DOMAIN dst \cup MissingDirs(dst, p)
        /\ \A x \in DOMAIN dst : u[x] = dst[x]
        /\ \A x \in MissingDirs(dst, p) : u[x].mode = e.mode \ Umask
    BY <2>1 DEF MkdirAll, MissingDirs
  <2> QED
    BY <1>1, <2>2, <2>3 DEF IsDir, Exists, unpacked
<1>2. CASE e.type # "dir"
  <2> DEFINE n == [type |-> e.type, mode |-> e.mode, body |-> e.body]
  <2>1. /\ p # <<>> /\ Reachable(dst, p) /\ u = Put(dst, p, n)
        /\ ~IsDir(dst, p)
    BY <1>2 DEF extractable, extracted, CanCreate, CanCreateFile, IsDir
  <2>2. DirsAbove(dst, p)
    BY <2>1 DEF Reachable, DirsAbove
  <2>3. IsNode(n) /\ n.type = e.type
    BY DEF IsNode
  <2>4. fits(dst, p, n)
    BY <2>1, <2>3, TreeOf DEF fits
  <2> HIDE DEF n
  <2>5. IsTree(u)
    BY <2>1, <2>2, <2>4, PutTree
  <2>6. /\ DOMAIN u = DOMAIN dst \cup {p} /\ u[p] = n
        /\ \A x \in DOMAIN dst : x # p => u[x] = dst[x]
    BY <2>1 DEF Put
  <2> QED
    BY <1>2, <2>1, <2>3, <2>5, <2>6 DEF n, unpacked
<1> QED
  BY <1>1, <1>2

(* The entry to extract next.                                                 *)
LEMMA NextEntry ==
  ASSUME TarInv, result \notin {None, "err"}, NEW k \in 1..(Len(archive) - 1)
  PROVE  /\ \E p \in DOMAIN src \ {<<>>} : archive[k] = header(p)
         /\ archive[k] \in headers /\ archive[k] # Trailer
         /\ archive[k].name \in Seq(STRING)
         /\ archive[k].type \in {"dir", "file", "link", "special"}
         /\ archive[k] = [name |-> archive[k].name, type |-> archive[k].type,
                          mode |-> archive[k].mode, body |-> archive[k].body]
         /\ \A j \in 1..(Len(archive) - 1) :
              archive[j].name = archive[k].name => archive[j] = archive[k]
<1>0. SourceInv /\ count = Len(archive) - 1
  BY DEF TarInv, count, None
<1>1. \A j \in 1..(Len(archive) - 1) : archive[j] \in headers
  BY <1>0 DEF TarInv, ArchiveInv
<1>2. PICK p \in DOMAIN src \ {<<>>} : archive[k] = header(p)
  BY <1>0, <1>1, HeaderOf
<1>3. archive[k] # Trailer /\ archive[k].name = entryName(p) /\ archive[k].type = src[p].type
      /\ IsNode(src[p])
  BY <1>0, <1>2, HeaderRules
<1>4. entryName(p) \in Seq(STRING)
  BY <1>0, EntryNamed
<1>5. ASSUME NEW j \in 1..(Len(archive) - 1), archive[j].name = archive[k].name
      PROVE  archive[j] = archive[k]
  BY <1>0, <1>1, <1>2, <1>3, <1>5, HeaderOf
<1>6. archive[k] = [name |-> archive[k].name, type |-> archive[k].type,
                    mode |-> archive[k].mode, body |-> archive[k].body]
  BY <1>2 DEF header
<1> QED
  BY <1>1, <1>2, <1>3, <1>4, <1>5, <1>6 DEF IsNode

(* If nothing hinders the extraction, the entry to extract next does not      *)
(* exist, but the directories above it do, and allow to create entries.       *)
LEMMA PlainParent ==
  ASSUME TarInv, result = "tarred", ~hindered, NEW c, c = pos + 1, c \in 1..(Len(archive) - 1),
         archive[c].name # <<>>
  PROVE  /\ archive[c].name \notin DOMAIN dst /\ DirsAbove(dst, archive[c].name)
         /\ CanCreate(dst, archive[c].name)
<1> DEFINE nm == archive[c].name
           d == Parent(nm)
           N == Len(archive) - 1
<1>0. N \in Nat /\ pos \in Nat /\ c \in Nat
  BY LenProperties DEF TarInv, ArchiveInv, UntarInv
<1>1. nm \in Seq(STRING)
  BY NextEntry DEF None
<1>2. PICK p \in DOMAIN src \ {<<>>} : archive[c] = header(p)
  BY NextEntry DEF None
<1>3. nm = entryName(p)
  BY <1>2, HeaderRules DEF TarInv
<1>4. ~hinders(c) /\ \A k \in 1..N : ~hinders(k)
  BY DEF hindered
<1>5. \A k \in 1..N : k # c => archive[k].name # nm
  <2> SUFFICES ASSUME NEW k \in 1..N, k # c, archive[k].name = nm PROVE FALSE
    OBVIOUS
  <2>1. CASE k < c
    <3>1. k \in 1..(c - 1)
      BY <1>0, <2>1
    <3> QED
      BY <1>4, <3>1 DEF hinders
  <2>2. CASE k > c
    <3>1. c \in 1..(k - 1) /\ ~hinders(k)
      BY <1>0, <1>4, <2>2
    <3> QED
      BY <3>1 DEF hinders
  <2> QED
    BY <1>0, <2>1, <2>2
<1>6. d \in names \cup {<<>>}
  BY <1>4 DEF hinders
<1>7. /\ Len(nm) \in Nat \ {0} /\ d \in Seq(STRING) /\ Len(d) = Len(nm) - 1
      /\ \A k \in 0..(Len(nm) - 1) : SubSeq(d, 1, k) = SubSeq(nm, 1, k)
  BY <1>1, PathParent
<1>8. \A x \in DOMAIN dst :
        /\ dst[x].type = "dir" => root \/ {"w", "x"} \subseteq dst[x].mode
        /\ x # <<>> => \E k \in 1..pos : archive[k].name = x
  BY DEF TarInv, PlainInv
<1>9. IsTree(dst) /\ \A k \in 1..pos : brought(k)
  BY DEF TarInv, UntarInv
<1> HIDE DEF nm, d, N
<1>10. nm \notin DOMAIN dst
  <2> SUFFICES ASSUME nm \in DOMAIN dst PROVE FALSE
    OBVIOUS
  <2>1. PICK k \in 1..pos : archive[k].name = nm
    BY <1>8 DEF nm
  <2>2. k \in 1..N /\ k # c
    BY <1>0 DEF N
  <2> QED
    BY <1>5, <2>1, <2>2
<1>11. IsDir(dst, d)
  <2>1. CASE d = <<>>
    BY <1>9, <2>1 DEF IsTree
  <2>2. CASE d # <<>>
    <3>1. PICK j \in 1..N : archive[j].name = d
      BY <1>6, <2>2 DEF names, N
    <3>2. PICK q \in DOMAIN src \ {<<>>} : archive[j] = header(q)
      BY <3>1, NextEntry DEF None, N
    <3>3. /\ Parent(p) \in DOMAIN src \ {<<>>} /\ entryName(Parent(p)) = d
          /\ src[Parent(p)].type = "dir" /\ p \in Children(src, Parent(p))
      BY <1>3, <2>2, ParentNamed DEF TarInv, d, nm
    <3>4. header(q).name = entryName(q) /\ header(q).type = src[q].type
      BY HeaderRules DEF TarInv
    <3>5. q = Parent(p)
      BY <3>1, <3>2, <3>3, <3>4, NamesDiffer DEF TarInv
    <3>6. count = N /\ follows(p, q, j)
      <4>1. count = N
        BY DEF count, None, N
      <4> QED
        BY <3>2, <3>3, <3>5, <4>1 DEF TarInv, WalkInv
    <3>7. \A i \in 1..Len(stack) : stack[i].left = {}
      BY DEF TarInv, SourceInv, None
    <3>8. PICK i \in (j + 1)..N : archive[i] = header(p)
      BY <3>6, <3>7 DEF follows
    <3>9. i = c
      <4>1. archive[i].name = nm /\ i \in 1..N
        BY <1>0, <1>2, <3>8 DEF nm
      <4> QED
        BY <1>5, <4>1
    <3>10. j \in 1..pos
      BY <1>0, <3>8, <3>9
    <3>11. brought(j) /\ archive[j].name # <<>> /\ archive[j].type = "dir"
      BY <1>9, <2>2, <3>1, <3>2, <3>3, <3>4, <3>5, <3>10
    <3> QED
      BY <3>1, <3>11 DEF brought, IsDir, Exists
  <2> QED
    BY <2>1, <2>2
<1>12. \A k \in 0..(Len(nm) - 1) :
         IsDir(dst, SubSeq(nm, 1, k)) /\ Allowed(dst, SubSeq(nm, 1, k), {"w", "x"})
  <2> SUFFICES ASSUME NEW k \in 0..(Len(nm) - 1)
               PROVE  IsDir(dst, SubSeq(nm, 1, k)) /\ Allowed(dst, SubSeq(nm, 1, k), {"w", "x"})
    OBVIOUS
  <2>1. SubSeq(nm, 1, k) = SubSeq(d, 1, k) /\ (k = Len(d) \/ k \in 0..(Len(d) - 1))
    BY <1>7
  <2>2. IsDir(dst, SubSeq(d, 1, k))
    <3>1. SubSeq(d, 1, Len(d)) = d
      BY <1>7, SubSeqFull
    <3>2. d \in DOMAIN dst
      BY <1>11 DEF IsDir, Exists
    <3>3. \A i \in 0..(Len(d) - 1) : IsDir(dst, SubSeq(d, 1, i))
      BY <1>9, <3>2, TreeOf DEF DirsAbove
    <3> QED
      BY <1>11, <2>1, <3>1, <3>3
  <2>3. IsDir(dst, SubSeq(nm, 1, k))
    BY <2>1, <2>2
  <2> QED
    BY <1>8, <2>3 DEF IsDir, Exists, Allowed
<1>13. CanCreate(dst, nm)
  <2>1. Reachable(dst, nm)
    BY <1>12 DEF Reachable, Allowed
  <2>2. Allowed(dst, Parent(nm), {"w", "x"})
    BY <1>7, <1>12 DEF Parent
  <2> QED
    BY <2>1, <2>2 DEF CanCreate, nm
<1> QED
  BY <1>10, <1>12, <1>13 DEF DirsAbove, nm

LEMMA MissingAlone ==
  ASSUME IsTree(dst), NEW p \in Seq(STRING)
  PROVE  /\ p = <<>> => MissingDirs(dst, p) = {} /\ Len(p) = 0 /\ SubSeq(p, 1, 0) = <<>>
         /\ DirsAbove(dst, p) /\ p \notin DOMAIN dst => MissingDirs(dst, p) = {p}
<1>1. Len(p) \in Nat /\ SubSeq(p, 1, Len(p)) = p /\ (p = <<>> => Len(p) = 0)
      /\ (p = <<>> => SubSeq(p, 1, 0) = <<>>)
  BY LenProperties, SubSeqFull, EmptySeq, SubSeqEmpty
<1>2. ASSUME p = <<>> PROVE MissingDirs(dst, p) = {}
  <2>1. <<>> \in DOMAIN dst
    BY DEF IsTree, IsDir, Exists
  <2>2. \A k \in 0..Len(p) : k = 0
    BY <1>1, <1>2
  <2>3. \A k \in 0..Len(p) : SubSeq(p, 1, k) \in DOMAIN dst
    BY <1>1, <1>2, <2>1, <2>2
  <2> QED
    BY <2>3 DEF MissingDirs
<1>3. ASSUME DirsAbove(dst, p), p \notin DOMAIN dst PROVE MissingDirs(dst, p) = {p}
  <2>1. \A k \in 0..Len(p) : SubSeq(p, 1, k) \in DOMAIN dst \/ SubSeq(p, 1, k) = p
    <3> SUFFICES ASSUME NEW k \in 0..Len(p)
                 PROVE  SubSeq(p, 1, k) \in DOMAIN dst \/ SubSeq(p, 1, k) = p
      OBVIOUS
    <3>1. CASE k \in 0..(Len(p) - 1)
      BY <1>3, <3>1 DEF DirsAbove, IsDir, Exists
    <3>2. CASE k = Len(p)
      <4>1. SubSeq(p, 1, k) = SubSeq(p, 1, Len(p))
        BY <3>2, Zenon
      <4> QED
        BY <1>1, <4>1
    <3>3. Len(p) \in Nat
      BY <1>1
    <3>4. k \in 0..(Len(p) - 1) \/ k = Len(p)
      BY <3>3
    <3> QED
      BY <3>1, <3>2, <3>4
  <2>2. Len(p) \in 0..Len(p)
    BY <1>1
  <2>3. p \in MissingDirs(dst, p)
    BY <1>1, <1>3, <2>2 DEF MissingDirs
  <2>4. \A x \in MissingDirs(dst, p) : x = p
    BY <2>1 DEF MissingDirs
  <2> QED
    BY <2>3, <2>4
<1> QED
  BY <1>1, <1>2, <1>3

(* Then the entry can be extracted, and MkdirAll makes no other directory.    *)
LEMMA PlainExtractable ==
  ASSUME TarInv, result = "tarred", ~hindered, NEW c, c = pos + 1, c \in 1..(Len(archive) - 1)
  PROVE  /\ extractable(archive[c])
         /\ MissingDirs(dst, archive[c].name) \subseteq {archive[c].name}
<1> DEFINE e == archive[c]
           nm == e.name
<1>1. nm \in Seq(STRING) /\ e.type \in {"dir", "file", "link", "special"} /\ IsTree(dst)
  BY NextEntry DEF None, TarInv, UntarInv
<1>2. ~hinders(c)
  BY DEF hindered
<1>3. CASE nm = <<>>
  <2>1. e.type = "dir"
    BY <1>2, <1>3 DEF hinders
  <2>2. MissingDirs(dst, nm) = {} /\ Len(nm) = 0 /\ SubSeq(nm, 1, 0) = <<>>
    BY <1>1, <1>3, MissingAlone
  <2>3. \A k \in 0..Len(nm) : SubSeq(nm, 1, k) = <<>>
    BY <2>2
  <2>4. IsDir(dst, <<>>) /\ Reachable(dst, nm)
    BY <1>1, <2>2 DEF IsTree, Reachable
  <2>5. Cardinality({}) = 0
    BY FS_EmptySet
  <2>6. CanMkdirAll(dst, nm, e.mode)
    <3>1. \A k \in 0..Len(nm) : IsDir(dst, SubSeq(nm, 1, k))
      BY <2>3, <2>4
    <3>2. ~(Cardinality(MissingDirs(dst, nm)) > 1)
      BY <2>2, <2>5
    <3>3. MissingDirs(dst, nm) = {}
      BY <2>2
    <3> QED
      BY <2>4, <3>1, <3>2, <3>3, Zenon DEF CanMkdirAll
  <2> QED
    BY <2>1, <2>2, <2>6 DEF extractable
<1>4. CASE nm # <<>>
  <2>1. nm \notin DOMAIN dst /\ DirsAbove(dst, nm) /\ CanCreate(dst, nm)
    BY <1>4, PlainParent
  <2>2. MissingDirs(dst, nm) = {nm} /\ Len(nm) \in Nat /\ SubSeq(nm, 1, Len(nm)) = nm
    BY <1>1, <2>1, MissingAlone, LenProperties, SubSeqFull
  <2>3. CanMkdirAll(dst, nm, e.mode)
    <3>1. \A k \in 0..Len(nm) : Exists(dst, SubSeq(nm, 1, k)) => IsDir(dst, SubSeq(nm, 1, k))
      <4> SUFFICES ASSUME NEW k \in 0..Len(nm), Exists(dst, SubSeq(nm, 1, k))
                   PROVE  IsDir(dst, SubSeq(nm, 1, k))
        OBVIOUS
      <4>1. k # Len(nm)
        BY <2>1, <2>2 DEF Exists
      <4>2. k \in 0..(Len(nm) - 1)
        BY <2>2, <4>1
      <4> QED
        BY <2>1, <4>2 DEF DirsAbove
    <3>2. Cardinality({nm}) = 1
      BY FS_Singleton
    <3>3. Within(nm, nm)
      BY <1>1, WithinRules
    <3> HIDE DEF nm, e
    <3>4. (CHOOSE q \in MissingDirs(dst, nm) : \A r \in MissingDirs(dst, nm) : Within(r, q)) = nm
      BY <2>2, <3>3
    <3>5. ~(Cardinality(MissingDirs(dst, nm)) > 1) /\ MissingDirs(dst, nm) # {}
      BY <2>2, <3>2
    <3>6. CanCreate(dst, CHOOSE q \in MissingDirs(dst, nm) :
                           \A r \in MissingDirs(dst, nm) : Within(r, q))
      BY <2>1, <3>4
    <3> QED
      BY <3>1, <3>5, <3>6, Zenon DEF CanMkdirAll
  <2> QED
    BY <1>1, <1>4, <2>1, <2>2, <2>3 DEF extractable, CanCreateFile, IsDir, Exists
<1> QED
  BY <1>3, <1>4

(* What UntarFiles leaves alone.                                              *)
LEMMA UntarFrame ==
  ASSUME TarInv, UNCHANGED <<tarFrame>>, UNCHANGED <<stack, archive, hash>>,
         result \notin {None, "err"}, result' \in {"tarred", "ok", "untarFailed"}
  PROVE  /\ SourceInv' /\ ArchiveInv' /\ WalkInv' /\ AskedInv' /\ (hindered' <=> hindered)
         /\ count' = count /\ count = Len(archive) - 1
<1>1. /\ src' = src /\ headers' = headers /\ Frames' = Frames
      /\ asked' = asked /\ fileList' = fileList
      /\ \A x : header(x)' = header(x) /\ Children(src, x)' = Children(src, x)
  BY TarFrame DEF tarFrame, Frames, Children, Parent
<1>2. count' = count /\ count = Len(archive) - 1
  BY DEF count, None
<1>3. SourceInv'
  BY <1>1 DEF TarInv, SourceInv, tarFrame, Within, None
<1>4. ArchiveInv'
  BY <1>1, <1>2 DEF TarInv, ArchiveInv, Trailer, None
<1>5. WalkInv'
  <2>1. \A p, q, k : follows(p, q, k)' <=> follows(p, q, k)
    BY <1>1, <1>2 DEF follows
  <2> QED
    BY <1>1, <1>2, <2>1 DEF TarInv, WalkInv
<1>6. hindered' <=> hindered
  BY DEF hindered, hinders, names, Parent, tarFrame
<1>7. AskedInv'
  <2>1. \A q : (isAwaited(q)' <=> isAwaited(q)) /\ (isArchived(q)' <=> isArchived(q))
    BY <1>1, <1>2 DEF isAwaited, isArchived, Within
  <2> QED
    BY <1>1, <1>2, <2>1 DEF TarInv, AskedInv
<1> QED
  BY <1>2, <1>3, <1>4, <1>5, <1>6, <1>7

LEMMA UntarEntryStep ==
  ASSUME TarInv, UntarEntry
  PROVE  TarInv'
<1> DEFINE N == Len(archive) - 1
           c == pos + 1
           e == archive[c]
<1>1. UNCHANGED <<tarFrame>> /\ UNCHANGED <<stack, archive, hash>> /\ result = "tarred"
  BY DEF UntarEntry
<1>2. N \in Nat /\ pos \in 0..N /\ c \in Nat /\ archive[N + 1] = Trailer
  <2>1. Len(archive) \in Nat /\ Len(archive) > 0 /\ archive[Len(archive)] = Trailer
    BY <1>1, LenProperties DEF TarInv, ArchiveInv, None
  <2>2. pos \in Nat /\ pos <= count /\ count = N
    BY <1>1, <2>1 DEF TarInv, UntarInv, count, None
  <2> QED
    BY <2>1, <2>2
<1>3. e # Trailer => c \in 1..N
  <2>1. c = N + 1 \/ c \in 1..N
    BY <1>2
  <2> QED
    BY <1>2, <2>1
<1>4. c \in 1..N => /\ e # Trailer /\ e.name \in Seq(STRING)
                    /\ e.type \in {"dir", "file", "link", "special"}
                    /\ e = [name |-> e.name, type |-> e.type, mode |-> e.mode, body |-> e.body]
                    /\ \A j \in 1..N : archive[j].name = e.name => archive[j] = e
  BY <1>1, NextEntry DEF None
<1>5. IsTree(dst) /\ \A k \in 1..pos : brought(k)
  BY <1>1 DEF TarInv, UntarInv
<1> HIDE DEF N, c
<1>6. CASE e = Trailer /\ result' = "ok" /\ UNCHANGED <<dst, pos>>
  <2>1. pos = N
    BY <1>2, <1>4, <1>6 DEF c
  <2>2. SourceInv' /\ ArchiveInv' /\ WalkInv' /\ AskedInv' /\ count' = N
    BY <1>1, <1>6, UntarFrame DEF None, N
  <2>3. \A k : brought(k)' <=> brought(k)
    BY <1>1, <1>6 DEF brought, Exists
  <2>4. UntarInv'
    BY <1>1, <1>2, <1>5, <1>6, <2>1, <2>2, <2>3 DEF UntarInv, None, N
  <2>5. PlainInv'
    BY <1>6 DEF PlainInv
  <2> QED
    BY <2>2, <2>4, <2>5 DEF TarInv
<1>7. CASE e # Trailer /\ extractable(e) /\ dst' = extracted(e) /\ pos' = c /\ UNCHANGED result
  <2>0. /\ c \in 1..N /\ e.name \in Seq(STRING) /\ e.type \in {"dir", "file", "link", "special"}
        /\ \A j \in 1..N : archive[j].name = e.name => archive[j] = e
    BY <1>3, <1>4, <1>7
  <2>1. SourceInv' /\ ArchiveInv' /\ WalkInv' /\ AskedInv' /\ count' = N /\ (hindered' <=> hindered)
    BY <1>1, <1>7, UntarFrame DEF None, N
  <2>2. /\ IsTree(dst') /\ e.name \in DOMAIN dst' /\ dst'[e.name].type = e.type
        /\ DOMAIN dst' = DOMAIN dst \cup
             (IF e.type = "dir" THEN MissingDirs(dst, e.name) ELSE {e.name})
        /\ \A x \in DOMAIN dst : x # e.name \/ e.type = "dir" => dst'[x] = dst[x]
        /\ e.type # "dir" => /\ e.name # <<>>
                             /\ dst'[e.name] = [type |-> e.type, mode |-> e.mode, body |-> e.body]
        /\ e.type = "dir" => \A x \in MissingDirs(dst, e.name) : dst'[x].mode = e.mode \ Umask
    <3> HIDE DEF e
    <3>1. e.name \in Seq(STRING) /\ e.type \in {"dir", "file", "link", "special"}
      BY <2>0
    <3>2. extractable(e) /\ dst' = extracted(e) /\ IsTree(dst)
      BY <1>5, <1>7
    <3>3. IsTree(dst') /\ unpacked(dst, dst', e)
      BY <3>1, <3>2, ExtractTree
    <3> QED
      BY <3>3 DEF unpacked
  <2> HIDE DEF e
  <2>3. ASSUME NEW k \in 1..c PROVE brought(k)'
    <3>0. archive'[k] = archive[k] /\ k \in 1..N
      BY <1>1, <1>2, <2>0
    <3>1. CASE archive[k].name = e.name
      <4>1. archive[k] = e
        BY <2>0, <3>0, <3>1
      <4> QED
        BY <2>2, <3>0, <4>1 DEF brought, Exists
    <3>2. CASE archive[k].name # e.name
      <4>1. k # c
        BY <3>2 DEF e
      <4>2. k \in 1..pos
        BY <1>2, <4>1 DEF c
      <4>3. brought(k)
        BY <1>5, <4>2
      <4> QED
        BY <2>2, <3>0, <3>2, <4>3 DEF brought, Exists
    <3> QED
      BY <3>1, <3>2
  <2>4. UntarInv'
    BY <1>1, <1>2, <1>7, <2>0, <2>1, <2>2, <2>3 DEF UntarInv, None, N
  <2>5. PlainInv'
    <3> SUFFICES ASSUME ~hindered, NEW x \in DOMAIN dst'
                 PROVE  /\ dst'[x].type = "dir" => root \/ {"w", "x"} \subseteq dst'[x].mode
                        /\ x # <<>> => \E k \in 1..c : archive[k].name = x
      BY <1>1, <1>7, <2>1 DEF PlainInv, tarFrame
    <3>1. CASE x = e.name
      <4>1. c \in 1..c /\ archive[c].name = x
        BY <1>2, <2>0, <3>1 DEF e
      <4>2. dst'[x].type = "dir" => root \/ {"w", "x"} \subseteq dst'[x].mode
        <5> SUFFICES ASSUME e.type = "dir" PROVE root \/ {"w", "x"} \subseteq dst'[x].mode
          BY <2>2, <3>1
        <5>1. CASE x \in DOMAIN dst
          <6>1. dst'[x] = dst[x]
            BY <2>2, <5>1
          <6>2. dst[x].type = "dir"
            BY <2>2, <3>1, <6>1
          <6> QED
            BY <1>1, <5>1, <6>1, <6>2 DEF TarInv, PlainInv
        <5>2. CASE x \notin DOMAIN dst
          <6>1. dst'[x].mode = e.mode \ Umask
            BY <2>2, <5>2
          <6>2. ~hinders(c)
            BY <2>0 DEF hindered, N
          <6>3. root \/ {"w", "x"} \subseteq e.mode
            BY <6>2 DEF hinders, e
          <6> QED
            BY <6>1, <6>3, UmaskAssumption
        <5> QED
          BY <5>1, <5>2
      <4> QED
        BY <4>1, <4>2
    <3>2. CASE x # e.name
      <4>1. MissingDirs(dst, e.name) \subseteq {e.name}
        BY <1>1, <2>0, PlainExtractable DEF c, e, N
      <4>2. x \in DOMAIN dst /\ dst'[x] = dst[x]
        BY <2>2, <3>2, <4>1
      <4>3. \A k \in 1..pos : k \in 1..c
        BY <1>2 DEF c
      <4> QED
        BY <1>1, <4>2, <4>3 DEF TarInv, PlainInv
    <3> QED
      BY <3>1, <3>2
  <2> QED
    BY <2>1, <2>4, <2>5 DEF TarInv
<1>8. CASE /\ (e # Trailer /\ ~extractable(e) /\ NoFault) \/ Fault
           /\ result' = "untarFailed" /\ UNCHANGED pos
           /\ dst' \in {dst} \cup (IF faulty' /\ e.type = "file" /\ extractable(e)
                                   THEN {extracted([e EXCEPT !.body = "partial"])} ELSE {})
  <2>1. SourceInv' /\ ArchiveInv' /\ WalkInv' /\ AskedInv' /\ count' = N /\ (hindered' <=> hindered)
    BY <1>1, <1>8, UntarFrame DEF None, N
  <2>2. IsTree(dst')
    <3>1. CASE dst' = dst
      BY <1>5, <3>1
    <3>2. CASE e.type = "file" /\ extractable(e) /\ dst' = extracted([e EXCEPT !.body = "partial"])
      <4> DEFINE f == [e EXCEPT !.body = "partial"]
      <4>1. c \in 1..N
        <5>1. Trailer.type = "trailer"
          BY DEF Trailer
        <5> QED
          BY <1>3, <3>2, <5>1
      <4>2. e.name \in Seq(STRING)
            /\ e = [name |-> e.name, type |-> e.type, mode |-> e.mode, body |-> e.body]
        BY <1>4, <4>1
      <4> HIDE DEF e
      <4>3. f.name = e.name /\ f.type = e.type
        BY <4>2
      <4>4. extractable(f)
        BY <3>2, <4>3 DEF extractable
      <4> HIDE DEF f
      <4>5. f.name \in Seq(STRING) /\ f.type \in {"dir", "file", "link", "special"}
        BY <3>2, <4>2, <4>3
      <4>6. dst' = extracted(f)
        BY <3>2 DEF f
      <4> QED
        BY <1>5, <4>4, <4>5, <4>6, ExtractTree
    <3> QED
      BY <1>8, <3>1, <3>2
  <2>3. UntarInv'
    BY <1>1, <1>2, <1>8, <2>1, <2>2 DEF UntarInv, None, N
  <2>4. ~faulty' => hindered
    <3> SUFFICES ASSUME ~faulty', ~hindered PROVE FALSE
      OBVIOUS
    <3>1. e # Trailer /\ ~extractable(e)
      BY <1>8 DEF Fault
    <3>2. c \in 1..N
      BY <1>3, <3>1
    <3> QED
      BY <1>1, <3>1, <3>2, PlainExtractable DEF c, N
  <2> QED
    BY <1>8, <2>1, <2>3, <2>4 DEF TarInv, PlainInv
<1> QED
  BY <1>6, <1>7, <1>8 DEF UntarEntry, Stop, c

LEMMA TarStep == TarInv /\ [TarNext]_treeVars => TarInv'
<1> SUFFICES ASSUME TarInv, [TarNext]_treeVars PROVE TarInv'
  OBVIOUS
<1>1. CASE TarFails
  BY <1>1, TrailerStep DEF TarFails, WriteBoth, Stop
<1>2. CASE TarClose
  <2>1. /\ UNCHANGED <<tarFrame>> /\ UNCHANGED <<dst, stack, pos>> /\ result = None
        /\ archive' = Append(archive, Trailer) /\ hash' = Append(hash, Trailer)
        /\ result' = "tarred" /\ Len(stack) = 1 /\ stack[1].left = {}
    BY <1>2 DEF TarClose, closed, Stop, top
  <2>2. \A j \in 1..Len(stack) : stack[j].left = {}
    BY <2>1
  <2> QED
    BY <2>1, <2>2, TrailerStep
<1>3. CASE UNCHANGED treeVars
  <2>1. UNCHANGED <<tool, root, src, dst, stack, archive, hash, pos, prefix, result, faulty>>
    BY <1>3 DEF treeVars
  <2>2. /\ headers' = headers /\ Frames' = Frames /\ count' = count
        /\ asked' = asked /\ fileList' = fileList
        /\ \A x : header(x)' = header(x) /\ Children(src, x)' = Children(src, x)
    BY <1>3, TarFrame DEF treeVars, tarFrame, Frames, Children, Parent, count
  <2>3. SourceInv' /\ ArchiveInv'
    BY <2>1, <2>2 DEF TarInv, SourceInv, ArchiveInv, Within, Trailer
  <2>4. WalkInv'
    <3>1. \A p, q, k : follows(p, q, k)' <=> follows(p, q, k)
      BY <2>1, <2>2 DEF follows
    <3> QED
      BY <2>1, <2>2, <3>1 DEF TarInv, WalkInv
  <2>5. UntarInv'
    BY <2>1, <2>2 DEF TarInv, UntarInv, brought, Exists
  <2>6. PlainInv'
    <3>1. hindered' <=> hindered
      <4>1. names' = names /\ archive' = archive /\ root' = root
        BY <2>1 DEF names
      <4> QED
        BY <4>1 DEF hindered, hinders, Parent
    <3> QED
      BY <2>1, <3>1 DEF TarInv, PlainInv
  <2>7. AskedInv'
    <3>1. \A q : (isAwaited(q)' <=> isAwaited(q)) /\ (isArchived(q)' <=> isArchived(q))
      BY <2>1, <2>2 DEF isAwaited, isArchived, Within
    <3> QED
      BY <2>1, <2>2, <3>1 DEF TarInv, AskedInv
  <2> QED
    BY <2>3, <2>4, <2>5, <2>6, <2>7 DEF TarInv
<1> QED
  BY <1>1, <1>2, <1>3, TarEntryStep, TarDirDoneStep, UntarEntryStep DEF TarNext

LEMMA TarStart == TarInit => TarInv
<1> SUFFICES ASSUME TarInit PROVE TarInv
  OBVIOUS
<1>1. /\ fileList \in SUBSET (DOMAIN src \ {<<>>}) /\ stack = <<[dir |-> <<>>, left |-> fileList]>>
      /\ IsTree(src)
  BY DEF TarInit
<1>2. [dir |-> <<>>, left |-> fileList] \in Frames
  BY <1>1 DEF TarInit, IsTree, IsDir, Exists, Frames
<1>3. stack \in Seq(Frames) /\ Len(stack) = 1 /\ stack[1] = [dir |-> <<>>, left |-> fileList]
  BY <1>1, <1>2
<1>4. stack # <<>>
  <2>1. Len(stack) # 0 /\ Len(<<>>) = 0
    BY <1>3, EmptySeq
  <2> QED
    BY <2>1, Zenon
<1>5. SourceInv
  <2>1. \A j \in 1..Len(stack) : <<>> \notin stack[j].left
    BY <1>1, <1>3
  <2> QED
    BY <1>3, <1>4, <2>1 DEF TarInit, SourceInv, None
<1>6. archive = <<>> /\ Len(archive) = 0 /\ count = 0 /\ archive \in Seq(headers \cup {Trailer})
  BY EmptySeq DEF TarInit, count, None
<1>7. ArchiveInv /\ WalkInv
  BY <1>6 DEF TarInit, ArchiveInv, WalkInv, None
<1>8. UntarInv /\ PlainInv
  BY <1>6 DEF TarInit, UntarInv, PlainInv, None
<1>9. AskedInv
  <2>1. \A f \in fileList : f \in Seq(STRING) /\ Within(f, f)
    BY <1>1, WithinRules DEF IsTree
  <2>2. fileList \subseteq asked
    BY <1>1, <2>1 DEF asked
  <2>3. \A j \in 1..Len(stack) : stack[j].left \subseteq asked
    BY <1>3, <2>2
  <2>4. \A q \in asked : isAwaited(q)
    BY <1>3 DEF asked, isAwaited
  <2> QED
    BY <1>1, <1>6, <2>3, <2>4 DEF AskedInv
<1> QED
  BY <1>5, <1>7, <1>8, <1>9 DEF TarInv

LEMMA LeastOf ==
  ASSUME NEW T \in SUBSET Nat, T # {}
  PROVE  \E x \in T : \A y \in T : x <= y
<1> DEFINE R == {r \in Nat \X Nat : r[1] < r[2]}
<1>1. IsWellFoundedOn(R, Nat)
  BY NatLessThanWellFounded, Zenon DEF OpToRel
<1>2. PICK x \in T : \A y \in T : ~ (<<y, x>> \in R)
  <2> HIDE DEF R
  <2> QED
    BY <1>1, WFMin
<1>3. ASSUME NEW y \in T PROVE x <= y
  <2>1. <<y, x>> \in Nat \X Nat /\ ~ (y < x)
    BY <1>2
  <2> QED
    BY <2>1
<1> QED
  BY <1>3

(* Once everything has been archived, that is what was asked for.             *)
LEMMA AllArchived ==
  ASSUME TarInv, result \notin {None, "err"}, NEW p \in DOMAIN src \ {<<>>}
  PROVE  p \in asked <=> \E k \in 1..(Len(archive) - 1) : archive[k].name = entryName(p)
<1>1. count = Len(archive) - 1
  BY DEF count, None
<1>2. ASSUME p \in asked
      PROVE  \E k \in 1..(Len(archive) - 1) : archive[k].name = entryName(p)
  <2>1. ~ isAwaited(p)
    BY DEF TarInv, SourceInv, isAwaited
  <2>2. isArchived(p)
    BY <1>2, <2>1 DEF TarInv, AskedInv
  <2>3. header(p).name = entryName(p)
    BY HeaderRules DEF TarInv
  <2> QED
    BY <1>1, <2>2, <2>3 DEF isArchived
<1>3. ASSUME NEW k \in 1..(Len(archive) - 1), archive[k].name = entryName(p) PROVE p \in asked
  <2>1. PICK q \in asked : archive[k] = header(q)
    BY <1>1, <1>3 DEF TarInv, AskedInv
  <2>2. q \in DOMAIN src \ {<<>>}
    BY AskedRules
  <2>3. entryName(q) = entryName(p)
    BY <1>3, <2>1, <2>2, HeaderRules DEF TarInv
  <2> QED
    BY <2>2, <2>3, NamesDiffer DEF TarInv
<1> QED
  BY <1>2, <1>3

(* FindFile finds the entry of that name, if it was asked for.                *)
LEMMA Found ==
  ASSUME TarInv, result \notin {None, "err"}, NEW p \in DOMAIN src \ {<<>>}
  PROVE  FindFile(entryName(p)) = IF p \in asked THEN header(p) ELSE Trailer
<1> DEFINE named == {k \in 1..(Len(archive) - 1) : archive[k].name = entryName(p)}
<1>0. p \in asked <=> named # {}
  BY AllArchived
<1>1. CASE named = {}
  BY <1>0, <1>1 DEF FindFile
<1>2. CASE named # {}
  <2>0. Len(archive) \in Nat
    BY LenProperties DEF TarInv, ArchiveInv
  <2>1. named \in SUBSET Nat
    BY <2>0
  <2> HIDE DEF named
  <2>2. \E k \in named : \A j \in named : k <= j
    BY <1>2, <2>1, LeastOf
  <2>3. PICK k \in named : k = CHOOSE i \in named : \A j \in named : i <= j
    BY <2>2
  <2>4. k \in 1..(Len(archive) - 1) /\ archive[k].name = entryName(p)
    BY DEF named
  <2>5. archive[k] = header(p)
    <3>1. archive[k] \in headers
      BY <2>4, NextEntry
    <3> QED
      BY <2>4, <3>1, HeaderOf DEF TarInv
  <2>6. FindFile(entryName(p)) = archive[k]
    BY <1>2, <2>3 DEF FindFile, named
  <2> QED
    BY <1>0, <1>2, <2>5, <2>6
<1> QED
  BY <1>1, <1>2

LEMMA Restored ==
  ASSUME TarInv, result = "ok", NEW p \in asked, entryName(p) # <<>>
  PROVE  /\ Exists(dst, entryName(p)) /\ dst[entryName(p)].type = src[p].type
         /\ dst[entryName(p)].type = "file" => dst[entryName(p)] = src[p]
         /\ dst[entryName(p)].type = "link" => dst[entryName(p)].body = Resolved(p)
<1>0. p \in DOMAIN src \ {<<>>}
  BY AskedRules
<1>1. PICK k \in 1..(Len(archive) - 1) : archive[k].name = entryName(p)
  BY <1>0, AllArchived DEF None
<1>2. archive[k] \in headers
  BY <1>1, NextEntry DEF None
<1>3. archive[k] = header(p)
  BY <1>0, <1>1, <1>2, HeaderOf DEF TarInv
<1>4. pos = Len(archive) - 1
  BY DEF TarInv, UntarInv, count, None
<1>5. brought(k)
  BY <1>4 DEF TarInv, UntarInv
<1>6. /\ header(p).name = entryName(p) /\ header(p).type = src[p].type
      /\ header(p).mode = src[p].mode
      /\ header(p).body = IF src[p].type = "link" THEN Resolved(p) ELSE src[p].body
      /\ src[p] = [type |-> src[p].type, mode |-> src[p].mode, body |-> src[p].body]
  BY <1>0, HeaderRules DEF TarInv, IsNode
<1>7. /\ Exists(dst, entryName(p)) /\ dst[entryName(p)].type = src[p].type
      /\ dst[entryName(p)].type = "file" =>
           dst[entryName(p)] = [type |-> src[p].type, mode |-> src[p].mode, body |-> header(p).body]
      /\ dst[entryName(p)].type = "link" => dst[entryName(p)].body = header(p).body
  BY <1>1, <1>3, <1>5, <1>6 DEF brought
<1> QED
  BY <1>6, <1>7

(* TarFiles archives what is listed and all that is below it, and UntarFiles  *)
(* brings back every such entry, whatever the tree, the permissions and the   *)
(* failures; the sum is that of the whole archive.                            *)
THEOREM TarRoundTripHolds == TarSpec => []TarRoundTrip
<1>1. TarInv => TarRoundTrip
  <2> SUFFICES ASSUME TarInv PROVE TarRoundTrip
    OBVIOUS
  <2>1. result \in {"tarred", "ok"} =>
          /\ hash = archive /\ archive[Len(archive)] = Trailer
          /\ \A p \in DOMAIN src \ {<<>>} :
               FindFile(entryName(p)) = IF p \in asked THEN header(p) ELSE Trailer
    BY Found DEF TarInv, ArchiveInv, None
  <2>2. result = "ok" =>
          \A p \in asked : entryName(p) # <<>> =>
            /\ Exists(dst, entryName(p)) /\ dst[entryName(p)].type = src[p].type
            /\ dst[entryName(p)].type = "file" => dst[entryName(p)] = src[p]
            /\ dst[entryName(p)].type = "link" => dst[entryName(p)].body = Resolved(p)
    BY Restored
  <2>3. result = "untarFailed" /\ ~faulty => hindered
    BY DEF TarInv, PlainInv
  <2> QED
    BY <2>1, <2>2, <2>3 DEF TarRoundTrip, hindered
<1> QED
  BY <1>1, TarStart, TarStep, PTL DEF TarSpec
=============================================================================
