--------------------------------- MODULE Tar ---------------------------------
(* src/tar/tar.go: TarFiles writes the entries of fileList to an archive,     *)
(* UntarFiles extracts the archive into an empty directory.                   *)
EXTENDS Tree

tarFrame == <<tool, root, src, fileList, prefix, before>>

(* Where a path leads, over two links at most (a loop ends at a link): a      *)
(* link's body is a path, which may not exist or be a link itself.            *)
Follow(p) == IF Exists(src, p) /\ src[p].type = "link" THEN src[p].body ELSE p
Resolved(p) == Follow(Follow(p))

(* What a link may lead to here: a path through no other link, that is not    *)
(* over more than two links, except in a circle.                              *)
plainLink(p) ==
  LET b == src[p].body
      d == Resolved(p) IN
  /\ b \in Seq(STRING)
  /\ \A k \in 0..(Len(b) - 1) :
       LET q == SubSeq(b, 1, k) IN Exists(src, q) /\ q # p => src[q].type # "link"
  /\ Exists(src, d) /\ src[d].type = "link" => Follow(d) \in {p, b, d}

(* TarFiles is called for files of src, which are all below strip, and what   *)
(* it wrote is then extracted into an empty directory.                        *)
TarInit ==
  /\ tool = "Tar" /\ root \in BOOLEAN
  /\ IsTree(src)
  /\ \A p \in DOMAIN src : src[p].type # "special" /\ (src[p].type = "link" => plainLink(p))
  /\ IsTree(dst) /\ DOMAIN dst = {<<>>} /\ before = dst
  /\ fileList \in SUBSET (DOMAIN src \ {<<>>})
  /\ stack = <<[dir |-> <<>>, left |-> fileList]>>
  /\ prefix \in Seq(STRING) /\ \A p \in DOMAIN src \ {<<>>} : Within(p, prefix)
  /\ archive = <<>> /\ hash = <<>> /\ pos = 0 /\ result = None /\ faulty = FALSE

(* writeContents opens the entry before it looks at it, through a link.       *)
openable(p) ==
  /\ \A q \in {p, Follow(p), Resolved(p)} : Reachable(src, q)
  /\ Exists(src, Resolved(p))
  /\ src[Resolved(p)].type # "link"
  /\ Allowed(src, Resolved(p), {"r"})

(* strings.TrimPrefix(fileName, strip)                                        *)
entryName(p) == IF Within(p, prefix) THEN SubSeq(p, Len(prefix) + 1, Len(p)) ELSE p

(* tar.FileInfoHeader, with what EvalSymlinks says a link leads to, and for a *)
(* file the contents that follow the header.                                  *)
header(p) ==
  [name |-> entryName(p), type |-> src[p].type, mode |-> src[p].mode,
   body |-> IF src[p].type = "link" THEN Resolved(p) ELSE src[p].body]

Trailer == [type |-> "trailer"]

(* io.MultiWriter: the target, and then the hash.                             *)
WriteBoth(e) == archive' = Append(archive, e) /\ hash' = Append(hash, e)

(* writeContents of the entries of a directory.  Mutant: of the listed only.  *)
unwalked(p) == Taken(p)
walked(p) == IF src[p].type = "dir" THEN Entered(p) ELSE Taken(p)

TarEntry ==
  /\ tool = "Tar" /\ result = None
  /\ \E p \in top.left :
       /\ openable(p) /\ NoFault
       /\ WriteBoth(header(p))
       /\ stack' = walked(p)
  /\ UNCHANGED <<tarFrame, dst, pos, result>>

(* An error; the deferred Close writes the trailer all the same.              *)
TarFails ==
  /\ tool = "Tar" /\ result = None
  /\ ((\E p \in top.left : ~openable(p)) /\ NoFault) \/ Fault
  /\ WriteBoth(Trailer)
  /\ Stop("err")
  /\ UNCHANGED <<tarFrame, dst, stack, pos>>

TarDirDone ==
  /\ tool = "Tar" /\ result = None /\ top.left = {} /\ Len(stack) > 1
  /\ stack' = SubSeq(stack, 1, Len(stack) - 1)
  /\ UNCHANGED <<tarFrame, dst, archive, hash, pos, result, faulty>>

(* The deferred Close runs before TarFiles takes the sum.  Mutant: after it.  *)
unclosed == hash
closed == Append(hash, Trailer)

TarClose ==
  /\ tool = "Tar" /\ result = None /\ top.left = {} /\ Len(stack) = 1
  /\ archive' = Append(archive, Trailer)
  /\ hash' = closed
  /\ Stop("tarred")
  /\ UNCHANGED <<tarFrame, dst, stack, pos, faulty>>

-----------------------------------------------------------------------------
(* UntarFiles.  A directory that exists is left as it is, a link must not     *)
(* exist, a file is created or truncated, and then gets its mode.             *)
CanCreateFile(p) ==
  /\ p # <<>> /\ ~IsDir(dst, p)
  /\ IF Exists(dst, p) THEN Reachable(dst, p) /\ Allowed(dst, p, {"w"}) ELSE CanCreate(dst, p)

extractable(e) ==
  CASE e.type = "dir"  -> CanMkdirAll(dst, e.name, e.mode)
    [] e.type = "link" -> CanCreate(dst, e.name) /\ ~Exists(dst, e.name)
    [] OTHER           -> CanCreateFile(e.name)

extracted(e) ==
  IF e.type = "dir" THEN MkdirAll(dst, e.name, e.mode)
  ELSE Put(dst, e.name, [type |-> e.type, mode |-> e.mode, body |-> e.body])

UntarEntry ==
  /\ tool = "Tar" /\ result = "tarred"
  /\ LET e == archive[pos + 1] IN
     \/ e = Trailer /\ NoFault /\ Stop("ok") /\ UNCHANGED <<dst, pos>>
     \/ /\ e # Trailer /\ NoFault /\ extractable(e)
        /\ dst' = extracted(e) /\ pos' = pos + 1 /\ UNCHANGED result
     \/ /\ (e # Trailer /\ ~extractable(e) /\ NoFault) \/ Fault
        /\ Stop("untarFailed") /\ UNCHANGED pos
        /\ dst' \in {dst} \cup (IF faulty' /\ e.type = "file" /\ extractable(e)
                                THEN {extracted([e EXCEPT !.body = "partial"])} ELSE {})
  /\ UNCHANGED <<tarFrame, stack, archive, hash>>

TarNext == TarEntry \/ TarFails \/ TarDirDone \/ TarClose \/ UntarEntry

TarSpec == TarInit /\ [][TarNext]_treeVars

-----------------------------------------------------------------------------
(* FindFile: the first entry of that name, or the end of the archive.         *)
FindFile(name) ==
  LET named == {k \in 1..(Len(archive) - 1) : archive[k].name = name} IN
  IF named = {} THEN Trailer ELSE archive[CHOOSE k \in named : \A j \in named : k <= j]

(* What TarFiles is asked to archive: what was listed, and what is below it.  *)
asked == {p \in DOMAIN src : \E q \in fileList : Within(p, q)}

(* The names in the archive.                                                  *)
names == {archive[k].name : k \in 1..(Len(archive) - 1)}

(* Why an archive may not be extracted.                                       *)
hinders(k) ==
  LET e == archive[k] IN
  \/ e.name = <<>> /\ e.type # "dir"
  \/ \E j \in 1..(k - 1) : archive[j].name = e.name
  \/ e.name # <<>> /\ Parent(e.name) \notin names \cup {<<>>}
  \/ ~root /\ e.type = "dir" /\ ~ {"w", "x"} \subseteq e.mode

(* What was listed, and all that is below it, is archived, and nothing else:  *)
(* FindFile finds each entry by its stripped name, as TarFiles wrote it.      *)
(* Extracting brings back every such entry: files with contents and mode,     *)
(* directories, and links to what the original led to.  The sum is that of    *)
(* the whole archive.  What TarFiles archived is extracted, without a failing *)
(* operation, unless a directory was not listed or does not let its owner     *)
(* create entries, a file's stripped name is empty, or an entry is there      *)
(* twice.                                                                     *)
TarRoundTrip ==
  tool = "Tar" =>
    /\ result \in {"tarred", "ok"} =>
         /\ hash = archive /\ archive[Len(archive)] = Trailer
         /\ \A p \in DOMAIN src \ {<<>>} :
              FindFile(entryName(p)) = IF p \in asked THEN header(p) ELSE Trailer
    /\ result = "ok" =>
         \A p \in asked : entryName(p) # <<>> =>
           LET n == dst[entryName(p)] IN
           /\ Exists(dst, entryName(p)) /\ n.type = src[p].type
           /\ n.type = "file" => n = src[p]
           /\ n.type = "link" => n.body = Resolved(p)
    /\ result = "untarFailed" /\ ~faulty =>
         \E k \in 1..(Len(archive) - 1) : hinders(k)
=============================================================================
