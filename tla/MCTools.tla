------------------------------- MODULE MCTools -------------------------------
(* The small tools, of which one runs in each behaviour: small trees and      *)
(* archives for fs.Copy, tar and zip, a limiter, an HTTP request, a           *)
(* FileMetadata, a process, the HTTP clients.                                 *)
EXTENDS FsCopy, Tar, Zip, Limiter, JsonHttp, Metadata, Exec, HttpClient

VARIABLE part          \* what runs: "trees", "limiter", "http", "metadata", "exec", "client"

all  == {"r", "w", "x", "g"}
s    == <<"s">>
sa   == <<"s", "a">>
sb   == <<"s", "b">>
sab  == <<"s", "a", "b">>

Dir(m)     == [type |-> "dir", mode |-> m, body |-> None]
File(m, b) == [type |-> "file", mode |-> m, body |-> b]
Link(p)    == [type |-> "link", mode |-> {"r", "w", "x"}, body |-> p]

Dirs   == {Dir(m) : m \in {all, {"r", "x"}, {"r", "w"}, {"w", "x"}, {"g"}}}
Leaves == {File(m, "x") : m \in {all, {"r"}, {}}} \cup {Link(sa), Link(<<"gone">>)}
Special == [type |-> "special", mode |-> all, body |-> None]

Empty == <<>> :> Dir(all)

(* One entry s: a leaf, a directory with one or two entries, or with a        *)
(* directory with an entry.                                                   *)
Trees(leaves) ==
  {Put(Empty, s, n) : n \in leaves \cup Dirs}
  \cup {Put(Put(Empty, s, d), sa, n) : d \in Dirs, n \in leaves \cup Dirs}
  \cup {Put(Put(Put(Empty, s, d), sa, n), sb, m) : d \in Dirs, n \in leaves, m \in leaves}
  \cup {Put(Put(Put(Empty, s, d), sa, e), sab, n) : d \in Dirs, e \in Dirs, n \in leaves}

SmallCopyInit ==
  /\ src \in Trees(Leaves \cup {Special})
  /\ dst \in {Empty, Put(Empty, s, File(all, "old"))}
  /\ CopyInit

SmallTarInit ==
  /\ src \in Trees(Leaves) /\ dst = Empty
  /\ fileList \in {{s}, {sa}, {s, sa}} /\ fileList \subseteq DOMAIN src
  /\ prefix \in {<<>>, s}
  /\ TarInit

Entries ==
  {[name |-> n, type |-> "dir", mode |-> m, body |-> None] :
     n \in {<<"a">>, <<"a", "b">>, <<"..">>}, m \in {all, {"r", "x"}}}
  \cup {[name |-> n, type |-> ty, mode |-> {"r", "w", "g"}, body |-> b] :
          n \in {<<"a">>, <<"a", "b">>, <<"..", "o">>}, ty \in {"file", "link", "special"},
          b \in {"inside", "outside"}}

d   == <<"d">>
do  == <<"d", "o">>
t   == <<"d", "t">>
ta  == <<"d", "t", "a">>
tab == <<"d", "t", "a", "b">>
tac == <<"d", "t", "a", "c">>

InDir == Put(Empty, d, Dir(all))

Targets ==
  {Empty, Put(Put(InDir, do, Dir(all)), t, Dir(all)),
   Put(Put(InDir, t, Dir(all)), ta, File({"r"}, "old")),
   Put(Put(Put(InDir, do, File({"r"}, "old")), t, Dir({"r", "x"})), ta, Link(<<"gone">>))}
  \cup {Put(Put(Put(Put(InDir, t, Dir(all)), ta, Dir(m)), tab, Dir({"r", "w", "x"})),
            tac, File({"r", "w"}, "old")) : m \in {all, {"r", "x"}}}

SmallZipInit ==
  /\ archive \in UNION {[1..n -> Entries] : n \in 1..2}
  /\ dst \in Targets
  /\ prefix \in {<<>>, <<"a">>, <<"..">>}
  /\ ZipInit

NoTree ==
  /\ tool = None /\ root = FALSE /\ src = Empty /\ dst = Empty /\ before = Empty
  /\ stack = <<>> /\ archive = <<>> /\ hash = <<>> /\ pos = 0 /\ fileList = {} /\ prefix = <<>>
  /\ result = None /\ faulty = FALSE

SmallInit == HttpInit /\ MetadataInit /\ ExecInit /\ ClientInit

Init ==
  \/ /\ part = "trees" /\ (SmallCopyInit \/ SmallTarInit \/ SmallZipInit)
     /\ LimiterInit(0) /\ SmallInit
  \/ part = "limiter" /\ (\E n \in 0..2 : LimiterInit(n)) /\ NoTree /\ SmallInit
  \/ /\ part \in {"http", "metadata", "exec", "client"}
     /\ LimiterInit(0) /\ NoTree /\ SmallInit

TreesNext ==
  /\ part = "trees" /\ (CopyNext \/ TarNext \/ ZipNext)
  /\ UNCHANGED <<part, limiterVars, httpVars, metadataVars, execVars, clientVars>>

SharedLimiterNext ==
  /\ part = "limiter" /\ LimiterNext
  /\ UNCHANGED <<part, treeVars, httpVars, metadataVars, execVars, clientVars>>

RequestNext ==
  /\ part = "http" /\ HttpNext
  /\ UNCHANGED <<part, treeVars, limiterVars, metadataVars, execVars, clientVars>>

DocumentNext ==
  /\ part = "metadata" /\ MetadataNext
  /\ UNCHANGED <<part, treeVars, limiterVars, httpVars, execVars, clientVars>>

ProcessNext ==
  /\ part = "exec" /\ ExecNext
  /\ UNCHANGED <<part, treeVars, limiterVars, httpVars, metadataVars, clientVars>>

ClientsNext ==
  /\ part = "client" /\ ClientNext
  /\ UNCHANGED <<part, treeVars, limiterVars, httpVars, metadataVars, execVars>>

Next ==
  \/ TreesNext \/ SharedLimiterNext \/ RequestNext \/ DocumentNext
  \/ ProcessNext \/ ClientsNext

Spec ==
  Init /\ [][Next]_<<part, treeVars, limiterVars, httpVars, metadataVars, execVars, clientVars>>
=============================================================================
