---------------------------- MODULE TailerProofs -----------------------------
(* What SeekLastLines and the Tailer guarantee for any file, filter, sizes of *)
(* buffers, and any writes of another process meanwhile.                      *)
EXTENDS Tailer, FiniteSetTheorems, SequenceTheorems, WellFoundedInduction, TLAPS

Byte == Bytes \cup {Delimiter}

seeking == {"seekEnd", "seek", "position", "failed", "new"}

(* The types, with what the two parts of the program leave alone.             *)
Typed ==
  /\ file \in Seq(Byte)
  /\ pos \in 0..Len(file) /\ from \in 0..Len(file) /\ size \in 0..Len(file)
  /\ lines \in {FromStart} \cup Nat
  /\ buf \in Seq(Byte) /\ line \in Seq(Byte) /\ wbuf \in Seq(Byte) /\ sink \in Seq(Byte)
  /\ Len(line) + Len(buf) <= pos
  /\ pc \in seeking => buf = <<>> /\ line = <<>> /\ wbuf = <<>> /\ sink = <<>>
  /\ pc \in {"select", "flush"} => buf = <<>> /\ line = <<>>

(* The buffer of SeekLastLines has no delimiter, and none has been seen, or   *)
(* it has the bytes from offset to the next delimiter, the start of the lines *)
(* that have been counted.                                                    *)
Unseen ==
  /\ Delimiters(sbuf) = {} /\ found = 0
  /\ \A k \in (offset + 1)..size : file[k] # Delimiter

SeenFrom(d) ==
  /\ file[d] = Delimiter /\ \A k \in (offset + 1)..(d - 1) : file[k] # Delimiter
  /\ Len(sbuf) = d - offset /\ \A i \in 1..(d - offset) : sbuf[i] = file[offset + i]
  /\ found = Cardinality({i \in acceptedStarts(SubSeq(file, 1, size)) : i >= d})

SeekInv ==
  /\ pc = "seekEnd" => lines # FromStart /\ offset = 0 /\ found = 0 /\ seekPos = 0
  /\ pc \in {"seekEnd", "seek"} =>
       /\ sbuf \in Seq(Byte \cup {Zero}) /\ scap \in Nat /\ Len(sbuf) <= scap
       /\ pc = "seekEnd" => Delimiters(sbuf) = {}
  /\ pc = "seek" =>
       /\ lines \in Nat \ {0} /\ offset \in 0..size
       /\ found < lines /\ seekPos = 0
       /\ Unseen \/ \E d \in (offset + 1)..size : SeenFrom(d)
  /\ pc = "position" =>
       lines \in Nat \ {0} /\ seekPos = LastLines(SubSeq(file, 1, size), lines)
       /\ seekPos \in 0..size
  /\ SeekedRight

(* The Tailer has passed on the lines before `start', which is where a line   *)
(* starts, and holds the bytes from there on.                                 *)
start == pos - (Len(line) + Len(buf))

Reading ==
  /\ start >= from /\ (start = from \/ file[start] = Delimiter)
  /\ line \o buf = SubSeq(file, start + 1, pos)
  /\ Delimiters(line) = {}
  /\ sink \o wbuf = Accepted(from, start)
  /\ atRest => wbuf = <<>> /\ buf = <<>> /\ line = <<>>

TailInv ==
  ~misplaced =>
    /\ IsPrefix(sink, Accepted(from, Len(file)))
    /\ sound => Reading

-----------------------------------------------------------------------------
(* Sets of positions.                                                         *)

LEMMA LeastExists ==
  ASSUME NEW T \in SUBSET Nat, T # {}
  PROVE  \E x \in T : \A y \in T : x <= y
<1> DEFINE R == {r \in Nat \X Nat : r[1] < r[2]}
<1>1. IsWellFoundedOn(R, Nat)
  BY NatLessThanWellFounded, Zenon DEF OpToRel
<1>2. PICK x \in T : \A y \in T : ~ (<<y, x>> \in R)
  <2> HIDE DEF R
  <2> QED
    BY <1>1, WFMin
<1>3. ASSUME NEW y \in T PROVE x <= y
  <2>1. <<y, x>> \in Nat \X Nat /\ ~ (y < x)
    BY <1>2
  <2> QED
    BY <2>1
<1> QED
  BY <1>3

LEMMA GreatestExists ==
  ASSUME NEW n \in Nat, NEW T \in SUBSET (0..n), T # {}
  PROVE  \E x \in T : \A y \in T : y <= x
<1> DEFINE M == {n - y : y \in T}
<1>0. \A y \in T : y \in Nat /\ y <= n /\ n - y \in Nat
  OBVIOUS
<1>1. M \in SUBSET Nat /\ M # {}
  BY <1>0
<1>2. PICK m \in M : \A y \in M : m <= y
  <2> HIDE DEF M
  <2> QED
    BY <1>1, LeastExists
<1>3. PICK x \in T : m = n - x
  BY <1>2
<1>4. ASSUME NEW y \in T PROVE y <= x
  <2>1. n - x <= n - y
    BY <1>2, <1>3
  <2> QED
    BY <1>0, <2>1
<1> QED
  BY <1>4

(* Min is the least element.                                                  *)
LEMMA MinIs ==
  ASSUME NEW T \in SUBSET Nat, T # {}
  PROVE  Min(T) \in T /\ \A y \in T : Min(T) <= y
BY LeastExists DEF Min

LEMMA MinUnique ==
  ASSUME NEW T \in SUBSET Nat, NEW x \in T, \A y \in T : x <= y
  PROVE  Min(T) = x
<1>1. Min(T) \in T /\ Min(T) <= x
  BY MinIs
<1>2. x \in Nat /\ Min(T) \in Nat /\ x <= Min(T)
  BY <1>1
<1> QED
  BY <1>1, <1>2

(* The positions of a bounded set, counted from one of them to the end.       *)
LEMMA Bounded ==
  ASSUME NEW n \in Nat, NEW S \in SUBSET (0..n)
  PROVE  /\ IsFiniteSet(S) /\ Cardinality(S) \in Nat
         /\ \A T \in SUBSET S : /\ IsFiniteSet(T) /\ Cardinality(T) \in Nat
                                /\ Cardinality(T) <= Cardinality(S)
                                /\ T # S => Cardinality(T) < Cardinality(S)
<1>1. IsFiniteSet(0..n)
  BY FS_Interval
<1>2. IsFiniteSet(S)
  BY <1>1, FS_Subset
<1>3. Cardinality(S) \in Nat
  BY <1>2, FS_CardinalityType
<1>4. ASSUME NEW T \in SUBSET S
      PROVE  /\ IsFiniteSet(T) /\ Cardinality(T) \in Nat
             /\ Cardinality(T) <= Cardinality(S)
             /\ T # S => Cardinality(T) < Cardinality(S)
  <2>1. IsFiniteSet(T) /\ Cardinality(T) <= Cardinality(S)
        /\ (Cardinality(S) = Cardinality(T) => S = T)
    BY <1>2, FS_Subset
  <2>2. Cardinality(T) \in Nat
    BY <2>1, FS_CardinalityType
  <2> QED
    BY <1>3, <2>1, <2>2
<1> QED
  BY <1>2, <1>3, <1>4

LEMMA DisjointCount ==
  ASSUME NEW n \in Nat, NEW S \in SUBSET (0..n), NEW T \in SUBSET (0..n), S \cap T = {}
  PROVE  Cardinality(S \cup T) = Cardinality(S) + Cardinality(T)
<1>1. IsFiniteSet(S) /\ IsFiniteSet(T) /\ Cardinality(S) \in Nat /\ Cardinality(T) \in Nat
  BY Bounded
<1>2. Cardinality(S \cup T) = Cardinality(S) + Cardinality(T) - Cardinality(S \cap T)
  BY <1>1, FS_Union
<1>3. Cardinality(S \cap T) = 0
  BY FS_EmptySet
<1> QED
  BY <1>1, <1>2, <1>3

upFrom(S, i) == {j \in S : j >= i}

(* There is an element that the wanted number of elements reach up to ...     *)
LEMMA FromTheEnd ==
  ASSUME NEW n \in Nat, NEW S \in SUBSET (0..n), NEW m \in 1..Cardinality(S)
  PROVE  \E i \in S : Cardinality(upFrom(S, i)) = m
<1> DEFINE Up(i) == {j \in S : j >= i}
           T == {i \in S : Cardinality(Up(i)) >= m}
<1>1. Cardinality(S) \in Nat /\ \A i \in S : Cardinality(Up(i)) \in Nat
  BY Bounded
<1>2. T # {}
  <2>1. S # {}
    BY FS_EmptySet
  <2>2. PICK i \in S : \A j \in S : i <= j
    BY <2>1, LeastExists
  <2>3. Up(i) = S
    BY <2>2
  <2> QED
    BY <2>3
<1>3. PICK t \in T : \A y \in T : y <= t
  <2>1. T \in SUBSET (0..n)
    OBVIOUS
  <2> HIDE DEF T
  <2> QED
    BY <1>2, <2>1, GreatestExists
<1>4. t \in S /\ Cardinality(Up(t)) >= m
  BY <1>3
<1>5. ASSUME Cardinality(Up(t)) > m PROVE FALSE
  <2> DEFINE A == {j \in S : j > t}
  <2>0. t \in Nat /\ \A j \in S : j \in Nat
    BY <1>4
  <2>1. A \in SUBSET (0..n) /\ {t} \in SUBSET (0..n) /\ A \cap {t} = {} /\ Up(t) = A \cup {t}
    <3>1. A \subseteq S /\ {t} \subseteq S
      BY <1>4
    <3>2. A \cap {t} = {}
      BY <2>0
    <3>3. \A j \in S : j >= t <=> j > t \/ j = t
      BY <2>0
    <3>4. Up(t) = A \cup {t}
      BY <1>4, <3>3
    <3> QED
      BY <3>1, <3>2, <3>4
  <2>2. Cardinality(Up(t)) = Cardinality(A) + 1
    <3>1. Cardinality({t}) = 1
      BY FS_Singleton
    <3> QED
      BY <2>1, <3>1, DisjointCount
  <2>3. Cardinality(A) \in Nat /\ Cardinality(A) >= m
    <3>1. Cardinality(A) \in Nat
      BY <2>1, Bounded
    <3>2. m \in Nat
      BY <1>1
    <3> QED
      BY <1>5, <2>2, <3>1, <3>2
  <2>4. A # {}
    BY <2>3, FS_EmptySet
  <2>5. PICK u \in A : \A j \in A : u <= j
    <3>1. A \in SUBSET Nat
      BY <2>1
    <3> HIDE DEF A
    <3> QED
      BY <2>4, <3>1, LeastExists
  <2>6. Up(u) = A
    <3>1. u \in S /\ u > t /\ \A j \in S : j > t => u <= j
      BY <2>5
    <3>2. \A j \in S : j >= u <=> j > t
      BY <2>0, <3>1
    <3> QED
      BY <3>2
  <2>7. u \in T
    BY <2>3, <2>5, <2>6
  <2> QED
    BY <1>3, <2>5, <2>7
<1>6. Cardinality(Up(t)) \in Nat
  BY <1>1, <1>4
<1> QED
  BY <1>4, <1>5, <1>6 DEF upFrom

(* ... and no other.                                                          *)
LEMMA FromTheEndUnique ==
  ASSUME NEW n \in Nat, NEW S \in SUBSET (0..n), NEW i \in S, NEW k \in S,
         Cardinality(upFrom(S, i)) = Cardinality(upFrom(S, k))
  PROVE  i = k
<1>1. ASSUME NEW a \in S, NEW b \in S, a < b
      PROVE  Cardinality({j \in S : j >= b}) < Cardinality({j \in S : j >= a})
  <2> DEFINE A == {j \in S : j >= a}
             B == {j \in S : j >= b}
  <2>0. \A j \in S : j \in Nat
    OBVIOUS
  <2>1. A \in SUBSET (0..n) /\ B \in SUBSET A /\ a \in A /\ a \notin B
    <3>1. A \subseteq S
      OBVIOUS
    <3>2. \A j \in S : j >= b => j >= a
      BY <1>1, <2>0
    <3>3. a \in A /\ a \notin B
      BY <1>1, <2>0
    <3> QED
      BY <3>1, <3>2, <3>3
  <2> HIDE DEF A, B
  <2>2. Cardinality(B) < Cardinality(A)
    BY <2>1, Bounded
  <2> QED
    BY <2>2 DEF A, B
<1>2. /\ Cardinality({j \in S : j >= i}) \in Nat /\ Cardinality({j \in S : j >= k}) \in Nat
  BY Bounded
<1> QED
  BY <1>1, <1>2 DEF upFrom

(* A set moved by o has as many elements.                                     *)
LEMMA ShiftCount ==
  ASSUME NEW n \in Nat, NEW S \in SUBSET (0..n), NEW o \in Nat
  PROVE  Cardinality({o + i : i \in S}) = Cardinality(S)
<1> DEFINE T == {o + i : i \in S}
           f == [i \in S |-> o + i]
<1>0. \A i \in S : i \in Nat
  OBVIOUS
<1>1. f \in Injection(S, T)
  BY <1>0 DEF Injection, IsInjective
<1>2. f \in Surjection(S, T)
  BY DEF Surjection
<1>3. ExistsBijection(S, T)
  BY <1>1, <1>2 DEF ExistsBijection, Bijection
<1>4. IsFiniteSet(S)
  BY Bounded
<1> HIDE DEF T
<1>5. Cardinality(T) = Cardinality(S)
  BY <1>3, <1>4, FS_Bijection
<1> QED
  BY <1>5 DEF T

-----------------------------------------------------------------------------
(* Lines.                                                                     *)

LEMMA SubSeqIs ==
  ASSUME NEW S, NEW s \in Seq(S), NEW a \in Nat, NEW b \in Nat, a <= b, b <= Len(s)
  PROVE  /\ SubSeq(s, a + 1, b) \in Seq(S) /\ Len(SubSeq(s, a + 1, b)) = b - a
         /\ \A i \in 1..(b - a) : SubSeq(s, a + 1, b)[i] = s[a + i]
<1>1. \A i \in (a + 1)..b : s[i] \in S
  BY ElementOfSeq
<1>2. /\ SubSeq(s, a + 1, b) \in Seq(S)
      /\ Len(SubSeq(s, a + 1, b)) = IF a + 1 <= b THEN b - (a + 1) + 1 ELSE 0
      /\ \A i \in 1 .. b - (a + 1) + 1 : SubSeq(s, a + 1, b)[i] = s[(a + 1) + i - 1]
  BY <1>1, SubSeqProperties
<1>3. Len(SubSeq(s, a + 1, b)) = b - a
  BY <1>2
<1>4. ASSUME NEW i \in 1..(b - a) PROVE SubSeq(s, a + 1, b)[i] = s[a + i]
  <2>1. i \in 1 .. b - (a + 1) + 1 /\ (a + 1) + i - 1 = a + i
    OBVIOUS
  <2> QED
    BY <1>2, <2>1
<1> QED
  BY <1>2, <1>3, <1>4

LEMMA DelimitersIn ==
  ASSUME NEW S, NEW s \in Seq(S)
  PROVE  /\ Delimiters(s) \in SUBSET (0..Len(s)) /\ Delimiters(s) \in SUBSET Nat
         /\ \A i : i \in Delimiters(s) <=> i \in 1..Len(s) /\ s[i] = Delimiter
BY DEF Delimiters

(* Two pieces of sequences with the same bytes.                               *)
LEMMA SamePiece ==
  ASSUME NEW S, NEW s \in Seq(S), NEW R, NEW t \in Seq(R), NEW a \in Nat, NEW b \in Nat,
         a <= b, b <= Len(s), NEW o \in Nat, o + b <= Len(t),
         \A i \in (a + 1)..b : s[i] = t[o + i]
  PROVE  SubSeq(s, a + 1, b) = SubSeq(t, o + a + 1, o + b)
<1> DEFINE u == SubSeq(s, a + 1, b)
           v == SubSeq(t, (o + a) + 1, o + b)
<1>0. o + a \in Nat /\ o + b \in Nat /\ o + a <= o + b /\ (o + b) - (o + a) = b - a
  OBVIOUS
<1>1. u \in Seq(S) /\ Len(u) = b - a /\ \A i \in 1..(b - a) : u[i] = s[a + i]
  BY SubSeqIs
<1>2. v \in Seq(R) /\ Len(v) = b - a /\ \A i \in 1..(b - a) : v[i] = t[(o + a) + i]
  <2> DEFINE p == o + a
             q == o + b
  <2>1. p \in Nat /\ q \in Nat /\ p <= q /\ q <= Len(t) /\ q - p = b - a
    BY <1>0
  <2> HIDE DEF p, q
  <2>2. /\ SubSeq(t, p + 1, q) \in Seq(R) /\ Len(SubSeq(t, p + 1, q)) = q - p
        /\ \A i \in 1..(q - p) : SubSeq(t, p + 1, q)[i] = t[p + i]
    BY <2>1, SubSeqIs
  <2> QED
    BY <2>1, <2>2 DEF p, q
<1>3. ASSUME NEW i \in 1..(b - a) PROVE u[i] = v[i]
  <2>1. a + i \in (a + 1)..b /\ (o + a) + i = o + (a + i)
    OBVIOUS
  <2> QED
    BY <1>1, <1>2, <2>1
<1>4. u \in Seq(S \cup R) /\ v \in Seq(S \cup R)
  BY <1>1, <1>2, SeqMonotonic
<1> HIDE DEF u, v
<1>5. u = v
  BY <1>1, <1>2, <1>3, <1>4, SeqEqual
<1> QED
  BY <1>5 DEF u, v

(* SeekLastLines has the bytes o+1..e of s at the front of its buffer B, and  *)
(* no delimiter after them; either s has none after e, or there is one at e.  *)
Block(s, o, e, B) ==
  /\ o <= e /\ e <= Len(s) /\ e - o <= Len(B)
  /\ \A i \in 1..(e - o) : B[i] = s[o + i]
  /\ \A i \in (e - o + 1)..Len(B) : B[i] # Delimiter
  /\ (e > o /\ s[e] = Delimiter) \/ \A k \in (e + 1)..Len(s) : s[k] # Delimiter

LEMMA BlockDelimiters ==
  ASSUME NEW S, NEW s \in Seq(S), NEW R, NEW B \in Seq(R), NEW o \in Nat, NEW e \in Nat,
         Block(s, o, e, B)
  PROVE  \A i \in Nat : i \in Delimiters(B) <=> i \in 1..(e - o) /\ o + i \in Delimiters(s)
<1> SUFFICES ASSUME NEW i \in Nat
             PROVE  i \in Delimiters(B) <=> i \in 1..(e - o) /\ o + i \in Delimiters(s)
  OBVIOUS
<1>1. i \in Delimiters(B) <=> i \in 1..Len(B) /\ B[i] = Delimiter
  BY DelimitersIn
<1>2. o + i \in Delimiters(s) <=> o + i \in 1..Len(s) /\ s[o + i] = Delimiter
  BY DelimitersIn
<1>3. Len(B) \in Nat /\ Len(s) \in Nat
  BY LenProperties
<1>4. CASE i \in 1..(e - o)
  BY <1>1, <1>2, <1>3, <1>4 DEF Block
<1>5. CASE i \notin 1..(e - o)
  BY <1>1, <1>3, <1>5 DEF Block
<1> QED
  BY <1>4, <1>5

(* A whole line of the buffer is a line of s.                                 *)
LEMMA BlockLine ==
  ASSUME NEW S, NEW s \in Seq(S), NEW R, NEW B \in Seq(R), NEW o \in Nat, NEW e \in Nat,
         Block(s, o, e, B), NEW i \in wholeLines(B)
  PROVE  lineAt(B, i) = lineAt(s, o + i)
<1> DEFINE N == {j \in Delimiters(B) : j > i}
           M == {k \in Delimiters(s) : k > o + i}
           m == Min(N)
<1>1. Delimiters(B) \in SUBSET Nat /\ Delimiters(s) \in SUBSET Nat
  BY DelimitersIn
<1>2. i \in Nat /\ N # {} /\ N \in SUBSET Nat /\ M \in SUBSET Nat
  BY <1>1 DEF wholeLines
<1>3. m \in N /\ \A j \in N : m <= j
  <2> HIDE DEF N
  <2> QED
    BY <1>2, MinIs
<1>4. m \in Nat /\ m > i /\ m \in 1..(e - o) /\ o + m \in Delimiters(s)
  BY <1>1, <1>3, BlockDelimiters
<1>5. o + m \in M
  BY <1>2, <1>4
<1>6. ASSUME NEW k \in M PROVE o + m <= k
  <2>1. k \in Nat /\ k > o + i /\ k \in Delimiters(s)
    BY <1>2
  <2>2. CASE k > e
    BY <1>4, <2>1, <2>2
  <2>3. CASE k <= e
    <3>1. k - o \in Nat /\ k - o \in 1..(e - o) /\ o + (k - o) = k /\ k - o > i
      BY <1>2, <2>1, <2>3
    <3>2. k - o \in Delimiters(B)
      BY <2>1, <3>1, BlockDelimiters
    <3>3. m <= k - o
      BY <1>3, <3>1, <3>2
    <3> QED
      BY <1>4, <2>1, <3>3
  <2> QED
    BY <1>4, <2>1, <2>2, <2>3
<1>7. Min(M) = o + m
  <2> HIDE DEF M, m
  <2> QED
    BY <1>2, <1>5, <1>6, MinUnique
<1>8. SubSeq(B, i + 1, m) = SubSeq(s, o + i + 1, o + m)
  <2>1. i <= m /\ m <= Len(B) /\ o + m <= Len(s)
    <3>1. Len(B) \in Nat /\ Len(s) \in Nat
      BY LenProperties
    <3> QED
      BY <1>2, <1>4, <3>1 DEF Block
  <2>2. ASSUME NEW x \in (i + 1)..m PROVE B[x] = s[o + x]
    <3>1. x \in 1..(e - o)
      BY <1>2, <1>4
    <3> QED
      BY <3>1 DEF Block
  <2> HIDE DEF m
  <2> QED
    BY <1>2, <1>4, <2>1, <2>2, SamePiece
<1> QED
  BY <1>7, <1>8 DEF lineAt

LEMMA StartsIn ==
  ASSUME NEW S, NEW s \in Seq(S)
  PROVE  /\ acceptedStarts(s) \in SUBSET (0..Len(s))
         /\ \A k \in acceptedStarts(s) : k > 0 => k \in Delimiters(s)
<1>1. Delimiters(s) \in SUBSET (0..Len(s)) /\ Len(s) \in Nat
  BY DelimitersIn, LenProperties
<1> QED
  BY <1>1 DEF acceptedStarts

(* The lines that SeekLastLines accepts in its buffer.                        *)
acceptedIn(B) == {i \in wholeLines(B) : Filter(lineAt(B, i))}

(* They are the accepted lines of s that start between o and e.               *)
LEMMA BlockAccepted ==
  ASSUME NEW S, NEW s \in Seq(S), NEW R, NEW B \in Seq(R), NEW o \in Nat, NEW e \in Nat,
         Block(s, o, e, B)
  PROVE  /\ acceptedIn(B) \in SUBSET (0..Len(B))
         /\ \A i \in Nat : i \in acceptedIn(B)
                             <=> o + i \in acceptedStarts(s) /\ o < o + i /\ o + i < e
<1>1. Delimiters(B) \in SUBSET (0..Len(B)) /\ Delimiters(s) \in SUBSET (0..Len(s))
  BY DelimitersIn
<1>2. Len(B) \in Nat /\ Len(s) \in Nat
  BY LenProperties
<1>3. acceptedIn(B) \in SUBSET (0..Len(B))
  BY <1>1 DEF acceptedIn, wholeLines
<1>4. ASSUME NEW i \in Nat, i \in acceptedIn(B)
      PROVE  o + i \in acceptedStarts(s) /\ o < o + i /\ o + i < e
  <2>1. i \in wholeLines(B) /\ Filter(lineAt(B, i))
    BY <1>4 DEF acceptedIn
  <2>2. PICK j \in Delimiters(B) : i \in Delimiters(B) /\ i < j
    BY <2>1 DEF wholeLines
  <2>3. j \in Nat
    BY <1>1, <1>2
  <2>4. /\ i \in 1..(e - o) /\ o + i \in Delimiters(s)
        /\ j \in 1..(e - o) /\ o + j \in Delimiters(s)
    BY <2>2, <2>3, BlockDelimiters
  <2>5. Filter(lineAt(s, o + i))
    <3>1. lineAt(B, i) = lineAt(s, o + i)
      BY <2>1, BlockLine
    <3> QED
      BY <2>1, <3>1
  <2>6. o + i < o + j /\ o < o + i /\ o + i < e
    BY <2>2, <2>3, <2>4
  <2> QED
    BY <2>4, <2>5, <2>6 DEF acceptedStarts
<1>5. ASSUME NEW i \in Nat, o + i \in acceptedStarts(s), o < o + i, o + i < e
      PROVE  i \in acceptedIn(B)
  <2>1. o + i \in Delimiters(s) /\ Filter(lineAt(s, o + i))
    BY <1>5, StartsIn DEF acceptedStarts
  <2>2. PICK k \in Delimiters(s) : o + i < k
    BY <1>5 DEF acceptedStarts
  <2>3. PICK l \in Delimiters(s) : o + i < l /\ l <= e
    <3>1. CASE e > o /\ s[e] = Delimiter
      <4>1. e \in 1..Len(s)
        BY <1>2, <3>1 DEF Block
      <4> QED
        BY <1>5, <3>1, <4>1, DelimitersIn
    <3>2. CASE \A x \in (e + 1)..Len(s) : s[x] # Delimiter
      <4>1. k \in 1..Len(s) /\ s[k] = Delimiter
        BY DelimitersIn
      <4>2. k <= e
        BY <1>2, <3>2, <4>1
      <4> QED
        BY <2>2, <4>2
    <3> QED
      BY <3>1, <3>2 DEF Block
  <2>4. l \in Nat
    BY <1>1, <1>2
  <2>5. l - o \in Nat /\ l - o \in 1..(e - o) /\ o + (l - o) = l /\ i < l - o
    BY <1>5, <2>3, <2>4
  <2>6. i \in Delimiters(B) /\ l - o \in Delimiters(B)
    <3>1. i \in 1..(e - o)
      BY <1>5
    <3> QED
      BY <2>1, <2>3, <2>5, <3>1, BlockDelimiters
  <2>7. i \in wholeLines(B)
    BY <2>5, <2>6 DEF wholeLines
  <2>8. lineAt(B, i) = lineAt(s, o + i)
    BY <2>7, BlockLine
  <2> QED
    BY <2>1, <2>7, <2>8 DEF acceptedIn
<1> QED
  BY <1>3, <1>4, <1>5

(* Counting from an accepted line of the buffer, or from all of them.         *)
LEMMA BlockCount ==
  ASSUME NEW S, NEW s \in Seq(S), NEW R, NEW B \in Seq(R), NEW o \in Nat, NEW e \in Nat,
         Block(s, o, e, B), NEW i \in Nat
  PROVE  LET rest == {k \in acceptedStarts(s) : k >= e} IN
         i <= e - o /\ i > 0 =>
           Cardinality({k \in acceptedStarts(s) : k >= o + i})
             = Cardinality({j \in acceptedIn(B) : j >= i}) + Cardinality(rest)
<1> DEFINE rest == {k \in acceptedStarts(s) : k >= e}
           A == {j \in acceptedIn(B) : j >= i}
           T == {o + j : j \in A}
<1> SUFFICES ASSUME i <= e - o, i > 0
             PROVE  Cardinality({k \in acceptedStarts(s) : k >= o + i})
                      = Cardinality(A) + Cardinality(rest)
  OBVIOUS
<1>1. /\ acceptedIn(B) \in SUBSET (0..Len(B)) /\ acceptedStarts(s) \in SUBSET (0..Len(s))
      /\ Len(B) \in Nat /\ Len(s) \in Nat
  BY BlockAccepted, StartsIn, LenProperties
<1>2. \A j \in A : j \in Nat /\ j >= i /\ o + j \in acceptedStarts(s) /\ o + j < e
  <2>1. \A j \in acceptedIn(B) : j \in Nat
    BY <1>1
  <2> QED
    BY <2>1, BlockAccepted
<1>3. A \in SUBSET (0..Len(B)) /\ rest \in SUBSET (0..Len(s))
  BY <1>1
<1>4. T \in SUBSET (0..Len(s)) /\ T \cap rest = {}
  <2>1. \A t \in T : t \in acceptedStarts(s) /\ t < e
    BY <1>2
  <2>2. \A t \in acceptedStarts(s) : t \in Nat
    BY <1>1
  <2> QED
    BY <1>1, <2>1, <2>2
<1>5. {k \in acceptedStarts(s) : k >= o + i} = T \cup rest
  <2>1. ASSUME NEW k \in acceptedStarts(s), k >= o + i PROVE k \in T \cup rest
    <3>1. k \in Nat
      BY <1>1
    <3>2. CASE k >= e
      BY <3>2
    <3>3. CASE k < e
      <4>1. k - o \in Nat /\ o + (k - o) = k /\ k - o >= i /\ o < k
        BY <2>1, <3>1
      <4>2. k - o \in acceptedIn(B)
        BY <3>3, <4>1, BlockAccepted
      <4> QED
        BY <4>1, <4>2
    <3> QED
      BY <3>1, <3>2, <3>3
  <2>2. ASSUME NEW k \in T \cup rest PROVE k \in acceptedStarts(s) /\ k >= o + i
    <3>1. CASE k \in rest
      <4>1. k \in Nat
        BY <1>1, <3>1
      <4> QED
        BY <3>1, <4>1
    <3>2. CASE k \in T
      BY <1>2, <3>2
    <3> QED
      BY <3>1, <3>2
  <2> HIDE DEF T, rest
  <2> QED
    BY <2>1, <2>2
<1> HIDE DEF A, rest
<1>6. Cardinality(T) = Cardinality(A)
  BY <1>1, <1>3, ShiftCount
<1> HIDE DEF T
<1>7. Cardinality(T \cup rest) = Cardinality(T) + Cardinality(rest)
  BY <1>1, <1>3, <1>4, DisjointCount, ZenonT(40)
<1> QED
  BY <1>5, <1>6, <1>7

(* One block of SeekLastLines: the first delimiter of the buffer is the next  *)
(* one of s, what has been counted are the lines from there on, and when they *)
(* are enough the line picked in the buffer is the one wanted in s.           *)
LEMMA BlockFirst ==
  ASSUME NEW S, NEW s \in Seq(S), NEW R, NEW B \in Seq(R), NEW o \in Nat, NEW e \in Nat,
         Block(s, o, e, B), Delimiters(B) # {}
  PROVE  LET m == Min(Delimiters(B)) IN
         /\ m \in 1..(e - o) /\ m \in 1..Len(B) /\ o + m \in Delimiters(s)
         /\ \A k \in (o + 1)..(o + m - 1) : s[k] # Delimiter
         /\ \A i \in acceptedIn(B) : i >= m
<1> DEFINE m == Min(Delimiters(B))
<1>1. Delimiters(B) \in SUBSET Nat /\ Len(B) \in Nat /\ Len(s) \in Nat
  BY DelimitersIn, LenProperties
<1>2. m \in Delimiters(B) /\ \A j \in Delimiters(B) : m <= j
  BY <1>1, MinIs
<1> HIDE DEF m
<1>3. m \in Nat /\ m \in 1..(e - o) /\ m \in 1..Len(B) /\ o + m \in Delimiters(s)
  BY <1>1, <1>2, BlockDelimiters, DelimitersIn
<1>4. ASSUME NEW k \in (o + 1)..(o + m - 1), s[k] = Delimiter PROVE FALSE
  <2>1. k - o \in Nat /\ o + (k - o) = k /\ k - o \in 1..(e - o) /\ k - o < m
    BY <1>3
  <2>2. k \in Delimiters(s)
    <3>1. k \in 1..Len(s)
      BY <1>1, <1>3, <2>1 DEF Block
    <3> QED
      BY <1>4, <3>1, DelimitersIn
  <2>3. k - o \in Delimiters(B)
    BY <2>1, <2>2, BlockDelimiters
  <2> QED
    BY <1>2, <1>3, <2>1, <2>3
<1>5. ASSUME NEW i \in acceptedIn(B) PROVE i >= m
  <2>1. i \in Delimiters(B)
    BY DEF acceptedIn, wholeLines
  <2> QED
    BY <1>1, <1>2, <2>1
<1> QED
  BY <1>3, <1>4, <1>5 DEF m

fromEnd(A, n) == CHOOSE i \in A : Cardinality({j \in A : j >= i}) = n

LEMMA BlockSeek ==
  ASSUME NEW S, NEW s \in Seq(S), NEW R, NEW B \in Seq(R), NEW o \in Nat, NEW e \in Nat,
         Block(s, o, e, B), Delimiters(B) # {}, NEW f \in Nat,
         f = Cardinality(upFrom(acceptedStarts(s), e))
  PROVE  /\ Cardinality(acceptedIn(B)) \in Nat
         /\ f + Cardinality(acceptedIn(B))
              = Cardinality(upFrom(acceptedStarts(s), o + Min(Delimiters(B))))
         /\ \A n \in Nat \ {0} :
              f < n /\ f + Cardinality(acceptedIn(B)) >= n =>
                /\ o + fromEnd(acceptedIn(B), n - f) = LastLines(s, n)
                /\ o + fromEnd(acceptedIn(B), n - f) \in 0..Len(s)
<1> DEFINE m == Min(Delimiters(B))
           A == acceptedIn(B)
           Z == acceptedStarts(s)
<1>1. Len(B) \in Nat /\ Len(s) \in Nat
  BY LenProperties
<1>2. A \in SUBSET (0..Len(B)) /\ Z \in SUBSET (0..Len(s))
  BY BlockAccepted, StartsIn
<1>3. m \in Nat /\ m > 0 /\ m <= e - o /\ \A i \in A : i >= m
  BY BlockFirst
<1>4. Cardinality(A) \in Nat
  BY <1>1, <1>2, Bounded
<1>5. \A i \in Nat : i <= e - o /\ i > 0 =>
        Cardinality(upFrom(Z, o + i)) = Cardinality({j \in A : j >= i}) + f
  BY BlockCount DEF upFrom
<1>6. f + Cardinality(A) = Cardinality(upFrom(Z, o + m))
  <2> HIDE DEF m, A
  <2>1. {j \in A : j >= m} = A
    BY <1>3
  <2>2. Cardinality(upFrom(Z, o + m)) = Cardinality(A) + f
    BY <1>3, <1>5, <2>1
  <2> QED
    BY <1>4, <2>2
<1>7. ASSUME NEW n \in Nat \ {0}, f < n, f + Cardinality(A) >= n,
             NEW i, i = fromEnd(A, n - f)
      PROVE  o + i = LastLines(s, n) /\ o + i \in 0..Len(s)
  <2>1. n - f \in 1..Cardinality(A)
    BY <1>4, <1>7
  <2>2. \E x \in A : Cardinality(upFrom(A, x)) = n - f
    <3> HIDE DEF A
    <3> QED
      BY <1>1, <1>2, <2>1, FromTheEnd
  <2>3. i \in A /\ Cardinality({j \in A : j >= i}) = n - f
    BY <1>7, <2>2 DEF upFrom, fromEnd
  <2>4. i \in Nat /\ i > 0 /\ o + i \in Z /\ o + i < e
    <3>1. i \in Nat
      BY <1>1, <1>2, <2>3
    <3> QED
      BY <2>3, <3>1, BlockAccepted
  <2>5. Cardinality(upFrom(Z, o + i)) = n
    <3>1. i <= e - o
      BY <2>4
    <3>2. Cardinality(upFrom(Z, o + i)) = (n - f) + f
      BY <1>5, <2>3, <2>4, <3>1
    <3> QED
      BY <3>2
  <2>6. Cardinality(upFrom(Z, o + i)) <= Cardinality(Z) /\ Cardinality(Z) \in Nat
    <3>1. upFrom(Z, o + i) \in SUBSET Z
      BY DEF upFrom
    <3> HIDE DEF Z
    <3> QED
      BY <1>1, <1>2, <3>1, Bounded
  <2> DEFINE k == CHOOSE x \in Z : Cardinality(upFrom(Z, x)) = n
  <2>7. k \in Z /\ Cardinality(upFrom(Z, k)) = n
    BY <2>4, <2>5
  <2>8. k = o + i
    <3> HIDE DEF k, Z
    <3> QED
      BY <1>1, <1>2, <2>4, <2>5, <2>7, FromTheEndUnique
  <2>9. LastLines(s, n) = k
    <3>1. n # 0 /\ ~ (Cardinality(Z) < n)
      BY <2>5, <2>6
    <3> QED
      BY <3>1, Zenon DEF LastLines, upFrom
  <2> QED
    BY <1>1, <1>2, <2>4, <2>8, <2>9
<1> QED
  BY <1>4, <1>6, <1>7 DEF upFrom

-----------------------------------------------------------------------------
(* The steps of SeekLastLines.                                                *)

(* The file that SeekLastLines saw, where its next block starts and what its  *)
(* buffer then has.                                                           *)
text       == SubSeq(file, 1, size)
nextOffset == offset - space
block      == SubSeq(file, nextOffset + 1, offset) \o sbuf

LEMMA TextIs ==
  ASSUME Typed
  PROVE  /\ Len(file) \in Nat /\ size \in Nat /\ size <= Len(file)
         /\ text \in Seq(Byte) /\ Len(text) = size /\ \A i \in 1..size : text[i] = file[i]
<1>1. file \in Seq(Byte) /\ Len(file) \in Nat /\ size \in Nat /\ size <= Len(file)
  BY LenProperties DEF Typed
<1>2. /\ SubSeq(file, 0 + 1, size) \in Seq(Byte) /\ Len(SubSeq(file, 0 + 1, size)) = size - 0
      /\ \A i \in 1..(size - 0) : SubSeq(file, 0 + 1, size)[i] = file[0 + i]
  BY <1>1, SubSeqIs
<1>3. 0 + 1 = 1 /\ size - 0 = size /\ \A i \in 1..size : 0 + i = i
  BY <1>1
<1> QED
  BY <1>1, <1>2, <1>3 DEF text

LEMMA BlockIs ==
  ASSUME Typed, SeekInv, pc = "seek", offset > 0
  PROVE  /\ offset \in Nat /\ offset <= size /\ Len(sbuf) \in Nat
         /\ capacity \in Nat /\ space \in Nat /\ nextOffset \in Nat /\ nextOffset <= offset
         /\ nextOffset + space = offset
         /\ block \in Seq(Byte \cup {Zero}) /\ Len(block) = space + Len(sbuf)
         /\ Len(block) <= capacity
         /\ \A i \in 1..space : block[i] = file[nextOffset + i]
         /\ \A i \in 1..Len(sbuf) : block[space + i] = sbuf[i]
<1> DEFINE a == SubSeq(file, nextOffset + 1, offset)
<1>1. /\ sbuf \in Seq(Byte \cup {Zero}) /\ scap \in Nat /\ Len(sbuf) <= scap
      /\ offset \in Nat /\ offset <= size /\ Len(sbuf) \in Nat
      /\ file \in Seq(Byte) /\ Len(file) \in Nat /\ offset <= Len(file)
  <2>1. sbuf \in Seq(Byte \cup {Zero}) /\ scap \in Nat /\ Len(sbuf) <= scap /\ offset \in 0..size
    BY DEF SeekInv
  <2>2. size \in Nat /\ size <= Len(file) /\ Len(file) \in Nat /\ file \in Seq(Byte)
    BY TextIs DEF Typed
  <2> QED
    BY <2>1, <2>2, LenProperties
<1>2. capacity \in Nat /\ capacity >= Len(sbuf)
  BY <1>1, SizesAssumption DEF capacity
<1>3. space \in Nat /\ space <= offset /\ space <= capacity - Len(sbuf)
  BY <1>1, <1>2 DEF space
<1>4. nextOffset \in Nat /\ nextOffset <= offset /\ nextOffset + space = offset
      /\ offset - nextOffset = space
  BY <1>1, <1>3 DEF nextOffset
<1>5. a \in Seq(Byte) /\ Len(a) = space /\ \A i \in 1..space : a[i] = file[nextOffset + i]
  BY <1>1, <1>4, SubSeqIs
<1> HIDE DEF a
<1>6. a \in Seq(Byte \cup {Zero})
  BY <1>5, SeqMonotonic
<1>7. /\ a \o sbuf \in Seq(Byte \cup {Zero}) /\ Len(a \o sbuf) = space + Len(sbuf)
      /\ \A i \in 1..(space + Len(sbuf)) :
           (a \o sbuf)[i] = IF i <= space THEN a[i] ELSE sbuf[i - space]
  BY <1>1, <1>5, <1>6, ConcatProperties
<1>8. block = a \o sbuf
  BY DEF block, a
<1>9. ASSUME NEW i \in 1..space PROVE block[i] = file[nextOffset + i]
  <2>1. i \in 1..(space + Len(sbuf)) /\ i <= space
    BY <1>1, <1>3
  <2> QED
    BY <1>5, <1>7, <1>8, <2>1
<1>10. ASSUME NEW i \in 1..Len(sbuf) PROVE block[space + i] = sbuf[i]
  <2>1. space + i \in 1..(space + Len(sbuf)) /\ ~ (space + i <= space) /\ (space + i) - space = i
    BY <1>1, <1>3
  <2> QED
    BY <1>7, <1>8, <2>1
<1>11. space + Len(sbuf) <= capacity
  BY <1>1, <1>2, <1>3
<1> QED
  BY <1>1, <1>2, <1>3, <1>4, <1>7, <1>8, <1>9, <1>10, <1>11

(* Before it has seen a delimiter, all of the buffer after the new bytes is   *)
(* of no account; afterwards the buffer has the bytes up to the next one.     *)
LEMMA SeekBlock ==
  ASSUME Typed, SeekInv, pc = "seek", offset > 0
  PROVE  \E e \in Nat : /\ Block(text, nextOffset, e, block)
                        /\ found = Cardinality({k \in acceptedStarts(text) : k >= e})
                        /\ \/ Unseen /\ e = offset
                           \/ nextOffset < e /\ text[e] = Delimiter
<1> DEFINE o == nextOffset
<1>1. /\ size \in Nat /\ text \in Seq(Byte) /\ Len(text) = size
      /\ \A i \in 1..size : text[i] = file[i]
  BY TextIs
<1>2. /\ offset \in Nat /\ offset <= size /\ Len(sbuf) \in Nat
      /\ space \in Nat /\ o \in Nat /\ o <= offset /\ o + space = offset
      /\ block \in Seq(Byte \cup {Zero}) /\ Len(block) = space + Len(sbuf)
      /\ \A i \in 1..space : block[i] = file[o + i]
      /\ \A i \in 1..Len(sbuf) : block[space + i] = sbuf[i]
  BY BlockIs
<1> HIDE DEF o
<1>3. CASE Unseen
  <2>1. \A i \in 1..space : block[i] = text[o + i]
    BY <1>1, <1>2
  <2>2. ASSUME NEW i \in (space + 1)..Len(block), block[i] = Delimiter PROVE FALSE
    <3>1. i - space \in 1..Len(sbuf) /\ space + (i - space) = i
      BY <1>2
    <3>2. sbuf[i - space] = Delimiter
      BY <1>2, <2>2, <3>1
    <3>3. sbuf \in Seq(Byte \cup {Zero})
      BY DEF SeekInv
    <3>4. i - space \in Delimiters(sbuf)
      BY <3>1, <3>2, <3>3, DelimitersIn
    <3> QED
      BY <1>3, <3>4 DEF Unseen
  <2>3. \A k \in (offset + 1)..size : text[k] # Delimiter
    BY <1>1, <1>2, <1>3 DEF Unseen
  <2>4. Block(text, o, offset, block)
    BY <1>1, <1>2, <2>1, <2>2, <2>3 DEF Block
  <2>5. {k \in acceptedStarts(text) : k >= offset} = {}
    <3>1. ASSUME NEW k \in acceptedStarts(text), k >= offset PROVE FALSE
      <4>1. k \in Nat
        BY <1>1, StartsIn
      <4>2. PICK j \in Delimiters(text) : k < j
        BY DEF acceptedStarts
      <4>3. j \in 1..size /\ text[j] = Delimiter
        BY <1>1, DelimitersIn
      <4> QED
        BY <1>2, <2>3, <3>1, <4>1, <4>2, <4>3
    <3> QED
      BY <3>1
  <2>6. found = Cardinality({k \in acceptedStarts(text) : k >= offset})
    BY <1>3, <2>5, FS_EmptySet DEF Unseen
  <2> QED
    BY <1>2, <1>3, <2>4, <2>6 DEF o
<1>4. ASSUME NEW d \in (offset + 1)..size, SeenFrom(d)
      PROVE  /\ d \in Nat /\ o < d /\ text[d] = Delimiter /\ Block(text, o, d, block)
             /\ found = Cardinality({k \in acceptedStarts(text) : k >= d})
  <2>1. d \in Nat /\ d > offset /\ d <= size /\ d - o = space + Len(sbuf) /\ Len(sbuf) = d - offset
    BY <1>2, <1>4 DEF SeenFrom
  <2>2. ASSUME NEW i \in 1..(d - o) PROVE block[i] = text[o + i]
    <3>1. o + i \in 1..size
      BY <1>1, <1>2, <2>1
    <3>2. CASE i <= space
      BY <1>1, <1>2, <3>1, <3>2
    <3>3. CASE i > space
      <4>1. i - space \in 1..Len(sbuf) /\ space + (i - space) = i /\ i - space \in 1..(d - offset)
            /\ offset + (i - space) = o + i
        BY <1>2, <2>1, <3>3
      <4>2. block[i] = file[o + i]
        <5>1. block[space + (i - space)] = sbuf[i - space]
          BY <1>2, <4>1
        <5>2. sbuf[i - space] = file[offset + (i - space)]
          BY <1>4, <4>1 DEF SeenFrom
        <5> QED
          BY <4>1, <5>1, <5>2
      <4> QED
        BY <1>1, <3>1, <4>2
    <3> QED
      BY <1>2, <3>2, <3>3
  <2>3. text[d] = Delimiter
    BY <1>1, <1>2, <1>4, <2>1 DEF SeenFrom
  <2>4. Block(text, o, d, block)
    BY <1>1, <1>2, <2>1, <2>2, <2>3 DEF Block
  <2>5. found = Cardinality({k \in acceptedStarts(text) : k >= d})
    BY <1>4 DEF SeenFrom, text
  <2>6. o < d
    BY <1>2, <2>1
  <2> QED
    BY <2>1, <2>3, <2>4, <2>5, <2>6
<1>5. Unseen \/ \E d \in (offset + 1)..size : SeenFrom(d)
  BY DEF SeekInv
<1> QED
  BY <1>3, <1>4, <1>5 DEF o

LEMMA SeekMoreUnseen ==
  ASSUME Typed, SeekInv, pc = "seek", offset > 0, Delimiters(block) = {}
  PROVE  found = 0 /\ \A k \in (nextOffset + 1)..size : file[k] # Delimiter
<1>1. PICK e \in Nat : /\ Block(text, nextOffset, e, block)
                       /\ \/ Unseen /\ e = offset
                          \/ nextOffset < e /\ text[e] = Delimiter
  BY SeekBlock
<1>2. /\ size \in Nat /\ text \in Seq(Byte) /\ Len(text) = size
      /\ \A i \in 1..size : text[i] = file[i]
  BY TextIs
<1>3. /\ offset \in Nat /\ offset <= size /\ nextOffset \in Nat /\ nextOffset <= offset
      /\ block \in Seq(Byte \cup {Zero})
  BY BlockIs
<1>4. ASSUME NEW k \in (nextOffset + 1)..e, k <= size, text[k] = Delimiter PROVE FALSE
  <2>1. k - nextOffset \in Nat /\ k - nextOffset \in 1..(e - nextOffset)
        /\ nextOffset + (k - nextOffset) = k /\ k \in 1..size
    BY <1>2, <1>3, <1>4
  <2>2. k \in Delimiters(text)
    BY <1>2, <1>4, <2>1, DelimitersIn
  <2>3. k - nextOffset \in Delimiters(block)
    <3>1. \A i \in Nat : i \in Delimiters(block)
                            <=> i \in 1..(e - nextOffset) /\ nextOffset + i \in Delimiters(text)
      BY <1>1, <1>2, <1>3, BlockDelimiters
    <3> QED
      BY <2>1, <2>2, <3>1
  <2> QED
    BY <2>3
<1>5. Unseen /\ e = offset
  <2>1. ASSUME nextOffset < e, text[e] = Delimiter PROVE FALSE
    <3>1. e \in (nextOffset + 1)..e /\ e <= size
      BY <1>1, <1>2, <1>3, <2>1 DEF Block
    <3> QED
      BY <1>4, <2>1, <3>1
  <2> QED
    BY <1>1, <2>1
<1>6. ASSUME NEW k \in (nextOffset + 1)..size PROVE file[k] # Delimiter
  <2>1. CASE k > offset
    BY <1>2, <1>3, <1>5, <2>1 DEF Unseen
  <2>2. CASE k <= offset
    BY <1>2, <1>3, <1>4, <1>5, <2>2
  <2> QED
    BY <1>3, <2>1, <2>2
<1> QED
  BY <1>5, <1>6 DEF Unseen

LEMMA SeekMoreSeen ==
  ASSUME Typed, SeekInv, pc = "seek", offset > 0, Delimiters(block) # {}
  PROVE  LET m == Min(Delimiters(block))
             first == SubSeq(block, 1, m)
         IN  /\ m \in Nat /\ m > 0 /\ nextOffset + m <= size /\ m <= Len(block)
             /\ file[nextOffset + m] = Delimiter
             /\ \A k \in (nextOffset + 1)..(nextOffset + m - 1) : file[k] # Delimiter
             /\ first \in Seq(Byte \cup {Zero}) /\ Len(first) = m
             /\ \A i \in 1..m : first[i] = file[nextOffset + i]
             /\ found + Cardinality(acceptedIn(block))
                  = Cardinality(upFrom(acceptedStarts(text), nextOffset + m))
             /\ found \in Nat /\ Cardinality(acceptedIn(block)) \in Nat
             /\ \A n \in Nat \ {0} :
                  found < n /\ found + Cardinality(acceptedIn(block)) >= n =>
                    /\ nextOffset + fromEnd(acceptedIn(block), n - found) = LastLines(text, n)
                    /\ nextOffset + fromEnd(acceptedIn(block), n - found) \in 0..size
<1> DEFINE m == Min(Delimiters(block))
           first == SubSeq(block, 1, m)
<1>1. PICK e \in Nat : /\ Block(text, nextOffset, e, block)
                       /\ found = Cardinality(upFrom(acceptedStarts(text), e))
  BY SeekBlock DEF upFrom
<1>2. /\ size \in Nat /\ text \in Seq(Byte) /\ Len(text) = size
      /\ \A i \in 1..size : text[i] = file[i]
  BY TextIs
<1>3. /\ nextOffset \in Nat /\ block \in Seq(Byte \cup {Zero}) /\ Len(block) \in Nat
  BY BlockIs, LenProperties
<1>4. found \in Nat
  <2>1. acceptedStarts(text) \in SUBSET (0..size)
    BY <1>2, StartsIn
  <2> QED
    BY <1>1, <1>2, <2>1, Bounded DEF upFrom
<1>5. /\ m \in 1..(e - nextOffset) /\ m \in 1..Len(block) /\ nextOffset + m \in Delimiters(text)
      /\ \A k \in (nextOffset + 1)..(nextOffset + m - 1) : text[k] # Delimiter
  BY <1>1, <1>2, <1>3, BlockFirst
<1>6. /\ Cardinality(acceptedIn(block)) \in Nat
      /\ found + Cardinality(acceptedIn(block))
              = Cardinality(upFrom(acceptedStarts(text), nextOffset + m))
      /\ \A n \in Nat \ {0} :
              found < n /\ found + Cardinality(acceptedIn(block)) >= n =>
                /\ nextOffset + fromEnd(acceptedIn(block), n - found) = LastLines(text, n)
                /\ nextOffset + fromEnd(acceptedIn(block), n - found) \in 0..Len(text)
  BY <1>1, <1>2, <1>3, <1>4, BlockSeek
<1> HIDE DEF m
<1>7. /\ m \in Nat /\ m > 0 /\ nextOffset + m <= size /\ m <= Len(block)
      /\ file[nextOffset + m] = Delimiter
      /\ \A k \in (nextOffset + 1)..(nextOffset + m - 1) : file[k] # Delimiter
  <2>1. nextOffset + m \in 1..size /\ text[nextOffset + m] = Delimiter
    BY <1>2, <1>5, DelimitersIn
  <2>2. m \in Nat /\ m > 0 /\ nextOffset + m <= size /\ m <= Len(block)
    BY <1>3, <1>5, <2>1
  <2> QED
    BY <1>2, <1>3, <1>5, <2>1, <2>2
<1>8. /\ first \in Seq(Byte \cup {Zero}) /\ Len(first) = m
      /\ \A i \in 1..m : first[i] = block[i]
  <2>1. /\ SubSeq(block, 0 + 1, m) \in Seq(Byte \cup {Zero})
        /\ Len(SubSeq(block, 0 + 1, m)) = m - 0
        /\ \A i \in 1..(m - 0) : SubSeq(block, 0 + 1, m)[i] = block[0 + i]
    BY <1>3, <1>7, SubSeqIs
  <2>2. 0 + 1 = 1 /\ m - 0 = m /\ \A i \in 1..m : 0 + i = i
    BY <1>7
  <2> QED
    BY <2>1, <2>2
<1>9. ASSUME NEW i \in 1..m PROVE first[i] = file[nextOffset + i]
  <2>1. i \in 1..(e - nextOffset) /\ nextOffset + i \in 1..size
    BY <1>2, <1>3, <1>5, <1>7
  <2>2. block[i] = text[nextOffset + i]
    BY <1>1, <2>1 DEF Block
  <2> QED
    BY <1>2, <1>8, <2>1, <2>2
<1> HIDE DEF first
<1>10. \A n \in Nat \ {0} :
              found < n /\ found + Cardinality(acceptedIn(block)) >= n =>
                /\ nextOffset + fromEnd(acceptedIn(block), n - found) = LastLines(text, n)
                /\ nextOffset + fromEnd(acceptedIn(block), n - found) \in 0..size
  BY <1>2, <1>6
<1> QED
  BY <1>4, <1>6, <1>7, <1>8, <1>9, <1>10 DEF m, first

LEMMA SeekMoreStep ==
  ASSUME Typed, SeekInv, SeekMore
  PROVE  SeekInv'
<1> DEFINE m == Min(Delimiters(block))
           count == Cardinality(acceptedIn(block))
           enough == found + count >= lines
<1>1. /\ pc = "seek" /\ offset > 0
      /\ UNCHANGED <<file, lines, size, misplaced>>
  BY DEF SeekMore
<1>2. /\ lines \in Nat \ {0} /\ offset \in 0..size /\ found < lines /\ seekPos = 0
  BY <1>1 DEF SeekInv
<1>3. CASE pc' = "failed"
  BY <1>3 DEF SeekInv, SeekedRight
<1>4. CASE pc' # "failed"
  <2>1. /\ scap' = capacity /\ offset' = nextOffset
        /\ IF Delimiters(block) = {}
             THEN sbuf' = <<>> /\ UNCHANGED <<found, seekPos, pc>>
             ELSE /\ sbuf' = SubSeq(block, 1, m)
                  /\ found' = IF enough THEN lines ELSE found + count
                  /\ IF enough
                       THEN /\ seekPos' = nextOffset + fromEnd(acceptedIn(block), lines - found)
                            /\ pc' = "position"
                       ELSE UNCHANGED <<seekPos, pc>>
    BY <1>4 DEF SeekMore, nextOffset, block, acceptedIn, fromEnd
  <2>2. /\ capacity \in Nat /\ nextOffset \in Nat /\ nextOffset <= size
        /\ block \in Seq(Byte \cup {Zero}) /\ Len(block) <= capacity /\ Len(block) \in Nat
    <3>1. size \in Nat
      BY TextIs
    <3> QED
      BY <1>1, <3>1, BlockIs, LenProperties
  <2>3. CASE Delimiters(block) = {}
    <3>1. found = 0 /\ \A k \in (nextOffset + 1)..size : file[k] # Delimiter
      BY <1>1, <2>3, SeekMoreUnseen
    <3>2. /\ sbuf' = <<>> /\ found' = 0 /\ seekPos' = 0 /\ pc' = "seek"
      BY <1>1, <1>2, <2>1, <2>3, <3>1
    <3>3. sbuf' \in Seq(Byte \cup {Zero}) /\ Len(sbuf') = 0 /\ Delimiters(sbuf') = {}
      BY <3>2 DEF Delimiters
    <3>4. Unseen'
      BY <1>1, <2>1, <3>1, <3>2, <3>3 DEF Unseen
    <3>5. offset' \in 0..size' /\ Len(sbuf') <= scap' /\ scap' \in Nat
      BY <1>1, <2>1, <2>2, <3>3
    <3> QED
      BY <1>1, <1>2, <3>1, <3>2, <3>3, <3>4, <3>5 DEF SeekInv, SeekedRight
  <2>4. CASE Delimiters(block) # {}
    <3>1. /\ m \in Nat /\ m > 0 /\ nextOffset + m <= size /\ m <= Len(block)
          /\ file[nextOffset + m] = Delimiter
          /\ \A k \in (nextOffset + 1)..(nextOffset + m - 1) : file[k] # Delimiter
          /\ SubSeq(block, 1, m) \in Seq(Byte \cup {Zero}) /\ Len(SubSeq(block, 1, m)) = m
          /\ \A i \in 1..m : SubSeq(block, 1, m)[i] = file[nextOffset + i]
          /\ found + count = Cardinality(upFrom(acceptedStarts(text), nextOffset + m))
          /\ found \in Nat /\ count \in Nat
      BY <1>1, <2>4, SeekMoreSeen
    <3>2. enough =>
            /\ nextOffset + fromEnd(acceptedIn(block), lines - found) = LastLines(text, lines)
            /\ nextOffset + fromEnd(acceptedIn(block), lines - found) \in 0..size
      BY <1>1, <1>2, <2>4, SeekMoreSeen
    <3> HIDE DEF m, count
    <3>3. CASE enough
      <4>1. seekPos' = LastLines(text, lines) /\ seekPos' \in 0..size /\ pc' = "position"
        BY <2>1, <2>4, <3>2, <3>3
      <4>2. text' = text
        BY <1>1 DEF text
      <4> QED
        BY <1>1, <1>2, <4>1, <4>2 DEF SeekInv, SeekedRight, text
    <3>4. CASE ~enough
      <4>1. /\ sbuf' = SubSeq(block, 1, m) /\ found' = found + count /\ offset' = nextOffset
            /\ seekPos' = 0 /\ pc' = "seek" /\ scap' = capacity
        BY <1>1, <1>2, <2>1, <2>4, <3>4
      <4>0. PICK d \in Nat : d = nextOffset + m
        BY <2>2, <3>1
      <4>2. d \in (offset' + 1)..size' /\ d - offset' = m
        BY <1>1, <2>2, <3>1, <4>0, <4>1
      <4>3. SeenFrom(d)'
        <5>1. file'[d] = Delimiter /\ \A k \in (offset' + 1)..(d - 1) : file'[k] # Delimiter
          <6>1. file'[d] = Delimiter
            BY <1>1, <3>1, <4>0
          <6>2. ASSUME NEW k \in (offset' + 1)..(d - 1) PROVE file'[k] # Delimiter
            <7>1. k \in (nextOffset + 1)..(nextOffset + m - 1)
              BY <2>2, <3>1, <4>0, <4>1
            <7> QED
              BY <1>1, <3>1, <7>1
          <6> QED
            BY <6>1, <6>2
        <5>2. Len(sbuf') = d - offset'
              /\ \A i \in 1..(d - offset') : sbuf'[i] = file'[offset' + i]
          BY <1>1, <3>1, <4>1, <4>2
        <5>3. found' = Cardinality({i \in acceptedStarts(SubSeq(file', 1, size')) : i >= d})
          BY <1>1, <3>1, <4>0, <4>1 DEF upFrom, text
        <5> QED
          BY <5>1, <5>2, <5>3 DEF SeenFrom
      <4>4. \E x \in (offset' + 1)..size' : SeenFrom(x)'
        BY <4>2, <4>3
      <4>5. /\ sbuf' \in Seq(Byte \cup {Zero}) /\ Len(sbuf') <= scap' /\ scap' \in Nat
            /\ offset' \in 0..size'
        BY <1>1, <2>2, <3>1, <4>1
      <4>6. found' < lines' /\ lines' \in Nat \ {0}
        BY <1>1, <1>2, <3>1, <3>4, <4>1
      <4> QED
        BY <4>1, <4>4, <4>5, <4>6 DEF SeekInv, SeekedRight
    <3> QED
      BY <3>3, <3>4
  <2> QED
    BY <2>3, <2>4
<1> QED
  BY <1>3, <1>4

(* The lines found are all there are once the whole file has been read.       *)
LEMMA TooFew ==
  ASSUME Typed, SeekInv, pc = "seek", offset = 0
  PROVE  LastLines(text, lines) = 0
<1>1. /\ size \in Nat /\ text \in Seq(Byte) /\ Len(text) = size
      /\ \A i \in 1..size : text[i] = file[i]
  BY TextIs
<1>2. lines \in Nat \ {0} /\ found < lines /\ (Unseen \/ \E d \in (offset + 1)..size : SeenFrom(d))
  BY DEF SeekInv
<1> DEFINE Z == acceptedStarts(text)
<1>3. Z \in SUBSET (0..size) /\ \A k \in Z : k > 0 => k \in Delimiters(text)
  BY <1>1, StartsIn
<1>4. CASE Unseen
  <2>1. ASSUME NEW k \in Z PROVE FALSE
    <3>1. PICK j \in Delimiters(text) : k < j
      BY DEF acceptedStarts
    <3>2. j \in 1..size /\ text[j] = Delimiter
      BY <1>1, DelimitersIn
    <3> QED
      BY <1>1, <1>4, <3>2 DEF Unseen
  <2>2. Cardinality(Z) = 0
    <3>1. Z = {}
      BY <2>1
    <3> HIDE DEF Z
    <3> QED
      BY <3>1, FS_EmptySet
  <2> QED
    BY <1>2, <2>2 DEF LastLines
<1>5. ASSUME NEW d \in (offset + 1)..size, SeenFrom(d) PROVE LastLines(text, lines) = 0
  <2> DEFINE D == {i \in Z : i >= d}
  <2>1. found = Cardinality(D)
    BY <1>5 DEF SeenFrom, text
  <2>2. ASSUME NEW k \in Z, ~ (k >= d) PROVE k = 0
    <3>1. SUFFICES ASSUME k > 0 PROVE FALSE
      BY <1>1, <1>3
    <3>2. k \in 1..size /\ text[k] = Delimiter
      BY <1>1, <1>3, <3>1, DelimitersIn
    <3>3. k \in (offset + 1)..(d - 1)
      BY <2>2, <3>2
    <3> QED
      BY <1>1, <1>5, <3>2, <3>3 DEF SeenFrom
  <2>3. Cardinality(D) \in Nat /\ Cardinality(Z) \in Nat
    BY <1>1, <1>3, Bounded
  <2>4. CASE Cardinality(Z) < lines
    BY <1>2, <2>4 DEF LastLines
  <2>5. CASE ~ (Cardinality(Z) < lines)
    <3> DEFINE i == CHOOSE i \in Z : Cardinality(upFrom(Z, i)) = lines
    <3>1. LastLines(text, lines) = i
      BY <1>2, <2>5, Zenon DEF LastLines, upFrom
    <3>2. \E x \in Z : Cardinality(upFrom(Z, x)) = lines
      <4>1. lines \in 1..Cardinality(Z)
        BY <1>2, <2>3, <2>5
      <4> HIDE DEF Z
      <4> QED
        BY <1>1, <1>3, <4>1, FromTheEnd
    <3>3. i \in Z /\ Cardinality(upFrom(Z, i)) = lines
      BY <3>2
    <3> HIDE DEF i
    <3>4. ASSUME i >= d PROVE FALSE
      <4>1. upFrom(Z, i) \in SUBSET D
        <5>1. \A j \in Z : j \in Nat
          BY <1>1, <1>3
        <5>2. \A j \in Z : j >= i => j >= d
          BY <3>3, <3>4, <5>1
        <5> QED
          BY <5>2 DEF upFrom
      <4>2. D \in SUBSET (0..size)
        BY <1>3
      <4> HIDE DEF D
      <4>3. Cardinality(upFrom(Z, i)) <= Cardinality(D)
        BY <1>1, <4>1, <4>2, Bounded
      <4> QED
        BY <1>2, <2>1, <2>3, <3>3, <4>3
    <3> QED
      BY <2>2, <3>1, <3>3, <3>4
  <2> QED
    BY <2>4, <2>5
<1> QED
  BY <1>2, <1>4, <1>5

LEMMA SeekOtherSteps ==
  ASSUME Typed, SeekInv, [Next]_vars, ~ SeekMore
  PROVE  SeekInv'
<1>1. CASE SeekEnd
  <2>1. /\ pc = "seekEnd" /\ lines # FromStart /\ offset = 0 /\ found = 0 /\ seekPos = 0
        /\ sbuf \in Seq(Byte \cup {Zero}) /\ scap \in Nat /\ Len(sbuf) <= scap
        /\ Delimiters(sbuf) = {} /\ lines \in {FromStart} \cup Nat
        /\ Len(file) \in Nat /\ file \in Seq(Byte)
    BY <1>1, LenProperties DEF SeekEnd, SeekInv, Typed
  <2>2. UNCHANGED <<file, lines, found, seekPos, sbuf, scap, misplaced>>
    BY <1>1 DEF SeekEnd
  <2>3. CASE pc' = "failed"
    BY <2>3 DEF SeekInv, SeekedRight
  <2>4. CASE pc' # "failed"
    <3>1. /\ offset' = Len(file) /\ size' = Len(file) /\ pos' = Len(file)
          /\ pc' = IF lines = 0 THEN "new" ELSE "seek"
      BY <1>1, <2>4 DEF SeekEnd
    <3>2. CASE lines = 0
      <4>1. LastLines(SubSeq(file', 1, size'), lines') = Len(SubSeq(file', 1, size'))
        BY <2>2, <3>2 DEF LastLines
      <4>2. SubSeq(file, 1, Len(file)) = file
        BY <2>1, SubSeqFull
      <4> QED
        BY <2>2, <3>1, <3>2, <4>1, <4>2 DEF SeekInv, SeekedRight
    <3>3. CASE lines # 0
      <4>1. pc' = "seek" /\ lines' \in Nat \ {0} /\ found' = 0 /\ seekPos' = 0
            /\ offset' \in 0..size'
        BY <2>1, <2>2, <3>1, <3>3
      <4>2. Unseen'
        <5>1. \A k \in (offset' + 1)..size' : FALSE
          BY <2>1, <3>1
        <5>2. Delimiters(sbuf') = {}
          BY <2>1, <2>2
        <5> QED
          BY <4>1, <5>1, <5>2 DEF Unseen
      <4>3. found' < lines'
        BY <4>1
      <4> QED
        BY <2>1, <2>2, <4>1, <4>2, <4>3 DEF SeekInv, SeekedRight
    <3> QED
      BY <3>2, <3>3
  <2> QED
    BY <2>3, <2>4
<1>2. CASE SeekPosition
  <2>1. pc' = "new" /\ UNCHANGED <<file, lines, size>> /\ (misplaced' \/ pos' = seekPos)
    BY <1>2 DEF SeekPosition, seekVars
  <2>2. lines \in Nat /\ seekPos = LastLines(text, lines)
    <3>1. CASE pc = "position"
      BY <3>1 DEF SeekInv, text
    <3>2. CASE pc = "seek" /\ offset = 0
      BY <3>2, TooFew DEF SeekInv
    <3> QED
      BY <1>2, <3>1, <3>2 DEF SeekPosition
  <2> QED
    BY <2>1, <2>2 DEF SeekInv, SeekedRight, text
<1>3. CASE NewTailer
  BY <1>3 DEF NewTailer, SeekInv, SeekedRight
<1>4. CASE AppendByte
  <2>1. /\ UNCHANGED <<pc, lines, offset, found, seekPos, sbuf, scap, size, pos, misplaced>>
    BY <1>4 DEF AppendByte, seekVars, readerVars
  <2>2. PICK b : file' = Append(file, b) /\ b \in Byte
    BY <1>4 DEF AppendByte, Byte
  <2>3. /\ size \in Nat /\ Len(file) \in Nat /\ size <= Len(file) /\ file \in Seq(Byte)
    BY TextIs DEF Typed
  <2>4. file' \in Seq(Byte) /\ Len(file') = Len(file) + 1 /\ \A i \in 1..Len(file) : file'[i] = file[i]
    BY <2>2, <2>3, AppendProperties
  <2>5. \A k \in 1..size : file'[k] = file[k]
    BY <2>3, <2>4
  <2>6. SubSeq(file', 1, size) = SubSeq(file, 1, size)
    <3>1. /\ \A i \in (0 + 1)..size : file[i] = file'[0 + i]
          /\ 0 <= size /\ 0 + size <= Len(file')
      BY <2>3, <2>4, <2>5
    <3>2. SubSeq(file, 0 + 1, size) = SubSeq(file', 0 + 0 + 1, 0 + size)
      BY <2>3, <2>4, <3>1, SamePiece
    <3> QED
      BY <2>3, <3>2
  <2>7. pc = "seek" => (Unseen => Unseen') /\ \A d \in (offset + 1)..size : SeenFrom(d) => SeenFrom(d)'
    <3> SUFFICES ASSUME pc = "seek"
                 PROVE  (Unseen => Unseen') /\ \A d \in (offset + 1)..size : SeenFrom(d) => SeenFrom(d)'
      OBVIOUS
    <3>1. offset \in 0..size
      BY DEF SeekInv
    <3>2. Unseen => Unseen'
      BY <2>1, <2>3, <2>5, <3>1 DEF Unseen
    <3>3. ASSUME NEW d \in (offset + 1)..size, SeenFrom(d) PROVE SeenFrom(d)'
      <4>1. file'[d] = Delimiter /\ \A k \in (offset' + 1)..(d - 1) : file'[k] # Delimiter
        BY <2>1, <2>3, <2>5, <3>1, <3>3 DEF SeenFrom
      <4>2. /\ Len(sbuf') = d - offset'
            /\ \A i \in 1..(d - offset') : sbuf'[i] = file'[offset' + i]
        BY <2>1, <2>3, <2>5, <3>1, <3>3 DEF SeenFrom
      <4>3. found' = Cardinality({i \in acceptedStarts(SubSeq(file', 1, size')) : i >= d})
        BY <2>1, <2>6, <3>3 DEF SeenFrom
      <4> QED
        BY <4>1, <4>2, <4>3 DEF SeenFrom
    <3> QED
      BY <3>2, <3>3
  <2> QED
    BY <2>1, <2>6, <2>7 DEF SeekInv, SeekedRight
<1>5. CASE LoopStep \/ Stop \/ UNCHANGED vars
  <2>1. UNCHANGED <<file, pc, lines, offset, found, seekPos, sbuf, scap, size, pos, misplaced>>
        \/ pc' \notin seeking
    BY <1>5 DEF LoopStep, Stop, vars, seekVars, readerVars, LoopDying, TimerFires, ReadLine,
                BufferFull, Fill, Eof, ReadError, Flush, LoopKill, LoopDone, Return, Write, seeking
  <2>2. CASE UNCHANGED <<file, pc, lines, offset, found, seekPos, sbuf, scap, size, pos, misplaced>>
    BY <2>2 DEF SeekInv, SeekedRight, Unseen, SeenFrom
  <2>3. CASE pc' \notin seeking
    BY <2>3 DEF SeekInv, SeekedRight, seeking
  <2> QED
    BY <2>1, <2>2, <2>3
<1> QED
  BY <1>1, <1>2, <1>3, <1>4, <1>5 DEF Next

-----------------------------------------------------------------------------
LEMMA InitTyped ==
  ASSUME Init
  PROVE  Typed /\ SeekInv
<1>1. file \in Seq(Byte)
  BY DEF Init, Contents, Byte
<1>2. Len(file) \in Nat
  BY <1>1, LenProperties
<1>3. /\ sbuf \in Seq(Byte \cup {Zero}) /\ Len(sbuf) = BufferSize /\ Delimiters(sbuf) = {}
  BY SizesAssumption DEF Init, Delimiters, Delimiter, Zero
<1>4. lines \in {FromStart} \cup Nat
  BY BoundsAssumption DEF Init
<1>5. <<>> \in Seq(Byte) /\ Len(<<>>) = 0
  BY EmptySeq
<1>6. Typed
  BY <1>1, <1>2, <1>4, <1>5 DEF Init, Typed
<1>7. pc \in {"new", "seekEnd"} /\ (pc = "seekEnd" <=> lines # FromStart)
  BY DEF Init
<1>8. SeekInv
  BY <1>3, <1>7, SizesAssumption DEF Init, SeekInv, SeekedRight
<1> QED
  BY <1>6, <1>8

(* The pieces of sequences that the steps of the Tailer move about.           *)
LEMMA TypedRead ==
  ASSUME Typed, pc = "read", pc' \in {"read", "kill"}, ReadLine \/ BufferFull \/ Fill
  PROVE  Typed'
<1>1. /\ file \in Seq(Byte) /\ Len(file) \in Nat /\ pos \in Nat /\ pos <= Len(file)
      /\ buf \in Seq(Byte) /\ line \in Seq(Byte) /\ wbuf \in Seq(Byte) /\ sink \in Seq(Byte)
      /\ Len(buf) \in Nat /\ Len(line) \in Nat /\ Len(line) + Len(buf) <= pos
  BY LenProperties DEF Typed
<1>2. UNCHANGED <<file, lines, size, from>>
  BY DEF ReadLine, BufferFull, Fill, seekVars
<1>3. CASE ReadLine
  <2> DEFINE n == Min(Delimiters(buf))
  <2>1. n \in 1..Len(buf)
    BY <1>1, <1>3, DelimitersIn, MinIs DEF ReadLine
  <2>2. SubSeq(buf, 1, n) \in Seq(Byte)
    <3>1. SubSeq(buf, 0 + 1, n) \in Seq(Byte)
      BY <1>1, <2>1, SubSeqIs
    <3> QED
      BY <3>1
  <2>3. SubSeq(buf, n + 1, Len(buf)) \in Seq(Byte) /\ Len(SubSeq(buf, n + 1, Len(buf))) = Len(buf) - n
    BY <1>1, <2>1, SubSeqIs, SMTT(20)
  <2> HIDE DEF n
  <2> DEFINE all == wbuf \o (line \o SubSeq(buf, 1, n))
  <2>4. all \in Seq(Byte) /\ Len(all) \in Nat
    <3>1. line \o SubSeq(buf, 1, n) \in Seq(Byte)
      BY <1>1, <2>2, ConcatProperties
    <3> QED
      BY <1>1, <3>1, ConcatProperties, LenProperties
  <2>5. \/ UNCHANGED writerVars
        \/ Write(line \o SubSeq(buf, 1, n))
    BY <1>3 DEF ReadLine, n
  <2> HIDE DEF all
  <2>6. \A k \in 0..Len(all) : /\ SubSeq(all, 1, k) \in Seq(Byte)
                               /\ SubSeq(all, k + 1, Len(all)) \in Seq(Byte)
    <3> SUFFICES ASSUME NEW k \in 0..Len(all)
                 PROVE  SubSeq(all, 1, k) \in Seq(Byte) /\ SubSeq(all, k + 1, Len(all)) \in Seq(Byte)
      OBVIOUS
    <3>1. SubSeq(all, 0 + 1, k) \in Seq(Byte)
      BY <2>4, SubSeqIs
    <3>2. SubSeq(all, k + 1, Len(all)) \in Seq(Byte)
      BY <2>4, SubSeqIs
    <3> QED
      BY <3>1, <3>2
  <2>7. wbuf' \in Seq(Byte) /\ sink' \in Seq(Byte)
    <3>1. CASE UNCHANGED writerVars
      BY <1>1, <3>1 DEF writerVars
    <3>2. CASE Write(line \o SubSeq(buf, 1, n))
      <4>1. CASE wbuf' = all /\ sink' = sink
        BY <1>1, <2>4, <4>1
      <4>2. CASE \E k \in 0..Len(all) : /\ sink' = sink \o SubSeq(all, 1, k)
                                       /\ wbuf' \in {wbuf, SubSeq(all, k + 1, Len(all))}
        <5>1. PICK k \in 0..Len(all) : /\ sink' = sink \o SubSeq(all, 1, k)
                                       /\ wbuf' \in {wbuf, SubSeq(all, k + 1, Len(all))}
          BY <4>2
        <5> QED
          BY <1>1, <2>6, <5>1, ConcatProperties
      <4>3. \/ wbuf' = all /\ sink' = sink
            \/ \E k \in 0..Len(all) : /\ sink' = sink \o SubSeq(all, 1, k)
                                      /\ wbuf' \in {wbuf, SubSeq(all, k + 1, Len(all))}
        <5>1. \A k \in (Len(all) - WriterSize)..Len(all) :
                Len(all) > WriterSize => k \in 0..Len(all)
          BY <2>4, SizesAssumption
        <5>2. \A k \in 0..(Len(all) - 1) : k \in 0..Len(all)
          BY <2>4
        <5> QED
          BY <3>2, <5>1, <5>2 DEF Write, all
      <4> QED
        BY <4>1, <4>2, <4>3
    <3> QED
      BY <2>5, <3>1, <3>2
  <2>8. /\ buf' = SubSeq(buf, n + 1, Len(buf)) /\ line' = <<>> /\ pos' = pos
    BY <1>3 DEF ReadLine, n
  <2>9. Len(line') + Len(buf') <= pos'
    <3>1. Len(line') = 0 /\ Len(buf') = Len(buf) - n /\ Len(buf') <= Len(buf)
      BY <1>1, <2>1, <2>3, <2>8
    <3> QED
      BY <1>1, <2>1, <2>8, <3>1
  <2> QED
    BY <1>2, <2>3, <2>7, <2>8, <2>9, EmptySeq DEF Typed, seeking
<1>4. CASE BufferFull
  <2>1. line' = line \o buf /\ buf' = <<>> /\ UNCHANGED <<pos, wbuf, sink>>
    BY <1>4 DEF BufferFull, writerVars
  <2>2. line' \in Seq(Byte) /\ Len(line') = Len(line) + Len(buf) /\ Len(buf') = 0 /\ buf' \in Seq(Byte)
    BY <1>1, <2>1, ConcatProperties, EmptySeq
  <2> QED
    BY <1>1, <1>2, <2>1, <2>2 DEF Typed, seeking
<1>5. CASE Fill
  <2>1. PICK n \in 1..(ReaderSize - Len(buf)) :
           /\ pos + n <= Len(file)
           /\ buf' = buf \o SubSeq(file, pos + 1, pos + n)
           /\ pos' = pos + n
    BY <1>5 DEF Fill
  <2>2. UNCHANGED <<line, wbuf, sink>>
    BY <1>5 DEF Fill, writerVars
  <2> DEFINE q == pos + n
  <2>3. q \in Nat /\ pos <= q /\ q - pos = n
    BY <1>1, <2>1
  <2>4. SubSeq(file, pos + 1, q) \in Seq(Byte) /\ Len(SubSeq(file, pos + 1, q)) = n
    BY <1>1, <2>1, <2>3, SubSeqIs
  <2>5. buf' \in Seq(Byte) /\ Len(buf') = Len(buf) + n
    BY <1>1, <2>1, <2>4, ConcatProperties
  <2>6. Len(line') + Len(buf') <= pos' /\ pos' \in 0..Len(file')
    BY <1>1, <1>2, <2>1, <2>2, <2>3, <2>5
  <2> QED
    BY <1>2, <2>2, <2>5, <2>6 DEF Typed, seeking
<1> QED
  BY <1>3, <1>4, <1>5

LEMMA TypedStep ==
  ASSUME Typed, SeekInv, [Next]_vars
  PROVE  Typed'
<1>1. /\ file \in Seq(Byte) /\ Len(file) \in Nat /\ pos \in Nat /\ pos <= Len(file)
      /\ size \in Nat /\ size <= Len(file)
      /\ buf \in Seq(Byte) /\ line \in Seq(Byte) /\ wbuf \in Seq(Byte) /\ sink \in Seq(Byte)
      /\ Len(buf) \in Nat /\ Len(line) \in Nat /\ Len(line) + Len(buf) <= pos
      /\ <<>> \in Seq(Byte) /\ Len(<<>>) = 0
  BY LenProperties, EmptySeq DEF Typed
<1>2. CASE AppendByte
  <2>1. UNCHANGED <<pc, lines, size, pos, buf, line, wbuf, sink, from>>
    BY <1>2 DEF AppendByte, seekVars, readerVars, writerVars
  <2>2. PICK b : file' = Append(file, b) /\ b \in Byte
    BY <1>2 DEF AppendByte, Byte
  <2>3. file' \in Seq(Byte) /\ Len(file') = Len(file) + 1
    BY <1>1, <2>2, AppendProperties
  <2>4. \A i \in 0..Len(file) : i \in 0..Len(file')
    BY <1>1, <2>3
  <2> QED
    BY <2>1, <2>3, <2>4 DEF Typed
<1>3. CASE SeekEnd \/ SeekMore \/ SeekPosition
  <2>1. pc \in seeking /\ pc' \in seeking /\ UNCHANGED <<file, lines, buf, line, wbuf, sink, from>>
    BY <1>3 DEF SeekEnd, SeekMore, SeekPosition, seekVars, readerVars, writerVars, seeking
  <2>2. size' \in 0..Len(file)
    BY <1>1, <1>3 DEF SeekEnd, SeekMore, SeekPosition, seekVars
  <2>3. pos' \in 0..Len(file)
    <3>1. CASE SeekEnd
      BY <1>1, <3>1 DEF SeekEnd
    <3>2. CASE SeekMore
      <4>1. pos' \in {pos, offset} /\ offset \in 0..size
        BY <3>2 DEF SeekMore, SeekInv
      <4> QED
        BY <1>1, <4>1
    <3>3. CASE SeekPosition
      <4>1. pos' \in {pos, seekPos} /\ seekPos \in 0..size
        BY <1>1, <3>3 DEF SeekPosition, SeekInv
      <4> QED
        BY <1>1, <4>1
    <3> QED
      BY <1>3, <3>1, <3>2, <3>3
  <2>4. buf = <<>> /\ line = <<>> /\ wbuf = <<>> /\ sink = <<>>
    BY <2>1 DEF Typed
  <2>5. Len(line') + Len(buf') <= pos'
    BY <1>1, <2>1, <2>3, <2>4
  <2> QED
    BY <2>1, <2>2, <2>3, <2>4, <2>5 DEF Typed, seeking
<1>4. CASE NewTailer
  <2>1. pc = "new" /\ pc' = "select" /\ from' = pos /\ lines' = 0 /\ size' = 0
        /\ UNCHANGED <<file, pos, buf, line, wbuf, sink>>
    BY <1>4 DEF NewTailer, readerVars, writerVars
  <2>2. buf = <<>> /\ line = <<>>
    BY <2>1 DEF Typed, seeking
  <2>3. 0 \in 0..Len(file) /\ pos \in 0..Len(file)
    BY <1>1
  <2> QED
    BY <1>1, <2>1, <2>2, <2>3 DEF Typed, seeking
<1>5. CASE ReadLine \/ BufferFull \/ Fill
  <2>1. pc = "read" /\ pc' \in {"read", "kill"}
    BY <1>5 DEF ReadLine, BufferFull, Fill, Write, Return
  <2> QED
    BY <1>5, <2>1, TypedRead
<1>6. CASE Eof \/ ReadError
  <2>1. /\ pc = "read" /\ pc' \in {"flush", "kill"} /\ buf' = <<>> /\ line' = <<>>
        /\ pos' \in {pos, stepBack}
        /\ UNCHANGED <<file, lines, size, wbuf, sink, from>>
    BY <1>6 DEF Eof, ReadError, Return, seekVars, writerVars
  <2>2. stepBack \in 0..Len(file)
    <3>1. Len(line \o buf) = Len(line) + Len(buf)
      BY <1>1, ConcatProperties
    <3> QED
      BY <1>1, <3>1 DEF stepBack
  <2>3. pos' \in 0..Len(file') /\ Len(line') + Len(buf') <= pos'
    BY <1>1, <2>1, <2>2
  <2> QED
    BY <1>1, <2>1, <2>3 DEF Typed, seeking
<1>7. CASE Flush
  <2>1. /\ pc = "flush" /\ pc' \in {"select", "kill"}
        /\ UNCHANGED <<file, lines, size, from, pos, buf, line>>
    BY <1>7 DEF Flush, Return, seekVars, readerVars
  <2>2. Len(wbuf) \in Nat
    BY <1>1, LenProperties
  <2>3. CASE flushed
    <3>1. sink' \in Seq(Byte) /\ wbuf' \in Seq(Byte)
      BY <1>1, <2>3, ConcatProperties DEF flushed
    <3> QED
      BY <2>1, <3>1 DEF Typed, seeking
  <2>4. CASE wbuf' = wbuf /\ \E n \in 0..(Len(wbuf) - 1) : sink' = sink \o SubSeq(wbuf, 1, n)
    <3>1. PICK n \in 0..(Len(wbuf) - 1) : sink' = sink \o SubSeq(wbuf, 1, n)
      BY <2>4
    <3>2. SubSeq(wbuf, 0 + 1, n) \in Seq(Byte)
      BY <1>1, <2>2, SubSeqIs
    <3>3. sink' \in Seq(Byte)
      BY <1>1, <3>1, <3>2, ConcatProperties
    <3> QED
      BY <2>1, <2>4, <3>3 DEF Typed, seeking
  <2> QED
    BY <1>7, <2>3, <2>4 DEF Flush
<1>8. CASE LoopDying \/ TimerFires \/ LoopKill \/ LoopDone \/ Stop \/ UNCHANGED vars
  <2>1. /\ UNCHANGED <<file, pos, from, size, lines, buf, line, wbuf, sink>>
        /\ pc' = pc \/ pc' \notin (seeking \cup {"select", "flush"})
    BY <1>8 DEF LoopDying, TimerFires, LoopKill, LoopDone, Stop, vars, Return, seekVars,
                readerVars, writerVars, seeking
  <2> QED
    BY <2>1 DEF Typed
<1> QED
  BY <1>2, <1>3, <1>4, <1>5, <1>6, <1>7, <1>8 DEF Next, LoopStep

LEMMA TypedAlways == Spec => [](Typed /\ SeekInv)
<1>1. Init => Typed /\ SeekInv
  BY InitTyped
<1>2. Typed /\ SeekInv /\ [Next]_vars => (Typed /\ SeekInv)'
  BY TypedStep, SeekMoreStep, SeekOtherSteps
<1> QED
  BY <1>1, <1>2, PTL DEF Spec

(* SeekLastLines leaves the file where the wanted number of accepted lines    *)
(* remain, for any contents, any filter and any sizes of its blocks, however  *)
(* the lines lie across the blocks.                                           *)
THEOREM SeeksRight == Spec => []SeekedRight
<1>1. Typed /\ SeekInv => SeekedRight
  BY DEF SeekInv
<1> QED
  BY <1>1, TypedAlways, PTL

-----------------------------------------------------------------------------
(* The bytes at a set of positions, in order.                                 *)

downTo(S, i) == {j \in S : j <= i}
nth(S, k)    == CHOOSE p \in S : Cardinality(downTo(S, p)) = k

LEMMA UpAndDown ==
  ASSUME NEW n \in Nat, NEW S \in SUBSET (0..n), NEW p \in S
  PROVE  /\ Cardinality(downTo(S, p)) \in Nat /\ Cardinality(upFrom(S, p)) \in Nat
         /\ Cardinality(downTo(S, p)) + Cardinality(upFrom(S, p)) = Cardinality(S) + 1
<1> DEFINE L == {j \in S : j < p}
           U == upFrom(S, p)
           D == downTo(S, p)
<1>0. \A j \in S : j \in Nat
  OBVIOUS
<1>1. L \in SUBSET (0..n) /\ U \in SUBSET (0..n) /\ D \in SUBSET (0..n) /\ {p} \in SUBSET (0..n)
  BY DEF upFrom, downTo
<1>2. L \cap U = {} /\ L \cup U = S
  <2>1. \A j \in S : j < p <=> ~ (j >= p)
    BY <1>0
  <2> QED
    BY <2>1 DEF upFrom
<1>3. L \cap {p} = {} /\ L \cup {p} = D
  <2>1. \A j \in S : j <= p <=> j < p \/ j = p
    BY <1>0
  <2>2. ~ (p < p)
    BY <1>0
  <2> QED
    BY <2>1, <2>2 DEF downTo
<1> HIDE DEF L, U, D
<1>4. Cardinality(S) = Cardinality(L) + Cardinality(U)
  BY <1>1, <1>2, DisjointCount
<1>5. Cardinality(D) = Cardinality(L) + 1
  <2>1. Cardinality({p}) = 1
    BY FS_Singleton
  <2> QED
    BY <1>1, <1>3, <2>1, DisjointCount
<1>6. Cardinality(L) \in Nat /\ Cardinality(U) \in Nat /\ Cardinality(D) \in Nat
  BY <1>1, Bounded
<1>7. Cardinality(D) + Cardinality(U) = Cardinality(S) + 1
  BY <1>4, <1>5, <1>6
<1> QED
  BY <1>6, <1>7 DEF U, D

LEMMA NthIs ==
  ASSUME NEW n \in Nat, NEW S \in SUBSET (0..n), NEW k \in 1..Cardinality(S)
  PROVE  /\ nth(S, k) \in S /\ Cardinality(downTo(S, nth(S, k))) = k
         /\ \A p \in S : Cardinality(downTo(S, p)) = k => p = nth(S, k)
<1>1. Cardinality(S) \in Nat
  BY Bounded
<1>2. PICK m \in 1..Cardinality(S) : m = Cardinality(S) + 1 - k
  BY <1>1
<1>3. PICK i \in S : Cardinality(upFrom(S, i)) = m
  BY FromTheEnd
<1>4. Cardinality(downTo(S, i)) = k
  <2>1. /\ Cardinality(downTo(S, i)) \in Nat
        /\ Cardinality(downTo(S, i)) + Cardinality(upFrom(S, i)) = Cardinality(S) + 1
    BY UpAndDown
  <2> QED
    BY <1>1, <1>2, <1>3, <2>1
<1>5. nth(S, k) \in S /\ Cardinality(downTo(S, nth(S, k))) = k
  BY <1>4 DEF nth
<1>6. ASSUME NEW p \in S, Cardinality(downTo(S, p)) = k PROVE p = nth(S, k)
  <2> DEFINE q == nth(S, k)
  <2>1. q \in S /\ Cardinality(downTo(S, q)) = k
    BY <1>5
  <2> HIDE DEF q
  <2>2. /\ Cardinality(upFrom(S, p)) \in Nat
        /\ Cardinality(downTo(S, p)) + Cardinality(upFrom(S, p)) = Cardinality(S) + 1
    BY UpAndDown
  <2>3. /\ Cardinality(upFrom(S, q)) \in Nat
        /\ Cardinality(downTo(S, q)) + Cardinality(upFrom(S, q)) = Cardinality(S) + 1
    BY <2>1, UpAndDown
  <2>4. Cardinality(upFrom(S, p)) = Cardinality(upFrom(S, q))
    BY <1>1, <1>6, <2>1, <2>2, <2>3
  <2>5. p = q
    BY <2>1, <2>4, FromTheEndUnique
  <2> QED
    BY <2>5 DEF q
<1> QED
  BY <1>5, <1>6

LEMMA BytesAt ==
  ASSUME NEW S, NEW s \in Seq(S), NEW A \in SUBSET (1..Len(s))
  PROVE  /\ Cardinality(A) \in Nat /\ A \in SUBSET (0..Len(s))
         /\ bytesAt(s, A) \in Seq(S) /\ Len(bytesAt(s, A)) = Cardinality(A)
         /\ \A k \in 1..Cardinality(A) : /\ bytesAt(s, A)[k] = s[nth(A, k)]
                                         /\ nth(A, k) \in A
<1>1. Len(s) \in Nat
  BY LenProperties
<1>2. A \in SUBSET (0..Len(s)) /\ Cardinality(A) \in Nat
  <2>1. A \in SUBSET (0..Len(s))
    BY <1>1
  <2> QED
    BY <1>1, <2>1, Bounded
<1>3. \A k \in 1..Cardinality(A) : nth(A, k) \in A
  BY <1>1, <1>2, NthIs
<1>4. bytesAt(s, A) = [k \in 1..Cardinality(A) |-> s[nth(A, k)]]
  BY DEF bytesAt, nth, downTo
<1>5. \A k \in 1..Cardinality(A) : s[nth(A, k)] \in S
  BY <1>3, ElementOfSeq
<1> HIDE DEF bytesAt, nth
<1>6. bytesAt(s, A) \in Seq(S) /\ Len(bytesAt(s, A)) = Cardinality(A)
  BY <1>2, <1>4, <1>5
<1> QED
  BY <1>2, <1>3, <1>4, <1>6

(* Positions after the others only add bytes at the end.                      *)
LEMMA BytesGrow ==
  ASSUME NEW S, NEW s \in Seq(S), NEW A \in SUBSET (1..Len(s)), NEW C \in SUBSET (1..Len(s)),
         \A a \in A : \A c \in C : a < c
  PROVE  /\ Cardinality(A \cup C) = Cardinality(A) + Cardinality(C)
         /\ \A k \in 1..Cardinality(A) : bytesAt(s, A \cup C)[k] = bytesAt(s, A)[k]
<1> DEFINE D == A \cup C
<1>1. Len(s) \in Nat
  BY LenProperties
<1>2. /\ D \in SUBSET (1..Len(s)) /\ D \in SUBSET (0..Len(s))
      /\ A \in SUBSET (0..Len(s)) /\ C \in SUBSET (0..Len(s)) /\ A \cap C = {}
  <2>1. A \cap C = {}
    <3>1. ASSUME NEW x \in A, x \in C PROVE FALSE
      BY <3>1
    <3> QED
      BY <3>1
  <2> QED
    BY <2>1
<1>3. Cardinality(D) = Cardinality(A) + Cardinality(C)
  BY <1>1, <1>2, DisjointCount
<1>4. Cardinality(A) \in Nat /\ Cardinality(C) \in Nat
  BY <1>1, <1>2, Bounded
<1>5. ASSUME NEW k \in 1..Cardinality(A) PROVE bytesAt(s, D)[k] = bytesAt(s, A)[k]
  <2> DEFINE p == nth(A, k)
  <2>1. p \in A /\ Cardinality(downTo(A, p)) = k
    BY <1>1, <1>2, NthIs
  <2> HIDE DEF p
  <2>2. downTo(D, p) = downTo(A, p)
    <3>1. \A c \in C : ~ (c <= p)
      <4>1. p \in Nat /\ \A c \in C : c \in Nat /\ p < c
        BY <1>2, <2>1
      <4> QED
        BY <4>1
    <3> QED
      BY <3>1 DEF downTo
  <2>3. k \in 1..Cardinality(D) /\ p \in D
    BY <1>3, <1>4, <2>1
  <2> HIDE DEF D
  <2>4. p = nth(D, k)
    BY <1>1, <1>2, <2>1, <2>2, <2>3, NthIs
  <2>5. bytesAt(s, D)[k] = s[nth(D, k)]
    <3>1. D \in SUBSET (1..Len(s)) /\ k \in 1..Cardinality(D)
      BY <1>2, <2>3
    <3>2. \A i \in 1..Cardinality(D) : bytesAt(s, D)[i] = s[nth(D, i)]
      BY <3>1, BytesAt
    <3> QED
      BY <3>1, <3>2
  <2>6. bytesAt(s, A)[k] = s[nth(A, k)]
    BY BytesAt
  <2> QED
    BY <2>4, <2>5, <2>6 DEF p
<1> QED
  BY <1>3, <1>5

(* The positions n+1..m after the others add the bytes between them.          *)
LEMMA BytesLine ==
  ASSUME NEW S, NEW s \in Seq(S), NEW n \in Nat, NEW m \in Nat, n <= m, m <= Len(s),
         NEW A \in SUBSET (1..n)
  PROVE  bytesAt(s, A \cup ((n + 1)..m)) = bytesAt(s, A) \o SubSeq(s, n + 1, m)
<1> DEFINE C == (n + 1)..m
           D == A \cup C
           u == bytesAt(s, D)
           a == bytesAt(s, A)
           c == SubSeq(s, n + 1, m)
           z == Cardinality(A)
<1>1. Len(s) \in Nat
  BY LenProperties
<1>2. A \in SUBSET (1..Len(s)) /\ C \in SUBSET (1..Len(s)) /\ D \in SUBSET (1..Len(s))
      /\ D \in SUBSET (0..Len(s)) /\ A \in SUBSET (0..Len(s)) /\ \A x \in A : \A y \in C : x < y
  BY <1>1
<1>3. Cardinality(C) = m - n
  <2>1. Cardinality((n + 1)..m) = IF n + 1 > m THEN 0 ELSE m - (n + 1) + 1
    BY FS_Interval
  <2> QED
    BY <2>1
<1>4. c \in Seq(S) /\ Len(c) = m - n /\ \A i \in 1..(m - n) : c[i] = s[n + i]
  BY SubSeqIs
<1>5. a \in Seq(S) /\ Len(a) = z /\ z \in Nat
  BY <1>2, BytesAt
<1> HIDE DEF C
<1>6. Cardinality(D) = z + (m - n) /\ \A k \in 1..z : u[k] = a[k]
  <2>1. /\ Cardinality(A \cup C) = Cardinality(A) + Cardinality(C)
        /\ \A k \in 1..Cardinality(A) : bytesAt(s, A \cup C)[k] = bytesAt(s, A)[k]
    BY <1>2, BytesGrow
  <2> QED
    BY <1>3, <2>1
<1>7. u \in Seq(S) /\ Len(u) = z + (m - n)
      /\ \A k \in 1..(z + (m - n)) : u[k] = s[nth(D, k)]
  <2> HIDE DEF D
  <2> QED
    BY <1>2, <1>6, BytesAt
<1>8. ASSUME NEW k \in (z + 1)..(z + (m - n)) PROVE u[k] = c[k - z]
  <2> DEFINE j == k - z
             p == n + j
  <2>1. j \in 1..(m - n) /\ j \in Nat /\ j > 0 /\ z + j = k /\ p \in Nat /\ p > n /\ p <= m
        /\ k \in 1..(z + (m - n))
    BY <1>5
  <2>2. p \in D
    BY <2>1 DEF C
  <2> HIDE DEF j
  <2>3. downTo(D, p) = A \cup ((n + 1)..p)
    <3>1. \A x \in A : x <= p
      BY <2>1
    <3>2. \A x : x \in C /\ x <= p <=> x \in (n + 1)..p
      BY <2>1 DEF C
    <3> HIDE DEF p, C
    <3> QED
      BY <3>1, <3>2 DEF downTo
  <2> HIDE DEF p
  <2>4. Cardinality(A \cup ((n + 1)..p)) = z + Cardinality((n + 1)..p)
    <3> DEFINE P == (n + 1)..p
    <3>1. /\ P \in SUBSET (0..Len(s)) /\ A \in SUBSET (0..Len(s)) /\ A \cap P = {}
          /\ Len(s) \in Nat
      BY <1>1, <1>2, <2>1
    <3> HIDE DEF P
    <3>2. Cardinality(A \cup P) = Cardinality(A) + Cardinality(P)
      BY <3>1, DisjointCount
    <3> QED
      BY <3>2 DEF P
  <2>5. Cardinality((n + 1)..p) = j
    <3>1. Cardinality((n + 1)..p) = IF n + 1 > p THEN 0 ELSE p - (n + 1) + 1
      BY <2>1, FS_Interval
    <3> QED
      BY <2>1, <3>1 DEF p
  <2>6. Cardinality(downTo(D, p)) = k
    BY <2>1, <2>3, <2>4, <2>5
  <2>7. p = nth(D, k)
    <3>1. k \in 1..Cardinality(D)
      BY <1>6, <2>1
    <3> HIDE DEF D
    <3> QED
      BY <1>1, <1>2, <2>2, <2>6, <3>1, NthIs
  <2>8. u[k] = s[p]
    BY <1>7, <2>1, <2>7
  <2>9. c[j] = s[p]
    BY <1>4, <2>1 DEF p
  <2> QED
    BY <2>8, <2>9 DEF j
<1> HIDE DEF u, a, c, z, D
<1>9. /\ a \o c \in Seq(S) /\ Len(a \o c) = z + (m - n)
      /\ \A i \in 1..(z + (m - n)) : (a \o c)[i] = IF i <= z THEN a[i] ELSE c[i - z]
  <2>1. /\ a \o c \in Seq(S) /\ Len(a \o c) = Len(a) + Len(c)
        /\ \A i \in 1..(Len(a) + Len(c)) :
             (a \o c)[i] = IF i <= Len(a) THEN a[i] ELSE c[i - Len(a)]
    BY <1>4, <1>5, ConcatProperties, ZenonT(40)
  <2> QED
    BY <1>4, <1>5, <2>1
<1>10. ASSUME NEW i \in 1..(z + (m - n)) PROVE u[i] = (a \o c)[i]
  <2>1. CASE i <= z
    BY <1>5, <1>6, <1>9, <2>1
  <2>2. CASE ~ (i <= z)
    <3>1. i \in (z + 1)..(z + (m - n))
      BY <1>5, <2>2
    <3> QED
      BY <1>8, <1>9, <2>2, <3>1
  <2> QED
    BY <2>1, <2>2
<1>11. u = a \o c
  BY <1>7, <1>9, <1>10, SeqEqual
<1> QED
  BY <1>11 DEF u, a, c, D, C

LEMMA PrefixIs ==
  ASSUME NEW S, NEW s \in Seq(S), NEW t \in Seq(S)
  PROVE  IsPrefix(s, t) <=> Len(s) <= Len(t) /\ \A k \in 1..Len(s) : s[k] = t[k]
<1>1. Len(s) \in Nat /\ Len(t) \in Nat
  BY LenProperties
<1>2. SubSeq(s, 1, Len(s)) = s
  BY SubSeqFull
<1>3. ASSUME Len(s) <= Len(t)
      PROVE  /\ SubSeq(t, 1, Len(s)) \in Seq(S) /\ Len(SubSeq(t, 1, Len(s))) = Len(s)
             /\ \A k \in 1..Len(s) : SubSeq(t, 1, Len(s))[k] = t[k]
  <2>1. /\ SubSeq(t, 0 + 1, Len(s)) \in Seq(S) /\ Len(SubSeq(t, 0 + 1, Len(s))) = Len(s) - 0
        /\ \A i \in 1..(Len(s) - 0) : SubSeq(t, 0 + 1, Len(s))[i] = t[0 + i]
    BY <1>1, <1>3, SubSeqIs
  <2>2. 0 + 1 = 1 /\ Len(s) - 0 = Len(s) /\ \A i \in 1..Len(s) : 0 + i = i
    BY <1>1
  <2> QED
    BY <2>1, <2>2
<1>4. ASSUME Len(s) <= Len(t), \A k \in 1..Len(s) : s[k] = t[k]
      PROVE  s = SubSeq(t, 1, Len(s))
  <2> DEFINE v == SubSeq(t, 1, Len(s))
  <2>1. v \in Seq(S) /\ Len(v) = Len(s) /\ \A k \in 1..Len(s) : v[k] = s[k]
    BY <1>3, <1>4
  <2> HIDE DEF v
  <2>2. s = v
    BY <2>1, SeqEqual
  <2> QED
    BY <2>2 DEF v
<1> QED
  BY <1>2, <1>3, <1>4 DEF IsPrefix

(* What a concatenation begins with, and prefixes of prefixes.                *)
LEMMA PrefixConcat ==
  ASSUME NEW S, NEW s \in Seq(S), NEW t \in Seq(S)
  PROVE  IsPrefix(s, s \o t)
<1>1. /\ s \o t \in Seq(S) /\ Len(s \o t) = Len(s) + Len(t)
      /\ \A i \in 1..(Len(s) + Len(t)) : (s \o t)[i] = IF i <= Len(s) THEN s[i] ELSE t[i - Len(s)]
  BY ConcatProperties
<1>2. Len(s) \in Nat /\ Len(t) \in Nat
  BY LenProperties
<1>3. Len(s) <= Len(s \o t) /\ \A k \in 1..Len(s) : s[k] = (s \o t)[k]
  BY <1>1, <1>2
<1> QED
  BY <1>1, <1>3, PrefixIs

LEMMA PrefixEmpty ==
  ASSUME NEW S, NEW t \in Seq(S)
  PROVE  IsPrefix(<<>>, t)
<1>1. <<>> \in Seq(S) /\ <<>> \o t = t
  BY EmptySeq, ConcatEmptySeq
<1>2. IsPrefix(<<>>, <<>> \o t)
  BY <1>1, PrefixConcat
<1> QED
  BY <1>1, <1>2

LEMMA PrefixTransitive ==
  ASSUME NEW S, NEW s \in Seq(S), NEW t \in Seq(S), NEW u \in Seq(S),
         IsPrefix(s, t), IsPrefix(t, u)
  PROVE  IsPrefix(s, u)
<1>1. Len(s) \in Nat /\ Len(t) \in Nat /\ Len(u) \in Nat
  BY LenProperties
<1>2. Len(s) <= Len(t) /\ \A k \in 1..Len(s) : s[k] = t[k]
  BY PrefixIs
<1>3. Len(t) <= Len(u) /\ \A k \in 1..Len(t) : t[k] = u[k]
  BY PrefixIs
<1>4. Len(s) <= Len(u) /\ \A k \in 1..Len(s) : s[k] = u[k]
  BY <1>1, <1>2, <1>3
<1> QED
  BY <1>4, PrefixIs

(* The accepted lines of a part of a file.                                    *)
LEMMA AcceptedIn ==
  ASSUME NEW S, NEW s \in Seq(S), NEW i \in Nat, NEW n \in Nat, n <= Len(s)
  PROVE  /\ acceptedAt(s, i, n) \in SUBSET ((i + 1)..n)
         /\ acceptedAt(s, i, n) \in SUBSET (1..n) /\ acceptedAt(s, i, n) \in SUBSET (1..Len(s))
         /\ \A x \in lineEnds(s, i, n) : x \in Nat /\ x >= i /\ (i <= n => x <= n)
<1>1. Len(s) \in Nat
  BY LenProperties
<1>2. acceptedAt(s, i, n) \in SUBSET ((i + 1)..n)
  BY DEF acceptedAt
<1>3. \A x \in (i + 1)..n : x \in 1..n /\ x \in 1..Len(s)
  BY <1>1
<1>4. \A x \in lineEnds(s, i, n) : x \in Nat /\ x >= i /\ (i <= n => x <= n)
  BY DEF lineEnds
<1> QED
  BY <1>2, <1>3, <1>4

(* One more line, from n to the next delimiter m.                             *)
LEMMA AcceptedLine ==
  ASSUME NEW S, NEW s \in Seq(S), NEW i \in Nat, NEW n \in Nat, NEW m \in Nat,
         i <= n, n < m, m <= Len(s), n = i \/ s[n] = Delimiter, s[m] = Delimiter,
         \A k \in (n + 1)..(m - 1) : s[k] # Delimiter
  PROVE  acceptedAt(s, i, m)
           = acceptedAt(s, i, n) \cup (IF Filter(SubSeq(s, n + 1, m)) THEN (n + 1)..m ELSE {})
<1> DEFINE E == lineEnds(s, i, n)
           F == lineEnds(s, i, m)
           new == IF Filter(SubSeq(s, n + 1, m)) THEN (n + 1)..m ELSE {}
<1>1. F = E \cup {m} /\ n \in E /\ m \in F /\ E \subseteq F
  <2>1. n \in E
    BY DEF lineEnds
  <2>2. \A k \in (i + 1)..m : s[k] = Delimiter <=> k = m \/ (k \in (i + 1)..n /\ s[k] = Delimiter)
    OBVIOUS
  <2>3. m \in (i + 1)..m /\ \A k \in (i + 1)..n : k \in (i + 1)..m
    OBVIOUS
  <2>4. F = E \cup {m}
    BY <2>2, <2>3 DEF lineEnds
  <2> QED
    BY <2>1, <2>4
<1>2. \A x \in E : x \in Nat /\ x >= i /\ x <= n
  BY AcceptedIn
<1> HIDE DEF E, F
<1>3. ASSUME NEW k \in acceptedAt(s, i, m) PROVE k \in acceptedAt(s, i, n) \cup new
  <2>1. PICK b \in F, e \in F : /\ b < k /\ k <= e /\ \A d \in F : d <= b \/ e <= d
                                /\ Filter(SubSeq(s, b + 1, e))
    BY DEF acceptedAt, F
  <2>2. k \in (i + 1)..m
    BY DEF acceptedAt
  <2>3. b \in Nat /\ e \in Nat /\ e <= m
    BY <1>1, <1>2
  <2>4. CASE k <= n
    <3>1. e \in E
      BY <1>1, <2>1, <2>2, <2>3, <2>4
    <3>2. b \in E
      BY <1>1, <2>1, <2>2, <2>3, <2>4
    <3>3. \A d \in E : d <= b \/ e <= d
      BY <1>1, <2>1
    <3>4. k \in (i + 1)..n
      BY <2>2, <2>4
    <3>5. k \in acceptedAt(s, i, n)
      BY <2>1, <3>1, <3>2, <3>3, <3>4 DEF acceptedAt, E
    <3> QED
      BY <3>5
  <2>5. CASE k > n
    <3>1. e = m
      BY <1>1, <1>2, <2>1, <2>2, <2>3, <2>5
    <3>2. b \in E
      BY <1>1, <2>1, <2>2, <2>3
    <3>3. b = n
      BY <1>1, <1>2, <2>1, <2>3, <3>1, <3>2
    <3>4. Filter(SubSeq(s, n + 1, m)) /\ k \in (n + 1)..m
      BY <2>1, <2>2, <2>5, <3>1, <3>3
    <3> QED
      BY <3>4
  <2> QED
    BY <2>2, <2>4, <2>5
<1>4. ASSUME NEW k \in acceptedAt(s, i, n) PROVE k \in acceptedAt(s, i, m)
  <2>1. PICK b \in E, e \in E : /\ b < k /\ k <= e /\ \A d \in E : d <= b \/ e <= d
                                /\ Filter(SubSeq(s, b + 1, e))
    BY DEF acceptedAt, E
  <2>2. k \in (i + 1)..m
    <3>1. k \in (i + 1)..n
      BY DEF acceptedAt
    <3> QED
      BY <3>1
  <2>3. \A d \in F : d <= b \/ e <= d
    <3>1. e <= m
      BY <1>2
    <3> QED
      BY <1>1, <2>1, <3>1
  <2>4. b \in F /\ e \in F
    BY <1>1
  <2> QED
    BY <2>1, <2>2, <2>3, <2>4 DEF acceptedAt, F
<1>5. ASSUME NEW k \in (n + 1)..m, Filter(SubSeq(s, n + 1, m)) PROVE k \in acceptedAt(s, i, m)
  <2>1. n < k /\ k <= m /\ k \in (i + 1)..m
    OBVIOUS
  <2>2. \A d \in F : d <= n \/ m <= d
    BY <1>1, <1>2
  <2>3. n \in F /\ m \in F
    BY <1>1
  <2> QED
    BY <1>5, <2>1, <2>2, <2>3 DEF acceptedAt, F
<1> QED
  BY <1>3, <1>4, <1>5

(* More of the file only adds bytes at the end.                               *)
LEMMA AcceptedGrows ==
  ASSUME NEW S, NEW s \in Seq(S), NEW i \in Nat, NEW n \in Nat, NEW m \in Nat,
         i <= n, n <= m, m <= Len(s)
  PROVE  IsPrefix(bytesAt(s, acceptedAt(s, i, n)), bytesAt(s, acceptedAt(s, i, m)))
<1> DEFINE E == lineEnds(s, i, n)
           F == lineEnds(s, i, m)
           A == acceptedAt(s, i, n)
           D == acceptedAt(s, i, m)
           C == D \ A
<1>1. Len(s) \in Nat /\ n <= Len(s)
  BY LenProperties
<1>2. \A x \in F : x \in Nat /\ x >= i /\ x <= m /\ (x <= n => x \in E)
  <2>1. \A x \in F : x \in Nat /\ x >= i /\ x <= m
    BY AcceptedIn
  <2>2. \A x \in F : x <= n => x \in E
    BY DEF lineEnds
  <2> QED
    BY <2>1, <2>2
<1>3. E \subseteq F /\ \A x \in E : x \in Nat /\ x <= n
  <2>1. \A x \in (i + 1)..n : x \in (i + 1)..m
    OBVIOUS
  <2>2. \A x \in E : x \in Nat /\ x <= n
    BY <1>1, AcceptedIn
  <2> QED
    BY <2>1, <2>2 DEF lineEnds
<1>4. A \in SUBSET (1..Len(s)) /\ D \in SUBSET (1..Len(s)) /\ A \in SUBSET (1..n)
  BY <1>1, AcceptedIn
<1> HIDE DEF E, F
<1>5. A \subseteq D
  <2>1. ASSUME NEW k \in A PROVE k \in D
    <3>1. PICK b \in E, e \in E : /\ b < k /\ k <= e /\ \A d \in E : d <= b \/ e <= d
                                  /\ Filter(SubSeq(s, b + 1, e))
      BY DEF acceptedAt, E
    <3>2. k \in (i + 1)..m
      <4>1. k \in (i + 1)..n
        BY DEF acceptedAt
      <4> QED
        BY <4>1
    <3>3. \A d \in F : d <= b \/ e <= d
      BY <1>2, <1>3, <3>1
    <3>4. b \in F /\ e \in F
      BY <1>3
    <3> QED
      BY <3>1, <3>2, <3>3, <3>4 DEF acceptedAt, F
  <2> QED
    BY <2>1
<1>6. ASSUME NEW x \in A, NEW k \in C PROVE x < k
  <2>0. x \in Nat /\ k \in Nat /\ k >= i
    BY <1>4, AcceptedIn
  <2>1. PICK b \in F, e \in F : /\ b < k /\ k <= e /\ \A d \in F : d <= b \/ e <= d
                                /\ Filter(SubSeq(s, b + 1, e))
    BY DEF acceptedAt, F
  <2>2. PICK g \in E, h \in E : g < x /\ x <= h
    BY DEF acceptedAt, E
  <2>3. CASE e <= n
    <3>1. b \in E /\ e \in E /\ k \in (i + 1)..n
      <4>1. b \in Nat /\ e \in Nat /\ b <= n /\ b >= i
        BY <1>2, <2>0, <2>1, <2>3
      <4> QED
        BY <1>2, <2>0, <2>1, <2>3, <4>1
    <3>2. \A d \in E : d <= b \/ e <= d
      BY <1>3, <2>1
    <3>3. k \in A
      BY <2>1, <3>1, <3>2 DEF acceptedAt, E
    <3> QED
      BY <3>3
  <2>4. CASE ~ (e <= n)
    <3>1. h <= b
      BY <1>2, <1>3, <2>1, <2>2, <2>4
    <3> QED
      BY <1>2, <1>3, <2>0, <2>1, <2>2, <3>1
  <2> QED
    BY <2>3, <2>4
<1>7. D = A \cup C /\ C \in SUBSET (1..Len(s))
  BY <1>4, <1>5
<1> HIDE DEF A, D, C
<1>8. /\ Cardinality(D) = Cardinality(A) + Cardinality(C)
      /\ \A k \in 1..Cardinality(A) : bytesAt(s, D)[k] = bytesAt(s, A)[k]
  <2>1. /\ Cardinality(A \cup C) = Cardinality(A) + Cardinality(C)
        /\ \A k \in 1..Cardinality(A) : bytesAt(s, A \cup C)[k] = bytesAt(s, A)[k]
    BY <1>4, <1>6, <1>7, BytesGrow
  <2> QED
    BY <1>7, <2>1
<1>9. /\ bytesAt(s, A) \in Seq(S) /\ Len(bytesAt(s, A)) = Cardinality(A)
      /\ bytesAt(s, D) \in Seq(S) /\ Len(bytesAt(s, D)) = Cardinality(D)
      /\ Cardinality(A) \in Nat /\ Cardinality(C) \in Nat
  BY <1>4, <1>7, BytesAt
<1>10. IsPrefix(bytesAt(s, A), bytesAt(s, D))
  <2>1. Len(bytesAt(s, A)) <= Len(bytesAt(s, D))
    BY <1>8, <1>9
  <2> QED
    BY <1>8, <1>9, <2>1, PrefixIs
<1> QED
  BY <1>10 DEF A, D

(* Two files with the same first n bytes have the same lines up to there.     *)
LEMMA AcceptedSame ==
  ASSUME NEW S, NEW s \in Seq(S), NEW t \in Seq(S), NEW i \in Nat, NEW n \in Nat,
         i <= n, n <= Len(s), n <= Len(t), \A k \in 1..n : s[k] = t[k]
  PROVE  bytesAt(s, acceptedAt(s, i, n)) = bytesAt(t, acceptedAt(t, i, n))
<1> DEFINE E == lineEnds(s, i, n)
           A == acceptedAt(s, i, n)
<1>1. Len(s) \in Nat /\ Len(t) \in Nat
  BY LenProperties
<1>2. lineEnds(t, i, n) = E
  BY DEF lineEnds
<1>3. \A x \in E : x \in Nat /\ x <= n
  BY <1>1, AcceptedIn
<1> HIDE DEF E
<1>4. \A b, e \in E : b < e => SubSeq(s, b + 1, e) = SubSeq(t, b + 1, e)
  <2> SUFFICES ASSUME NEW b \in E, NEW e \in E, b < e
               PROVE  SubSeq(s, b + 1, e) = SubSeq(t, b + 1, e)
    OBVIOUS
  <2>1. b \in Nat /\ e \in Nat /\ b <= e /\ e <= n
    BY <1>3
  <2>2. \A k \in (b + 1)..e : s[k] = t[0 + k]
    BY <2>1
  <2>3. SubSeq(s, b + 1, e) = SubSeq(t, 0 + b + 1, 0 + e)
    <3>1. e <= Len(s) /\ 0 + e <= Len(t)
      BY <1>1, <2>1
    <3> QED
      BY <2>1, <2>2, <3>1, SamePiece
  <2> QED
    BY <2>1, <2>3
<1>5. acceptedAt(t, i, n) = A
  <2>1. ASSUME NEW k \in (i + 1)..n, NEW b \in E, NEW e \in E, b < k, k <= e
        PROVE  SubSeq(s, b + 1, e) = SubSeq(t, b + 1, e)
    <3>1. b < e
      BY <1>3, <2>1
    <3> QED
      BY <1>4, <3>1
  <2>2. ASSUME NEW k \in A PROVE k \in acceptedAt(t, i, n)
    <3>1. PICK b \in E, e \in E : /\ b < k /\ k <= e /\ \A d \in E : d <= b \/ e <= d
                                  /\ Filter(SubSeq(s, b + 1, e)) /\ k \in (i + 1)..n
      BY DEF acceptedAt, E
    <3>2. Filter(SubSeq(t, b + 1, e))
      BY <2>1, <3>1
    <3> QED
      BY <1>2, <3>1, <3>2 DEF acceptedAt
  <2>3. ASSUME NEW k \in acceptedAt(t, i, n) PROVE k \in A
    <3>1. PICK b \in E, e \in E : /\ b < k /\ k <= e /\ \A d \in E : d <= b \/ e <= d
                                  /\ Filter(SubSeq(t, b + 1, e)) /\ k \in (i + 1)..n
      BY <1>2 DEF acceptedAt
    <3>2. Filter(SubSeq(s, b + 1, e))
      BY <2>1, <3>1
    <3> QED
      BY <3>1, <3>2 DEF acceptedAt, E
  <2> QED
    BY <2>2, <2>3
<1>6. A \in SUBSET (1..n) /\ A \in SUBSET (1..Len(s)) /\ A \in SUBSET (1..Len(t))
  <2>1. A \in SUBSET (1..n)
    BY AcceptedIn
  <2>2. \A x \in 1..n : x \in 1..Len(s) /\ x \in 1..Len(t)
    BY <1>1
  <2> QED
    BY <2>1, <2>2
<1> HIDE DEF A
<1> DEFINE u == bytesAt(s, A)
           v == bytesAt(t, A)
<1>7. /\ u \in Seq(S) /\ Len(u) = Cardinality(A)
      /\ \A k \in 1..Cardinality(A) : u[k] = s[nth(A, k)] /\ nth(A, k) \in A
  BY <1>6, BytesAt
<1>8. /\ v \in Seq(S) /\ Len(v) = Cardinality(A)
      /\ \A k \in 1..Cardinality(A) : v[k] = t[nth(A, k)] /\ nth(A, k) \in A
  BY <1>6, BytesAt
<1> HIDE DEF u, v
<1>9. \A k \in 1..Len(u) : u[k] = v[k]
  BY <1>6, <1>7, <1>8
<1>10. u = v
  BY <1>7, <1>8, <1>9, SeqEqual
<1> QED
  BY <1>5, <1>10 DEF u, v, A

(* Nothing lies between a position and itself.                                *)
LEMMA AcceptedNone ==
  ASSUME NEW S, NEW s \in Seq(S), NEW i \in Nat
  PROVE  bytesAt(s, acceptedAt(s, i, i)) = <<>>
<1>1. acceptedAt(s, i, i) = {}
  BY DEF acceptedAt
<1>2. Cardinality({}) = 0
  BY FS_EmptySet
<1>3. {} \in SUBSET (1..Len(s))
  OBVIOUS
<1>4. bytesAt(s, {}) \in Seq(S) /\ Len(bytesAt(s, {})) = 0
  BY <1>2, <1>3, BytesAt
<1> QED
  BY <1>1, <1>4, EmptySeq

(* What is accepted of the file, for the steps of the Tailer.                 *)
LEMMA AcceptedIs ==
  ASSUME NEW S, NEW s \in Seq(S), NEW i \in Nat, NEW n \in Nat, n <= Len(s)
  PROVE  bytesAt(s, acceptedAt(s, i, n)) \in Seq(S)
BY AcceptedIn, BytesAt

-----------------------------------------------------------------------------
(* The steps of the Tailer.                                                   *)

LEMMA HeldBytes ==
  ASSUME Typed, Reading
  PROVE  /\ start \in Nat /\ from \in Nat /\ from <= start /\ start <= pos /\ pos \in Nat
         /\ start + (Len(line) + Len(buf)) = pos /\ pos <= Len(file) /\ Len(file) \in Nat
         /\ Len(line) \in Nat /\ Len(buf) \in Nat
         /\ \A j \in 1..Len(line) : line[j] = file[start + j]
         /\ \A j \in 1..Len(buf) : buf[j] = file[start + Len(line) + j]
<1>1. /\ file \in Seq(Byte) /\ Len(file) \in Nat /\ pos \in Nat /\ pos <= Len(file) /\ from \in Nat
      /\ buf \in Seq(Byte) /\ line \in Seq(Byte)
      /\ Len(buf) \in Nat /\ Len(line) \in Nat /\ Len(line) + Len(buf) <= pos
  BY LenProperties DEF Typed
<1>2. start \in Nat /\ start <= pos /\ start + (Len(line) + Len(buf)) = pos
      /\ pos - start = Len(line) + Len(buf)
  BY <1>1 DEF start
<1>3. start >= from /\ line \o buf = SubSeq(file, start + 1, pos)
  BY DEF Reading
<1>4. /\ Len(line \o buf) = Len(line) + Len(buf)
      /\ \A i \in 1..(Len(line) + Len(buf)) :
           (line \o buf)[i] = IF i <= Len(line) THEN line[i] ELSE buf[i - Len(line)]
  BY <1>1, ConcatProperties
<1>5. \A i \in 1..(Len(line) + Len(buf)) : SubSeq(file, start + 1, pos)[i] = file[start + i]
  <2>1. \A i \in 1..(pos - start) : SubSeq(file, start + 1, pos)[i] = file[start + i]
    BY <1>1, <1>2, SubSeqIs
  <2> QED
    BY <1>2, <2>1
<1>6. ASSUME NEW j \in 1..Len(line) PROVE line[j] = file[start + j]
  <2>1. j \in 1..(Len(line) + Len(buf)) /\ j <= Len(line)
    BY <1>1
  <2> QED
    BY <1>3, <1>4, <1>5, <2>1
<1>7. ASSUME NEW j \in 1..Len(buf) PROVE buf[j] = file[start + Len(line) + j]
  <2> DEFINE i == Len(line) + j
  <2>1. i \in 1..(Len(line) + Len(buf)) /\ ~ (i <= Len(line)) /\ i - Len(line) = j
        /\ start + i = start + Len(line) + j
    BY <1>1, <1>2
  <2> HIDE DEF i
  <2>2. buf[j] = (line \o buf)[i]
    BY <1>4, <2>1
  <2>3. SubSeq(file, start + 1, pos)[i] = file[start + i]
    BY <1>5, <2>1
  <2> QED
    BY <1>3, <2>1, <2>2, <2>3
<1> QED
  BY <1>1, <1>2, <1>3, <1>6, <1>7

LEMMA PassedOn ==
  ASSUME Typed, NEW n \in Nat, from <= n, n <= Len(file)
  PROVE  /\ Accepted(from, n) \in Seq(Byte) /\ Accepted(from, Len(file)) \in Seq(Byte)
         /\ IsPrefix(Accepted(from, n), Accepted(from, Len(file)))
<1>1. file \in Seq(Byte) /\ Len(file) \in Nat /\ from \in Nat
  BY LenProperties DEF Typed
<1>2. Accepted(from, n) \in Seq(Byte)
  BY <1>1, AcceptedIs DEF Accepted
<1>3. Accepted(from, Len(file)) \in Seq(Byte)
  <2>1. Len(file) <= Len(file)
    BY <1>1
  <2> QED
    BY <1>1, <2>1, AcceptedIs DEF Accepted
<1>4. IsPrefix(Accepted(from, n), Accepted(from, Len(file)))
  <2>1. Len(file) <= Len(file)
    BY <1>1
  <2> QED
    BY <1>1, <2>1, AcceptedGrows DEF Accepted
<1> QED
  BY <1>2, <1>3, <1>4

(* The line that readLine finds.                                              *)
LEMMA NextLine ==
  ASSUME Typed, Reading, Delimiters(buf) # {}
  PROVE  LET n == Min(Delimiters(buf))
             m == start + Len(line) + n
             piece == line \o SubSeq(buf, 1, n)
             rest == SubSeq(buf, n + 1, Len(buf))
         IN  /\ n \in 1..Len(buf) /\ m \in Nat /\ m > start /\ m <= pos
             /\ file[m] = Delimiter
             /\ piece \in Seq(Byte)
             /\ rest \in Seq(Byte) /\ Len(rest) = Len(buf) - n
             /\ rest = SubSeq(file, m + 1, pos)
             /\ Accepted(from, m) = IF Filter(piece) THEN Accepted(from, start) \o piece
                                    ELSE Accepted(from, start)
<1> DEFINE n == Min(Delimiters(buf))
           p == start + Len(line)
           m == p + n
           part == SubSeq(buf, 1, n)
           piece == line \o part
           rest == SubSeq(buf, n + 1, Len(buf))
<1>1. /\ file \in Seq(Byte) /\ buf \in Seq(Byte) /\ line \in Seq(Byte)
      /\ Delimiters(line) = {} /\ (start = from \/ file[start] = Delimiter)
  BY DEF Typed, Reading
<1>2. /\ start \in Nat /\ from \in Nat /\ from <= start /\ start <= pos /\ pos \in Nat
      /\ start + (Len(line) + Len(buf)) = pos /\ pos <= Len(file) /\ Len(file) \in Nat
      /\ Len(line) \in Nat /\ Len(buf) \in Nat
      /\ \A j \in 1..Len(line) : line[j] = file[start + j]
      /\ \A j \in 1..Len(buf) : buf[j] = file[p + j]
  BY HeldBytes
<1>3. n \in Delimiters(buf) /\ \A j \in Delimiters(buf) : n <= j
  BY <1>1, DelimitersIn, MinIs
<1>4. n \in 1..Len(buf) /\ buf[n] = Delimiter
  BY <1>1, <1>3, DelimitersIn
<1> HIDE DEF n, p
<1>5. p \in Nat /\ p >= start /\ p - start = Len(line) /\ p + Len(buf) = pos
  BY <1>2 DEF p
<1>6. m \in Nat /\ m > start /\ m <= pos /\ m - start = Len(line) + n /\ m <= Len(file) /\ m > p
      /\ m - p = n /\ pos - m = Len(buf) - n
  BY <1>2, <1>4, <1>5
<1>7. file[m] = Delimiter
  BY <1>2, <1>4
<1>8. part \in Seq(Byte) /\ Len(part) = n /\ \A i \in 1..n : part[i] = buf[i]
  <2>1. /\ SubSeq(buf, 0 + 1, n) \in Seq(Byte) /\ Len(SubSeq(buf, 0 + 1, n)) = n - 0
        /\ \A i \in 1..(n - 0) : SubSeq(buf, 0 + 1, n)[i] = buf[0 + i]
    BY <1>1, <1>2, <1>4, SubSeqIs
  <2>2. 0 + 1 = 1 /\ n - 0 = n /\ \A i \in 1..n : 0 + i = i
    BY <1>4
  <2> QED
    BY <2>1, <2>2
<1> HIDE DEF part
<1>9. /\ piece \in Seq(Byte) /\ Len(piece) = Len(line) + n
      /\ \A i \in 1..(Len(line) + n) : piece[i] = IF i <= Len(line) THEN line[i] ELSE part[i - Len(line)]
  BY <1>1, <1>8, ConcatProperties
<1> HIDE DEF piece, m
<1>10. piece = SubSeq(file, start + 1, m)
  <2> DEFINE v == SubSeq(file, start + 1, m)
  <2>1. v \in Seq(Byte) /\ Len(v) = Len(line) + n /\ \A i \in 1..(Len(line) + n) : v[i] = file[start + i]
    BY <1>1, <1>2, <1>6, SubSeqIs
  <2>2. ASSUME NEW i \in 1..(Len(line) + n) PROVE piece[i] = v[i]
    <3>1. CASE i <= Len(line)
      <4>1. i \in 1..Len(line)
        BY <1>2, <3>1
      <4> QED
        BY <1>2, <1>9, <2>1, <3>1, <4>1
    <3>2. CASE ~ (i <= Len(line))
      <4> DEFINE j == i - Len(line)
      <4>1. j \in 1..n /\ j \in 1..Len(buf) /\ p + j = start + i
        BY <1>2, <1>4, <3>2 DEF p
      <4>2. piece[i] = part[j]
        BY <1>9, <3>2
      <4> HIDE DEF j
      <4> QED
        BY <1>2, <1>8, <2>1, <4>1, <4>2
    <3> QED
      BY <3>1, <3>2
  <2> HIDE DEF v
  <2>3. piece = v
    BY <1>9, <2>1, <2>2, SeqEqual
  <2> QED
    BY <2>3 DEF v
<1>11. ASSUME NEW k \in (start + 1)..(m - 1), file[k] = Delimiter PROVE FALSE
  <2>1. CASE k <= p
    <3>1. k - start \in 1..Len(line) /\ start + (k - start) = k
      <4>1. k \in Nat /\ k - start \in 1..(p - start) /\ start + (k - start) = k
        BY <1>2, <1>5, <1>6, <2>1
      <4> QED
        BY <1>5, <4>1
    <3>2. line[k - start] = Delimiter
      BY <1>2, <1>11, <3>1
    <3> QED
      BY <1>1, <3>1, <3>2, DelimitersIn
  <2>2. CASE ~ (k <= p)
    <3> DEFINE j == k - p
    <3>1. j \in 1..Len(buf) /\ p + j = k /\ j < n
      BY <1>2, <1>4, <1>5, <1>6, <2>2, SMTT(20)
    <3> HIDE DEF j
    <3>2. buf[j] = Delimiter
      BY <1>2, <1>11, <3>1
    <3>3. j \in Delimiters(buf)
      BY <1>1, <3>1, <3>2, DelimitersIn
    <3> QED
      BY <1>3, <1>4, <3>1, <3>3
  <2> QED
    BY <2>1, <2>2
<1>12. acceptedAt(file, from, m)
         = acceptedAt(file, from, start) \cup (IF Filter(piece) THEN (start + 1)..m ELSE {})
  <2>1. start < m
    BY <1>2, <1>6
  <2>2. acceptedAt(file, from, m)
         = acceptedAt(file, from, start)
             \cup (IF Filter(SubSeq(file, start + 1, m)) THEN (start + 1)..m ELSE {})
    <3>1. \A k \in (start + 1)..(m - 1) : file[k] # Delimiter
      BY <1>11
    <3>2. /\ file \in Seq(Byte) /\ from \in Nat /\ start \in Nat /\ m \in Nat
          /\ from <= start /\ m <= Len(file) /\ (start = from \/ file[start] = Delimiter)
      BY <1>1, <1>2, <1>6
    <3> QED
      BY <1>7, <2>1, <3>1, <3>2, AcceptedLine
  <2> QED
    BY <1>10, <2>2
<1>13. Accepted(from, m) = IF Filter(piece) THEN Accepted(from, start) \o piece
                           ELSE Accepted(from, start)
  <2>1. CASE Filter(piece)
    <3>1. acceptedAt(file, from, start) \in SUBSET (1..start)
      <4>1. start <= Len(file)
        BY <1>2
      <4> QED
        BY <1>1, <1>2, <4>1, AcceptedIn
    <3>2. start <= m
      BY <1>2, <1>6
    <3>3. bytesAt(file, acceptedAt(file, from, start) \cup ((start + 1)..m))
            = bytesAt(file, acceptedAt(file, from, start)) \o SubSeq(file, start + 1, m)
      BY <1>1, <1>2, <1>6, <3>1, <3>2, BytesLine, ZenonT(40)
    <3> QED
      BY <1>10, <1>12, <2>1, <3>3 DEF Accepted
  <2>2. CASE ~ Filter(piece)
    <3>1. acceptedAt(file, from, m) = acceptedAt(file, from, start)
      BY <1>12, <2>2
    <3> QED
      BY <2>2, <3>1 DEF Accepted
  <2> QED
    BY <2>1, <2>2
<1>14. rest \in Seq(Byte) /\ Len(rest) = Len(buf) - n /\ rest = SubSeq(file, m + 1, pos)
  <2> DEFINE v == SubSeq(file, m + 1, pos)
  <2>1. rest \in Seq(Byte) /\ Len(rest) = Len(buf) - n /\ \A i \in 1..(Len(buf) - n) : rest[i] = buf[n + i]
    <3>1. n \in Nat /\ n <= Len(buf) /\ Len(buf) <= Len(buf)
      BY <1>2, <1>4
    <3> QED
      BY <1>1, <1>2, <3>1, SubSeqIs
  <2>2. v \in Seq(Byte) /\ Len(v) = Len(buf) - n /\ \A i \in 1..(Len(buf) - n) : v[i] = file[m + i]
    BY <1>1, <1>2, <1>6, SubSeqIs
  <2>3. ASSUME NEW i \in 1..(Len(buf) - n) PROVE rest[i] = v[i]
    <3>1. n + i \in 1..Len(buf) /\ p + (n + i) = m + i
      BY <1>2, <1>4, <1>5 DEF m
    <3> QED
      BY <1>2, <2>1, <2>2, <3>1, ZenonT(40)
  <2> HIDE DEF v, rest
  <2>4. rest = v
    BY <2>1, <2>2, <2>3, SeqEqual
  <2> QED
    BY <2>1, <2>4 DEF v
<1> QED
  BY <1>4, <1>6, <1>7, <1>9, <1>13, <1>14 DEF m, p, piece, part, n

(* Some of what there is to pass on reaches the Writer.                       *)
LEMMA SomeWritten ==
  ASSUME NEW a \in Seq(Byte), NEW w \in Seq(Byte), NEW k \in Nat, k <= Len(w)
  PROVE  /\ a \o SubSeq(w, 1, k) \in Seq(Byte) /\ SubSeq(w, k + 1, Len(w)) \in Seq(Byte)
         /\ (a \o SubSeq(w, 1, k)) \o SubSeq(w, k + 1, Len(w)) = a \o w
         /\ IsPrefix(a \o SubSeq(w, 1, k), a \o w)
<1> DEFINE u == SubSeq(w, 1, k)
           v == SubSeq(w, k + 1, Len(w))
<1>1. Len(w) \in Nat
  BY LenProperties
<1>2. v \in Seq(Byte) /\ Len(v) = Len(w) - k /\ \A i \in 1..(Len(w) - k) : v[i] = w[k + i]
  <2>1. Len(w) <= Len(w)
    BY <1>1
  <2> QED
    BY <1>1, <2>1, SubSeqIs
<1>3. u \in Seq(Byte) /\ Len(u) = k /\ \A i \in 1..k : u[i] = w[i]
  <2>1. /\ SubSeq(w, 0 + 1, k) \in Seq(Byte) /\ Len(SubSeq(w, 0 + 1, k)) = k - 0
        /\ \A i \in 1..(k - 0) : SubSeq(w, 0 + 1, k)[i] = w[0 + i]
    BY <1>1, SubSeqIs
  <2>2. 0 + 1 = 1 /\ k - 0 = k /\ \A i \in 1..k : 0 + i = i
    OBVIOUS
  <2> QED
    BY <2>1, <2>2
<1> HIDE DEF u, v
<1>4. u \o v = w
  <2>1. /\ u \o v \in Seq(Byte) /\ Len(u \o v) = Len(w)
        /\ \A i \in 1..Len(w) : (u \o v)[i] = IF i <= k THEN u[i] ELSE v[i - k]
    <3>1. /\ u \o v \in Seq(Byte) /\ Len(u \o v) = Len(u) + Len(v)
          /\ \A i \in 1..(Len(u) + Len(v)) : (u \o v)[i] = IF i <= Len(u) THEN u[i] ELSE v[i - Len(u)]
      BY <1>2, <1>3, ConcatProperties
    <3>2. Len(u) + Len(v) = Len(w)
      BY <1>1, <1>2, <1>3
    <3> QED
      BY <1>3, <3>1, <3>2
  <2>2. ASSUME NEW i \in 1..Len(w) PROVE (u \o v)[i] = w[i]
    <3>1. CASE i <= k
      BY <1>3, <2>1, <3>1
    <3>2. CASE ~ (i <= k)
      <4>1. i - k \in 1..(Len(w) - k) /\ k + (i - k) = i
        BY <1>1, <3>2
      <4> QED
        BY <1>2, <2>1, <3>2, <4>1
    <3> QED
      BY <3>1, <3>2
  <2> QED
    BY <2>1, <2>2, SeqEqual
<1>5. a \o u \in Seq(Byte)
  BY <1>3, ConcatProperties
<1>6. (a \o u) \o v = a \o w
  <2>0. u \in Seq(Byte) /\ v \in Seq(Byte)
    BY <1>2, <1>3
  <2>1. (a \o u) \o v = a \o (u \o v)
    BY <2>0, ConcatAssociative, SMTT(20)
  <2> QED
    BY <1>4, <2>1
<1>7. IsPrefix(a \o u, a \o w)
  BY <1>2, <1>5, <1>6, PrefixConcat
<1> QED
  BY <1>2, <1>5, <1>6, <1>7 DEF u, v

LEMMA TailReadLine ==
  ASSUME Typed, Typed', Reading, ReadLine
  PROVE  IsPrefix(sink', Accepted(from, Len(file))) /\ (pc' = "read" => Reading')
<1> DEFINE n == Min(Delimiters(buf))
           piece == line \o SubSeq(buf, 1, n)
           all == wbuf \o piece
<1>1. PICK m \in Nat : m = start + Len(line) + n
  BY NextLine DEF ReadLine
<1>2. /\ n \in 1..Len(buf) /\ m > start /\ m <= pos /\ file[m] = Delimiter
      /\ piece \in Seq(Byte)
      /\ SubSeq(buf, n + 1, Len(buf)) = SubSeq(file, m + 1, pos)
      /\ Len(SubSeq(buf, n + 1, Len(buf))) = Len(buf) - n
      /\ Accepted(from, m) = IF Filter(piece) THEN Accepted(from, start) \o piece
                             ELSE Accepted(from, start)
  BY <1>1, NextLine DEF ReadLine
<1>3. /\ pc = "read" /\ buf' = SubSeq(buf, n + 1, Len(buf)) /\ line' = <<>>
      /\ UNCHANGED <<file, pos, from>>
      /\ IF Filter(piece) THEN Write(piece) ELSE UNCHANGED <<wbuf, sink>>
  BY DEF ReadLine, isValid, writerVars
<1>4. /\ start \in Nat /\ from \in Nat /\ from <= start /\ start <= pos /\ pos \in Nat
      /\ start + (Len(line) + Len(buf)) = pos /\ pos <= Len(file) /\ Len(file) \in Nat
      /\ Len(line) \in Nat /\ Len(buf) \in Nat
  BY HeldBytes
<1> HIDE DEF n, piece
<1>5. start' = m
  <2>1. Len(line') = 0 /\ Len(buf') = Len(buf) - n
    BY <1>2, <1>3, EmptySeq
  <2> QED
    <3>1. start' = pos - (0 + (Len(buf) - n))
      BY <1>3, <2>1 DEF start
    <3>2. n \in Nat
      BY <1>2, <1>4
    <3> QED
      BY <1>1, <1>4, <3>1, <3>2
<1>6. /\ wbuf \in Seq(Byte) /\ sink \in Seq(Byte) /\ wbuf' \in Seq(Byte) /\ sink' \in Seq(Byte)
      /\ buf' \in Seq(Byte) /\ sink \o wbuf = Accepted(from, start)
  BY DEF Typed, Reading
<1>7. /\ Accepted(from, m) \in Seq(Byte) /\ Accepted(from, Len(file)) \in Seq(Byte)
      /\ IsPrefix(Accepted(from, m), Accepted(from, Len(file)))
  <2>1. from <= m /\ m <= Len(file)
    BY <1>2, <1>4
  <2> QED
    BY <2>1, PassedOn
<1>8. /\ IsPrefix(sink', Accepted(from, m))
      /\ pc' = "read" => sink' \o wbuf' = Accepted(from, m)
  <2>1. CASE ~ Filter(piece)
    <3>1. sink' \o wbuf' = Accepted(from, m)
      BY <1>2, <1>3, <1>6, <2>1
    <3> QED
      BY <1>6, <3>1, PrefixConcat
  <2>2. CASE Filter(piece)
    <3>1. all \in Seq(Byte) /\ Len(all) \in Nat /\ Accepted(from, m) = sink \o all
      <4>1. all \in Seq(Byte)
        BY <1>2, <1>6, ConcatProperties
      <4>2. (sink \o wbuf) \o piece = sink \o all
        <5>1. wbuf \in Seq(Byte) /\ sink \in Seq(Byte) /\ piece \in Seq(Byte)
          BY <1>2, <1>6
        <5> QED
          BY <5>1, ConcatAssociative
      <4> QED
        BY <1>2, <1>6, <2>2, <4>1, <4>2, LenProperties
    <3>2. Write(piece)
      BY <1>3, <2>2
    <3>3. \/ wbuf' = all /\ sink' = sink
          \/ \E k \in Nat : /\ k <= Len(all) /\ sink' = sink \o SubSeq(all, 1, k)
                            /\ wbuf' = SubSeq(all, k + 1, Len(all)) \/ pc' = "kill"
      <4>1. \A k \in (Len(all) - WriterSize)..Len(all) :
              Len(all) > WriterSize => k \in Nat /\ k <= Len(all)
        BY <3>1, SizesAssumption
      <4>2. \A k \in 0..(Len(all) - 1) : k \in Nat /\ k <= Len(all)
        BY <3>1
      <4> QED
        BY <3>2, <4>1, <4>2 DEF Write, Return
    <3> HIDE DEF all
    <3>4. CASE wbuf' = all /\ sink' = sink
      BY <1>6, <3>1, <3>4, PrefixConcat
    <3>5. CASE \E k \in Nat : /\ k <= Len(all) /\ sink' = sink \o SubSeq(all, 1, k)
                              /\ wbuf' = SubSeq(all, k + 1, Len(all)) \/ pc' = "kill"
      <4>1. PICK k \in Nat : /\ k <= Len(all) /\ sink' = sink \o SubSeq(all, 1, k)
                             /\ wbuf' = SubSeq(all, k + 1, Len(all)) \/ pc' = "kill"
        BY <3>5
      <4>2. /\ (sink \o SubSeq(all, 1, k)) \o SubSeq(all, k + 1, Len(all)) = sink \o all
            /\ IsPrefix(sink \o SubSeq(all, 1, k), sink \o all)
        BY <1>6, <3>1, <4>1, SomeWritten, ZenonT(40)
      <4> QED
        BY <3>1, <4>1, <4>2
    <3> QED
      BY <3>3, <3>4, <3>5
  <2> QED
    BY <2>1, <2>2
<1>9. IsPrefix(sink', Accepted(from, Len(file)))
  BY <1>6, <1>7, <1>8, PrefixTransitive
<1>10. ASSUME pc' = "read" PROVE Reading'
  <2>1. start' >= from' /\ file'[start'] = Delimiter
    BY <1>2, <1>3, <1>4, <1>5
  <2>2. line' \o buf' = SubSeq(file', start' + 1, pos')
    BY <1>2, <1>3, <1>5, <1>6, ConcatEmptySeq
  <2>3. Delimiters(line') = {}
    BY <1>3 DEF Delimiters
  <2>4. sink' \o wbuf' = Accepted(from, start)'
    BY <1>3, <1>5, <1>8, <1>10 DEF Accepted
  <2> QED
    BY <1>10, <2>1, <2>2, <2>3, <2>4 DEF Reading, atRest, ended
<1> QED
  BY <1>9, <1>10

LEMMA TailAppend ==
  ASSUME Typed, Typed', TailInv, AppendByte
  PROVE  TailInv'
<1>1. UNCHANGED <<pc, pos, buf, line, wbuf, sink, from, misplaced>> /\ (atRest' <=> atRest)
      /\ (sound' <=> sound)
  BY DEF AppendByte, readerVars, writerVars, endVars, atRest, ended, sound
<1>2. PICK b : file' = Append(file, b) /\ b \in Byte
  BY DEF AppendByte, Byte
<1>3. /\ file \in Seq(Byte) /\ Len(file) \in Nat /\ from \in Nat /\ from <= Len(file)
      /\ sink \in Seq(Byte)
  BY LenProperties DEF Typed
<1>4. file' \in Seq(Byte) /\ Len(file') = Len(file) + 1 /\ \A i \in 1..Len(file) : file'[i] = file[i]
  BY <1>2, <1>3, AppendProperties
<1>5. ASSUME NEW n \in Nat, from <= n, n <= Len(file)
      PROVE  bytesAt(file', acceptedAt(file', from, n)) = Accepted(from, n)
  <2>1. n <= Len(file') /\ \A k \in 1..n : file[k] = file'[k]
    BY <1>3, <1>4, <1>5
  <2>2. bytesAt(file, acceptedAt(file, from, n)) = bytesAt(file', acceptedAt(file', from, n))
    BY <1>3, <1>4, <1>5, <2>1, AcceptedSame
  <2> QED
    BY <2>2 DEF Accepted
<1> SUFFICES ASSUME ~ misplaced
             PROVE  /\ IsPrefix(sink, bytesAt(file', acceptedAt(file', from, Len(file'))))
                    /\ sound => Reading'
  BY <1>1 DEF TailInv, Accepted
<1>6. IsPrefix(sink, bytesAt(file', acceptedAt(file', from, Len(file'))))
  <2> DEFINE u == bytesAt(file', acceptedAt(file', from, Len(file)))
             v == bytesAt(file', acceptedAt(file', from, Len(file')))
  <2>1. Len(file) <= Len(file) /\ Len(file) <= Len(file') /\ Len(file') \in Nat /\ Len(file') <= Len(file')
    BY <1>3, <1>4
  <2>2. u = Accepted(from, Len(file))
    BY <1>3, <1>5, <2>1
  <2>3. u \in Seq(Byte)
    BY <1>3, <1>4, <2>1, AcceptedIs
  <2>4. v \in Seq(Byte)
    BY <1>3, <1>4, <2>1, AcceptedIs
  <2>5. IsPrefix(u, v)
    BY <1>3, <1>4, <2>1, AcceptedGrows
  <2>6. IsPrefix(sink, u)
    BY <2>2 DEF TailInv
  <2> HIDE DEF u, v
  <2>7. IsPrefix(sink, v)
    BY <1>3, <2>3, <2>4, <2>5, <2>6, PrefixTransitive
  <2> QED
    BY <2>7 DEF v
<1>7. ASSUME sound PROVE Reading'
  <2>1. Reading
    BY <1>7 DEF TailInv
  <2>2. /\ start \in Nat /\ from <= start /\ start <= pos /\ pos \in Nat /\ pos <= Len(file)
    BY <2>1, HeldBytes
  <2>3. start' = start
    BY <1>1 DEF start
  <2>4. start = from \/ file'[start] = Delimiter
    <3>1. start = from \/ (start \in 1..Len(file) /\ file[start] = Delimiter)
      <4>1. start = from \/ file[start] = Delimiter
        BY <2>1 DEF Reading
      <4> QED
        BY <1>3, <2>2, <4>1
    <3> QED
      BY <1>4, <3>1
  <2>5. SubSeq(file', start + 1, pos) = SubSeq(file, start + 1, pos)
    <3>1. \A k \in (start + 1)..pos : file[k] = file'[0 + k]
      BY <1>3, <1>4, <2>2
    <3>2. 0 + pos <= Len(file')
      BY <1>3, <1>4, <2>2
    <3>3. SubSeq(file, start + 1, pos) = SubSeq(file', 0 + start + 1, 0 + pos)
      BY <1>3, <1>4, <2>2, <3>1, <3>2, SamePiece
    <3> QED
      BY <2>2, <3>3
  <2>6. Accepted(from, start)' = Accepted(from, start)
    <3>1. start <= Len(file)
      BY <1>3, <2>2
    <3>2. bytesAt(file', acceptedAt(file', from, start)) = Accepted(from, start)
      BY <1>5, <2>2, <3>1
    <3> QED
      BY <1>1, <2>3, <3>2 DEF Accepted
  <2>7. /\ start' >= from' /\ line' \o buf' = SubSeq(file', start' + 1, pos')
        /\ Delimiters(line') = {} /\ sink' \o wbuf' = Accepted(from, start)'
        /\ atRest' => wbuf' = <<>> /\ buf' = <<>> /\ line' = <<>>
    BY <1>1, <2>1, <2>3, <2>5, <2>6 DEF Reading
  <2> QED
    BY <1>1, <2>3, <2>4, <2>7 DEF Reading
<1> QED
  BY <1>6, <1>7

(* Nothing has been passed on before the Tailer starts.                       *)
LEMMA TailSeeking ==
  ASSUME Typed, pc \in seeking
  PROVE  TailInv
<1>1. /\ sink = <<>> /\ file \in Seq(Byte) /\ Len(file) \in Nat /\ from \in Nat /\ from <= Len(file)
      /\ Len(file) <= Len(file)
  BY LenProperties DEF Typed
<1>2. Accepted(from, Len(file)) \in Seq(Byte)
  BY <1>1, PassedOn
<1>3. IsPrefix(sink, Accepted(from, Len(file)))
  BY <1>1, <1>2, PrefixEmpty
<1> QED
  BY <1>3 DEF TailInv, seeking, sound, atRest, ended

LEMMA TailNotStarted == Typed /\ pc \in seeking => TailInv
BY TailSeeking

LEMMA TailNew ==
  ASSUME Typed, Typed', NewTailer
  PROVE  TailInv'
<1>1. pc = "new" /\ pc' = "select" /\ from' = pos /\ UNCHANGED <<file, pos, buf, line, wbuf, sink>>
  BY DEF NewTailer, readerVars, writerVars
<1>2. buf = <<>> /\ line = <<>> /\ wbuf = <<>> /\ sink = <<>> /\ file \in Seq(Byte)
      /\ pos \in Nat /\ pos <= Len(file) /\ Len(file) \in Nat
  BY <1>1, LenProperties DEF Typed, seeking
<1>3. start' = pos
  <2>1. Len(line') = 0 /\ Len(buf') = 0
    BY <1>1, <1>2, EmptySeq
  <2> QED
    BY <1>1, <1>2, <2>1 DEF start
<1>4. Accepted(from, start)' = <<>>
  BY <1>1, <1>2, <1>3, AcceptedNone DEF Accepted
<1>5. <<>> \o <<>> = <<>>
  BY ConcatEmptySeq, EmptySeq
<1>6. SubSeq(file, pos + 1, pos) = <<>>
  <2>1. pos <= pos /\ pos - pos = 0
    BY <1>2
  <2>2. SubSeq(file, pos + 1, pos) \in Seq(Byte) /\ Len(SubSeq(file, pos + 1, pos)) = 0
    BY <1>2, <2>1, SubSeqIs
  <2> QED
    BY <2>2, EmptySeq
<1>7. Reading'
  <2>1. start' >= from' /\ start' = from'
    BY <1>1, <1>2, <1>3
  <2>2. Delimiters(line') = {}
    BY <1>1, <1>2 DEF Delimiters
  <2> QED
    BY <1>1, <1>2, <1>3, <1>4, <1>5, <1>6, <2>1, <2>2 DEF Reading
<1>8. IsPrefix(sink, Accepted(from, Len(file)))'
  <2> DEFINE v == bytesAt(file, acceptedAt(file, pos, Len(file)))
  <2>1. v \in Seq(Byte)
    <3>1. Len(file) <= Len(file)
      BY <1>2
    <3> QED
      BY <1>2, <3>1, AcceptedIs
  <2> HIDE DEF v
  <2>2. IsPrefix(<<>>, v)
    BY <2>1, PrefixEmpty
  <2> QED
    BY <1>1, <1>2, <2>2 DEF v, Accepted
<1> QED
  BY <1>7, <1>8 DEF TailInv

LEMMA TailFill ==
  ASSUME Typed, Typed', Reading, pc = "read", BufferFull \/ Fill
  PROVE  Reading'
<1>1. /\ file \in Seq(Byte) /\ buf \in Seq(Byte) /\ line \in Seq(Byte)
      /\ Delimiters(line) = {} /\ (start = from \/ file[start] = Delimiter)
      /\ line \o buf = SubSeq(file, start + 1, pos) /\ sink \o wbuf = Accepted(from, start)
  BY DEF Typed, Reading
<1>2. /\ start \in Nat /\ from <= start /\ start <= pos /\ pos \in Nat
      /\ start + (Len(line) + Len(buf)) = pos /\ pos <= Len(file) /\ Len(file) \in Nat
      /\ Len(line) \in Nat /\ Len(buf) \in Nat
  BY HeldBytes
<1>3. UNCHANGED <<file, from, wbuf, sink, pc>> /\ ~ atRest'
  BY DEF BufferFull, Fill, writerVars, atRest, ended
<1>4. CASE BufferFull
  <2>1. line' = line \o buf /\ buf' = <<>> /\ pos' = pos /\ Delimiters(buf) = {}
    BY <1>4 DEF BufferFull
  <2>2. /\ line \o buf \in Seq(Byte) /\ Len(line \o buf) = Len(line) + Len(buf)
        /\ \A i \in 1..(Len(line) + Len(buf)) :
             (line \o buf)[i] = IF i <= Len(line) THEN line[i] ELSE buf[i - Len(line)]
    BY <1>1, ConcatProperties
  <2>3. start' = start
    <3>1. Len(line') = Len(line) + Len(buf) /\ Len(buf') = 0
      BY <2>1, <2>2, EmptySeq
    <3>2. start' = pos - (Len(line) + Len(buf) + 0)
      BY <2>1, <3>1 DEF start
    <3> QED
      BY <1>2, <3>2
  <2>4. line' \o buf' = line \o buf
    BY <2>1, <2>2, ConcatEmptySeq
  <2>5. ASSUME NEW i \in Delimiters(line \o buf) PROVE FALSE
    <3>1. i \in 1..(Len(line) + Len(buf)) /\ (line \o buf)[i] = Delimiter
      BY <2>2, DelimitersIn
    <3>2. CASE i <= Len(line)
      <4>1. i \in 1..Len(line) /\ line[i] = Delimiter
        BY <1>2, <2>2, <3>1, <3>2
      <4> QED
        BY <1>1, <4>1, DelimitersIn
    <3>3. CASE ~ (i <= Len(line))
      <4> DEFINE j == i - Len(line)
      <4>1. j \in 1..Len(buf)
        BY <1>2, <3>1, <3>3
      <4>2. buf[j] = Delimiter
        BY <2>2, <3>1, <3>3
      <4> HIDE DEF j
      <4> QED
        BY <1>1, <2>1, <4>1, <4>2, DelimitersIn
    <3> QED
      BY <3>2, <3>3
  <2>6. Delimiters(line') = {}
    BY <2>1, <2>5
  <2> QED
    BY <1>1, <1>2, <1>3, <2>1, <2>3, <2>4, <2>6 DEF Reading, Accepted
<1>5. CASE Fill
  <2>1. PICK n \in 1..(ReaderSize - Len(buf)) :
           /\ pos + n <= Len(file)
           /\ buf' = buf \o SubSeq(file, pos + 1, pos + n)
           /\ pos' = pos + n
    BY <1>5 DEF Fill
  <2>2. line' = line
    BY <1>5 DEF Fill
  <2>3. PICK q \in Nat : q = pos + n /\ pos <= q /\ q - pos = n /\ q <= Len(file)
    BY <1>2, <2>1
  <2> DEFINE c == SubSeq(file, pos + 1, q)
  <2>4. c \in Seq(Byte) /\ Len(c) = n /\ \A i \in 1..n : c[i] = file[pos + i]
    <3>1. /\ file \in Seq(Byte) /\ pos \in Nat /\ q \in Nat /\ pos <= q /\ q <= Len(file)
      BY <1>1, <1>2, <2>3
    <3>2. c \in Seq(Byte) /\ Len(c) = q - pos /\ \A i \in 1..(q - pos) : c[i] = file[pos + i]
      BY <3>1, SubSeqIs
    <3> HIDE DEF c
    <3> QED
      BY <2>3, <3>2
  <2> HIDE DEF c
  <2>5. buf' = buf \o c /\ Len(buf') = Len(buf) + n
    <3>1. buf' = buf \o c
      BY <2>1, <2>3 DEF c
    <3> QED
      BY <1>1, <2>4, <3>1, ConcatProperties
  <2>6. start' = start
    <3>1. start' = (pos + n) - (Len(line) + (Len(buf) + n))
      BY <2>1, <2>2, <2>5 DEF start
    <3> QED
      <4>1. n \in Nat
        BY <1>2, SizesAssumption
      <4> QED
        BY <1>2, <3>1, <4>1
  <2>7. line' \o buf' = (line \o buf) \o c
    <3>1. line \o (buf \o c) = (line \o buf) \o c
      <4>1. line \in Seq(Byte) /\ buf \in Seq(Byte) /\ c \in Seq(Byte)
        BY <1>1, <2>4
      <4> QED
        BY <4>1, ConcatAssociative, SMTT(20)
    <3> QED
      BY <2>2, <2>5, <3>1
  <2>8. SubSeq(file, start + 1, pos) \o c = SubSeq(file, start + 1, q)
    <3> DEFINE a == SubSeq(file, start + 1, pos)
               v == SubSeq(file, start + 1, q)
    <3>1. a \in Seq(Byte) /\ Len(a) = pos - start /\ \A i \in 1..(pos - start) : a[i] = file[start + i]
      BY <1>1, <1>2, SubSeqIs
    <3>2. v \in Seq(Byte) /\ Len(v) = q - start /\ \A i \in 1..(q - start) : v[i] = file[start + i]
      <4>1. /\ file \in Seq(Byte) /\ start \in Nat /\ q \in Nat /\ start <= q /\ q <= Len(file)
        BY <1>1, <1>2, <2>3
      <4> QED
        BY <4>1, SubSeqIs
    <3>3. \A i \in 1..(q - pos) : c[i] = file[pos + i]
      BY <2>3, <2>4
    <3>4. /\ a \o c \in Seq(Byte) /\ Len(a \o c) = Len(a) + Len(c)
          /\ \A i \in 1..(Len(a) + Len(c)) :
               (a \o c)[i] = IF i <= Len(a) THEN a[i] ELSE c[i - Len(a)]
      BY <2>4, <3>1, ConcatProperties
    <3> HIDE DEF a, v
    <3>5. Len(a) + Len(c) = q - start
      BY <1>2, <2>1, <2>3, <2>4, <3>1
    <3>6. ASSUME NEW i \in 1..(q - start) PROVE (a \o c)[i] = v[i]
      <4>1. CASE i <= pos - start
        <5>1. i \in 1..(pos - start) /\ i \in 1..(Len(a) + Len(c)) /\ i <= Len(a)
          BY <1>2, <3>1, <3>5, <4>1
        <5>2. (a \o c)[i] = a[i]
          BY <3>4, <5>1
        <5> QED
          BY <3>1, <3>2, <5>1, <5>2
      <4>2. CASE ~ (i <= pos - start)
        <5> DEFINE j == i - (pos - start)
        <5>1. j \in 1..(q - pos) /\ pos + j = start + i
          BY <1>2, <2>3, <4>2
        <5>2. (a \o c)[i] = c[j]
          BY <3>1, <3>4, <3>5, <4>2
        <5> HIDE DEF j
        <5> QED
          BY <3>2, <3>3, <5>1, <5>2
      <4> QED
        BY <4>1, <4>2
    <3>7. a \o c = v
      BY <3>2, <3>4, <3>5, <3>6, SeqEqual
    <3> QED
      BY <3>7 DEF a, v
  <2> QED
    BY <1>1, <1>2, <1>3, <2>1, <2>2, <2>3, <2>6, <2>7, <2>8 DEF Reading, Accepted
<1> QED
  BY <1>4, <1>5

(* The steps that end a round of reading, or the loop.                        *)
LEMMA TailEof ==
  ASSUME Typed, Typed', Reading, Eof, ~ misplaced'
  PROVE  Reading' /\ UNCHANGED <<sink, from, file>>
<1>1. /\ pc' = "flush" /\ buf' = <<>> /\ line' = <<>> /\ pos' = stepBack
      /\ UNCHANGED <<file, from, wbuf, sink>> /\ ~ atRest'
  BY DEF Eof, writerVars, atRest, ended
<1>2. /\ start \in Nat /\ from <= start /\ start <= pos /\ pos <= Len(file) /\ Len(file) \in Nat
      /\ pos \in Nat
  BY HeldBytes
<1>3. pos' = start
  <2>1. Len(line \o buf) = Len(line) + Len(buf)
    BY ConcatProperties DEF Typed
  <2> QED
    BY <1>1, <2>1 DEF start, stepBack
<1>4. start' = start
  <2>1. Len(line') = 0 /\ Len(buf') = 0
    BY <1>1, EmptySeq
  <2>2. start' = start - (0 + 0)
    BY <1>3, <2>1 DEF start
  <2> QED
    BY <1>2, <2>2
<1>5. line' \o buf' = SubSeq(file', start' + 1, pos')
  <2>1. file \in Seq(Byte) /\ start <= start /\ start - start = 0 /\ start <= Len(file)
    BY <1>2 DEF Typed
  <2>2. SubSeq(file, start + 1, start) \in Seq(Byte) /\ Len(SubSeq(file, start + 1, start)) = 0
    BY <1>2, <2>1, SubSeqIs
  <2>3. SubSeq(file, start + 1, start) = <<>>
    BY <2>2, EmptySeq
  <2>4. <<>> \o <<>> = <<>>
    BY ConcatEmptySeq, EmptySeq
  <2> QED
    BY <1>1, <1>3, <1>4, <2>3, <2>4
<1>6. Delimiters(line') = {}
  BY <1>1 DEF Delimiters
<1> QED
  BY <1>1, <1>4, <1>5, <1>6 DEF Reading, Accepted

LEMMA TailFlush ==
  ASSUME Typed, Typed', Reading, Flush
  PROVE  /\ IsPrefix(sink', Accepted(from, Len(file))) /\ UNCHANGED <<file, from>>
         /\ pc' = "select" => Reading'
<1>1. pc = "flush" /\ UNCHANGED <<file, from, pos, buf, line>> /\ buf = <<>> /\ line = <<>>
  BY DEF Flush, readerVars, Typed
<1>2. /\ wbuf \in Seq(Byte) /\ sink \in Seq(Byte) /\ wbuf' \in Seq(Byte) /\ sink' \in Seq(Byte)
      /\ sink \o wbuf = Accepted(from, start) /\ Len(wbuf) \in Nat
  BY LenProperties DEF Typed, Reading
<1>3. /\ Accepted(from, start) \in Seq(Byte) /\ Accepted(from, Len(file)) \in Seq(Byte)
      /\ IsPrefix(Accepted(from, start), Accepted(from, Len(file)))
  <2>1. start \in Nat /\ from <= start /\ start <= pos /\ pos <= Len(file) /\ Len(file) \in Nat
        /\ pos \in Nat
    BY HeldBytes
  <2>2. start <= Len(file)
    BY <2>1
  <2> QED
    BY <2>1, <2>2, PassedOn
<1>4. CASE pc' = "select"
  <2>1. sink' = sink \o wbuf /\ wbuf' = <<>>
    BY <1>4 DEF Flush, flushed, Return
  <2>2. sink' \o wbuf' = Accepted(from, start)
    BY <1>2, <2>1, ConcatEmptySeq
  <2>3. start' = start
    BY <1>1 DEF start
  <2>4. Reading'
    BY <1>1, <2>1, <2>2, <2>3 DEF Reading, Accepted
  <2> QED
    BY <1>1, <1>2, <1>3, <2>1, <2>4
<1>5. CASE pc' # "select"
  <2>1. PICK n \in 0..(Len(wbuf) - 1) : sink' = sink \o SubSeq(wbuf, 1, n)
    BY <1>5 DEF Flush
  <2>2. n \in Nat /\ n <= Len(wbuf)
    BY <1>2
  <2>3. IsPrefix(sink \o SubSeq(wbuf, 1, n), sink \o wbuf)
    BY <1>2, <2>2, SomeWritten
  <2>4. IsPrefix(sink', Accepted(from, Len(file)))
    BY <1>2, <1>3, <2>1, <2>3, PrefixTransitive
  <2> QED
    BY <1>1, <1>5, <2>4
<1> QED
  BY <1>4, <1>5

LEMMA TailStep ==
  ASSUME Typed, Typed', TailInv, [Next]_vars
  PROVE  TailInv'
<1>1. CASE pc' \in seeking
  <2>1. (Typed /\ pc \in seeking => TailInv)'
    BY TailNotStarted, PTL
  <2> QED
    BY <1>1, <2>1
<1>2. CASE AppendByte
  BY <1>2, TailAppend
<1>3. CASE NewTailer
  BY <1>3, TailNew
<1>4. CASE SeekEnd \/ SeekMore \/ SeekPosition
  <2>1. pc' \in seeking
    BY <1>4 DEF SeekEnd, SeekMore, SeekPosition, seeking
  <2> QED
    BY <1>1, <2>1
<1>5. CASE LoopStep \/ Stop \/ UNCHANGED vars
  <2> SUFFICES ASSUME ~ misplaced'
               PROVE  /\ IsPrefix(sink, Accepted(from, Len(file)))'
                      /\ sound' => Reading'
    BY DEF TailInv
  <2>1. UNCHANGED <<file, from>>
    BY <1>5 DEF LoopStep, Stop, vars, LoopDying, TimerFires, ReadLine, BufferFull, Fill, Eof,
                ReadError, Flush, LoopKill, LoopDone
  <2>2. ~ misplaced
    BY <1>5 DEF LoopStep, Stop, vars, LoopDying, TimerFires, ReadLine, BufferFull, Fill, Eof,
                ReadError, Flush, LoopKill, LoopDone
  <2>3. /\ IsPrefix(sink, Accepted(from, Len(file)))
        /\ sound => Reading
    BY <2>2 DEF TailInv
  <2>4. \A x : IsPrefix(x, Accepted(from, Len(file))) /\ x = sink'
               => IsPrefix(sink, Accepted(from, Len(file)))'
    BY <2>1 DEF Accepted
  <2>5. CASE ReadLine
    <3>1. pc = "read" /\ sound /\ (sound' => pc' = "read")
      <4>1. pc = "read" /\ (pc' = "read" \/ (pc' = "kill" /\ ret' = Err))
        BY <2>5 DEF ReadLine, Write, Return
      <4> QED
        BY <4>1 DEF sound, atRest, ended, Nil, Err
    <3>2. IsPrefix(sink', Accepted(from, Len(file))) /\ (pc' = "read" => Reading')
      BY <2>3, <2>5, <3>1, TailReadLine
    <3> QED
      BY <2>4, <3>1, <3>2
  <2>6. CASE BufferFull \/ Fill
    <3>1. pc = "read" /\ sink' = sink /\ sound
      BY <2>6 DEF BufferFull, Fill, writerVars, sound
    <3>2. Reading'
      BY <2>3, <2>6, <3>1, TailFill
    <3> QED
      BY <2>3, <2>4, <3>1, <3>2
  <2>7. CASE Eof
    <3>1. sound
      BY <2>7 DEF Eof, sound
    <3>2. Reading' /\ sink' = sink
      BY <2>3, <2>7, <3>1, TailEof
    <3> QED
      BY <2>3, <2>4, <3>2
  <2>8. CASE Flush
    <3>1. sound /\ (sound' => pc' = "select")
      <4>1. pc = "flush" /\ (pc' = "select" \/ (pc' = "kill" /\ ret' = Err))
        BY <2>8 DEF Flush, Return
      <4> QED
        BY <4>1 DEF sound, atRest, ended, Nil, Err
    <3>2. IsPrefix(sink', Accepted(from, Len(file))) /\ (pc' = "select" => Reading')
      BY <2>3, <2>8, <3>1, TailFlush
    <3> QED
      BY <2>4, <3>1, <3>2
  <2>9. CASE ReadError \/ LoopDying \/ TimerFires \/ LoopKill \/ LoopDone \/ Stop \/ UNCHANGED vars
    <3>1. /\ UNCHANGED <<wbuf, sink>>
          /\ \/ ~ sound'
             \/ UNCHANGED <<pos, buf, line>> /\ (sound' => sound) /\ (atRest' => atRest)
      <4>1. CASE ReadError
        BY <4>1 DEF ReadError, Return, writerVars, sound, atRest, ended, Nil, Err
      <4>2. CASE LoopDying \/ TimerFires
        BY <4>2 DEF LoopDying, TimerFires, Return, readerVars, writerVars, sound, atRest, ended
      <4>3. CASE LoopKill \/ LoopDone
        BY <4>3 DEF LoopKill, LoopDone, readerVars, writerVars, sound, atRest, ended
      <4>4. CASE Stop \/ UNCHANGED vars
        <5>1. /\ pc' = pc /\ pos' = pos /\ buf' = buf /\ line' = line /\ wbuf' = wbuf
              /\ sink' = sink /\ ret' = ret
          BY <4>4 DEF Stop, vars, readerVars, writerVars, endVars
        <5> QED
          BY <5>1 DEF sound, atRest, ended
      <4> QED
        BY <2>9, <4>1, <4>2, <4>3, <4>4
    <3>2. CASE ~ sound'
      BY <2>3, <2>4, <3>1, <3>2
    <3>3. CASE UNCHANGED <<pos, buf, line>> /\ (sound' => sound) /\ (atRest' => atRest)
      <4>1. Reading => Reading'
        BY <2>1, <3>1, <3>3 DEF Reading, Accepted, start
      <4> QED
        BY <2>3, <2>4, <3>1, <3>3, <4>1
    <3> QED
      BY <3>1, <3>2, <3>3
  <2> QED
    BY <1>5, <2>5, <2>6, <2>7, <2>8, <2>9 DEF LoopStep
<1> QED
  BY <1>2, <1>3, <1>4, <1>5 DEF Next

LEMMA TailAlways == Spec => [](Typed /\ TailInv)
<1>1. Init => Typed /\ TailInv
  <2>1. Init => Typed /\ pc \in seeking
    BY InitTyped DEF Init, seeking
  <2> QED
    BY <2>1, TailSeeking
<1>2. Typed /\ Typed' /\ TailInv /\ [Next]_vars => TailInv'
  BY TailStep
<1> QED
  BY <1>1, <1>2, TypedAlways, PTL DEF Spec

(* Every accepted line is copied once, whole and in order, for any contents,  *)
(* any filter, any sizes of the buffers and any schedule of the writes of     *)
(* another process, of short reads and of a Writer that fails; what was read  *)
(* is lost only when the loop ends with an error.                             *)
THEOREM TailsOnce == Spec => []TailedOnce
<1>1. Typed /\ TailInv => TailedOnce
  <2> SUFFICES ASSUME Typed, TailInv, ~ misplaced
               PROVE  /\ IsPrefix(sink, Accepted(from, Len(file)))
                      /\ sound => sink \o wbuf = Accepted(from, pos - Len(line \o buf))
                      /\ atRest => wbuf = <<>> /\ (pos = from \/ file[pos] = Delimiter)
    BY DEF TailedOnce
  <2>1. Len(line \o buf) = Len(line) + Len(buf) /\ pos \in Nat /\ Len(file) \in Nat
    BY ConcatProperties, LenProperties DEF Typed
  <2>2. atRest => Reading
    BY DEF TailInv, sound
  <2>3. atRest => start = pos
    <3>1. atRest => Len(line) = 0 /\ Len(buf) = 0
      BY <2>2, EmptySeq DEF Reading
    <3> QED
      BY <2>1, <3>1 DEF start
  <2>4. sound => sink \o wbuf = Accepted(from, pos - Len(line \o buf))
    BY <2>1 DEF TailInv, Reading, start
  <2>5. atRest => wbuf = <<>> /\ (pos = from \/ file[pos] = Delimiter)
    BY <2>2, <2>3 DEF Reading
  <2> QED
    BY <2>4, <2>5 DEF TailInv
<1> QED
  BY <1>1, TailAlways, PTL
=============================================================================
