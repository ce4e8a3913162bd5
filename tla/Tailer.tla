------------------------------- MODULE Tailer --------------------------------
(* src/tailer/tailer.go: SeekLastLines positions a ReadSeeker some filtered   *)
(* lines before its end, then a Tailer polls it and copies each complete line *)
(* that the filter accepts to a Writer, while another process appends to the  *)
(* file.  One step per operation on the file or on the writer.                *)
EXTENDS Integers, Sequences, FiniteSets, SequencesExt

CONSTANTS Bytes,        \* the bytes of the file other than the delimiter
          Filter(_),    \* the TailerFilterFunc, on a line with its delimiter
          BufferSize,   \* bufferSize, as SeekLastLines uses it
          ReaderSize,   \* the size of the bufio.Reader
          WriterSize,   \* the size of the bufio.Writer
          MaxLen,       \* how long the file may become
          MaxLines,     \* the largest argument lines of SeekLastLines
          MaxFaults     \* how many operations may fail in all

ASSUME SizesAssumption ==
  BufferSize \in Nat \ {0} /\ ReaderSize \in Nat \ {0} /\ WriterSize \in Nat \ {0}
ASSUME BoundsAssumption == MaxLen \in Nat /\ MaxLines \in Nat /\ MaxFaults \in Nat

Delimiter  == "newline"
Zero       == "zero"        \* what make([]byte, n) fills a buffer with
Nil        == "nil"
Err        == "error"
StillAlive == "ErrStillAlive"
FromStart  == -1            \* SeekLastLines is not called

VARIABLES
  file,      \* the bytes of the file
  pos,       \* the position of the ReadSeeker
  pc,        \* where the goroutine is
  lines,     \* the argument of SeekLastLines, or FromStart
  offset,    \* variables of SeekLastLines: offset, ...
  found,     \* ... found, ...
  seekPos,   \* ... seekPos, ...
  sbuf,      \* ... the contents of buffer, ...
  scap,      \* ... and its capacity
  buf,       \* the unread bytes of the bufio.Reader
  line,      \* the variable of readLine: what came before a full buffer
  wbuf,      \* the bytes in the bufio.Writer
  sink,      \* the bytes the Writer has got
  ret,       \* what loop() returned
  tomb,      \* [reason, dying, dead]
  faults,    \* how many operations have failed
  size,      \* history: the size of the file that SeekLastLines saw
  from,      \* history: where the Tailer began to read
  misplaced  \* history: a Seek failed whose error the code ignores

seekVars   == <<lines, offset, found, seekPos, sbuf, scap, size>>
readerVars == <<pos, buf, line>>
writerVars == <<wbuf, sink>>
endVars    == <<ret, tomb>>
vars == <<file, pc, seekVars, readerVars, writerVars, endVars, faults, from, misplaced>>

Contents == UNION {[1..n -> Bytes \cup {Delimiter}] : n \in 0..MaxLen}

Init ==
  /\ file \in Contents
  /\ pos = 0
  /\ lines \in {FromStart} \cup 0..MaxLines
  /\ pc = IF lines = FromStart THEN "new" ELSE "seekEnd"
  /\ offset = 0 /\ found = 0 /\ seekPos = 0
  /\ sbuf = [i \in 1..BufferSize |-> Zero] /\ scap = BufferSize
  /\ buf = <<>> /\ line = <<>> /\ wbuf = <<>> /\ sink = <<>>
  /\ ret = Nil
  /\ tomb = [reason |-> StillAlive, dying |-> FALSE, dead |-> FALSE]
  /\ faults = 0 /\ size = 0 /\ from = 0 /\ misplaced = FALSE

Fault   == faults < MaxFaults /\ faults' = faults + 1
NoFault == UNCHANGED faults

(* Another process writes to the file.                                        *)
AppendByte ==
  /\ Len(file) < MaxLen
  /\ \E b \in Bytes \cup {Delimiter} : file' = Append(file, b)
  /\ UNCHANGED <<pc, seekVars, readerVars, writerVars, endVars, faults, from, misplaced>>

-----------------------------------------------------------------------------
(* SeekLastLines.                                                             *)

Delimiters(s) == {i \in DOMAIN s : s[i] = Delimiter}

SeekEnd ==
  /\ pc = "seekEnd"
  /\ \/ /\ NoFault
        /\ offset' = Len(file) /\ size' = Len(file) /\ pos' = Len(file)
        /\ pc' = IF lines = 0 THEN "new" ELSE "seek"
     \/ /\ Fault
        /\ pc' = "failed"
        /\ UNCHANGED <<offset, size, pos>>
  /\ UNCHANGED <<file, lines, found, seekPos, sbuf, scap, buf, line,
                 writerVars, endVars, from, misplaced>>

(* The lines that lie whole in buffer s, by the index before their first      *)
(* byte: the first one may have begun before the buffer.                      *)
wholeFromFirst(s) == {i \in {0} \cup Delimiters(s) : \E j \in Delimiters(s) : i < j}  \* mutant
wholeLines(s) == {i \in Delimiters(s) : \E j \in Delimiters(s) : i < j}

lineAt(s, i) == SubSeq(s, i + 1, Min({j \in Delimiters(s) : j > i}))

(* Room for at least bufferSize bytes, and no more than there are to read.    *)
capacity == IF scap - Len(sbuf) < BufferSize THEN 2 * scap ELSE scap
space == LET free == capacity - Len(sbuf) IN IF free > offset THEN offset ELSE free

(* One iteration: read in front of what is left over, count the accepted      *)
(* lines from the end, keep the first, perhaps incomplete, line.              *)
SeekMore ==
  /\ pc = "seek"
  /\ offset > 0
  /\ \/ /\ NoFault
        /\ LET o        == offset - space
               buffer   == SubSeq(file, o + 1, offset) \o sbuf
               accepted == {i \in wholeLines(buffer) : Filter(lineAt(buffer, i))}
               enough   == found + Cardinality(accepted) >= lines
           IN  /\ pos' = offset
               /\ scap' = capacity
               /\ IF Delimiters(buffer) = {}
                    THEN /\ sbuf' = <<>> /\ offset' = o
                         /\ UNCHANGED <<found, seekPos, pc>>
                    ELSE /\ sbuf' = SubSeq(buffer, 1, Min(Delimiters(buffer)))
                         /\ found' = IF enough THEN lines ELSE found + Cardinality(accepted)
                         /\ offset' = o
                         /\ IF enough
                              THEN /\ seekPos' = o + (CHOOSE i \in accepted :
                                     Cardinality({j \in accepted : j >= i}) = lines - found)
                                   /\ pc' = "position"
                              ELSE UNCHANGED <<seekPos, pc>>
     \/ /\ Fault
        /\ pc' = "failed"
        /\ UNCHANGED <<pos, scap, sbuf, offset, found, seekPos>>
  /\ UNCHANGED <<file, lines, size, buf, line, writerVars, endVars, from, misplaced>>

(* The final positioning, whose error is ignored.                             *)
SeekPosition ==
  /\ pc = "position" \/ (pc = "seek" /\ offset = 0)
  /\ \/ NoFault /\ pos' = seekPos /\ UNCHANGED misplaced
     \/ Fault /\ misplaced' = TRUE /\ UNCHANGED pos
  /\ pc' = "new"
  /\ UNCHANGED <<file, seekVars, buf, line, writerVars, endVars, from>>

-----------------------------------------------------------------------------
(* The Tailer.                                                                *)

(* The variables of SeekLastLines are gone.                                   *)
NewTailer ==
  /\ pc = "new"
  /\ pc' = "select"
  /\ from' = pos
  /\ lines' = 0 /\ offset' = 0 /\ found' = 0 /\ seekPos' = 0
  /\ sbuf' = <<>> /\ scap' = 0 /\ size' = 0
  /\ UNCHANGED <<file, readerVars, writerVars, endVars, faults, misplaced>>

Return(e) == ret' = e /\ pc' = "kill" /\ UNCHANGED tomb

LoopDying ==
  /\ pc = "select"
  /\ tomb.dying
  /\ Return(Nil)
  /\ UNCHANGED <<file, seekVars, readerVars, writerVars, faults, from, misplaced>>

TimerFires ==
  /\ pc = "select"
  /\ pc' = "read"
  /\ UNCHANGED <<file, seekVars, readerVars, writerVars, endVars, faults, from, misplaced>>

(* writer.Write: a bufio.Writer that overflows passes some of its bytes on.   *)
Write(bytes) ==
  LET all == wbuf \o bytes IN
  \/ /\ Len(all) <= WriterSize
     /\ NoFault /\ wbuf' = all
     /\ UNCHANGED <<sink, pc, endVars>>
  \/ /\ Len(all) > WriterSize
     /\ \E n \in (Len(all) - WriterSize)..Len(all) :
          /\ sink' = sink \o SubSeq(all, 1, n)
          /\ wbuf' = SubSeq(all, n + 1, Len(all))
     /\ NoFault /\ UNCHANGED <<pc, endVars>>
  \/ /\ Len(all) > WriterSize
     /\ Fault
     /\ \E n \in 0..(Len(all) - 1) : sink' = sink \o SubSeq(all, 1, n)
     /\ UNCHANGED wbuf
     /\ Return(Err)

(* isValid, on a line that readLine has put together.                         *)
lastPart(part) == Filter(part)                                    \* mutant
isValid(part) == Filter(line \o part)

(* readLine finds a delimiter: the line is omitted, or returned and written.  *)
ReadLine ==
  /\ pc = "read"
  /\ Delimiters(buf) # {}
  /\ LET n == Min(Delimiters(buf)) IN
       /\ buf' = SubSeq(buf, n + 1, Len(buf))
       /\ IF isValid(SubSeq(buf, 1, n))
            THEN Write(line \o SubSeq(buf, 1, n))
            ELSE UNCHANGED <<writerVars, pc, endVars, faults>>
  /\ line' = <<>>
  /\ UNCHANGED <<file, pos, seekVars, from, misplaced>>

(* ReadSlice returns ErrBufferFull, with the whole buffer.                    *)
BufferFull ==
  /\ pc = "read"
  /\ Delimiters(buf) = {} /\ Len(buf) >= ReaderSize
  /\ line' = line \o buf /\ buf' = <<>>
  /\ UNCHANGED <<file, pc, pos, seekVars, writerVars, endVars, faults, from, misplaced>>

(* The bufio.Reader reads from the file, as much as the system cares to give. *)
Fill ==
  /\ pc = "read"
  /\ Delimiters(buf) = {} /\ Len(buf) < ReaderSize
  /\ \E n \in 1..(ReaderSize - Len(buf)) :
       /\ pos + n <= Len(file)
       /\ buf' = buf \o SubSeq(file, pos + 1, pos + n)
       /\ pos' = pos + n
  /\ UNCHANGED <<file, pc, line, seekVars, writerVars, endVars, faults, from, misplaced>>

(* The end of the file: readLine steps back to the start of the line, and     *)
(* ignores the error of that Seek.                                            *)
stepBack == pos - Len(line \o buf)

Eof ==
  /\ pc = "read"
  /\ Delimiters(buf) = {} /\ Len(buf) < ReaderSize
  /\ pos = Len(file)
  /\ \/ NoFault /\ pos' = stepBack /\ UNCHANGED misplaced
     \/ Fault /\ misplaced' = TRUE /\ UNCHANGED pos
  /\ buf' = <<>> /\ line' = <<>>
  /\ pc' = "flush"
  /\ UNCHANGED <<file, seekVars, writerVars, endVars, from>>

(* Any other error of the file ends the loop, without a Flush.                *)
ReadError ==
  /\ pc = "read"
  /\ Delimiters(buf) = {} /\ Len(buf) < ReaderSize
  /\ Fault
  /\ buf' = <<>> /\ line' = <<>>
  /\ Return(Err)
  /\ UNCHANGED <<file, pos, seekVars, writerVars, from, misplaced>>

noFlush == UNCHANGED writerVars                                   \* mutant
flushed == sink' = sink \o wbuf /\ wbuf' = <<>>

Flush ==
  /\ pc = "flush"
  /\ \/ NoFault /\ flushed /\ pc' = "select" /\ UNCHANGED endVars
     \/ /\ Fault
        /\ \E n \in 0..(Len(wbuf) - 1) : sink' = sink \o SubSeq(wbuf, 1, n)
        /\ UNCHANGED wbuf
        /\ Return(Err)
  /\ UNCHANGED <<file, readerVars, seekVars, from, misplaced>>

-----------------------------------------------------------------------------
(* The tomb, as in Try: the first reason that is not nil stays.               *)
KilledFirstOnly(t, reason) ==                                     \* mutant
  [t EXCEPT !.reason = IF t.reason = StillAlive THEN reason ELSE t.reason,
            !.dying  = TRUE]
Killed(t, reason) ==
  [t EXCEPT !.reason = IF t.reason \in {Nil, StillAlive} THEN reason ELSE t.reason,
            !.dying  = TRUE]

LoopKill ==
  /\ pc = "kill"
  /\ tomb' = Killed(tomb, ret)
  /\ pc' = "done"
  /\ UNCHANGED <<file, readerVars, seekVars, writerVars, ret, faults, from, misplaced>>

LoopDone ==
  /\ pc = "done"
  /\ tomb' = [Killed(tomb, Nil) EXCEPT !.dead = TRUE]
  /\ pc' = "exited"
  /\ UNCHANGED <<file, readerVars, seekVars, writerVars, ret, faults, from, misplaced>>

(* Stop, which then waits until the tomb is dead.                             *)
Stop ==
  /\ pc \notin {"seekEnd", "seek", "position", "failed", "new"}
  /\ tomb' = Killed(tomb, Nil)
  /\ UNCHANGED <<file, pc, readerVars, seekVars, writerVars, ret, faults, from, misplaced>>

LoopStep ==
  \/ LoopDying \/ TimerFires \/ ReadLine \/ BufferFull \/ Fill \/ Eof \/ ReadError
  \/ Flush \/ LoopKill \/ LoopDone

Next == AppendByte \/ SeekEnd \/ SeekMore \/ SeekPosition \/ NewTailer \/ LoopStep \/ Stop

Spec == Init /\ [][Next]_vars

(* The Tailer's goroutine runs, and its timer fires.  The timer is set to     *)
(* polltime just before the select, so that of a dying tomb and the timer the *)
(* tomb is the first to be ready, and is taken sooner or later.               *)
LiveSpec == Spec /\ WF_vars(LoopStep) /\ SF_vars(LoopDying)

-----------------------------------------------------------------------------
(* The types of the variables.                                                *)
TypeOK ==
  /\ file \in Contents
  /\ pos \in 0..Len(file) /\ offset \in 0..Len(file) /\ size \in 0..Len(file)
  /\ seekPos \in 0..Len(file) /\ from \in 0..Len(file)
  /\ found \in 0..MaxLines /\ lines \in {FromStart} \cup 0..MaxLines
  /\ Len(sbuf) <= scap
  /\ Len(buf) <= ReaderSize /\ Len(wbuf) <= WriterSize
  /\ ret \in {Nil, Err} /\ misplaced \in BOOLEAN
  /\ tomb \in [reason : {Nil, Err, StillAlive}, dying : BOOLEAN, dead : BOOLEAN]
  /\ faults \in 0..MaxFaults

(* The index before each accepted line of s, an unterminated one at the end   *)
(* not counted.                                                               *)
acceptedStarts(s) ==
  {i \in {0} \cup Delimiters(s) :
     (\E j \in Delimiters(s) : i < j) /\ Filter(lineAt(s, i))}

(* The position `wanted' accepted lines before the end of s; the start if     *)
(* there are not that many.                                                   *)
LastLines(s, wanted) ==
  LET starts == acceptedStarts(s)
  IN  IF wanted = 0 THEN Len(s)
      ELSE IF Cardinality(starts) < wanted THEN 0
      ELSE CHOOSE i \in starts : Cardinality({j \in starts : j >= i}) = wanted

(* "SeekLastLines sets the read position of the ReadSeeker to the wanted      *)
(* number of filtered lines before the end", wherever the lines lie in the    *)
(* blocks that it reads backwards and whatever is appended meanwhile.         *)
SeekedRight ==
  (pc = "new" /\ lines # FromStart /\ ~misplaced) =>
    pos = LastLines(SubSeq(file, 1, size), lines)

(* The positions of the bytes of the complete, accepted lines among           *)
(* s[i+1..n]: those between two ends of lines that follow each other.         *)
lineEnds(s, i, n) == {i} \cup {k \in (i + 1)..n : s[k] = Delimiter}

acceptedAt(s, i, n) ==
  LET ends == lineEnds(s, i, n) IN
  {k \in (i + 1)..n :
     \E b, e \in ends : /\ b < k /\ k <= e /\ \A d \in ends : d <= b \/ e <= d
                       /\ Filter(SubSeq(s, b + 1, e))}

(* The bytes of s at a set of positions, in order.                            *)
bytesAt(s, at) ==
  [k \in 1..Cardinality(at) |->
     s[CHOOSE p \in at : Cardinality({q \in at : q <= p}) = k]]

Accepted(i, n) == bytesAt(file, acceptedAt(file, i, n))

(* The loop waits, or has returned nil; or it is in the middle of a poll.     *)
ended  == pc \in {"kill", "done", "exited"}
atRest == pc = "select" \/ (ended /\ ret = Nil)
sound  == pc \in {"read", "flush"} \/ atRest

(* Every accepted line is copied once, whole and in order, while the file     *)
(* grows: nothing else reaches the Writer, and whenever the Tailer waits, or  *)
(* has ended without an error, the Writer has all that has been read, which   *)
(* ends with a complete line.  Lines that were read stay behind in a buffer   *)
(* only if the loop ends with an error, which Stop returns.                   *)
TailedOnce ==
  ~misplaced =>
    /\ IsPrefix(sink, Accepted(from, Len(file)))
    /\ sound => sink \o wbuf = Accepted(from, pos - Len(line \o buf))
    /\ atRest => wbuf = <<>> /\ (pos = from \/ file[pos] = Delimiter)

(* Stop returns, with the error that ended the loop if there was one.         *)
StopReturns == tomb.dying ~> (tomb.dead /\ tomb.reason = ret)

(* Every complete, accepted line reaches the Writer, however it was appended, *)
(* unless the Tailer is stopped or an operation fails.                        *)
LinesArrive ==
  \A n \in 1..MaxLen :
    (pc = "select" /\ n <= Len(Accepted(from, Len(file))))
      ~> (n <= Len(sink) \/ tomb.dying \/ misplaced)
=============================================================================
