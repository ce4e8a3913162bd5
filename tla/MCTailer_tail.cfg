CONSTANTS
  Bytes = {"a", "b"}
  Filter <- ContainsA
  BufferSize = 1
  ReaderSize = 2
  WriterSize = 2
  MaxLen = 5
  MaxLines = 2
  MaxFaults = 1
SPECIFICATION LiveSpec
INVARIANTS SeekedRight TailedOnce
PROPERTIES StopReturns LinesArrive
CHECK_DEADLOCK FALSE
