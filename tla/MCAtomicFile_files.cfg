CONSTANTS
  c1 = c1
  c2 = c2
  c3 = c3
  Callers = {c1, c2, c3}
  Calls = {"AtomicWriteFile", "CopyFile", "WriteYaml", "ReadYaml", "Replace"}
  Size <- Sizes
  MaxFaults = 2
SPECIFICATION Spec
CHECK_DEADLOCK FALSE
INVARIANTS TempRemoved ReadsWhole LinkExplained
PROPERTY FileImplements
