CONSTANTS
  Strategies <- SmallStrategies
  MaxTime = 7
  MaxCount = 5
SPECIFICATION AptLiveSpec
INVARIANTS EnoughAttempts InstallReported
PROPERTIES HasNextKept StopsForGood Spaced InstallEnds
CHECK_DEADLOCK FALSE
