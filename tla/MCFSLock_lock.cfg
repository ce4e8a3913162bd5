CONSTANTS
  p1 = p1
  p2 = p2
  Procs = {p1, p2}
  Breakers = {p2}
  MaxFaults = 1
  MaxCrashes = 1
  Modes = {"LockWithTimeout", "LockWithFunc"}
SPECIFICATION LiveSpec
INVARIANTS HeldIsHolder UnlockedOwn HolderOnDisk
PROPERTIES Implements LocksProgress
