CONSTANTS
  f1 = f1
  f2 = f2
  f3 = f3
  Fns = {f1, f2, f3}
  Max = 2
SPECIFICATION LiveSpec
PROPERTIES Implements CallsReturn
CHECK_DEADLOCK FALSE
