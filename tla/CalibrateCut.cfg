CONSTANTS
  Dirs = {run, kept, out}
  Lo = 1
  Hi = 2
  MaxCommands = 4
  None = None
  Missing = Missing
  Torn = Torn
SPECIFICATION Spec
CHECK_DEADLOCK FALSE
INVARIANT ShiftedOnce
