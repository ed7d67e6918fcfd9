SPECIFICATION HttpSpec
CONSTANTS
  MaxBody = 3
  MaxHeaders = 4
  Heads = {1, 5}
CHECK_DEADLOCK FALSE
INVARIANT TruncationIsCaught
