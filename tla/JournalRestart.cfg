SPECIFICATION JournalSpec
CONSTANTS
  SegmentUnits = 3
  RingSlots = 2
  MaxAppends = 3
  MaxLater = 1
  MaxSessions = 2
  MaxFaults = 0
INVARIANT
  CrashIsAccepted
CHECK_DEADLOCK FALSE
