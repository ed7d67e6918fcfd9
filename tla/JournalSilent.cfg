SPECIFICATION JournalSpec
CONSTANTS
  SegmentUnits = 3
  RingSlots = 2
  MaxAppends = 3
  MaxLater = 1
  MaxSessions = 1
  MaxFaults = 0
INVARIANT
  DropsAreMarked
CHECK_DEADLOCK FALSE
