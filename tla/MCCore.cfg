SPECIFICATION CoreSpec
CONSTANTS
  Prices = {1, 2}
  Qtys = {0, 1}
  BufferedMessages = 3
  BufferedUpdates = 4
  MaxSeq = 4
  Values = {2, 8}
  Payloads <- MCPayloads
  Capacity = 8
  Wrap = 16
  Nothing = Nothing
  Pending = Pending
  SegmentUnits = 3
  RingSlots = 2
  MaxAppends = 3
  MaxLater = 1
  MaxSessions = 2
  MaxFaults = 1
INVARIANTS
  TypeOK
  LiveBookIsVenueBook
  PendingIsOneChain
  OnlyFirstCanFail
  OutcomeMatchesState
  NoRegionRace
  RegionsInBounds
  NothingMissingUnmarked
  FinishedIsWhole
PROPERTIES
  ImplementsSeqSync
  ImplementsRecordQueue
  ReaderNeverStalls
  FinishReturns
