SPECIFICATION ReplaySpec
CONSTANTS
  NumInstruments = 1
  Instruments <- MCInstruments
  Misreported <- MCMisreported
  InReach <- MCInReach
  NoInstrument = NoInstrument
  MaxSeq = 3
  MaxGeneration = 2
  MaxTimeouts = 1
  Verify = TRUE
CHECK_DEADLOCK FALSE
INVARIANTS
  LiveMeansIdle
  LiveBookIsOfThisConnection
  HandlerKnows
PROPERTIES
  MismatchIsReal
  ReplayLeavesOnlyWrongBooks
