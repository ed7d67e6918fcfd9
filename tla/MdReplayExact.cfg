SPECIFICATION ReplaySpec
CONSTANTS
  NumInstruments = 1
  Instruments <- MCInstruments
  Misreported <- MCMisreported
  InReach <- MCInReach
  NoInstrument = NoInstrument
  MaxSeq = 2
  MaxGeneration = 1
  MaxTimeouts = 1
  Verify = TRUE
CHECK_DEADLOCK FALSE
INVARIANT ReplayIsExact
