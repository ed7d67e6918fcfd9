SPECIFICATION Spec
CONSTANTS
  NumInstruments = 2
  Instruments <- MCInstruments
  Misreported <- MCMisreported
  InReach <- MCInReach
  NoInstrument = NoInstrument
  MaxSeq = 1
  MaxGeneration = 1
  MaxTimeouts = 1
  Verify = TRUE
CHECK_DEADLOCK FALSE
INVARIANTS
  OneSyncRequest
  VerifiedBookIsLive
