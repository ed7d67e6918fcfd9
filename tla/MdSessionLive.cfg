SPECIFICATION FairSpec
CONSTANTS
  NumInstruments = 1
  Instruments <- MCInstruments
  Misreported <- MCMisreported
  InReach <- MCInReachLater
  NoInstrument = NoInstrument
  MaxSeq = 3
  MaxGeneration = 1
  MaxTimeouts = 1
  Verify = TRUE
CHECK_DEADLOCK FALSE
PROPERTIES
  DownLeadsToLive
  WrongBookIsCaught
