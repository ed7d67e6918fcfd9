SPECIFICATION PartsSpec
CONSTANTS
  Buffer = 13
  MaxFrame = 3
  MaxMessage = 4
  Short = 2
  Medium = 2
  Chunk = 4
  Reply = 3
  MaxFrames = 3
  Frames <- MCFrames
  MaxBody = 3
  MaxHeaders = 4
  Heads = {1, 5}
  MaxDepth = 2
  MaxTokens = 9
  Known = {"BTCUSDT", "ETHUSDT"}
  Unknown = "XRPUSDT"
  TickOf <- MCTickOf
  LotOf <- MCLotOf
  LevelLimit = 3
  LevelArrays <- MCLevelArrays
  UpdateIds = {1, 2}
  Repeatable = {"b"}
  I64Max = 127
  I128Max = 32767
  MaxParseScale = 2
  MaxPower = 4
  Alphabet = {0, 1, 9, 10, 11, 12}
  MaxLength = 5
  LevelsPerSide = 2
  MaxPrice = 4
  MaxQty = 2
  BucketCapacity = 3
  Window = 4
  Weights = {2, 4}
  MaxRetryAfter = 2
  MaxTime = 9
  InitialDelay = 3
  MaxDelay = 17
  ShiftBits = 3
  RandomSteps = 4
  SubBits = 2
  ValueBits = 6
  MaxSamples = 3
  Samples = {0, 1, 3, 4, 7, 8, 9, 15, 16, 47, 62, 63}
  Values = {a, b}
  Capacity = 4
  Wrap = 8
  Nothing = Nothing
  Configured = {1, 2}
  MaxRequest = 2
  DrainLimit = 2
CHECK_DEADLOCK FALSE
INVARIANTS
  EventsAreTheFrames
  EndsWhereTheServerSays
  AcceptedIsWhole
  AcceptsTheGrammar
  DecodedInAnyOrder
  FastPathAgrees
  ConversionsAreExact
  KnownLevelsAreExact
  BudgetIsKept
  OneSleepIsEnough
  DelaysSlowDown
  PercentilesAreClose
  NoSlotRace
  SuccessIsEarned
PROPERTIES
  ImplementsFifo
  PushedIsPopped
  ClosedIsNoticed
  ToolExits
