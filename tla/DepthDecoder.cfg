SPECIFICATION DecoderSpec
CONSTANTS
  Known = {"BTCUSDT", "ETHUSDT"}
  Unknown = "XRPUSDT"
  TickOf <- MCTickOf
  LotOf <- MCLotOf
  LevelLimit = 3
  LevelArrays <- MCLevelArrays
  UpdateIds = {1, 2}
  Repeatable = {"b"}
CHECK_DEADLOCK FALSE
INVARIANT BidsFirst
