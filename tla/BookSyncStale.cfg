SPECIFICATION MCSpec
CONSTANTS
  Prices = {1, 2}
  Qtys = {0, 1}
  BufferedMessages = 2
  BufferedUpdates = 1
  MaxSeq = 3
INVARIANT LiveBookIsNeverStale
