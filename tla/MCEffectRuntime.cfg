SPECIFICATION FairSpec
CONSTANTS
  MaxLines = 3
  MaxChunk = 3
INVARIANTS TimeoutIsFinal FramesDecoded NothingLeftBehind
PROPERTY EndsWhenTold
