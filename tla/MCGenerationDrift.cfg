SPECIFICATION Spec
CONSTANTS
  MaxDepth = 16
  Programs <- Spelling
  Paths = {}
INVARIANT WireFormatKept
