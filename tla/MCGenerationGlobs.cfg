SPECIFICATION Spec
CONSTANTS
  MaxDepth = 16
  Programs <- Scoping
  Paths <- AskedPaths
INVARIANT GlobsResolve
