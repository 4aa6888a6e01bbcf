SPECIFICATION Spec
CONSTANTS
  MaxDepth = 16
  Programs <- AllPrograms
  Paths <- AskedPaths
INVARIANTS ResolvesAsRustc ContractExact RoutesServed FilesLoad NamesUniqueUnlessDerived WireAgrees UsageAgrees
PROPERTY GenerationEnds
