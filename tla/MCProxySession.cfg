SPECIFICATION FairSpec
CONSTANTS
  main = main settings = settings
  r1 = r1 r2 = r2 n1 = n1 shutdown = shutdown
  Requests = {r1}
  Renames = {n1}
  ShutdownId = shutdown
  Docs = {main, settings}
  RustDocs = {main}
  Touched <- TouchesMain
  MaxVersion = 2
  MaxSpawns = 2
  MaxAsks = 1
INVARIANTS NothingForgotten ChildCurrent RenameStages
PROPERTIES IsRequestService EveryRequestAnswered
