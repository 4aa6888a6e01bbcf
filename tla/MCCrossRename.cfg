SPECIFICATION FairSpec
CONSTANTS
  Count = 2
  Instances = {p1, p2}
  Files = {lib, routes}
  Decl = lib
  Endpoints = {2}
  Names = {1, 2, 3, 5}
  Clumsy = {3}
  Foreign = {5}
  Stray = 4
  None = None
  MaxEvents = 2
INVARIANTS  NeverGarbled 
PROPERTIES SavedTogether 
CHECK_DEADLOCK FALSE
