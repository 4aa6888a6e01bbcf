SPECIFICATION FairSpec
CONSTANTS
  p1 = p1 p2 = p2 e1 = e1
  Plugins = {p1}
  Editors = {e1}
  Capacity = 1
  MaxSnapshot = 2
  MaxQuery = 1
  MaxSave = 1
PROPERTIES ConnectionsServed RoundsEnd
CHECK_DEADLOCK FALSE
