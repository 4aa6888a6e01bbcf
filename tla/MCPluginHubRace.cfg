SPECIFICATION Spec
CONSTANTS
  p1 = p1 p2 = p2 e1 = e1
  Plugins = {p1}
  Editors = {}
  Capacity = 1
  MaxSnapshot = 2
  MaxQuery = 0
  MaxSave = 0
INVARIANT EveryPluginCatchesUp
CHECK_DEADLOCK FALSE
