SPECIFICATION Spec
CONSTANTS
  p1 = p1 p2 = p2 e1 = e1
  Plugins = {p1, p2}
  Editors = {}
  Capacity = 2
  MaxSnapshot = 2
  MaxQuery = 2
  MaxSave = 0
INVARIANTS CaughtUpUnlessRaced AnswersRouted
CHECK_DEADLOCK FALSE
