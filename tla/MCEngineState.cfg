SPECIFICATION Spec
CONSTANTS
  NumPackages = 2
  Kinds = {"good", "broken", "unknown", "panics"}
  MaxEdits = 2
  MaxRounds = 4
  MaxChildren = 1
INVARIANTS ShownIsMerged CurrentUnlessPanicked PluginsCurrent MarksMatchDisk
PROPERTY UsableKept
