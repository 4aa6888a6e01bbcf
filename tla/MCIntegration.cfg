SPECIFICATION FairSpec
CONSTANTS
  Servers = {s1}
  Binaries = {b1, b2}
  None = none
  Bundled = bundled
  MaxEvents = 3
INVARIANTS OriginalKeptUnlessUpset RoutedRunsOriginal OneServer SettledRight
PROPERTIES OwnEnvKept QueueDrains
CHECK_DEADLOCK FALSE
