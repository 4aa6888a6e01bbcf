SPECIFICATION FairSpec
CONSTANTS
  watch = watch
  server = server
  v1 = v1
  v2 = v2
  bad = bad
  schemas = schemas
  users = users
  old = old
  new = new
  Absent = Absent
  Torn = Torn
  None = None
  Watchers = {watch}
  Servers = {server}
  Sources = {v1, v2, bad}
  Broken = {bad}
  Files = {schemas, users}
  Contents = {old, new}
  Packages <- MCPackages
  MaxEdits = 2
  MaxCrashes = 1
INVARIANTS Owed CurrentWhenQuiet
PROPERTY EventuallyCurrent
CHECK_DEADLOCK FALSE
