SPECIFICATION Spec
CONSTANTS
  c1 = c1
  c2 = c2
  c3 = c3
  open = open
  tight = tight
  broken = broken
  nil = nil
  None = nil
  Calls <- MCCalls
  Bodies <- MCBodies
  Valid <- MCValid
  TomlFiles <- MCTomlFiles
CHECK_DEADLOCK FALSE
INVARIANTS
  PersistedBeforeEnforced
  MemoryFollowsTable
PROPERTIES
  OnlyCallsReplace
