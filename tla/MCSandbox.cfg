SPECIFICATION Spec
CONSTANTS
  MaxCalls = 3
  MaxHead = 1
  Pinned <- MCPinned
  None = None
  Latest = Latest
INVARIANTS
  JournalComplete
  EvmKindSurvives
  ResolvedNotBefore
PROPERTY
  InvocationSettles
CHECK_DEADLOCK FALSE
