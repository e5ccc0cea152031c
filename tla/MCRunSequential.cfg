SPECIFICATION FairSpec
CONSTANTS
  c1 = c1
  t1 = t1
  s1 = s1
  None = None
  AnySelector = AnySelector
  Noop = Noop
  MaxU256 = 2
  MaxActions = 3
  AaDelegate = FALSE
  CanCrash = TRUE
  Runs = {r1}
  Chain <- MCChain
  Address <- MCAddress
  Selector <- MCSelector
  Policies <- MCPolicies
  Decisions <- MCDecisions
  Outputs <- AllOutputs
INVARIANTS
  GatesBeforeChain
  SequentialPrefix
  RowsTruthful
  AnswersTruthful
  TriageTellsTheRun
PROPERTIES
  SettledIsFrozen
  RunSettles
  ImplementsContract
