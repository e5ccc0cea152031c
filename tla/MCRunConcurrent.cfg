SPECIFICATION Spec
CONSTANTS
  c1 = c1
  t1 = t1
  s1 = s1
  None = None
  AnySelector = AnySelector
  Noop = Noop
  MaxU256 = 2
  MaxActions = 2
  AaDelegate = TRUE
  CanCrash = TRUE
  Runs = {r1, r2}
  Chain <- MCChain
  Address <- MCAddress
  Selector <- MCSelector
  Policies <- MCPolicies
  Decisions <- MCDecisions
  Outputs <- BatchOutputs
INVARIANTS
  ChainWithinSnapshot
  BatchIsWhole
  BatchRevertIsExplained
