SPECIFICATION Spec
CONSTANTS
  c1 = c1
  c2 = c2
  a1 = a1
  a2 = a2
  s1 = s1
  s2 = s2
  None = None
  AnySelector = AnySelector
  MaxU256 = 3
  MaxCalls = 3
  Chain <- MCChain
  Address <- MCAddress
  Selector <- MCSelector
  Policies <- MCPolicies
  Decisions <- MCDecisions
INVARIANTS
  SpendSound
  WideningNeverRevokes
CHECK_DEADLOCK FALSE
