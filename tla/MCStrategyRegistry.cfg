SPECIFICATION Spec
CONSTANTS
  n1 = n1
  n2 = n2
  plain = plain
  other = other
  rich = rich
  u1 = u1
  u2 = u2
  None = None
  Unborn = Unborn
  Dormant = Dormant
  Names <- MCNames
  Contents <- MCContents
  WithActions <- MCWithActions
  Ulids <- MCUlids
  MaxClock = 1
  MaxRows = 3
SYMMETRY Symmetry
CHECK_DEADLOCK FALSE
INVARIANTS
  LineagesSound
  NoAliasing
PROPERTIES
  NameSurvives
  ImplementsLineage
