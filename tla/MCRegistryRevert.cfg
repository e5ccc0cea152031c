SPECIFICATION FreshSpec
CONSTANTS
  n1 = n1
  n2 = n2
  plain = plain
  other = other
  rich = rich
  u1 = u1
  u2 = u2
  None = None
  Unborn = Unborn
  Dormant = Dormant
  Names <- MCNames
  Contents <- MCContents
  WithActions <- MCWithActions
  Ulids <- MCUlids
  MaxClock = 1
  MaxRows = 4
CHECK_DEADLOCK FALSE
PROPERTY RegisterActivates
