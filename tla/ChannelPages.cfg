SPECIFICATION Spec
CONSTANTS
  PageSize = 2
  MaxChannelID = 5
  Untraced = {3}
INVARIANTS
  NoChannelMissed
PROPERTIES
  NextAdvances
