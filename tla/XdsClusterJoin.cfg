SPECIFICATION Spec
CONSTANTS
  Clusters = {A, B}
  Services = {SA, SB}
  Addresses <- SomeAddresses
  NoAddress = ""
  Port <- SomePorts
  PortValue <- SomePortValues
  Subchannels <- SomeSubchannels
  Endpoints <- SomeEndpoints
  Inline <- SomeInline
  ShortName <- SomeNames
  Subset = "subset"
  Garbled = "garbled"
  LegacyNames = {"ROUND_ROBIN", "RING_HASH"}
  MaxWrappers = 7
INVARIANTS
  PoolsMatchPoolPage
  RowsArePools
  UnmatchedBelongsNowhere
  NothingHidden
  RealPolicyShown
