SPECIFICATION PoolSpec
CONSTANTS
  SubIDs = {1, 2, 3}
  Addresses = {1, 2}
  Limits = {100, 200}
  Unset = Unset
  NoCluster = NoCluster
INVARIANTS
  LimitIsConfigured
PROPERTIES
  ReloadShowsSame
