SPECIFICATION NavSpec
CONSTANTS
  MaxID = 4
  PageSize = 2
  NoPage = "none"
  NoLink = NoLink
  Handlers = {"foo", "bar", "bare"}
  RawPrefix <- RawPrefixes
  Size <- Sizes
  VHosts <- SomeVHosts
  Clusters <- SomeClusters
  AddressOf <- TwoAddresses
CONSTRAINT SmallPrograms
INVARIANTS
  LeadsWhereItSays
  GoneIsClosed
  AllReachable
