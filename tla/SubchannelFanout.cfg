SPECIFICATION FairSpec
CONSTANTS
  Subchannels <- SomeSubchannels
  Addresses = {a1, a2}
  NoAddr = NoAddr
  Parallelism = 2
INVARIANTS
  TypeOK
  SendGoesThrough
  EachRefOnce
PROPERTIES
  IsSnapshot
  PageReturns
