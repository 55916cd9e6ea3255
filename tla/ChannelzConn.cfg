SPECIFICATION FairSpec
CONSTANTS
  Callers = {c1, c2}
  Conns = {k1, k2}
  Nil = Nil
  Injected = Injected
  Injections <- ManagedOrMocked
INVARIANTS
  StubsMatchConn
  ResolverFresh
  NoConnLeak
  OnlyFailedConnClosed
  NoNilStub
PROPERTIES
  InjectedStubKept
  SharesOneConnection
  CallReturns
  RecoversWithoutBackoff
