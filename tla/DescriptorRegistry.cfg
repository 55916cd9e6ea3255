SPECIFICATION FairSpec
CONSTANTS
  Callers = {c1, c2}
  Files <- SomeFiles
  Types <- SomeTypes
  Deps <- SomeDeps
  FileOf <- SomeFileOf
INVARIANTS
  RegistrationSucceeds
  
  FailsOnlyIfUnserved
  StackDescends
PROPERTIES
  ResolutionEnds
