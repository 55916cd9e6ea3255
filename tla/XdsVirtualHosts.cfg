SPECIFICATION Spec
CONSTANTS
  Resources <- SomeResources
  NoXds = "passthrough"
  Names <- SomeNames
  Sidecar <- SomeSidecar
  Fields <- SomeFields
  Unmatched = ""
  MaxID = 3
  PageSize = 2
INVARIANTS
  NamedChannelAgrees
  CallTimeUnlessFallback
