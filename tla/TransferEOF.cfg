SPECIFICATION Spec
CONSTANTS
  BufferSize = 2
  Configs <- TwoWayConfigs
INVARIANTS
  OnEOFMeansEOF
