SPECIFICATION Spec
CONSTANTS
  BufferSize = 2
  Configs <- SafetyConfigs
INVARIANTS
  CloseShutdownExclusive
  ReturnComplete
  FailureExact
PROPERTIES
  ImplementsByteRelay
