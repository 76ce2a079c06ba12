SPECIFICATION FairSpec
CONSTANTS
  BufferSize = 2
  Configs <- LingerConfigs
PROPERTIES
  LingerOwnsSession
