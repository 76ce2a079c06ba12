SPECIFICATION FairSpec
CONSTANTS
  BufferSize = 2
  Configs <- LiveConfigs
PROPERTIES
  TransferReturns
  ReadIsDelivered
