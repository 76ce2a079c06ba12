SPECIFICATION FairSpec
CONSTANTS
  Conn = {c1, c2}
  NoConn = NoConn
  Config <- SampleConfig
INVARIANTS
  SlotsExact
  OpenIsOwned
  NothingLeft
PROPERTIES
  ForkServes
