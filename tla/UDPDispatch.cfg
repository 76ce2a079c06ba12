SPECIFICATION FairSpec
CONSTANTS
  Peer = {a, b}
  NoPeer = NoPeer
  MaxChild = 2
  MaxPacket = 3
  AcceptQueue = 1
  PacketQueue = 1
  Readers = {1}
INVARIANTS
  SessionsExact
PROPERTIES
  ReadersWake
CHECK_DEADLOCK FALSE
