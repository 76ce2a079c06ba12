SPECIFICATION Spec
CONSTANTS
  Process = {p1, p2}
  Inode = {i1, i2}
  NoFile = NoFile
  Waits = {p2}
  Signals = {p1}
  Foreign = FALSE
PROPERTIES
  RemovesOnlyOwn
