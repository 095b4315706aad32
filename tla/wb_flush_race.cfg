CONSTANTS
  Connections = {k1, k2}
  Dirs = {d1}
  Names = {a, b}
  StorageOf <- OneStorage
  Byte = {0, 1}
  MaxSize = 1
  MaxHandle = 2
  MaxVirt = 1
  Calls = {"write", "create", "commit"}
  Faults = {}
  AcceptsDuplicates = TRUE
  Phone0 <- EmptyPhone
  Last0 = 0
  None = None
  d1 = d1
  a = a
  b = b
SPECIFICATION Spec
PROPERTIES FlushPublishes
