CONSTANTS
  Connections = {k1}
  Dirs = {d1}
  Names = {a, b}
  StorageOf <- OneStorage
  Byte = {0, 1}
  MaxSize = 1
  MaxHandle = 4
  MaxVirt = 1
  Calls = {"write", "setattr", "create", "create_exclusive", "commit", "remove"}
  Faults = {"read", "short", "upload", "restart"}
  AcceptsDuplicates = TRUE
  Phone0 <- FilePhone
  Last0 = 1
  None = None
  d1 = d1
  a = a
  b = b
SPECIFICATION Spec
INVARIANTS UniqueNames
