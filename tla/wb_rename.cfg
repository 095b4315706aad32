CONSTANTS
  Connections = {k1}
  Dirs = {d1, d2}
  Names = {a, b}
  StorageOf <- TwoStorages
  Byte = {0}
  MaxSize = 1
  MaxHandle = 4
  MaxVirt = 1
  Calls = {"write", "setattr", "create", "create_exclusive", "commit", "rename", "remove", "mkdir"}
  Faults = {"rename", "upload", "delete", "detach"}
  AcceptsDuplicates = FALSE
  Phone0 <- FolderPhone
  Last0 = 2
  None = None
  d1 = d1
  a = a
  b = b
SPECIFICATION Spec
INVARIANTS StageNamesAgree
PROPERTIES FlushDeletesOwn DirectoriesKept ReadOnlyExport
