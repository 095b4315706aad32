CONSTANTS
  Storages = {s1, s2}
  Names = {a, b}
  MaxHandle = 3
  MaxSize = 2
  Files = {b}
  TreeName = b
  ArchiveName = a
  LocalTree <- SmallTree
  MaxTreeDepth = 1
  MaxPackDepth = 2
  Commands = {"push", "pushtree", "pack", "mkdir", "rm", "mv"}
  MaxCommands = 2
  Faults = {"resolve", "upload", "partial", "delete", "mkdir", "move", "rename", "info", "kill", "edit"}
  AcceptsDuplicates = FALSE
  Phone0 <- TwoStorages
  None = None
  s1 = s1
  s2 = s2
  a = a
  b = b
SPECIFICATION Spec
INVARIANTS TypeOK PushDelivers TreeReportTrue MoveArrives
PROPERTIES OnlyAskedChanged
CHECK_DEADLOCK FALSE
