CONSTANTS
  Names = {a, b}
  Remote <- SmallRemote
  Single <- TopFile
  Dests <- SharedBackup
  Here = Here
  Had <- SharedBackup
  MaxTreeDepth = 1
  MaxCommands = 3
  Commands = {"pull", "pulltree", "unpack"}
  Faults = {"download", "list", "create", "rename", "extract", "remove", "kill"}
  None = None
  a = a
  b = b
SPECIFICATION Spec
INVARIANTS TypeOK TreeSurvives UnpackAllOrNothing PullReportTrue
PROPERTIES FilesWhole
CHECK_DEADLOCK FALSE
