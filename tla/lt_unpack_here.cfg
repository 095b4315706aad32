CONSTANTS
  Names = {a, b}
  Remote <- SmallRemote
  Single <- TopFile
  Dests <- NoName
  Here = Here
  Had <- NoName
  MaxTreeDepth = 1
  MaxCommands = 1
  Commands = {"unpack"}
  Faults = {}
  None = None
  a = a
  b = b
SPECIFICATION Spec
INVARIANT UnpackAllOrNothing
CHECK_DEADLOCK FALSE
