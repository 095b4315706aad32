CONSTANTS
  Daemon = {d1, d2}
  d1 = d1
  d2 = d2
  Ports = {2049}
  Port <- OnePort
  Path <- TwoPaths
  Faults = {"kill", "umount", "connect", "attach", "mount", "eject", "reset", "accept"}
  MaxLost = 1
  None = None
SPECIFICATION Spec
INVARIANTS TypeOK StatusOfServer OwnMountKnown
PROPERTIES OnlyDeadCleared HealthySessionKept PhoneServed
