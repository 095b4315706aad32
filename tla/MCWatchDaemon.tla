--------------------------- MODULE MCWatchDaemon ---------------------------
(* Instances of WatchDaemon for TLC. *)
EXTENDS WatchDaemon

CONSTANTS d1, d2

OnePort == [d \in Daemon |-> 2049]
TwoPaths == 1..2
============================================================================
