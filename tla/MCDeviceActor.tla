--------------------------- MODULE MCDeviceActor ---------------------------
(* Instances of DeviceActor for TLC. *)
EXTENDS DeviceActor

CONSTANTS a, b

\* A folder a with a file b in it.
SmallPhone == [h \in Handle |->
  CASE h = 1 -> [parent |-> Root, name |-> a, isdir |-> TRUE]
    [] h = 2 -> [parent |-> 1, name |-> b, isdir |-> FALSE]
    [] OTHER -> None]
=============================================================================
