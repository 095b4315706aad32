-------------------------- MODULE MCPhoneCommands --------------------------
(* Instances of PhoneCommands for TLC. *)
EXTENDS PhoneCommands

CONSTANTS s1, s2, a, b

\* A folder a and a file b on the one storage, and on the other a folder b
\* that has the handle of the first.
TwoStorages == [o \in Oid |->
  CASE o = <<s1, 1>> -> [parent |-> Root, name |-> a, isdir |-> TRUE, size |-> 0]
    [] o = <<s1, 2>> -> [parent |-> 1, name |-> b, isdir |-> FALSE, size |-> 1]
    [] o = <<s2, 1>> -> [parent |-> Root, name |-> b, isdir |-> TRUE, size |-> 0]
    [] OTHER -> None]

\* A directory with a file and a link.
SmallTree == [p \in {<<a>>, <<b>>, <<a, b>>} |->
  IF p = <<a>> THEN "dir" ELSE IF p = <<b>> THEN "link" ELSE "file"]
=============================================================================
