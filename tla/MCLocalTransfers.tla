------------------------- MODULE MCLocalTransfers -------------------------
(* Instances of LocalTransfers for TLC. *)
EXTENDS LocalTransfers

CONSTANTS a, b

\* A file, and a directory with an entry whose name is no path component and a
\* directory with a file: one level too deep to be pulled from the top.
SmallRemote == [p \in {<<a>>, <<a, a>>, <<a, b>>, <<a, a, b>>, <<b>>} |->
  CASE p \in {<<a>>, <<a, a>>} -> "dir" [] p = <<a, b>> -> "unsafe" [] OTHER -> "file"]
TopFile == {<<b>>}

\* Two destinations with one backup name.
SharedBackup == {<<"photos", "x">>, <<"photos", "y">>}
NoName == {Here}
===========================================================================
