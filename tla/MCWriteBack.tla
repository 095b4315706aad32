---------------------------- MODULE MCWriteBack ----------------------------
(* Instances of WriteBack for TLC. *)
EXTENDS WriteBackDurable

CONSTANTS d1, a, b

OneStorage == [d \in Dirs |-> 0]
TwoStorages == [d \in Dirs |-> IF d = d1 THEN 0 ELSE 1]

\* An empty phone, one with a file, and one with a file and, in another
\* directory if there is one, a folder.
File == [dir |-> d1, name |-> a, isdir |-> FALSE, data |-> [i \in 1..MaxSize |-> 0]]
Folder == [dir |-> IF Dirs = {d1} THEN d1 ELSE CHOOSE d \in Dirs : d # d1, name |-> b, isdir |-> TRUE, data |-> <<>>]

EmptyPhone == [h \in Handle |-> None]
FilePhone == [h \in Handle |-> IF h = 1 THEN File ELSE None]
FolderPhone == [h \in Handle |-> IF h = 1 THEN File ELSE IF h = 2 THEN Folder ELSE None]
=============================================================================
