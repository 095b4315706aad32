--------------------------- MODULE LocalTransfers ---------------------------
(***************************************************************************)
(* What pull and unpack leave on the Mac: the pull half of                 *)
(* crates/core/src/ops.rs, pull of a file (crates/cli/src/commands.rs) and *)
(* unpack with its promotion (crates/cli/src/bundle.rs).                   *)
(*                                                                         *)
(* One command runs at a time, since each claims the phone.  A step is one *)
(* change of the file system; the process may be killed between any two,   *)
(* and in the middle of a recursive delete or an extraction.               *)
(***************************************************************************)
EXTENDS Naturals, Sequences, FiniteSets

CONSTANTS
  Names,         \* leaf names
  Remote,        \* a directory of the phone: path below it -> "file", "dir" or "unsafe"
  Single,        \* the entries that are also pulled alone
  Dests,         \* where bundles are unpacked to: <<stem, extension>>, or Here
  Here,          \* a destination without a file name: "." or ".."
  Had,           \* the destinations that have a tree at the start
  MaxTreeDepth,  \* MAX_TREE_DEPTH
  MaxCommands,   \* bound on the commands given
  Commands, Faults,
  None

Root  == {<<>>} \cup {p \in DOMAIN Remote : Remote[p] = "dir"}
File  == {p \in DOMAIN Remote : Remote[p] = "file"}
Part  == {1, 2}  \* the files of a bundle
Nr    == 0..MaxCommands

\* dest.with_extension("pereprava-old"): of a path without a file name it is
\* that path.
Backup(d) == IF d = Here THEN Here ELSE <<d[1], "pereprava-old">>

ASSUME TransfersConstants ==
  /\ MaxTreeDepth \in Nat /\ MaxCommands \in Nat
  /\ Had \subseteq Dests /\ Single \subseteq File
  /\ \A p \in DOMAIN Remote : p \in Seq(Names) /\ p # <<>>
  /\ Remote \in [DOMAIN Remote -> {"file", "dir", "unsafe"}] /\ IsFiniteSet(DOMAIN Remote)
  \* It is a tree: what an entry is below is a directory of it.
  /\ \A p \in DOMAIN Remote : \A i \in 1..Len(p) - 1 :
       SubSeq(p, 1, i) \in DOMAIN Remote /\ Remote[SubSeq(p, 1, i)] = "dir"
  /\ \A T \in SUBSET (Dests \X Nr \X Part) : T # None
  /\ None \notin [nr : Nr, whole : BOOLEAN]
  /\ \A d \in Dests \ {Here} : d \in STRING \X STRING /\ Backup(d) # Here

Path == Dests \cup {Backup(d) : d \in Dests}

\* A directory is None or the set of the files in it: which part, of the
\* bundle of which destination, unpacked by which command.
Whole(d, n) == {d} \X {n} \X Part
Content == (SUBSET (Dests \X Nr \X Part)) \cup {None}

VARIABLES
  dir,      \* the directories bundles are unpacked to, and their backups
  staging,  \* the staging directory of the unpack that runs
  leaked,   \* the staging directories others have left behind
  local,    \* the pulled files: the command that wrote it, or as below
  tmp,      \* the temporary sibling of the file pull_tree is at
  frames,   \* pull_tree: per directory entered, its path and what is left
  cmd

vars == <<dir, staging, leaked, local, tmp, frames, cmd>>

\* A local file is absent (None), was there before (0), has been written by a
\* command, or is a part of one.
FileState == [nr : Nr, whole : BOOLEAN] \cup {None}
Before == [nr |-> 0, whole |-> TRUE]
Partial == [nr |-> cmd.nr, whole |-> FALSE]
Fetched == [nr |-> cmd.nr, whole |-> TRUE]

Frame == [at : Seq(Names), left : SUBSET DOMAIN Remote]
Locals == [pc : {"done", "fetch", "tree", "download", "rename",
                 "archive", "extract", "remove", "aside", "promote", "restore", "clean"},
           op : {"none", "pull", "pulltree", "unpack"}, end : {"ok", "error", "killed"},
           nr : Nr, file : File \cup {None}, skipped : Nat,
           root : Seq(Names), dest : Dests \cup {None}, before : Content]

TypeOK ==
  /\ dir \in [Path -> Content] /\ staging \in Content /\ leaked \subseteq Content
  /\ local \in [File -> FileState] /\ tmp \in {None, "part", "whole"}
  /\ frames \in Seq(Frame) /\ Len(frames) <= MaxTreeDepth + 1
  /\ cmd \in Locals

NoCommand == [pc |-> "done", op |-> "none", end |-> "ok", nr |-> 0, file |-> None,
              skipped |-> 0, root |-> <<>>, dest |-> None, before |-> None]

Init ==
  /\ dir = [d \in Path |-> IF d \in Had THEN Whole(d, 0) ELSE None]
  /\ staging = None /\ leaked = {}
  /\ local \in [File -> {Before, None}]
  /\ tmp = None /\ frames = <<>> /\ cmd = NoCommand

Start(op) == op \in Commands /\ cmd.pc = "done" /\ cmd.nr < MaxCommands
Fresh(op) == [NoCommand EXCEPT !.op = op, !.nr = cmd.nr + 1]
Goto(pc) == cmd' = [cmd EXCEPT !.pc = pc]
End(how) == cmd' = [cmd EXCEPT !.pc = "done", !.end = how]

directories == <<dir, staging, leaked>>
pulls == <<local, tmp, frames>>

-----------------------------------------------------------------------------
(* pull of a file: File::create truncates what is there. *)

Pull(p) ==
  /\ Start("pull")
  /\ cmd' = [Fresh("pull") EXCEPT !.pc = "fetch", !.file = p]
  /\ local' = [local EXCEPT ![p] = [nr |-> cmd.nr + 1, whole |-> FALSE]]
  /\ UNCHANGED <<directories, tmp, frames>>

PullFetch ==
  /\ cmd.pc = "fetch"
  /\ \/ "download" \in Faults /\ End("error") /\ UNCHANGED local
     \/ End("ok") /\ local' = [local EXCEPT ![cmd.file] = Fetched]
  /\ UNCHANGED <<directories, tmp, frames>>

-----------------------------------------------------------------------------
(* pull_tree. *)

Within(r) == {p \in DOMAIN Remote : Len(p) > Len(r) /\ SubSeq(p, 1, Len(r)) = r}
Below(r) == {p \in Within(r) : Len(p) = Len(r) + 1}
Top == frames[Len(frames)]
Done(p) == [frames EXCEPT ![Len(frames)].left = @ \ {p}]
Entry(p, kind) == cmd.pc = "tree" /\ p \in Top.left /\ Remote[p] = kind
Skip(p) == frames' = Done(p) /\ cmd' = [cmd EXCEPT !.skipped = @ + 1]

\* Of the whole directory, or of one in it.  The listing may fail.
PullTree(r) ==
  /\ Start("pulltree")
  /\ LET c == [Fresh("pulltree") EXCEPT !.root = r] IN
     \/ cmd' = [c EXCEPT !.pc = "tree"] /\ frames' = <<[at |-> r, left |-> Below(r)]>>
     \/ "list" \in Faults /\ cmd' = [c EXCEPT !.end = "error"] /\ UNCHANGED frames
  /\ UNCHANGED <<directories, local, tmp>>

TreeUnsafe(p) == Entry(p, "unsafe") /\ Skip(p) /\ UNCHANGED <<directories, local, tmp>>

\* Mutant: the depth is not checked.
TreeDir_AnyDepth(p) ==
  /\ Entry(p, "dir")
  /\ \/ /\ frames' = Append(Done(p), [at |-> p, left |-> Below(p)])
        /\ UNCHANGED cmd
     \/ "list" \in Faults /\ End("error") /\ frames' = <<>>
  /\ UNCHANGED <<directories, local, tmp>>

\* check_depth, before the directory is made and listed.
TreeDir(p) ==
  /\ Entry(p, "dir")
  /\ \/ /\ Len(frames) <= MaxTreeDepth
        /\ frames' = Append(Done(p), [at |-> p, left |-> Below(p)])
        /\ UNCHANGED cmd
     \/ (Len(frames) > MaxTreeDepth \/ "list" \in Faults) /\ End("error") /\ frames' = <<>>
  /\ UNCHANGED <<directories, local, tmp>>

\* Mutant: the walk ends with the first directory that is done.
TreeUp_End ==
  /\ cmd.pc = "tree" /\ Top.left = {} /\ End("ok") /\ frames' = <<>>
  /\ UNCHANGED <<directories, local, tmp>>

TreeUp ==
  /\ cmd.pc = "tree" /\ Top.left = {}
  /\ IF Len(frames) = 1 THEN End("ok") /\ frames' = <<>>
     ELSE frames' = SubSeq(frames, 1, Len(frames) - 1) /\ UNCHANGED cmd
  /\ UNCHANGED <<directories, local, tmp>>

\* Mutant: the file is written in place.
TreeFile_InPlace(p) ==
  /\ Entry(p, "file")
  /\ cmd' = [cmd EXCEPT !.pc = "download", !.file = p]
  /\ tmp' = "part" /\ local' = [local EXCEPT ![p] = Partial]
  /\ UNCHANGED <<directories, frames>>

\* The temporary sibling is made; if it cannot be, the file is skipped.
TreeFile(p) ==
  /\ Entry(p, "file")
  /\ \/ /\ cmd' = [cmd EXCEPT !.pc = "download", !.file = p]
        /\ tmp' = "part" /\ UNCHANGED frames
     \/ "create" \in Faults /\ Skip(p) /\ UNCHANGED tmp
  /\ UNCHANGED <<directories, local>>

TreeDownload ==
  /\ cmd.pc = "download"
  /\ \/ tmp' = "whole" /\ Goto("rename") /\ UNCHANGED frames
     \/ "download" \in Faults /\ tmp' = None /\ End("error") /\ frames' = <<>>
  /\ UNCHANGED <<directories, local>>

\* When the rename fails the temporary file stays.
TreeRename ==
  /\ cmd.pc = "rename"
  /\ \/ /\ local' = [local EXCEPT ![cmd.file] = Fetched]
        /\ frames' = Done(cmd.file) /\ Goto("tree")
     \/ "rename" \in Faults /\ End("error") /\ frames' = <<>> /\ UNCHANGED local
  /\ tmp' = None
  /\ UNCHANGED directories

-----------------------------------------------------------------------------
(* unpack: pull_bundle, unpack_tar_zstd and promote. *)

Unpack(d) ==
  /\ Start("unpack")
  /\ cmd' = [Fresh("unpack") EXCEPT !.pc = "archive", !.dest = d, !.before = dir[d]]
  /\ UNCHANGED <<directories, pulls>>

\* The archive is downloaded, then the destination made if it is not there.
UnpackDownload ==
  /\ cmd.pc = "archive"
  /\ \/ "download" \in Faults /\ End("error") /\ UNCHANGED dir
     \/ /\ Goto("extract")
        /\ dir' = [dir EXCEPT ![cmd.dest] = IF @ = None THEN {} ELSE @]
  /\ UNCHANGED <<staging, leaked, pulls>>

\* Into a directory beside the destination, removed again when it fails.
UnpackExtract ==
  /\ cmd.pc = "extract"
  /\ \/ "extract" \in Faults /\ End("error") /\ UNCHANGED staging
     \/ Goto("remove") /\ staging' = Whole(cmd.dest, cmd.nr)
  /\ UNCHANGED <<dir, leaked, pulls>>

\* What may remain of directory p when it is removed recursively, and what of
\* a staging directory that lies in it.
Removed(p, S) ==
  /\ S \subseteq dir[p]
  /\ dir' = [dir EXCEPT ![p] = S]
Gone(p) == dir' = [dir EXCEPT ![p] = IF p = Here THEN {} ELSE None]

\* promote: an old backup is removed, errors ignored.  Where the backup is the
\* destination itself, it is emptied, with the staging directory in it.
PromoteRemove ==
  LET bak == Backup(cmd.dest) IN
  /\ cmd.pc = "remove"
  /\ \/ Gone(bak)
     \/ "remove" \in Faults /\ dir[bak] # None /\ \E S \in SUBSET dir[bak] : Removed(bak, S)
  /\ staging' = IF bak = Here THEN None ELSE staging
  /\ Goto("aside")
  /\ UNCHANGED <<leaked, pulls>>

\* The staging directory stays when unpack ends without promoting it.
Leak == staging' = None /\ leaked' = IF staging = None THEN leaked ELSE leaked \cup {staging}

\* The old tree is renamed to the backup, which must not have files in it.
PromoteAside ==
  LET bak == Backup(cmd.dest) IN
  /\ cmd.pc = "aside"
  /\ \/ /\ bak # cmd.dest /\ dir[bak] \in {None, {}}
        /\ dir' = [dir EXCEPT ![bak] = dir[cmd.dest], ![cmd.dest] = None]
        /\ Goto("promote") /\ UNCHANGED <<staging, leaked>>
     \/ /\ bak = cmd.dest \/ dir[bak] \notin {None, {}} \/ "rename" \in Faults
        /\ End("error") /\ Leak /\ UNCHANGED dir
  /\ UNCHANGED pulls

\* Mutant: the staging directory of a promotion that failed is cleaned up.
Promote_CleanUp ==
  /\ cmd.pc = "promote"
  /\ \/ /\ dir' = [dir EXCEPT ![cmd.dest] = staging]
        /\ staging' = None /\ Goto("clean")
     \/ "rename" \in Faults /\ Goto("restore") /\ staging' = None /\ UNCHANGED dir
  /\ UNCHANGED <<leaked, pulls>>

Promote ==
  /\ cmd.pc = "promote"
  /\ \/ /\ dir' = [dir EXCEPT ![cmd.dest] = staging]
        /\ staging' = None /\ Goto("clean")
     \/ "rename" \in Faults /\ Goto("restore") /\ UNCHANGED <<dir, staging>>
  /\ UNCHANGED <<leaked, pulls>>

\* Mutant: nothing is put back.
PromoteRestore_Nothing ==
  /\ cmd.pc = "restore" /\ End("error") /\ Leak
  /\ UNCHANGED <<dir, pulls>>

\* "Put the old tree back rather than leaving nothing behind."
PromoteRestore ==
  LET bak == Backup(cmd.dest) IN
  /\ cmd.pc = "restore"
  /\ \/ dir' = [dir EXCEPT ![cmd.dest] = dir[bak], ![bak] = None]
     \/ "restore" \in Faults /\ UNCHANGED dir
  /\ End("error") /\ Leak
  /\ UNCHANGED pulls

PromoteClean ==
  LET bak == Backup(cmd.dest) IN
  /\ cmd.pc = "clean"
  /\ \/ Gone(bak)
     \/ "remove" \in Faults /\ \E S \in SUBSET dir[bak] : Removed(bak, S)
  /\ End("ok")
  /\ UNCHANGED <<staging, leaked, pulls>>

-----------------------------------------------------------------------------

\* The process is killed: a recursive delete or an extraction stops halfway,
\* temporary files stay.
Kill ==
  /\ "kill" \in Faults /\ cmd.pc # "done" /\ End("killed")
  /\ \/ UNCHANGED dir
     \/ /\ cmd.pc \in {"remove", "clean"} /\ dir[Backup(cmd.dest)] # None
        /\ \E S \in SUBSET dir[Backup(cmd.dest)] : Removed(Backup(cmd.dest), S)
  /\ \/ cmd.pc # "extract" /\ Leak
     \/ /\ cmd.pc = "extract" /\ staging' = staging
        /\ \E S \in SUBSET Whole(cmd.dest, cmd.nr) : leaked' = leaked \cup {S}
  /\ tmp' = None /\ frames' = <<>> /\ UNCHANGED local

Next ==
  \/ \E p \in Single : Pull(p)
  \/ \E d \in Dests : Unpack(d)
  \/ \E r \in Root : PullTree(r)
  \/ \E p \in DOMAIN Remote : TreeUnsafe(p) \/ TreeDir(p) \/ TreeFile(p)
  \/ PullFetch \/ TreeUp \/ TreeDownload \/ TreeRename
  \/ UnpackDownload \/ UnpackExtract \/ PromoteRemove \/ PromoteAside \/ Promote
  \/ PromoteRestore \/ PromoteClean \/ Kill

Spec == Init /\ [][Next]_vars

-----------------------------------------------------------------------------
(* Properties. *)

\* Unpacking over a tree never loses it before the new one is complete: at any
\* time, whatever fails and whenever the process is killed, also while another
\* destination with the same backup name is unpacked, some complete tree of a
\* destination that had one is on the disk, at the destination, at its
\* backup or in a staging directory.
TreeSurvives ==
  \A d \in Had : \E c \in {dir[d], dir[Backup(d)], staging} \cup leaked :
    \E n \in Nr : c = Whole(d, n)

\* unpack is all or nothing: the destination is what it was (or empty, when it
\* was not there), or the new tree, or missing between the two renames of
\* promote; on success it is the new tree, and "on failure ... the destination
\* is left intact" (the test of promote, bundle.rs).
UnpackAllOrNothing ==
  cmd.op = "unpack" =>
    LET old == {cmd.before, IF cmd.before = None THEN {} ELSE cmd.before}
        new == Whole(cmd.dest, cmd.nr)
    IN  /\ dir[cmd.dest] \in old \cup {new, None}
        /\ cmd.pc = "done" /\ cmd.end = "ok" => dir[cmd.dest] = new
        /\ cmd.pc = "done" /\ cmd.end = "error" => dir[cmd.dest] \in old

\* "An existing file is only replaced once the full content has arrived"
\* (pull_tree): no step but of a pull of that one file leaves a part of a file
\* where a whole one or none was.
FilesWhole ==
  [][\A p \in File : local'[p] # local[p] =>
       local'[p].whole \/ (cmd'.op = "pull" /\ cmd'.file = p)]_vars

\* A pulled tree that is reported has every file fetched by this command, but
\* for as many as are reported as skipped.
PullReportTrue ==
  cmd.op = "pulltree" /\ cmd.pc = "done" /\ cmd.end = "ok" =>
    cmd.skipped = Cardinality({p \in DOMAIN Remote :
      /\ p \in Within(cmd.root)
      /\ Remote[p] = "unsafe" \/ (p \in File /\ local[p] # Fetched)})
=============================================================================
