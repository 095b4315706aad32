--------------------------- MODULE PhoneCommands ---------------------------
(***************************************************************************)
(* The commands of the CLI that change the phone: push of a file and of a  *)
(* tree, pack, mkdir, rm, mv (crates/cli/src/commands.rs, bundle.rs and    *)
(* the push half of crates/core/src/ops.rs).                               *)
(*                                                                         *)
(* A command is a sequence of calls to the device actor; it has the phone  *)
(* for itself, but each call may fail, the process may be killed between   *)
(* any two, and the local source may change meanwhile.  A call is one      *)
(* action, by what it does on the phone: DeviceActor is about how.         *)
(***************************************************************************)
EXTENDS Naturals, Sequences, FiniteSets

CONSTANTS
  Storages,
  Names,        \* leaf names, taken up to names_eq_ci
  MaxHandle,    \* bound on the handles of each storage
  MaxSize,      \* bound on the size of a file
  Files,        \* the local files pushed, by their names
  TreeName, ArchiveName,  \* the local directory pushed, and its bundle
  LocalTree,    \* its entries: path below it -> "file", "dir" or "link"
  MaxTreeDepth, \* MAX_TREE_DEPTH
  MaxPackDepth, \* MAX_PACK_DEPTH
  Commands,     \* the commands the user gives
  MaxCommands,  \* bound on how many, one after the other
  Faults,       \* the calls that may fail, and "kill", "edit"
  AcceptsDuplicates,  \* whether the phone takes a second object of a name
  Phone0,       \* what is on the phone at the start
  None

Handle == 1..MaxHandle
Root   == 0
Size   == 0..MaxSize

\* Handles are local to a storage: an object is named by both.
Oid   == Storages \X Handle
DirId == Storages \X (Handle \cup {Root})

\* Of the contents of a file only the length is kept.
Object == [parent : Handle \cup {Root}, name : Names, isdir : BOOLEAN, size : Size]

TreePath == DOMAIN LocalTree
\* What is packed, or pushed: everything but links.
Packed == {p \in TreePath : LocalTree[p] # "link"}

ASSUME CommandsConstants ==
  /\ MaxHandle \in Nat /\ MaxSize \in Nat \ {0} /\ MaxTreeDepth \in Nat /\ MaxPackDepth \in Nat
  /\ MaxCommands \in Nat
  /\ Files \subseteq Names /\ TreeName \in Names /\ ArchiveName \in Names
  /\ Storages # {}
  /\ LocalTree \in [TreePath -> {"file", "dir", "link"}] /\ IsFiniteSet(TreePath)
  /\ \A p \in TreePath : p \in Seq(Names) /\ p # <<>>
  \* It is a tree: what an entry is below is a directory of it.
  /\ \A p \in TreePath : \A i \in 1..Len(p) - 1 :
       SubSeq(p, 1, i) \in TreePath /\ LocalTree[SubSeq(p, 1, i)] = "dir"
  /\ Cardinality(Packed) \in Size
  /\ Phone0 \in [Oid -> Object \cup {None}]
  /\ None \notin Object /\ None \notin Size

VARIABLES
  obj,     \* the phone
  source,  \* the local files: their size, or None
  cmd,     \* the command that runs, or the last one, with its locals
  frames   \* push_contents: per directory entered, where it goes and what is left

vars == <<obj, source, cmd, frames>>

\* dir and name say where the command puts something; target is the object it
\* moves or removes, and from where that was; size the length declared and held
\* what the source holds once it is open.
Locals == [pc : {"done", "open", "remove", "upload", "tree", "move", "rename"},
           op : {"none", "push", "pushtree", "pack", "mkdir", "rm", "mv"},
           ok : BOOLEAN, force : BOOLEAN, dir : DirId, name : Names, target : Oid \cup {None},
           from : Object \cup {None}, size : Size, held : Size \cup {None}, skipped : 0..Cardinality(TreePath \ Packed),
           nr : 0..MaxCommands]

NoCommand == [pc |-> "done", op |-> "none", ok |-> TRUE, force |-> FALSE,
              dir |-> <<CHOOSE s \in Storages : TRUE, Root>>, name |-> CHOOSE n \in Names : TRUE,
              target |-> None, from |-> None, size |-> 0, held |-> None, skipped |-> 0,
              nr |-> 0]

Frame == [dir : DirId, at : Seq(Names), left : SUBSET TreePath]

TypeOK ==
  /\ obj \in [Oid -> Object \cup {None}]
  /\ source \in [Files -> Size \cup {None}]
  /\ cmd \in Locals
  /\ frames \in Seq(Frame) /\ Len(frames) <= MaxTreeDepth + 1

Init ==
  /\ obj = Phone0
  /\ source = [f \in Files |-> 1]
  /\ cmd = NoCommand /\ frames = <<>>

-----------------------------------------------------------------------------
(* The phone. *)

IsDir(d) == d \in Oid => obj[d] # None /\ obj[d].isdir
Parent(o) == <<o[1], obj[o].parent>>

\* What dev.resolve(d/n) may find.
At(d, n) == {o \in Oid : obj[o] # None /\ Parent(o) = d /\ obj[o].name = n}

Unused(d) == {h \in Handle : obj[<<d[1], h>>] = None}
NameFree(d, n) == AcceptsDuplicates \/ At(d, n) = {}
CanStore(d, n) == Unused(d) # {} /\ NameFree(d, n)
NewOid(d) == <<d[1], CHOOSE h \in Unused(d) : TRUE>>
Stored(d, n, isdir, k) ==
  [obj EXCEPT ![NewOid(d)] = [parent |-> d[2], name |-> n, isdir |-> isdir, size |-> k]]

\* o and what is in it.
Subtree(o) ==
  {x \in Oid : \A S \in SUBSET Oid :
     (o \in S /\ \A y \in Oid : (obj[y] # None /\ Parent(y) \in S) => y \in S) => x \in S}
Without(S) == [o \in Oid |-> IF o \in S THEN None ELSE obj[o]]

-----------------------------------------------------------------------------
(* The calls. *)

\* Mutant: the bytes delivered are not counted.
Upload_NoSizeCheck(d, n, size, sent, ok) ==
  \/ ok /\ CanStore(d, n) /\ obj' = Stored(d, n, FALSE, sent)
  \/ ~ok /\ ("upload" \in Faults \/ ~CanStore(d, n)) /\ UNCHANGED obj
  \/ /\ ~ok /\ "partial" \in Faults /\ CanStore(d, n)
     /\ \E k \in 0..size : obj' = Stored(d, n, FALSE, k)

\* upload_new: a stream of another length than declared is an error, and its
\* object is deleted again.  "partial": an error leaves an object behind, in
\* part or ("info": get_object_info failed after the transfer) as a whole.
Upload(d, n, size, sent, ok) ==
  \/ ok /\ sent = size /\ CanStore(d, n) /\ obj' = Stored(d, n, FALSE, size)
  \/ ~ok /\ ("upload" \in Faults \/ sent # size \/ ~CanStore(d, n)) /\ UNCHANGED obj
  \/ /\ ~ok /\ "partial" \in Faults /\ CanStore(d, n)
     /\ \E k \in 0..size : obj' = Stored(d, n, FALSE, k)

\* mkdir_all(d/n) where d exists: the directory it answers with is o.
MkdirAll(d, n, o) ==
  \/ o \in At(d, n) /\ obj[o].isdir /\ UNCHANGED obj
  \/ At(d, n) = {} /\ CanStore(d, n) /\ o = NewOid(d) /\ obj' = Stored(d, n, TRUE, 0)
MkdirFails(d, n) ==
  /\ "mkdir" \in Faults \/ ~CanStore(d, n) \/ \E o \in At(d, n) : ~obj[o].isdir
  /\ UNCHANGED obj

-----------------------------------------------------------------------------
(* with_device: one command at a time, and what it returned. *)

Start(op) == op \in Commands /\ cmd.pc = "done" /\ cmd.nr < MaxCommands
Fresh(op) == [NoCommand EXCEPT !.op = op, !.nr = cmd.nr + 1]
End(ok) == cmd' = [cmd EXCEPT !.pc = "done", !.ok = ok] /\ frames' = <<>>
Goto(pc) == cmd' = [cmd EXCEPT !.pc = pc] /\ UNCHANGED frames

-----------------------------------------------------------------------------
(* push of a file. *)

\* The parent directory is there, and the length of the source is taken.
Push(f, d, force) ==
  /\ Start("push") /\ IsDir(d) /\ source[f] # None
  /\ cmd' = [Fresh("push") EXCEPT !.pc = "open", !.dir = d, !.name = f,
                              !.force = force, !.size = source[f]]
  /\ UNCHANGED <<obj, source, frames>>

\* Mutant: a directory of the name does not stop the push.
PushOpen_Overwrite ==
  /\ cmd.pc = "open"
  /\ \/ source[cmd.name] = None /\ End(FALSE)
     \/ /\ source[cmd.name] # None
        /\ cmd' = [cmd EXCEPT !.held = source[cmd.name],
                              !.pc = IF At(cmd.dir, cmd.name) = {} THEN "upload" ELSE "remove"]
        /\ UNCHANGED frames
  /\ UNCHANGED <<obj, source>>

\* The source is opened, then the target looked up: a file is replaced if so
\* asked; any error counts as a name that is not there.
PushOpen ==
  /\ cmd.pc = "open"
  /\ \/ source[cmd.name] = None /\ End(FALSE)
     \/ /\ source[cmd.name] # None
        /\ \/ \E o \in At(cmd.dir, cmd.name) : ~(cmd.force /\ ~obj[o].isdir) /\ End(FALSE)
           \/ /\ \/ /\ \E o \in At(cmd.dir, cmd.name) : cmd.force /\ ~obj[o].isdir
                    /\ cmd' = [cmd EXCEPT !.pc = "remove", !.held = source[cmd.name]]
                 \/ /\ At(cmd.dir, cmd.name) = {} \/ "resolve" \in Faults
                    /\ cmd' = [cmd EXCEPT !.pc = "upload", !.held = source[cmd.name]]
              /\ UNCHANGED frames
  /\ UNCHANGED <<obj, source>>

\* dev.remove of the old file, which refuses a directory.
PushRemove ==
  /\ cmd.pc = "remove"
  /\ \/ "delete" \in Faults /\ End(FALSE) /\ UNCHANGED obj
     \/ \E o \in At(cmd.dir, cmd.name) :
          \/ obj[o].isdir /\ End(FALSE) /\ UNCHANGED obj
          \/ /\ ~obj[o].isdir /\ obj' = Without({o})
             /\ cmd' = [cmd EXCEPT !.pc = "upload", !.target = o, !.from = obj[o]]
             /\ UNCHANGED frames
  /\ UNCHANGED source

PushUpload ==
  /\ cmd.pc = "upload" /\ cmd.op = "push"
  /\ \E ok \in BOOLEAN : Upload(cmd.dir, cmd.name, cmd.size, cmd.held, ok) /\ End(ok)
  /\ UNCHANGED source

-----------------------------------------------------------------------------
(* push of a directory: push_tree, and pack. *)

Below(p) == {q \in TreePath : Len(q) = Len(p) + 1 /\ SubSeq(q, 1, Len(p)) = p}
NewFrame(o, p) == [dir |-> o, at |-> p, left |-> Below(p)]

PushTree(d) ==
  /\ Start("pushtree") /\ IsDir(d)
  /\ LET c == [Fresh("pushtree") EXCEPT !.dir = d, !.name = TreeName] IN
     \/ MkdirFails(d, TreeName) /\ cmd' = [c EXCEPT !.ok = FALSE] /\ UNCHANGED frames
     \/ \E o \in Oid : /\ MkdirAll(d, TreeName, o)
                       /\ cmd' = [c EXCEPT !.pc = "tree"] /\ frames' = <<NewFrame(o, <<>>)>>
  /\ UNCHANGED source

\* The frame on top, and the frames once its entry p is done.
Top == frames[Len(frames)]
Done(p) == [frames EXCEPT ![Len(frames)].left = @ \ {p}]
Leaf(p) == p[Len(p)]
Entry(p, kind) == cmd.pc = "tree" /\ frames # <<>> /\ p \in Top.left /\ LocalTree[p] = kind

\* Mutant: a link is skipped silently.
TreeLink_Silent(p) ==
  /\ Entry(p, "link")
  /\ frames' = Done(p)
  /\ UNCHANGED <<obj, source, cmd>>

TreeLink(p) ==
  /\ Entry(p, "link")
  /\ frames' = Done(p)
  /\ cmd' = [cmd EXCEPT !.skipped = @ + 1]
  /\ UNCHANGED <<obj, source>>

\* Mutant: a file that cannot be uploaded is passed over.
TreeFile_PassOver(p) ==
  /\ Entry(p, "file")
  /\ \E ok \in BOOLEAN : Upload(Top.dir, Leaf(p), 1, 1, ok)
  /\ frames' = Done(p)
  /\ UNCHANGED <<source, cmd>>

\* The first failure ends the command.
TreeFile(p) ==
  /\ Entry(p, "file")
  /\ \E ok \in BOOLEAN :
       /\ Upload(Top.dir, Leaf(p), 1, 1, ok)
       /\ IF ok THEN frames' = Done(p) /\ UNCHANGED cmd ELSE End(FALSE)
  /\ UNCHANGED source

\* The directory is made before its depth is checked.
TreeDir(p) ==
  /\ Entry(p, "dir")
  /\ \/ MkdirFails(Top.dir, Leaf(p)) /\ End(FALSE)
     \/ \E o \in Oid :
          /\ MkdirAll(Top.dir, Leaf(p), o)
          /\ IF Len(frames) > MaxTreeDepth THEN End(FALSE)
             ELSE frames' = Append(Done(p), NewFrame(o, p)) /\ UNCHANGED cmd
  /\ UNCHANGED source

\* Mutant: the counter, which the walk shares, is added to itself.
TreeUp_Adds ==
  /\ cmd.pc = "tree" /\ frames # <<>> /\ Top.left = {}
  /\ IF Len(frames) = 1 THEN End(TRUE)
     ELSE /\ frames' = SubSeq(frames, 1, Len(frames) - 1)
          /\ cmd' = [cmd EXCEPT !.skipped = @ + @]
  /\ UNCHANGED <<obj, source>>

TreeUp ==
  /\ cmd.pc = "tree" /\ frames # <<>> /\ Top.left = {}
  /\ IF Len(frames) = 1 THEN End(TRUE)
     ELSE frames' = SubSeq(frames, 1, Len(frames) - 1) /\ UNCHANGED cmd
  /\ UNCHANGED <<obj, source>>

\* pack_tar_zstd: too deep a tree is refused before the phone is touched.
TooDeep == \E p \in TreePath : LocalTree[p] = "dir" /\ Len(p) > MaxPackDepth

\* push_as_bundle: refuses a name that is taken, packs, and uploads.
Pack(d) ==
  /\ Start("pack") /\ IsDir(d) /\ ~TooDeep
  /\ At(d, ArchiveName) = {} \/ "resolve" \in Faults
  /\ cmd' = [Fresh("pack") EXCEPT !.pc = "upload", !.dir = d, !.name = ArchiveName,
                              !.size = Cardinality(Packed), !.held = Cardinality(Packed),
                              !.skipped = Cardinality(TreePath \ Packed)]
  /\ UNCHANGED <<obj, source, frames>>

PackUpload ==
  /\ cmd.pc = "upload" /\ cmd.op = "pack"
  /\ \E ok \in BOOLEAN : Upload(cmd.dir, cmd.name, cmd.size, cmd.held, ok) /\ End(ok)
  /\ UNCHANGED source

-----------------------------------------------------------------------------
(* mkdir and rm. *)

Mkdir(d, n) ==
  /\ Start("mkdir") /\ IsDir(d)
  /\ LET c == [Fresh("mkdir") EXCEPT !.dir = d, !.name = n] IN
     \/ MkdirFails(d, n) /\ cmd' = [c EXCEPT !.ok = FALSE]
     \/ (\E o \in Oid : MkdirAll(d, n, o)) /\ cmd' = c
  /\ UNCHANGED <<source, frames>>

\* A directory needs -r, and goes from the leaves up: when a call fails, what
\* is gone is closed under containment.
Rm(o, recursive) ==
  /\ Start("rm") /\ obj[o] # None /\ (obj[o].isdir => recursive)
  /\ \E S \in SUBSET Subtree(o) :
       /\ S # Subtree(o) => "delete" \in Faults
       /\ \A x \in S : Subtree(x) \subseteq S
       /\ obj' = Without(S)
       /\ cmd' = [Fresh("rm") EXCEPT !.target = o, !.from = obj[o], !.ok = (S = Subtree(o))]
  /\ UNCHANGED <<source, frames>>

-----------------------------------------------------------------------------
(* mv. *)

\* Mutant: handles are compared without their storage.
IsSameParent_HandleOnly(o, d) == d[2] = obj[o].parent

\* is_same_parent.
IsSameParent(o, d) == o[1] = d[1] /\ d[2] = obj[o].parent

\* To an existing directory (whose name the object does not take), to a new
\* name in a directory, or to a bare name beside the source (bare), for which
\* the target is not looked up.
Mv(o, d, n, bare) ==
  /\ Start("mv") /\ obj[o] # None /\ IsDir(d) /\ (bare => d = Parent(o))
  /\ LET c == [Fresh("mv") EXCEPT !.target = o, !.from = obj[o]] IN
     \/ /\ ~bare
        /\ \E t \in At(d, n) : /\ obj[t].isdir
                               /\ cmd' = [c EXCEPT !.pc = "move", !.dir = t, !.name = obj[o].name]
     \/ /\ bare \/ At(d, n) = {} \/ "resolve" \in Faults
        /\ cmd' = [c EXCEPT !.dir = d, !.name = n,
                            !.pc = IF ~IsSameParent(o, d) THEN "move"
                                   ELSE IF obj[o].name # n THEN "rename" ELSE "done"]
  /\ UNCHANGED <<obj, source, frames>>

\* move_into: within one storage, not into its root, and the phone refuses to
\* move a directory into itself.
MayMove(o, d) ==
  o[1] = d[1] /\ d[2] # Root /\ NameFree(d, obj[o].name) /\ d \notin Subtree(o)

MvMove ==
  /\ cmd.pc = "move"
  /\ LET o == cmd.target IN
     \/ ("move" \in Faults \/ ~MayMove(o, cmd.dir)) /\ End(FALSE) /\ UNCHANGED obj
     \/ /\ MayMove(o, cmd.dir)
        /\ obj' = [obj EXCEPT ![o].parent = cmd.dir[2]]
        /\ \/ obj[o].name = cmd.name /\ End(TRUE)
           \/ obj[o].name # cmd.name /\ Goto("rename")
           \/ "info" \in Faults /\ End(FALSE)
  /\ UNCHANGED source

\* rename goes by path: it renames what has the old name in the directory now.
MvRename ==
  /\ cmd.pc = "rename"
  /\ \/ ("rename" \in Faults \/ ~NameFree(Parent(cmd.target), cmd.name)) /\ End(FALSE) /\ UNCHANGED obj
     \/ /\ NameFree(Parent(cmd.target), cmd.name)
        /\ \E o \in At(Parent(cmd.target), cmd.from.name) : obj' = [obj EXCEPT ![o].name = cmd.name]
        /\ End(TRUE) \/ ("info" \in Faults /\ End(FALSE))
  /\ UNCHANGED source

-----------------------------------------------------------------------------
(* The surroundings. *)

\* The process is killed; what it was uploading stays in part, or not at all.
Kill ==
  /\ "kill" \in Faults /\ cmd.pc # "done"
  /\ \/ UNCHANGED obj
     \/ /\ cmd.pc = "upload" /\ CanStore(cmd.dir, cmd.name)
        /\ \E k \in 0..cmd.size : obj' = Stored(cmd.dir, cmd.name, FALSE, k)
  /\ End(FALSE) /\ UNCHANGED source

\* The local file is rewritten, replaced or removed; an open file sees the
\* first of these.
Edit(f, s) ==
  /\ "edit" \in Faults /\ cmd.pc # "done" /\ source[f] # s
  /\ source' = [source EXCEPT ![f] = s]
  /\ \/ UNCHANGED cmd
     \/ /\ s # None /\ cmd.name = f /\ cmd.op = "push" /\ cmd.pc \in {"remove", "upload"}
        /\ cmd' = [cmd EXCEPT !.held = s]
  /\ UNCHANGED <<obj, frames>>

Next ==
  \/ \E d \in DirId : PushTree(d) \/ Pack(d)
  \/ \E d \in DirId, force \in BOOLEAN : \E f \in Files : Push(f, d, force)
  \/ \E d \in DirId, n \in Names : Mkdir(d, n)
  \/ \E o \in Oid, recursive \in BOOLEAN : Rm(o, recursive)
  \/ \E o \in Oid, d \in DirId, n \in Names, bare \in BOOLEAN : Mv(o, d, n, bare)
  \/ PushOpen \/ PushRemove \/ PushUpload \/ PackUpload \/ TreeUp \/ MvMove \/ MvRename \/ Kill
  \/ \E p \in TreePath : TreeLink(p) \/ TreeFile(p) \/ TreeDir(p)
  \/ \E f \in Files, s \in Size \cup {None} : Edit(f, s)

Spec == Init /\ [][Next]_vars

-----------------------------------------------------------------------------
(* Properties. *)

Returned(op) == cmd.pc = "done" /\ cmd.op = op

\* A push that reports success has put a file of the declared length where it
\* says, though the source may have changed between stat, open and read.
PushDelivers ==
  Returned("push") /\ cmd.ok =>
    \E o \in At(cmd.dir, cmd.name) : ~obj[o].isdir /\ obj[o].size = cmd.size

\* What push_tree has made of entry p: what is found under the directory
\* pushed by following the names of the path.
Pushed(p) ==
  {o \in Oid : \E way \in [0..Len(p) -> Oid] :
     /\ way[0] \in At(cmd.dir, TreeName) /\ way[Len(p)] = o
     /\ \A i \in 1..Len(p) : way[i] \in At(way[i - 1], p[i])}

\* "A silently incomplete transfer must not be reported as a clean success"
\* (report_tree): a pushed tree that is reported has every entry on the
\* phone, as what it is, but for the links, and those it has counted.
TreeReportTrue ==
  Returned("pushtree") /\ cmd.ok =>
    /\ cmd.skipped = Cardinality(TreePath \ Packed)
    /\ \A p \in Packed : \E o \in Pushed(p) : obj[o].isdir = (LocalTree[p] = "dir")

\* mv ends with the object at its destination, or, when it reports an error,
\* there or on the way: where it was, or moved under its old name.  It is
\* never renamed in the directory it was to leave.
MoveArrives ==
  Returned("mv") =>
    LET o == cmd.target
        at(d, n) == obj[o] # None /\ Parent(o) = d /\ obj[o].name = n
    IN  \/ at(cmd.dir, cmd.name)
        \/ ~cmd.ok /\ (at(cmd.dir, cmd.from.name) \/ obj[o] = cmd.from)

\* A command changes or removes no object but the one it was given: what rm
\* was asked to delete, the source of a mv (whose rename goes by path, not by
\* handle), and the file a forced push replaces, once the local source is open:
\* "a local error ... must never leave the phone file already deleted" (push).
OnlyAskedChanged ==
  [][\A o \in Oid : obj[o] # None /\ obj'[o] # obj[o] =>
       \/ cmd'.op = "rm" /\ o \in Subtree(cmd'.target)
       \/ /\ cmd'.op = "push" /\ cmd'.force /\ ~obj[o].isdir
          /\ Parent(o) = cmd'.dir /\ obj[o].name = cmd'.name /\ cmd.held # None
       \/ cmd'.op = "mv" /\ o = cmd'.target]_vars
=============================================================================
