------------------------ MODULE LocalTransfersProofs ------------------------
(***************************************************************************)
(* Theorems about LocalTransfers, for every directory of the phone, any    *)
(* destinations, commands and faults: unpack loses no tree and is all or   *)
(* nothing, pulled files are whole, and a pulled tree is what is reported. *)
(*                                                                         *)
(* Two things are assumed, and both are needed.  No destination is the     *)
(* backup of a destination: the run lt_unpack_here has one that is its     *)
(* own.  And the rename that puts an old tree back does not fail, since    *)
(* promote has no answer to that.                                          *)
(***************************************************************************)
EXTENDS LocalTransfers, FiniteSetTheorems, SequenceTheorems, TLAPS

Ordinary ==
  /\ \A d, e \in Dests : Backup(d) # e
  /\ "restore" \notin Faults

Tree == SUBSET (Dests \X Nr \X Part)

\* What the proofs need to know of trees and backups.
LEMMA Trees ==
  /\ Content = Tree \cup {None} /\ None \notin Tree /\ {} \in Tree
  /\ \A d \in Dests, n \in Nr : Whole(d, n) \in Tree
  /\ \A T \in Tree : \A S \in SUBSET T : S \in Tree
BY TransfersConstants DEF Content, Tree, Whole

LEMMA Backups ==
  ASSUME Ordinary
  PROVE  /\ \A d \in Dests : Backup(d) \in Path /\ Backup(d) \notin Dests /\ Backup(d) # Here
         /\ Dests \subseteq Path
<1>1. Here \notin Dests
  BY DEF Ordinary, Backup
<1>2. \A d \in Dests : Backup(d) # Here
  BY <1>1, TransfersConstants
<1> QED BY <1>2 DEF Ordinary, Path

-----------------------------------------------------------------------------
(* The invariant. *)

Unpacking == {"archive", "extract", "remove", "aside", "promote", "restore", "clean"}
Pulling == {"fetch", "tree", "download", "rename"}

Old == IF cmd.before = None THEN {} ELSE cmd.before
New == Whole(cmd.dest, cmd.nr)

\* Where the trees are at each point of unpack.
Promotion ==
  /\ cmd.pc \in Unpacking => cmd.op = "unpack"
  /\ cmd.pc \in Pulling => cmd.op # "unpack"
  /\ cmd.op = "unpack" =>
       /\ cmd.dest \in Dests
       /\ dir[cmd.dest] \in {cmd.before, Old, New, None}
       /\ cmd.pc = "archive" => dir[cmd.dest] = cmd.before
       /\ cmd.pc \in {"extract", "remove", "aside"} => dir[cmd.dest] = Old
       /\ cmd.pc \in {"promote", "restore"} =>
            dir[cmd.dest] = None /\ dir[Backup(cmd.dest)] = Old
       /\ cmd.pc = "clean" => dir[cmd.dest] = New /\ dir[Backup(cmd.dest)] # None
       /\ cmd.pc = "done" /\ cmd.end = "ok" => dir[cmd.dest] = New
       /\ cmd.pc = "done" /\ cmd.end = "error" => dir[cmd.dest] \in {cmd.before, Old}
  /\ cmd.pc \in {"remove", "aside", "promote", "restore"} => staging = New

\* While the destination is missing the new tree is in the staging directory.
Survivors ==
  \A d \in Had :
    \/ \E n \in Nr : dir[d] = Whole(d, n) \/ Whole(d, n) \in leaked
    \/ cmd.dest = d /\ cmd.pc \in {"promote", "restore"}

\* pull_tree is in a directory, and fetches a file of the phone.
Walking ==
  /\ cmd.pc \in {"tree", "download", "rename"} => frames # <<>>
  /\ cmd.pc \in {"fetch", "download", "rename"} => cmd.file \in File

Inv == TypeOK /\ Walking /\ Promotion /\ Survivors

LEMMA InitInv == Init => Inv
<1> SUFFICES ASSUME Init PROVE Inv
  OBVIOUS
<1> USE Trees
<1>1. NoCommand \in Locals
  BY TransfersConstants DEF NoCommand, Locals, Nr
<1>2. TypeOK
  <2>1. \A d \in Had : Whole(d, 0) \in Content
    BY TransfersConstants DEF Nr
  <2>2. dir \in [Path -> Content]
    BY <2>1 DEF Init
  <2>3. local \in [File -> FileState]
    <3>1. Before \in FileState /\ None \in FileState
      BY TransfersConstants DEF FileState, Before, Nr
    <3> QED BY <3>1 DEF Init
  <2>4. frames \in Seq(Frame) /\ Len(frames) <= MaxTreeDepth + 1
    BY TransfersConstants DEF Init
  <2> QED BY <1>1, <2>2, <2>3, <2>4 DEF Init, TypeOK
<1>3. Walking /\ Promotion
  BY DEF Init, NoCommand, Walking, Promotion, Unpacking, Pulling
<1>4. Survivors
  <2>1. Had \subseteq Dests /\ 0 \in Nr
    BY TransfersConstants DEF Nr
  <2> QED BY <2>1 DEF Init, Survivors, Path
<1> QED BY <1>2, <1>3, <1>4 DEF Inv

-----------------------------------------------------------------------------
(* How a step leaves the command. *)

LEMMA Ending ==
  ASSUME cmd \in Locals, NEW e \in {"ok", "error", "killed"}, End(e)
  PROVE  /\ cmd' \in Locals /\ cmd'.pc = "done" /\ cmd'.end = e
         /\ cmd'.op = cmd.op /\ cmd'.dest = cmd.dest /\ cmd'.before = cmd.before
         /\ cmd'.nr = cmd.nr
BY DEF End, Locals

LEMMA Going ==
  ASSUME cmd \in Locals, NEW p \in Unpacking \cup Pulling, Goto(p)
  PROVE  /\ cmd' \in Locals /\ cmd'.pc = p /\ cmd'.end = cmd.end
         /\ cmd'.op = cmd.op /\ cmd'.dest = cmd.dest /\ cmd'.before = cmd.before
         /\ cmd'.nr = cmd.nr /\ cmd'.file = cmd.file
BY DEF Goto, Locals, Unpacking, Pulling

LEMMA Starting ==
  ASSUME cmd \in Locals, NEW op \in {"pull", "pulltree", "unpack"}, Start(op)
  PROVE  /\ Fresh(op) \in Locals /\ Fresh(op).op = op /\ Fresh(op).nr = cmd.nr + 1
         /\ cmd.nr + 1 \in Nr /\ Fresh(op).pc = "done" /\ Fresh(op).dest = None
<1>1. cmd.nr \in 0..MaxCommands /\ cmd.nr < MaxCommands
  BY DEF Start, Locals, Nr
<1>2. cmd.nr + 1 \in Nr
  BY <1>1, TransfersConstants DEF Nr
<1>3. NoCommand \in Locals
  BY Trees, TransfersConstants DEF NoCommand, Locals, Nr
<1>4. Fresh(op) = [NoCommand EXCEPT !.op = op, !.nr = cmd.nr + 1]
  BY DEF Fresh
<1>5. NoCommand.pc = "done" /\ NoCommand.dest = None
  BY DEF NoCommand
<1> QED BY <1>2, <1>3, <1>4, <1>5 DEF Locals
-----------------------------------------------------------------------------
(* The steps of pull and pull_tree leave the directories alone. *)

LEMMA PullsApart ==
  ASSUME Inv, UNCHANGED directories,
         cmd.pc \in Pulling \cup {"done"}, cmd'.pc \in Pulling \cup {"done"},
         cmd'.op # "unpack"
  PROVE  Promotion' /\ Survivors'
<1>1. Promotion'
  BY DEF Promotion, Unpacking, Pulling
<1>2. Survivors'
  BY DEF Inv, Survivors, directories, Pulling
<1> QED BY <1>1, <1>2

\* A frame loses an entry, or the step pushes or pops one.
LEMMA Frames ==
  ASSUME Inv, frames # <<>>
  PROVE  /\ Len(frames) \in Nat \ {0} /\ Top \in Frame
         /\ \A p : /\ Done(p) \in Seq(Frame) /\ Len(Done(p)) = Len(frames) /\ Done(p) # <<>>
                   /\ \A q \in DOMAIN Remote :
                        LET f == Append(Done(p), [at |-> q, left |-> Below(q)])
                        IN  f \in Seq(Frame) /\ Len(f) = Len(frames) + 1 /\ f # <<>>
         /\ Len(frames) # 1 =>
              LET f == SubSeq(frames, 1, Len(frames) - 1)
              IN  f \in Seq(Frame) /\ Len(f) = Len(frames) - 1 /\ f # <<>>
<1>1. frames \in Seq(Frame) /\ Len(frames) \in Nat \ {0}
  BY DEF Inv, TypeOK
<1>2. Top \in Frame
  BY <1>1 DEF Top
<1>3. ASSUME NEW p PROVE Done(p) \in Seq(Frame) /\ Len(Done(p)) = Len(frames)
  <2>1. [Top EXCEPT !.left = @ \ {p}] \in Frame
    BY <1>2 DEF Frame
  <2>2. Done(p) = [frames EXCEPT ![Len(frames)] = [Top EXCEPT !.left = @ \ {p}]]
    BY DEF Done, Top
  <2> QED BY <1>1, <2>1, <2>2
<1>4. ASSUME NEW q \in DOMAIN Remote PROVE [at |-> q, left |-> Below(q)] \in Frame
  BY TransfersConstants DEF Frame, Below, Within
<1>5. ASSUME Len(frames) # 1
      PROVE  LET f == SubSeq(frames, 1, Len(frames) - 1)
             IN  f \in Seq(Frame) /\ Len(f) = Len(frames) - 1 /\ f # <<>>
  <2>1. \E n \in Nat : n = Len(frames) - 1 /\ n # 0 /\ n <= Len(frames)
    <3>1. Len(frames) - 1 \in Nat /\ Len(frames) - 1 # 0 /\ Len(frames) - 1 <= Len(frames)
      BY <1>1, <1>5
    <3> QED BY <3>1, Zenon
  <2>0. PICK n \in Nat : n = Len(frames) - 1 /\ n # 0 /\ n <= Len(frames)
    BY <2>1
  <2>2. PICK f : f = SubSeq(frames, 1, n)
    OBVIOUS
  <2>3. f \in Seq(Frame) /\ Len(f) = n
    BY <1>1, <2>0, <2>2, SubSeqProperties
  <2>4. f # <<>>
    BY <2>0, <2>3
  <2> QED BY <2>0, <2>2, <2>3, <2>4
<1>6. ASSUME NEW p, NEW q \in DOMAIN Remote
      PROVE  LET f == Append(Done(p), [at |-> q, left |-> Below(q)])
             IN  f \in Seq(Frame) /\ Len(f) = Len(frames) + 1 /\ f # <<>>
  BY <1>1, <1>3, <1>4
<1>7. \A p : Done(p) # <<>>
  BY <1>1, <1>3
<1> QED BY <1>1, <1>2, <1>3, <1>5, <1>6, <1>7

LEMMA PullStep ==
  ASSUME Inv, (\E p \in Single : Pull(p)) \/ PullFetch \/ (\E r \in Root : PullTree(r))
  PROVE  Inv'
<1> USE DEF Inv
<1>1. ASSUME NEW p \in Single, Pull(p) PROVE Inv'
  <2>1. /\ Start("pull") /\ cmd' = [Fresh("pull") EXCEPT !.pc = "fetch", !.file = p]
        /\ local' = [local EXCEPT ![p] = [nr |-> cmd.nr + 1, whole |-> FALSE]]
        /\ UNCHANGED <<dir, staging, leaked, tmp, frames>> /\ p \in File
    BY Zenon, <1>1, TransfersConstants DEF Pull, directories
  <2>2. Fresh("pull") \in Locals /\ Fresh("pull").op = "pull" /\ cmd.nr + 1 \in Nr
    BY <2>1, Starting DEF TypeOK
  <2>3. cmd' \in Locals /\ cmd'.pc = "fetch" /\ cmd'.op = "pull" /\ cmd'.file = p
    BY <2>1, <2>2 DEF Locals
  <2>4. local' \in [File -> FileState]
    BY <2>1, <2>2 DEF TypeOK, FileState
  <2>5. TypeOK' /\ Walking'
    BY <2>1, <2>3, <2>4 DEF TypeOK, Walking
  <2> QED BY <2>1, <2>3, <2>5, PullsApart DEF Start, Pulling, directories
<1>2. CASE PullFetch
  <2>1. /\ UNCHANGED <<dir, staging, leaked, tmp, frames>> /\ cmd.pc = "fetch"
        /\ (End("ok") /\ local' = [local EXCEPT ![cmd.file] = Fetched])
           \/ (End("error") /\ local' = local)
    BY <1>2 DEF PullFetch, directories
  <2>2. cmd' \in Locals /\ cmd'.pc = "done" /\ cmd'.op = cmd.op
    BY <2>1, Ending DEF TypeOK
  <2>3. Fetched \in FileState
    BY DEF TypeOK, Locals, Fetched, FileState
  <2>4. local' \in [File -> FileState]
    BY <2>1, <2>3 DEF TypeOK
  <2>5. TypeOK' /\ Walking'
    BY <2>1, <2>2, <2>4 DEF TypeOK, Walking
  <2> QED BY <2>1, <2>2, <2>5, PullsApart DEF Promotion, Pulling, directories
<1>3. ASSUME NEW r \in Root, PullTree(r) PROVE Inv'
  <2>1. PICK c : /\ Start("pulltree") /\ c = [Fresh("pulltree") EXCEPT !.root = r]
                 /\ \/ cmd' = [c EXCEPT !.pc = "tree"] /\ frames' = <<[at |-> r, left |-> Below(r)]>>
                    \/ cmd' = [c EXCEPT !.end = "error"] /\ frames' = frames
                 /\ UNCHANGED <<dir, staging, leaked, tmp, local>>
    BY Zenon, <1>3 DEF PullTree, directories
  <2>2. r \in Seq(Names)
    <3>1. CASE r = <<>>
      BY <3>1
    <3>2. CASE r \in DOMAIN Remote
      BY <3>2, TransfersConstants
    <3> QED BY <3>1, <3>2 DEF Root
  <2>3. Fresh("pulltree") \in Locals /\ Fresh("pulltree").op = "pulltree" /\ Fresh("pulltree").pc = "done"
    BY <2>1, Starting DEF TypeOK
  <2>4. c \in Locals /\ c.op = "pulltree" /\ c.pc = "done"
    BY <2>1, <2>2, <2>3 DEF Locals
  <2>5. <<[at |-> r, left |-> Below(r)]>> \in Seq(Frame)
    BY <2>2 DEF Frame, Below, Within
  <2>6. /\ cmd' \in Locals /\ cmd'.pc \in {"tree", "done"} /\ cmd'.op = "pulltree"
        /\ cmd'.pc = "tree" => frames' # <<>>
        /\ frames' \in Seq(Frame) /\ Len(frames') <= MaxTreeDepth + 1
    <3>1. CASE cmd' = [c EXCEPT !.pc = "tree"] /\ frames' = <<[at |-> r, left |-> Below(r)]>>
      <4>1. cmd' \in Locals /\ cmd'.pc = "tree" /\ cmd'.op = "pulltree"
        BY <2>4, <3>1 DEF Locals
      <4>2. Len(frames') <= MaxTreeDepth + 1 /\ frames' # <<>>
        BY <3>1, TransfersConstants
      <4> QED BY <2>5, <3>1, <4>1, <4>2
    <3>2. CASE cmd' = [c EXCEPT !.end = "error"] /\ frames' = frames
      <4>1. cmd' \in Locals /\ cmd'.pc = "done" /\ cmd'.op = "pulltree"
        BY <2>4, <3>2 DEF Locals
      <4> QED BY <3>2, <4>1 DEF TypeOK
    <3> QED BY <2>1, <3>1, <3>2
  <2>7. TypeOK' /\ Walking'
    BY <2>1, <2>6 DEF TypeOK, Walking
  <2> QED BY <2>1, <2>6, <2>7, PullsApart DEF Start, Pulling, directories
<1> QED BY <1>1, <1>2, <1>3

LEMMA TreeStep ==
  ASSUME Inv,
         \/ \E p \in DOMAIN Remote : TreeUnsafe(p) \/ TreeDir(p) \/ TreeFile(p)
         \/ TreeUp \/ TreeDownload \/ TreeRename
  PROVE  Inv'
<1> USE DEF Inv
<1>0. /\ cmd \in Locals /\ cmd.pc \in {"tree", "download", "rename"} /\ frames # <<>>
      /\ cmd.op # "unpack" /\ UNCHANGED <<dir, staging, leaked>>
  BY Zenon DEF TypeOK, Walking, Promotion, Pulling, TreeUnsafe, TreeDir, TreeFile, TreeUp,
         TreeDownload, TreeRename, Entry, directories
\* It is enough that the walk goes on, or the command ends.
<1>a. ASSUME cmd' \in Locals, cmd'.op = cmd.op,
             cmd'.pc \in {"tree", "download", "rename"} => frames' # <<>>,
             cmd'.pc \in {"download", "rename"} => cmd'.file \in File,
             cmd'.pc \in {"tree", "download", "rename", "done"},
             frames' \in Seq(Frame), Len(frames') <= MaxTreeDepth + 1,
             local' \in [File -> FileState], tmp' \in {None, "part", "whole"}
      PROVE  Inv'
  <2>1. TypeOK' /\ Walking'
    BY <1>0, <1>a DEF TypeOK, Walking
  <2> QED BY <1>0, <1>a, <2>1, PullsApart DEF Pulling, directories
<1>b. ASSUME NEW e \in {"ok", "error"}, End(e), frames' = <<>>,
             local' \in [File -> FileState], tmp' \in {None, "part", "whole"}
      PROVE  Inv'
  <2>1. frames' \in Seq(Frame) /\ Len(frames') <= MaxTreeDepth + 1
    BY <1>b, TransfersConstants
  <2>2. cmd' \in Locals /\ cmd'.op = cmd.op /\ cmd'.pc = "done"
    BY <1>0, <1>b, Ending
  <2> QED BY <1>a, <1>b, <2>1, <2>2
<1>c. ASSUME NEW p \in DOMAIN Remote, Skip(p), cmd.pc = "tree",
             local' = local, tmp' = tmp
      PROVE  Inv'
  <2>1. cmd' \in Locals /\ cmd'.op = cmd.op /\ cmd'.pc = "tree"
    BY <1>0, <1>c DEF Skip, Locals
  <2>2. frames' \in Seq(Frame) /\ Len(frames') <= MaxTreeDepth + 1 /\ frames' # <<>>
    BY <1>0, <1>c, Frames DEF Skip, TypeOK
  <2> QED BY <1>a, <1>c, <2>1, <2>2 DEF TypeOK
<1>1. ASSUME NEW p \in DOMAIN Remote, TreeUnsafe(p) PROVE Inv'
  BY <1>1, <1>c DEF TreeUnsafe, Entry
<1>2. ASSUME NEW p \in DOMAIN Remote, TreeDir(p) PROVE Inv'
  <2>1. CASE End("error") /\ frames' = <<>>
    BY <1>2, <2>1, <1>b DEF TreeDir, TypeOK
  <2>2. CASE /\ Len(frames) <= MaxTreeDepth /\ cmd' = cmd
             /\ frames' = Append(Done(p), [at |-> p, left |-> Below(p)])
    <3>1. frames' \in Seq(Frame) /\ Len(frames') = Len(frames) + 1 /\ frames' # <<>>
      BY <1>0, <2>2, Frames
    <3>2. Len(frames') <= MaxTreeDepth + 1
      BY <2>2, <3>1, <1>0, Frames, TransfersConstants
    <3> QED BY <1>0, <1>2, <1>a, <2>2, <3>1, <3>2 DEF TreeDir, Entry, TypeOK
  <2> QED BY <1>2, <2>1, <2>2 DEF TreeDir
<1>3. ASSUME NEW p \in DOMAIN Remote, TreeFile(p) PROVE Inv'
  <2>1. CASE cmd' = [cmd EXCEPT !.pc = "download", !.file = p] /\ tmp' = "part" /\ frames' = frames
    <3>1. p \in File
      BY Zenon, <1>3 DEF TreeFile, Entry, File
    <3>2. cmd' \in Locals /\ cmd'.op = cmd.op /\ cmd'.pc = "download" /\ cmd'.file = p
      BY <1>0, <2>1, <3>1 DEF Locals
    <3> QED BY Zenon, <1>0, <1>3, <1>a, <2>1, <3>1, <3>2 DEF TreeFile, TypeOK
  <2>2. CASE Skip(p) /\ tmp' = tmp
    BY Zenon, <1>3, <1>c, <2>2 DEF TreeFile, Entry
  <2> QED BY Zenon, <1>3, <2>1, <2>2 DEF TreeFile
<1>4. CASE TreeUp
  <2>1. CASE Len(frames) = 1
    BY <1>4, <2>1, <1>b DEF TreeUp, TypeOK
  <2>2. CASE Len(frames) # 1
    <3>1. frames' = SubSeq(frames, 1, Len(frames) - 1) /\ cmd' = cmd
      BY <1>4, <2>2 DEF TreeUp
    <3>2. frames' \in Seq(Frame) /\ Len(frames') <= MaxTreeDepth + 1 /\ frames' # <<>>
      <4>1. frames' \in Seq(Frame) /\ Len(frames') = Len(frames) - 1 /\ frames' # <<>>
        BY <1>0, <2>2, <3>1, Frames
      <4>2. Len(frames) \in Nat /\ Len(frames) <= MaxTreeDepth + 1
        BY <1>0, Frames DEF TypeOK
      <4> QED BY <4>1, <4>2, TransfersConstants
    <3> QED BY <1>0, <1>4, <1>a, <3>1, <3>2 DEF TreeUp, TypeOK
  <2> QED BY <2>1, <2>2
<1>5. CASE TreeDownload
  <2>1. CASE tmp' = "whole" /\ Goto("rename") /\ frames' = frames
    <3>1. /\ cmd' \in Locals /\ cmd'.op = cmd.op /\ cmd'.pc = "rename" /\ cmd'.file = cmd.file
      BY <1>0, <2>1, Going DEF Pulling
    <3> QED BY <1>0, <1>5, <1>a, <2>1, <3>1 DEF TreeDownload, TypeOK, Walking
  <2>2. CASE tmp' = None /\ End("error") /\ frames' = <<>>
    BY <1>5, <1>b, <2>2 DEF TreeDownload, TypeOK
  <2> QED BY <1>5, <2>1, <2>2 DEF TreeDownload
<1>6. CASE TreeRename
  <2>1. Fetched \in FileState
    BY <1>0 DEF Locals, Fetched, FileState
  <2>2. local' \in [File -> FileState]
    BY <1>6, <2>1 DEF TreeRename, TypeOK
  <2>3. CASE frames' = Done(cmd.file) /\ Goto("tree")
    <3>1. cmd' \in Locals /\ cmd'.op = cmd.op /\ cmd'.pc = "tree"
      BY <1>0, <2>3, Going DEF Pulling
    <3>2. frames' \in Seq(Frame) /\ Len(frames') <= MaxTreeDepth + 1 /\ frames' # <<>>
      BY <1>0, <2>3, Frames DEF TypeOK
    <3> QED BY <1>6, <1>a, <2>2, <3>1, <3>2 DEF TreeRename
  <2>4. CASE End("error") /\ frames' = <<>>
    BY <1>6, <1>b, <2>2, <2>4 DEF TreeRename
  <2> QED BY <1>6, <2>3, <2>4 DEF TreeRename
<1> QED BY <1>1, <1>2, <1>3, <1>4, <1>5, <1>6

-----------------------------------------------------------------------------
(* The steps of unpack. *)

\* What is left of a backup is none of the destinations.
LEMMA BackupOnly ==
  ASSUME Inv, Ordinary, NEW d \in Dests,
         \/ Gone(Backup(d))
         \/ dir[Backup(d)] # None /\ \E S \in SUBSET dir[Backup(d)] : Removed(Backup(d), S)
  PROVE  /\ dir' \in [Path -> Content]
         /\ \A e \in Dests : dir'[e] = dir[e]
<1>1. PICK T \in Content : dir' = [dir EXCEPT ![Backup(d)] = T]
  <2>1. CASE Gone(Backup(d))
    BY <2>1, Backups, Trees DEF Gone
  <2>2. ASSUME dir[Backup(d)] # None, NEW S \in SUBSET dir[Backup(d)], Removed(Backup(d), S)
        PROVE  \E T \in Content : dir' = [dir EXCEPT ![Backup(d)] = T]
    <3>1. dir[Backup(d)] \in Tree
      BY <2>2, Backups, Trees DEF Inv, TypeOK
    <3> QED BY <2>2, <3>1, Trees DEF Removed
  <2> QED BY <2>1, <2>2
<1> QED BY <1>1, Backups DEF Inv, TypeOK

LEMMA UnpackStep ==
  ASSUME Inv, Ordinary, \E d \in Dests : Unpack(d)
  PROVE  Inv'
<1> USE DEF Inv
<1>1. PICK d \in Dests :
        /\ Start("unpack") /\ UNCHANGED <<dir, staging, leaked, local, tmp, frames>>
        /\ cmd' = [Fresh("unpack") EXCEPT !.pc = "archive", !.dest = d, !.before = dir[d]]
  BY Zenon DEF Unpack, directories, pulls
<1>2. Fresh("unpack") \in Locals /\ Fresh("unpack").op = "unpack"
  BY <1>1, Starting DEF TypeOK
<1>3. dir[d] \in Content
  BY Backups DEF TypeOK
<1>4. /\ cmd' \in Locals /\ cmd'.pc = "archive" /\ cmd'.op = "unpack"
      /\ cmd'.dest = d /\ cmd'.before = dir[d]
  BY <1>1, <1>2, <1>3 DEF Locals
<1>5. TypeOK' /\ Walking'
  BY <1>1, <1>4 DEF TypeOK, Walking
<1>6. Promotion'
  BY <1>1, <1>4 DEF Promotion, Unpacking, Pulling
<1>7. Survivors'
  BY <1>1, <1>4 DEF Survivors, Start
<1> QED BY <1>5, <1>6, <1>7

\* The invariant after a step of unpack that changes the directories.
LEMMA Unpacked ==
  ASSUME Inv, cmd.pc \in Unpacking,
         cmd' \in Locals, cmd'.op = cmd.op, cmd'.dest = cmd.dest,
         cmd'.pc \in Unpacking \cup {"done"},
         UNCHANGED local, tmp' \in {None, tmp}, frames' \in {frames, <<>>},
         dir' \in [Path -> Content], staging' \in Content, leaked' \subseteq Content
  PROVE  TypeOK' /\ Walking'
<1>1. frames' \in Seq(Frame) /\ Len(frames') <= MaxTreeDepth + 1
  <2>1. CASE frames' = frames
    BY <2>1 DEF Inv, TypeOK
  <2>2. CASE frames' = <<>>
    BY <2>2, TransfersConstants
  <2> QED BY <2>1, <2>2
<1> QED BY <1>1 DEF Inv, TypeOK, Walking, Unpacking

LEMMA FetchStep ==
  ASSUME Inv, Ordinary, UnpackDownload \/ UnpackExtract
  PROVE  Inv'
<1> USE DEF Inv
<1>0. /\ cmd \in Locals /\ cmd.pc \in {"archive", "extract"} /\ cmd.op = "unpack" /\ cmd.dest \in Dests
      /\ UNCHANGED <<leaked, local, tmp, frames>>
  BY DEF TypeOK, Promotion, Unpacking, UnpackDownload, UnpackExtract, pulls
<1>1. dir \in [Path -> Content] /\ cmd.dest \in Path /\ cmd.nr \in Nr
  BY <1>0, Backups DEF TypeOK, Locals
<1>2. New \in Tree /\ Old = (IF cmd.before = None THEN {} ELSE cmd.before)
  BY <1>0, <1>1, Trees DEF New, Old
<1>3. CASE UnpackDownload
  <2>1. CASE End("error") /\ dir' = dir
    <3>1. TypeOK' /\ Walking'
      BY <1>0, <1>3, <2>1, Ending, Unpacked DEF Unpacking, UnpackDownload, TypeOK
    <3>2. Promotion'
      BY <1>0, <1>3, <2>1, Ending DEF Promotion, Unpacking, Pulling, UnpackDownload, Old, New
    <3>3. Survivors'
      BY <1>0, <1>3, <2>1, Ending DEF Survivors, UnpackDownload
    <3> QED BY <3>1, <3>2, <3>3
  <2>2. CASE Goto("extract") /\ dir' = [dir EXCEPT ![cmd.dest] = IF @ = None THEN {} ELSE @]
    <3>1. dir' \in [Path -> Content] /\ dir'[cmd.dest] = (IF dir[cmd.dest] = None THEN {} ELSE dir[cmd.dest])
      BY <1>1, <2>2, Trees
    <3>2. TypeOK' /\ Walking'
      BY <1>0, <1>3, <2>2, <3>1, Going, Unpacked DEF Unpacking, UnpackDownload, TypeOK
    <3>3. Promotion'
      BY <1>0, <1>3, <2>2, <3>1, Going DEF Promotion, Unpacking, Pulling, UnpackDownload, Old, New
    <3>4. ASSUME NEW d \in Dests, dir[d] # None PROVE dir'[d] = dir[d]
      BY <1>1, <2>2, <3>4, Backups
    <3>5. Survivors'
      BY <1>0, <1>3, <2>2, <3>4, Going, Trees, TransfersConstants DEF Survivors, UnpackDownload
    <3> QED BY <3>2, <3>3, <3>5
  <2> QED BY <1>3, <2>1, <2>2 DEF UnpackDownload
<1>4. CASE UnpackExtract
  <2>0. UNCHANGED dir
    BY <1>4 DEF UnpackExtract
  <2>1. CASE End("error") /\ staging' = staging
    <3>1. TypeOK' /\ Walking'
      BY <1>0, <2>0, <2>1, Ending, Unpacked DEF Unpacking, TypeOK
    <3>2. Promotion'
      BY <1>0, <1>4, <2>0, <2>1, Ending DEF Promotion, Unpacking, Pulling, UnpackExtract, Old, New
    <3>3. Survivors'
      BY <1>0, <1>4, <2>0, <2>1, Ending DEF Survivors, UnpackExtract
    <3> QED BY <3>1, <3>2, <3>3
  <2>2. CASE Goto("remove") /\ staging' = Whole(cmd.dest, cmd.nr)
    <3>1. TypeOK' /\ Walking'
      BY <1>0, <1>2, <2>0, <2>2, Going, Unpacked, Trees DEF Unpacking, TypeOK, New
    <3>2. Promotion'
      BY <1>0, <1>4, <2>0, <2>2, Going DEF Promotion, Unpacking, Pulling, UnpackExtract, Old, New
    <3>3. Survivors'
      BY <1>0, <1>4, <2>0, <2>2, Going DEF Survivors, UnpackExtract
    <3> QED BY <3>1, <3>2, <3>3
  <2> QED BY <1>4, <2>1, <2>2 DEF UnpackExtract
<1> QED BY <1>3, <1>4

LEMMA PromoteStep ==
  ASSUME Inv, Ordinary,
         PromoteRemove \/ PromoteAside \/ Promote \/ PromoteRestore \/ PromoteClean
  PROVE  Inv'
<1> USE DEF Inv
<1> DEFINE d == cmd.dest
           bak == Backup(d)
<1>0. /\ cmd \in Locals /\ cmd.pc \in {"remove", "aside", "promote", "restore", "clean"}
      /\ cmd.op = "unpack" /\ d \in Dests /\ UNCHANGED <<local, tmp, frames>>
  BY DEF TypeOK, Promotion, Unpacking, PromoteRemove, PromoteAside, Promote, PromoteRestore,
         PromoteClean, pulls
<1>1. /\ dir \in [Path -> Content] /\ d \in Path /\ bak \in Path /\ bak \notin Dests /\ bak # Here
      /\ bak # d /\ cmd.nr \in Nr /\ staging \in Content /\ leaked \subseteq Content
  BY <1>0, Backups DEF TypeOK, Locals
<1>2. New \in Tree /\ New = Whole(d, cmd.nr) /\ Old \in Tree /\ cmd.before \in Content
  BY <1>0, <1>1, Trees DEF New, Old, Locals
<1>3. CASE PromoteRemove
  <2>1. /\ cmd.pc = "remove" /\ Goto("aside") /\ staging' = staging /\ leaked' = leaked
        /\ dir' \in [Path -> Content] /\ \A e \in Dests : dir'[e] = dir[e]
    BY <1>0, <1>1, <1>3, BackupOnly DEF PromoteRemove
  <2>2. TypeOK' /\ Walking'
    BY <1>0, <1>1, <2>1, Going, Unpacked DEF Unpacking
  <2>3. Promotion'
    BY <1>0, <2>1, Going DEF Promotion, Unpacking, Pulling, Old, New
  <2>4. Survivors'
    BY <1>0, <2>1, Going, TransfersConstants DEF Survivors
  <2> QED BY <2>2, <2>3, <2>4
<1>4. CASE PromoteAside
  <2>1. CASE /\ dir' = [dir EXCEPT ![bak] = dir[d], ![d] = None]
             /\ Goto("promote") /\ UNCHANGED <<staging, leaked>>
    <3>1. /\ dir' \in [Path -> Content] /\ dir'[d] = None /\ dir'[bak] = dir[d]
          /\ \A e \in Dests : e # d => dir'[e] = dir[e]
      BY <1>1, <2>1, Backups, Trees
    <3>2. TypeOK' /\ Walking'
      BY <1>0, <1>1, <2>1, <3>1, Going, Unpacked DEF Unpacking
    <3>3. Promotion'
      BY <1>0, <1>4, <2>1, <3>1, Going DEF Promotion, Unpacking, Pulling, Old, New, PromoteAside
    <3>4. Survivors'
      <4>1. /\ cmd.pc = "aside" /\ leaked' = leaked
            /\ cmd'.dest = d /\ cmd'.pc = "promote" /\ Had \subseteq Dests
        BY <1>0, <1>4, <2>1, Going, TransfersConstants DEF PromoteAside, Unpacking
      <4> HIDE DEF d
      <4> QED BY <3>1, <4>1 DEF Survivors
    <3> QED BY <3>2, <3>3, <3>4
  <2>2. CASE End("error") /\ Leak /\ UNCHANGED dir
    <3>1. staging' \in Content /\ leaked' \subseteq Content /\ leaked \subseteq leaked'
      BY <1>1, <2>2, Trees DEF Leak
    <3>2. TypeOK' /\ Walking'
      BY <1>0, <1>1, <2>2, <3>1, Ending, Unpacked DEF Unpacking
    <3>3. Promotion'
      BY <1>0, <1>4, <2>2, Ending DEF Promotion, Unpacking, Pulling, Old, New, PromoteAside
    <3>4. Survivors'
      BY <1>0, <1>4, <2>2, <3>1, Ending DEF Survivors, PromoteAside
    <3> QED BY <3>2, <3>3, <3>4
  <2> QED BY <1>4, <2>1, <2>2 DEF PromoteAside
<1>5. CASE Promote
  <2>1. CASE /\ dir' = [dir EXCEPT ![d] = staging]
             /\ staging' = None /\ Goto("clean")
    <3>1. staging = New /\ dir[bak] = Old /\ dir[bak] # None
      BY <1>0, <1>2, <1>5, Trees DEF Promotion, Promote
    <3>2. /\ dir' \in [Path -> Content] /\ dir'[d] = New /\ dir'[bak] # None
          /\ \A e \in Dests : e # d => dir'[e] = dir[e]
      BY <1>1, <2>1, <3>1, Backups
    <3>3. TypeOK' /\ Walking' /\ leaked' = leaked
      BY <1>0, <1>1, <1>5, <2>1, <3>2, Going, Unpacked, Trees DEF Unpacking, Promote
    <3>4. Promotion'
      BY <1>0, <1>5, <2>1, <3>2, Going DEF Promotion, Unpacking, Pulling, Old, New, Promote
    <3>5. Survivors'
      <4>1. /\ Had \subseteq Dests /\ cmd.nr \in Nr /\ cmd'.pc = "clean" /\ cmd'.dest = d
            /\ dir'[d] = Whole(d, cmd.nr) /\ leaked' = leaked /\ cmd.dest = d
        BY <1>0, <1>1, <1>2, <2>1, <3>2, <3>3, Going, TransfersConstants DEF Unpacking
      <4> HIDE DEF d
      <4>2. ASSUME NEW e \in Had, e # d
            PROVE  \E n \in Nr : dir'[e] = Whole(e, n) \/ Whole(e, n) \in leaked'
        BY <3>2, <4>1, <4>2 DEF Survivors
      <4> QED BY <4>1, <4>2 DEF Survivors
    <3> QED BY <3>3, <3>4, <3>5
  <2>2. CASE Goto("restore") /\ UNCHANGED <<dir, staging>>
    <3>1. TypeOK' /\ Walking' /\ leaked' = leaked
      BY <1>0, <1>1, <1>5, <2>2, Going, Unpacked DEF Unpacking, Promote
    <3>2. Promotion'
      BY <1>0, <1>5, <2>2, Going DEF Promotion, Unpacking, Pulling, Old, New, Promote
    <3>3. Survivors'
      <4>1. /\ cmd.pc = "promote" /\ cmd'.pc = "restore" /\ cmd'.dest = cmd.dest
            /\ dir' = dir /\ leaked' = leaked
        BY <1>0, <1>5, <2>2, <3>1, Going DEF Unpacking, Promote
      <4> QED BY <4>1 DEF Survivors
    <3> QED BY <3>1, <3>2, <3>3
  <2> QED BY <1>5, <2>1, <2>2 DEF Promote
<1>6. CASE PromoteRestore
  <2>1. dir' = [dir EXCEPT ![d] = dir[bak], ![bak] = None] /\ End("error") /\ Leak
        /\ cmd.pc = "restore"
    BY <1>6 DEF PromoteRestore, Ordinary
  <2>2. staging = New /\ staging # None /\ dir[bak] = Old
    BY <1>0, <1>2, <2>1, Trees DEF Promotion
  <2>3. staging' = None /\ leaked' = leaked \cup {New}
    BY <2>1, <2>2 DEF Leak
  <2>4. /\ dir' \in [Path -> Content] /\ dir'[d] = Old
        /\ \A e \in Dests : e # d => dir'[e] = dir[e]
    BY <1>1, <2>1, <2>2, Backups, Trees
  <2>5. TypeOK' /\ Walking'
    BY <1>0, <1>1, <1>2, <2>1, <2>3, <2>4, Ending, Unpacked, Trees DEF Unpacking
  <2>6. Promotion'
    BY <1>0, <2>1, <2>4, Ending DEF Promotion, Unpacking, Pulling, Old, New
  <2>7. Survivors'
    <3>1. /\ Had \subseteq Dests /\ leaked \subseteq leaked'
          /\ cmd.nr \in Nr /\ Whole(d, cmd.nr) \in leaked'
      BY <1>1, <1>2, <2>3, TransfersConstants
    <3>2. ASSUME NEW e \in Had, e # d
          PROVE  \E n \in Nr : dir'[e] = Whole(e, n) \/ Whole(e, n) \in leaked'
      BY <2>4, <3>1, <3>2 DEF Survivors
    <3> QED BY <3>1, <3>2 DEF Survivors
  <2> QED BY <2>5, <2>6, <2>7
<1>7. CASE PromoteClean
  <2>1. dir[bak] # None /\ dir[d] = New /\ cmd.pc = "clean"
    BY <1>0, <1>7 DEF Promotion, PromoteClean
  <2>2. /\ End("ok") /\ staging' = staging /\ leaked' = leaked
        /\ dir' \in [Path -> Content] /\ \A e \in Dests : dir'[e] = dir[e]
    BY <1>0, <1>7, <2>1, BackupOnly DEF PromoteClean
  <2>3. TypeOK' /\ Walking'
    BY <1>0, <1>1, <2>2, Ending, Unpacked DEF Unpacking
  <2>4. Promotion'
    BY <1>0, <2>1, <2>2, Ending DEF Promotion, Unpacking, Pulling, Old, New
  <2>5. Survivors'
    BY <1>0, <2>1, <2>2, Ending, TransfersConstants DEF Survivors
  <2> QED BY <2>3, <2>4, <2>5
<1> QED BY <1>3, <1>4, <1>5, <1>6, <1>7

LEMMA KillStep ==
  ASSUME Inv, Ordinary, Kill
  PROVE  Inv'
<1> USE DEF Inv
<1>0. /\ cmd \in Locals /\ cmd.pc # "done" /\ End("killed") /\ tmp' = None /\ frames' = <<>>
      /\ local' = local
  BY DEF Kill, TypeOK
<1>1. /\ cmd' \in Locals /\ cmd'.pc = "done" /\ cmd'.end = "killed" /\ cmd'.op = cmd.op
      /\ cmd'.dest = cmd.dest /\ cmd'.before = cmd.before /\ cmd'.nr = cmd.nr
  BY <1>0, Ending
<1>2. dir' \in [Path -> Content] /\ \A e \in Dests : dir'[e] = dir[e]
  <2>1. CASE dir' = dir
    BY <2>1 DEF TypeOK
  <2>2. CASE /\ cmd.pc \in {"remove", "clean"} /\ dir[Backup(cmd.dest)] # None
             /\ \E S \in SUBSET dir[Backup(cmd.dest)] : Removed(Backup(cmd.dest), S)
    <3>1. cmd.dest \in Dests
      BY <2>2 DEF Promotion, Unpacking
    <3> QED BY <2>2, <3>1, BackupOnly
  <2> QED BY <2>1, <2>2 DEF Kill
<1>3. staging' \in Content /\ leaked' \subseteq Content /\ leaked \subseteq leaked'
  <2>1. CASE Leak
    BY <2>1, Trees DEF Leak, TypeOK
  <2>2. CASE /\ cmd.pc = "extract" /\ staging' = staging
             /\ \E S \in SUBSET Whole(cmd.dest, cmd.nr) : leaked' = leaked \cup {S}
    <3>1. cmd.dest \in Dests /\ cmd.nr \in Nr
      BY <1>0, <2>2 DEF Promotion, Unpacking, Locals
    <3>2. \A S \in SUBSET Whole(cmd.dest, cmd.nr) : S \in Content
      BY <3>1, Trees
    <3> QED BY <2>2, <3>2 DEF TypeOK
  <2> QED BY <2>1, <2>2 DEF Kill
<1>4. TypeOK' /\ Walking'
  <2>1. frames' \in Seq(Frame) /\ Len(frames') <= MaxTreeDepth + 1
    BY <1>0, TransfersConstants
  <2> QED BY <1>0, <1>1, <1>2, <1>3, <2>1 DEF TypeOK, Walking
<1>5. Promotion'
  BY <1>0, <1>1, <1>2 DEF Promotion, Unpacking, Pulling, Old, New
<1>6. Survivors'
  <2>1. CASE cmd.pc \in {"promote", "restore"}
    <3>1. staging = New /\ cmd.dest \in Dests /\ cmd.nr \in Nr
      BY <1>0, <2>1 DEF Promotion, Unpacking, Locals
    <3>2. New \in leaked'
      BY <2>1, <3>1, Trees DEF Kill, Leak, New
    <3>3. ASSUME NEW e \in Had
          PROVE  \E n \in Nr : dir'[e] = Whole(e, n) \/ Whole(e, n) \in leaked'
      <4>1. CASE e = cmd.dest
        BY <3>1, <3>2, <4>1 DEF New
      <4>2. CASE e # cmd.dest
        BY <1>2, <1>3, <4>2, TransfersConstants DEF Survivors
      <4> QED BY <4>1, <4>2
    <3> QED BY <3>3 DEF Survivors
  <2>2. CASE cmd.pc \notin {"promote", "restore"}
    BY <1>2, <1>3, <2>2, TransfersConstants DEF Survivors
  <2> QED BY <2>1, <2>2
<1> QED BY <1>4, <1>5, <1>6

LEMMA StepInv ==
  ASSUME Ordinary
  PROVE  Inv /\ [Next]_vars => Inv'
<1>1. CASE UNCHANGED vars
  BY <1>1 DEF vars, Inv, TypeOK, Walking, Promotion, Survivors, Old, New, Locals, Nr
<1>2. CASE Next
  BY <1>2, PullStep, TreeStep, UnpackStep, FetchStep, PromoteStep, KillStep DEF Next
<1> QED BY <1>1, <1>2

-----------------------------------------------------------------------------
(* The walk over the directory of the phone. *)

\* The path p leads to q, or is q.
Under(q, p) == Len(q) >= Len(p) /\ \A k \in 1..Len(p) : q[k] = p[k]

LEMMA PathFacts ==
  /\ \A p \in DOMAIN Remote : p \in Seq(Names) /\ Len(p) \in Nat /\ Len(p) >= 1
  /\ \A p \in Seq(Names), q \in Seq(Names) : Under(q, p) /\ Len(q) = Len(p) => q = p
<1>1. \A p \in DOMAIN Remote : p \in Seq(Names) /\ Len(p) \in Nat /\ Len(p) >= 1
  <2> SUFFICES ASSUME NEW p \in DOMAIN Remote PROVE p \in Seq(Names) /\ Len(p) \in Nat /\ Len(p) >= 1
    OBVIOUS
  <2>1. p \in Seq(Names) /\ p # <<>>
    BY TransfersConstants
  <2> QED BY <2>1, LenProperties, EmptySeq
<1>2. ASSUME NEW p \in Seq(Names), NEW q \in Seq(Names), Under(q, p), Len(q) = Len(p) PROVE q = p
  BY <1>2, SeqEqual DEF Under
<1> QED BY <1>1, <1>2

LEMMA UnderTransitive ==
  ASSUME NEW p \in Seq(Names), NEW q \in Seq(Names), NEW r \in Seq(Names)
  PROVE  /\ Under(r, q) /\ Under(q, p) => Under(r, p)
         /\ Under(r, q) /\ Under(r, p) /\ Len(p) <= Len(q) => Under(q, p)
         /\ Under(p, p)
<1>1. Len(p) \in Nat /\ Len(q) \in Nat /\ Len(r) \in Nat
  BY LenProperties
<1> QED BY <1>1 DEF Under

LEMMA WithinIs ==
  ASSUME NEW p \in Seq(Names), NEW q
  PROVE  q \in Within(p) <=> q \in DOMAIN Remote /\ Len(q) > Len(p) /\ Under(q, p)
<1>1. ASSUME q \in DOMAIN Remote, Len(q) > Len(p)
      PROVE  SubSeq(q, 1, Len(p)) = p <=> \A k \in 1..Len(p) : q[k] = p[k]
  <2>1. q \in Seq(Names) /\ Len(p) \in Nat /\ Len(q) \in Nat
    BY <1>1, PathFacts, LenProperties
  <2>2. /\ SubSeq(q, 1, Len(p)) \in Seq(Names) /\ Len(SubSeq(q, 1, Len(p))) = Len(p)
        /\ \A k \in 1..Len(p) : SubSeq(q, 1, Len(p))[k] = q[k]
    BY <1>1, <2>1, SubSeqProperties
  <2> QED BY <2>2, SeqEqual
<1>2. Len(p) \in Nat
  BY LenProperties
<1>3. \A r \in DOMAIN Remote : Len(r) \in Nat
  BY PathFacts
<1> QED BY <1>1, <1>2, <1>3 DEF Within, Under

LEMMA BelowIs ==
  ASSUME NEW p \in Seq(Names), NEW q
  PROVE  q \in Below(p) <=> q \in DOMAIN Remote /\ Len(q) = Len(p) + 1 /\ Under(q, p)
<1>1. Len(p) \in Nat /\ \A r \in DOMAIN Remote : Len(r) \in Nat
  BY LenProperties, PathFacts
<1> QED BY <1>1, WithinIs DEF Below

\* On the way from p to an entry under it lies one directly below p: it is the
\* entry, or a directory.
LEMMA Descends ==
  ASSUME NEW p \in Seq(Names), NEW q \in DOMAIN Remote, Under(q, p), Len(q) > Len(p)
  PROVE  \E r \in Below(p) : Under(q, r) /\ (r = q \/ Remote[r] = "dir")
<1>1. q \in Seq(Names) /\ Len(q) \in Nat /\ Len(p) \in Nat
  BY PathFacts, LenProperties
<1>2. CASE Len(q) = Len(p) + 1
  BY <1>1, <1>2, BelowIs, UnderTransitive
<1>3. CASE Len(q) # Len(p) + 1
  <2> DEFINE n == Len(p) + 1
             r == SubSeq(q, 1, n)
  <2>1. n \in 1..Len(q) - 1
    BY <1>1, <1>3
  <2>2. r \in DOMAIN Remote /\ Remote[r] = "dir"
    BY <2>1, TransfersConstants
  <2>3. Len(r) = n /\ \A k \in 1..n : r[k] = q[k]
    BY <1>1, <2>1, SubSeqProperties
  <2>4. Under(q, r) /\ Under(r, p)
    BY <1>1, <2>1, <2>3 DEF Under
  <2> HIDE DEF r
  <2>5. r \in Below(p)
    BY <2>2, <2>3, <2>4, BelowIs
  <2> QED BY <2>2, <2>4, <2>5
<1> QED BY <1>2, <1>3

\* The frames: one per level, each with entries directly below it that are
\* left to do; a frame leads to those above it, and nothing that a frame has
\* left to do leads to one above it.
Shape(fs, root) ==
  /\ fs \in Seq(Frame) /\ Len(fs) >= 1 /\ fs[1].at = root
  /\ \A i \in 1..Len(fs) : Len(fs[i].at) = Len(root) + i - 1 /\ fs[i].left \subseteq Below(fs[i].at)
  /\ \A i, j \in 1..Len(fs) : i < j =>
       /\ Under(fs[j].at, fs[i].at)
       /\ \A r \in fs[i].left : ~Under(fs[j].at, r)

\* What is still to do: the entries left, and what is under them.
Pending(fs) ==
  {q \in DOMAIN Remote : \E i \in 1..Len(fs) : \E r \in fs[i].left : Under(q, r)}

LEMMA ShapeFacts ==
  ASSUME NEW root \in Seq(Names), NEW fs, Shape(fs, root)
  PROVE  /\ Len(fs) \in Nat /\ Len(fs) \in 1..Len(fs) /\ Len(root) \in Nat /\ fs[1].at = root
         /\ fs \in [1..Len(fs) -> Frame] /\ DOMAIN fs = 1..Len(fs)
         /\ \A i \in 1..Len(fs) :
              fs[i].at \in Seq(Names) /\ Len(fs[i].at) = Len(root) + i - 1
         /\ \A i, j \in 1..Len(fs) : i < j =>
              Under(fs[j].at, fs[i].at) /\ \A r \in fs[i].left : ~Under(fs[j].at, r)
         /\ \A i \in 1..Len(fs) : \A r \in fs[i].left :
              r \in DOMAIN Remote /\ r \in Seq(Names) /\ Len(r) = Len(root) + i /\ Under(r, fs[i].at)
<1>1. /\ fs \in Seq(Frame) /\ Len(fs) >= 1
      /\ Len(fs) \in Nat /\ fs \in [1..Len(fs) -> Frame] /\ DOMAIN fs = 1..Len(fs)
  BY LenProperties DEF Shape
<1>2. \A i \in 1..Len(fs) : fs[i].at \in Seq(Names)
  BY <1>1 DEF Frame
<1>3. ASSUME NEW i \in 1..Len(fs), NEW r \in fs[i].left
      PROVE  r \in DOMAIN Remote /\ r \in Seq(Names) /\ Len(r) = Len(root) + i /\ Under(r, fs[i].at)
  <2>1. r \in Below(fs[i].at) /\ Len(fs[i].at) = Len(root) + i - 1
    BY DEF Shape
  <2>2. r \in DOMAIN Remote /\ Len(r) = Len(fs[i].at) + 1 /\ Under(r, fs[i].at)
    BY <2>1, <1>2, BelowIs
  <2> QED BY <2>1, <2>2, PathFacts
<1>4. \A i, j \in 1..Len(fs) : i < j =>
        Under(fs[j].at, fs[i].at) /\ \A r \in fs[i].left : ~Under(fs[j].at, r)
  BY DEF Shape
<1>5. \A i \in 1..Len(fs) : Len(fs[i].at) = Len(root) + i - 1
  BY DEF Shape
<1>6. Len(root) \in Nat
  BY LenProperties
<1>7. fs[1].at = root
  BY DEF Shape
<1>8. Len(fs) \in 1..Len(fs)
  BY <1>1
<1>9. \A i \in 1..Len(fs) : \A r \in fs[i].left :
        r \in DOMAIN Remote /\ r \in Seq(Names) /\ Len(r) = Len(root) + i /\ Under(r, fs[i].at)
  BY <1>3, Zenon
<1> QED BY <1>1, <1>2, <1>4, <1>5, <1>6, <1>7, <1>8, <1>9, Zenon

Struck(fs, p) == [fs EXCEPT ![Len(fs)].left = @ \ {p}]

\* An entry of the frame on top is done: it, and what is under it, is no
\* longer left to do.
LEMMA Leaves ==
  ASSUME NEW root \in Seq(Names), NEW fs, Shape(fs, root), NEW p \in fs[Len(fs)].left,
         NEW gs, gs = Struck(fs, p)
  PROVE  /\ Shape(gs, root) /\ Len(gs) = Len(fs)
         /\ \A i \in 1..Len(fs) : gs[i].at = fs[i].at
         /\ Pending(gs) = Pending(fs) \ {q \in DOMAIN Remote : Under(q, p)}
         /\ p \in Pending(fs)
<1> DEFINE n == Len(fs)
<1>1. /\ n \in Nat /\ n \in 1..n /\ fs \in [1..n -> Frame]
      /\ p \in DOMAIN Remote /\ p \in Seq(Names) /\ Len(p) = Len(root) + n /\ Under(p, fs[n].at)
  BY ShapeFacts
<1>2. fs[n] \in Frame
  BY <1>1
<1>3. [fs[n] EXCEPT !.left = @ \ {p}] \in Frame
  BY <1>2 DEF Frame
<1>4. gs \in [1..n -> Frame] /\ gs[n] = [fs[n] EXCEPT !.left = @ \ {p}]
      /\ \A i \in 1..n : i # n => gs[i] = fs[i]
  BY <1>1, <1>3 DEF Struck
<1>5. gs \in Seq(Frame) /\ Len(gs) = n
  <2>1. gs \in Seq(Frame)
    <3>1. PICK k \in Nat : k = n
      BY Zenon, <1>1
    <3>2. gs \in [1..k -> Frame]
      BY <1>4, <3>1
    <3> QED BY Zenon, <3>2, SeqDef
  <2>2. Len(gs) \in Nat /\ gs \in [1..Len(gs) -> Frame]
    BY <2>1, LenProperties
  <2>3. 1..Len(gs) = 1..n
    BY <1>4, <2>2
  <2>4. ASSUME NEW k \in Nat, NEW l \in Nat, k >= 1, 1..l = 1..k PROVE l = k
    <3>1. k \in 1..l /\ (l = 0 \/ l \in 1..k)
      BY <2>4
    <3> QED BY <3>1
  <2>5. n >= 1
    BY <1>1
  <2> QED BY Zenon, <1>1, <2>1, <2>2, <2>3, <2>4, <2>5
<1>6. gs[n].left = fs[n].left \ {p} /\ gs[n].at = fs[n].at
  BY <1>4, <1>2 DEF Frame
<1>7. \A i \in 1..n : gs[i].at = fs[i].at /\ gs[i].left \subseteq fs[i].left
  BY <1>4, <1>6
<1> HIDE DEF n
<1>8. Shape(gs, root)
  <2>1. Len(gs) >= 1 /\ gs[1].at = root /\ gs \in Seq(Frame)
    BY <1>1, <1>5, <1>7, ShapeFacts DEF n
  <2>2. ASSUME NEW i \in 1..Len(gs)
        PROVE  Len(gs[i].at) = Len(root) + i - 1 /\ gs[i].left \subseteq Below(gs[i].at)
    BY <1>5, <1>7 DEF Shape, n
  <2>3. ASSUME NEW i \in 1..Len(gs), NEW j \in 1..Len(gs), i < j
        PROVE  Under(gs[j].at, gs[i].at) /\ \A r \in gs[i].left : ~Under(gs[j].at, r)
    BY <2>3, <1>5, <1>7 DEF Shape, n
  <2> QED BY <2>1, <2>2, <2>3 DEF Shape
<1>9. p \in Pending(fs)
  BY <1>1, UnderTransitive DEF Pending, n
<1>10. ASSUME NEW q \in Pending(fs), ~Under(q, p) PROVE q \in Pending(gs)
  <2>1. PICK i \in 1..n : \E r \in fs[i].left : Under(q, r)
    BY DEF Pending, n
  <2>2. PICK r \in fs[i].left : Under(q, r)
    BY <2>1
  <2>3. r \in gs[i].left
    BY <2>2, <1>10, <1>4, <1>6
  <2> QED BY <2>2, <2>3, <1>5 DEF Pending
<1>11. ASSUME NEW q \in Pending(gs) PROVE q \in Pending(fs) /\ ~Under(q, p)
  <2>1. PICK i \in 1..n : \E r \in gs[i].left : Under(q, r)
    BY <1>5 DEF Pending
  <2>2. PICK r \in gs[i].left : Under(q, r)
    BY <2>1
  <2>3. r \in fs[i].left
    BY <2>2, <1>7
  <2>4. q \in Pending(fs) /\ q \in DOMAIN Remote /\ q \in Seq(Names)
    BY <2>2, <2>3, PathFacts DEF Pending, n
  <2>5. r \in DOMAIN Remote /\ r \in Seq(Names) /\ Len(r) = Len(root) + i
    BY <2>3, ShapeFacts DEF n
  <2>6. CASE i = n
    <3>1. r # p
      BY <2>2, <2>6, <1>6
    <3>2. ~Under(q, p)
      BY <3>1, <2>2, <2>4, <2>5, <2>6, <1>1, UnderTransitive, PathFacts
    <3> QED BY <3>2, <2>4
  <2>7. CASE i # n
    <3>1. i < n
      BY <2>7, <1>1
    <3>2. fs[n].at \in Seq(Names) /\ Len(fs[n].at) = Len(root) + n - 1 /\ ~Under(fs[n].at, r)
      <4>1. n \in 1..n /\ n = Len(fs)
        BY <1>1 DEF n
      <4>2. fs[n].at \in Seq(Names) /\ Len(fs[n].at) = Len(root) + n - 1
        BY <4>1, ShapeFacts
      <4>3. ~Under(fs[n].at, r)
        BY <4>1, <3>1, <2>3, ShapeFacts
      <4> QED BY <4>2, <4>3
    <3>3. ~Under(p, r)
      BY <3>1, <3>2, <2>5, <1>1, UnderTransitive
    <3>4. ~Under(q, p)
      BY <3>1, <3>3, <2>2, <2>4, <2>5, <1>1, UnderTransitive
    <3> QED BY <3>4, <2>4
  <2> QED BY <2>6, <2>7
<1>12. Pending(gs) = Pending(fs) \ {q \in DOMAIN Remote : Under(q, p)}
  BY <1>10, <1>11 DEF Pending
<1> QED BY <1>5, <1>7, <1>8, <1>9, <1>12 DEF n

Opened(p) == [at |-> p, left |-> Below(p)]
Entered(fs, p) == Append(fs, Opened(p))

\* A directory that is done itself is entered: what is under it is left to do.
LEMMA Enters ==
  ASSUME NEW root \in Seq(Names), NEW fs, Shape(fs, root),
         NEW p \in Below(fs[Len(fs)].at), p \notin Pending(fs),
         NEW gs, gs = Entered(fs, p)
  PROVE  /\ Shape(gs, root) /\ Len(gs) = Len(fs) + 1
         /\ \A i \in 1..Len(fs) : gs[i] = fs[i]
         /\ gs[Len(gs)].at = p
         /\ Pending(gs) = Pending(fs) \cup {q \in DOMAIN Remote : Under(q, p) /\ q # p}
<1> DEFINE n == Len(fs)
           top == Opened(p)
<1>1. /\ n \in Nat /\ n \in 1..n /\ fs \in [1..n -> Frame] /\ fs \in Seq(Frame)
      /\ \A i \in 1..n : fs[i].at \in Seq(Names) /\ Len(fs[i].at) = Len(root) + i - 1
      /\ Len(root) \in Nat /\ fs[1].at = root
  BY ShapeFacts DEF Shape
<1>2. p \in DOMAIN Remote /\ p \in Seq(Names) /\ Len(p) = Len(root) + n /\ Under(p, fs[n].at)
  <2>1. Len(root) + n - 1 + 1 = Len(root) + n
    BY <1>1
  <2> QED BY <2>1, <1>1, BelowIs, PathFacts
<1>3. top \in Frame /\ top.at = p /\ top.left = Below(p)
  BY <1>2 DEF Opened, Frame, Below, Within
<1>0. \A i, j \in 1..n : i < j =>
       Under(fs[j].at, fs[i].at) /\ \A r \in fs[i].left : ~Under(fs[j].at, r)
  BY ShapeFacts
<1> HIDE DEF top
<1>4. gs \in Seq(Frame) /\ Len(gs) = n + 1 /\ gs[n + 1] = top /\ \A i \in 1..n : gs[i] = fs[i]
  BY <1>1, <1>3, AppendProperties DEF top, Entered
<1> HIDE DEF n
<1>5. ASSUME NEW i \in 1..Len(gs)
      PROVE  Len(gs[i].at) = Len(root) + i - 1 /\ gs[i].left \subseteq Below(gs[i].at)
  <2>1. CASE i = n + 1
    <3>1. gs[i] = top /\ Len(root) + n = Len(root) + i - 1
      BY <2>1, <1>1, <1>4
    <3> QED BY <3>1, <1>2, <1>3
  <2>2. CASE i # n + 1
    <3>1. i \in 1..n
      BY <2>2, <1>1, <1>4
    <3>2. fs[i].left \subseteq Below(fs[i].at)
      BY <3>1 DEF Shape, n
    <3> QED BY <3>1, <3>2, <1>1, <1>4
  <2> QED BY <2>1, <2>2
<1>6. ASSUME NEW i \in 1..n
      PROVE  Under(p, fs[i].at) /\ \A r \in fs[i].left : ~Under(p, r)
  <2>1. \A r \in fs[i].left : ~Under(p, r)
    BY <1>2 DEF Pending, n
  <2>2. Under(fs[n].at, fs[i].at)
    <3>1. CASE i = n
      BY <3>1, <1>1, UnderTransitive
    <3>2. CASE i # n
      <4>1. i < n
        BY <3>2, <1>1
      <4> QED BY <4>1, <1>1, <1>0
    <3> QED BY <3>1, <3>2
  <2> QED BY <2>1, <2>2, <1>1, <1>2, UnderTransitive
<1>7. ASSUME NEW i \in 1..Len(gs), NEW j \in 1..Len(gs), i < j
      PROVE  Under(gs[j].at, gs[i].at) /\ \A r \in gs[i].left : ~Under(gs[j].at, r)
  <2>1. CASE j = n + 1
    BY <2>1, <1>1, <1>3, <1>4, <1>6, <1>7
  <2>2. CASE j # n + 1
    <3>1. i \in 1..n /\ j \in 1..n
      BY <2>2, <1>1, <1>4, <1>7
    <3> QED BY <3>1, <1>4, <1>7, <1>0
  <2> QED BY <2>1, <2>2
<1>8. Shape(gs, root)
  <2>1. gs \in Seq(Frame) /\ Len(gs) >= 1 /\ gs[1].at = root
    BY <1>1, <1>4
  <2>2. \A i \in 1..Len(gs) : Len(gs[i].at) = Len(root) + i - 1 /\ gs[i].left \subseteq Below(gs[i].at)
    BY <1>5
  <2>3. \A i, j \in 1..Len(gs) : i < j =>
          Under(gs[j].at, gs[i].at) /\ \A r \in gs[i].left : ~Under(gs[j].at, r)
    BY <1>7
  <2> QED BY <2>1, <2>2, <2>3 DEF Shape
<1>9. ASSUME NEW q \in Pending(gs), q \notin Pending(fs)
      PROVE  q \in DOMAIN Remote /\ Under(q, p) /\ q # p
  <2>1. q \in DOMAIN Remote /\ q \in Seq(Names) /\ \A i \in 1..n : \A r \in fs[i].left : ~Under(q, r)
    BY <1>9, PathFacts DEF Pending, n
  <2>2. PICK r \in Below(p) : Under(q, r)
    BY <2>1, <1>1, <1>3, <1>4 DEF Pending
  <2>3. r \in Seq(Names) /\ Len(r) = Len(root) + n + 1 /\ Under(r, p)
    BY <1>2, BelowIs, PathFacts
  <2> QED BY <2>1, <2>2, <2>3, <1>1, <1>2, UnderTransitive DEF Under
<1>10. ASSUME NEW q \in Pending(fs) PROVE q \in Pending(gs)
  <2>1. PICK i \in 1..n : \E r \in fs[i].left : Under(q, r)
    BY DEF Pending, n
  <2> QED BY <2>1, <1>1, <1>4 DEF Pending
<1>11. ASSUME NEW q \in DOMAIN Remote, Under(q, p), q # p PROVE q \in Pending(gs)
  <2>1. q \in Seq(Names) /\ Len(q) \in Nat
    BY PathFacts
  <2>2. Len(q) > Len(p)
    BY <2>1, <1>1, <1>2, <1>11, PathFacts DEF Under
  <2>3. PICK r \in Below(p) : Under(q, r)
    BY <2>2, <1>2, <1>11, Descends
  <2>4. n + 1 \in 1..Len(gs) /\ r \in gs[n + 1].left
    BY <2>3, <1>1, <1>3, <1>4
  <2> QED BY <2>3, <2>4 DEF Pending
<1>12. Pending(gs) = Pending(fs) \cup {q \in DOMAIN Remote : Under(q, p) /\ q # p}
  BY <1>9, <1>10, <1>11 DEF Pending
<1> QED BY <1>1, <1>3, <1>4, <1>8, <1>12 DEF n

Popped(fs) == SubSeq(fs, 1, Len(fs) - 1)

\* A frame with nothing left is done.
LEMMA Returns ==
  ASSUME NEW root \in Seq(Names), NEW fs, Shape(fs, root), fs[Len(fs)].left = {}, Len(fs) # 1,
         NEW gs, gs = Popped(fs)
  PROVE  /\ Shape(gs, root) /\ Len(gs) = Len(fs) - 1
         /\ \A i \in 1..Len(gs) : gs[i] = fs[i]
         /\ Pending(gs) = Pending(fs)
<1> DEFINE n == Len(fs)
<1>1. /\ n \in Nat /\ n \in 1..n /\ n # 1 /\ fs \in [1..n -> Frame]
  BY ShapeFacts
<1>2. \A i \in 1..n - 1 : fs[i] \in Frame
  BY <1>1
<1>3. gs \in Seq(Frame) /\ Len(gs) = n - 1 /\ \A i \in 1..n - 1 : gs[i] = fs[i]
  <2>1. gs = SubSeq(fs, 1, n - 1)
    BY DEF Popped
  <2> HIDE DEF n
  <2>2. gs \in Seq(Frame) /\ \A i \in 1..n - 1 : gs[i] = fs[i]
    BY <2>1, <1>1, <1>2, SubSeqProperties
  <2>3. Len(gs) = n - 1
    BY <2>1, <1>1, <1>2, SubSeqProperties
  <2> QED BY <2>2, <2>3
<1> HIDE DEF n
<1>4. Shape(gs, root)
  <2>1. gs \in Seq(Frame) /\ Len(gs) >= 1 /\ gs[1].at = root
    BY <1>1, <1>3, ShapeFacts
  <2>2. ASSUME NEW i \in 1..Len(gs)
        PROVE  Len(gs[i].at) = Len(root) + i - 1 /\ gs[i].left \subseteq Below(gs[i].at)
    <3>1. i \in 1..n /\ gs[i] = fs[i]
      BY <1>1, <1>3
    <3> QED BY <3>1 DEF Shape, n
  <2>3. ASSUME NEW i \in 1..Len(gs), NEW j \in 1..Len(gs), i < j
        PROVE  Under(gs[j].at, gs[i].at) /\ \A r \in gs[i].left : ~Under(gs[j].at, r)
    <3>1. i \in 1..n /\ gs[i] = fs[i] /\ j \in 1..n /\ gs[j] = fs[j]
      BY <1>1, <1>3
    <3> QED BY <2>3, <3>1 DEF Shape, n
  <2> QED BY <2>1, <2>2, <2>3 DEF Shape
<1>5. Pending(gs) = Pending(fs)
  <2>1. \A i \in 1..n : i # n => i \in 1..Len(gs) /\ gs[i] = fs[i]
    BY <1>1, <1>3
  <2>2. \A i \in 1..Len(gs) : i \in 1..n /\ gs[i] = fs[i]
    BY <1>1, <1>3
  <2>3. fs[n].left = {} /\ n = Len(fs)
    BY DEF n
  <2> QED BY <2>1, <2>2, <2>3 DEF Pending
<1> QED BY <1>3, <1>4, <1>5 DEF n

\* At the start everything below the directory is left to do, at the end nothing.
LEMMA Starts ==
  ASSUME NEW root \in Seq(Names), NEW fs, fs = <<Opened(root)>>
  PROVE  Shape(fs, root) /\ Len(fs) = 1 /\ Pending(fs) = Within(root)
<1>1. Len(root) \in Nat /\ Len(fs) = 1 /\ fs[1] = Opened(root)
  BY LenProperties
<1>2. fs[1].at = root /\ fs[1].left = Below(root) /\ Opened(root) \in Frame
  BY <1>1 DEF Opened, Frame, Below, Within
<1>3. fs \in Seq(Frame)
  BY <1>1, <1>2
<1>4. Shape(fs, root)
  BY <1>1, <1>2, <1>3 DEF Shape
<1>5. ASSUME NEW q \in Within(root) PROVE q \in Pending(fs)
  <2>1. q \in DOMAIN Remote /\ Under(q, root) /\ Len(q) > Len(root)
    BY WithinIs
  <2>2. PICK r \in Below(root) : Under(q, r)
    BY <2>1, Descends
  <2> QED BY <2>1, <2>2, <1>1, <1>2 DEF Pending
<1>6. ASSUME NEW q \in Pending(fs) PROVE q \in Within(root)
  <2>1. PICK r \in Below(root) : q \in DOMAIN Remote /\ Under(q, r)
    BY <1>1, <1>2 DEF Pending
  <2>2. /\ r \in Seq(Names) /\ Len(r) = Len(root) + 1 /\ Under(r, root)
        /\ q \in Seq(Names) /\ Len(q) \in Nat
    BY <2>1, BelowIs, PathFacts
  <2>3. Under(q, root) /\ Len(q) > Len(root)
    BY <2>1, <2>2, <1>1, UnderTransitive DEF Under
  <2> QED BY <2>1, <2>3, WithinIs
<1> QED BY <1>1, <1>4, <1>5, <1>6

LEMMA Ends ==
  ASSUME NEW root \in Seq(Names), NEW fs, Shape(fs, root), fs[Len(fs)].left = {}, Len(fs) = 1
  PROVE  Pending(fs) = {}
BY DEF Pending

\* Over its entry p, which is no directory, the walk goes on.
LEMMA LeafDone ==
  ASSUME NEW root \in Seq(Names), NEW fs, Shape(fs, root), NEW p \in fs[Len(fs)].left, Remote[p] # "dir",
         NEW gs, gs = Struck(fs, p)
  PROVE  /\ Shape(gs, root) /\ Len(gs) = Len(fs)
         /\ \A i \in 1..Len(fs) : gs[i].at = fs[i].at
         /\ p \in Pending(fs) /\ Pending(gs) = Pending(fs) \ {p}
<1>1. p \in DOMAIN Remote /\ p \in Seq(Names)
  BY ShapeFacts
<1>2. ASSUME NEW q \in DOMAIN Remote, Under(q, p) PROVE q = p
  <2>1. q \in Seq(Names) /\ Len(q) \in Nat /\ Len(p) \in Nat
    BY <1>1, PathFacts
  <2>2. CASE Len(q) > Len(p)
    <3>1. PICK r \in Below(p) : Under(q, r)
      BY <1>1, <1>2, <2>2, Descends
    <3>2. r \in DOMAIN Remote /\ r \in Seq(Names) /\ Len(r) = Len(p) + 1 /\ Under(r, p)
      BY <3>1, <1>1, BelowIs, PathFacts
    <3>3. Len(p) \in 1..Len(r) - 1
      BY <3>2, <1>1, PathFacts
    <3>4. SubSeq(r, 1, Len(p)) = p
      BY <3>1 DEF Below, Within
    <3>5. Remote[SubSeq(r, 1, Len(p))] = "dir"
      BY <3>2, <3>3, TransfersConstants
    <3> QED BY <3>4, <3>5
  <2>3. CASE ~(Len(q) > Len(p))
    BY <2>1, <2>3, <1>1, <1>2, PathFacts DEF Under
  <2> QED BY <2>2, <2>3
<1>3. {q \in DOMAIN Remote : Under(q, p)} = {p}
  BY <1>1, <1>2, UnderTransitive
<1>4. /\ Shape(gs, root) /\ Len(gs) = Len(fs)
      /\ \A i \in 1..Len(fs) : gs[i].at = fs[i].at
      /\ Pending(gs) = Pending(fs) \ {q \in DOMAIN Remote : Under(q, p)}
      /\ p \in Pending(fs)
  BY Leaves
<1> QED BY <1>3, <1>4

-----------------------------------------------------------------------------
(* What pull_tree counts. *)

Got(k) == [nr |-> k.nr, whole |-> TRUE]

\* The entries no longer left to do that were not fetched by the command k.
Lost(fs, k, loc) ==
  {p \in Within(k.root) \ Pending(fs) :
     Remote[p] = "unsafe" \/ (p \in File /\ loc[p] # Got(k))}

\* No file is of a later command.
Written(k, loc) == \A p \in File : loc[p] = None \/ loc[p].nr <= k.nr

\* While the tree is walked: what was skipped is what is done and not fetched,
\* and what is left to do is not fetched.
Walks(k, loc, fs) ==
  /\ k.pc = "fetch" => k.op = "pull"
  /\ k.pc \in {"tree", "download", "rename"} =>
       /\ k.op = "pulltree"
       /\ Shape(fs, k.root)
       /\ k.skipped = Cardinality(Lost(fs, k, loc))
       /\ \A p \in File \cap Pending(fs) : loc[p] # Got(k)
  /\ k.pc \in {"download", "rename"} => k.file \in fs[Len(fs)].left /\ Remote[k.file] = "file"

Reported(k, loc) ==
  k.op = "pulltree" /\ k.pc = "done" /\ k.end = "ok" =>
    k.skipped = Cardinality({p \in Within(k.root) :
                  Remote[p] = "unsafe" \/ (p \in File /\ loc[p] # Got(k))})

LEMMA ReportIs ==
  /\ PullReportTrue <=> Reported(cmd, local)
  /\ PullReportTrue' <=> Reported(cmd', local')
<1>1. {p \in DOMAIN Remote : /\ p \in Within(cmd.root)
                             /\ Remote[p] = "unsafe" \/ (p \in File /\ local[p] # Fetched)}
      = {p \in Within(cmd.root) : Remote[p] = "unsafe" \/ (p \in File /\ local[p] # Got(cmd))}
  BY DEF Within, Fetched, Got
<1>2. {p \in DOMAIN Remote : /\ p \in Within(cmd'.root)
                             /\ Remote[p] = "unsafe" \/ (p \in File /\ local'[p] # Fetched')}
      = {p \in Within(cmd'.root) : Remote[p] = "unsafe" \/ (p \in File /\ local'[p] # Got(cmd'))}
  BY DEF Within, Fetched, Got
<1> QED BY <1>1, <1>2 DEF PullReportTrue, Reported

CountInv == Written(cmd, local) /\ Walks(cmd, local, frames) /\ Reported(cmd, local)

\* The entry p leaves the frame on top and is lost, or it was fetched or is a
\* directory.
LEMMA LostOne ==
  ASSUME NEW fs, NEW gs, NEW k, NEW loc, NEW p \in Within(k.root),
         p \in Pending(fs), Pending(gs) = Pending(fs) \ {p},
         Remote[p] = "unsafe" \/ (p \in File /\ loc[p] # Got(k))
  PROVE  /\ Cardinality(Lost(gs, k, loc)) = Cardinality(Lost(fs, k, loc)) + 1
         /\ Cardinality(Lost(fs, k, loc)) \in Nat
<1>1. IsFiniteSet(Lost(fs, k, loc))
  BY FS_Subset, TransfersConstants DEF Lost, Within
<1>2. Lost(gs, k, loc) = Lost(fs, k, loc) \cup {p} /\ p \notin Lost(fs, k, loc)
  BY DEF Lost
<1> QED BY <1>1, <1>2, FS_AddElement, FS_CardinalityType

\* What the frames lead to is in the directory that is pulled.
LEMMA PendingWithin ==
  ASSUME NEW root \in Seq(Names), NEW fs, Shape(fs, root)
  PROVE  Pending(fs) \subseteq Within(root)
<1> SUFFICES ASSUME NEW q \in Pending(fs) PROVE q \in Within(root)
  OBVIOUS
<1>1. PICK i \in 1..Len(fs) : \E r \in fs[i].left : Under(q, r)
  BY DEF Pending
<1>2. PICK r \in fs[i].left : Under(q, r)
  BY <1>1
<1>3. /\ r \in Seq(Names) /\ Len(r) = Len(root) + i /\ Under(r, fs[i].at)
      /\ Len(root) \in Nat /\ fs[1].at = root /\ fs[i].at \in Seq(Names) /\ Len(fs) \in Nat
      /\ 1 \in 1..Len(fs) /\ Len(fs[i].at) = Len(root) + i - 1
  BY <1>1, ShapeFacts
<1>4. q \in DOMAIN Remote /\ q \in Seq(Names)
  BY PathFacts DEF Pending
<1>5. Under(fs[i].at, root)
  <2>1. CASE i = 1
    BY <2>1, <1>3, UnderTransitive
  <2>2. CASE i # 1
    <3>1. 1 < i
      BY <2>2, <1>1, <1>3
    <3> QED BY <3>1, <1>3, ShapeFacts
  <2> QED BY <2>1, <2>2
<1>6. Under(r, root)
  BY <1>3, <1>5, UnderTransitive
<1>7. Under(q, root)
  BY <1>2, <1>3, <1>4, <1>6, UnderTransitive
<1>8. Len(q) > Len(root)
  BY <1>2, <1>3, <1>4, PathFacts DEF Under
<1> QED BY <1>4, <1>7, <1>8, WithinIs

\* A step that pulls nothing, or that ends with an error.
LEMMA Apart ==
  ASSUME Inv, CountInv, cmd' \in Locals, local' = local, cmd.nr <= cmd'.nr,
         cmd'.pc \notin Pulling, cmd'.op # "pulltree" \/ cmd'.pc # "done" \/ cmd'.end # "ok"
  PROVE  CountInv'
<1>1. Written(cmd', local')
  <2> SUFFICES ASSUME NEW p \in File, local[p] # None PROVE local[p].nr <= cmd'.nr
    BY DEF Written
  <2>1. local[p] \in [nr : Nr, whole : BOOLEAN]
    BY DEF Inv, TypeOK, FileState
  <2>2. local[p].nr \in Nat /\ cmd.nr \in Nat /\ cmd'.nr \in Nat
    BY <2>1 DEF Inv, TypeOK, Locals, Nr
  <2>3. local[p].nr <= cmd.nr
    BY DEF CountInv, Written
  <2> QED BY <2>2, <2>3
<1> QED BY <1>1 DEF CountInv, Walks, Reported, Pulling

LEMMA CountInit == Init => CountInv
<1> SUFFICES ASSUME Init PROVE CountInv
  OBVIOUS
<1>1. cmd.nr = 0 /\ cmd.pc = "done" /\ cmd.op = "none"
  BY DEF Init, NoCommand
<1>2. \A p \in File : local[p] = None \/ local[p].nr = 0
  BY DEF Init, Before
<1> QED BY <1>1, <1>2 DEF CountInv, Written, Walks, Reported

\* A pull of one file, and the start of a walk.
LEMMA CountPull ==
  ASSUME Inv, CountInv, (\E p \in Single : Pull(p)) \/ PullFetch
  PROVE  CountInv'
<1>1. ASSUME NEW p \in Single, Pull(p) PROVE CountInv'
  <2>1. /\ Start("pull") /\ cmd' = [Fresh("pull") EXCEPT !.pc = "fetch", !.file = p]
        /\ local' = [local EXCEPT ![p] = [nr |-> cmd.nr + 1, whole |-> FALSE]]
        /\ p \in File
    BY Zenon, <1>1, TransfersConstants DEF Pull
  <2>2. Fresh("pull") \in Locals /\ Fresh("pull").op = "pull" /\ Fresh("pull").nr = cmd.nr + 1
    BY <2>1, Starting DEF Inv, TypeOK
  <2>3. cmd'.pc = "fetch" /\ cmd'.op = "pull" /\ cmd'.nr = cmd.nr + 1
    BY <2>1, <2>2 DEF Locals
  <2>4. Written(cmd', local')
    <3> SUFFICES ASSUME NEW q \in File, local'[q] # None PROVE local'[q].nr <= cmd'.nr
      BY DEF Written
    <3>1. CASE q = p
      <4>1. local'[q] = [nr |-> cmd.nr + 1, whole |-> FALSE] /\ cmd.nr \in Nat
        BY <2>1, <3>1 DEF Inv, TypeOK, Locals, Nr
      <4> QED BY <4>1, <2>3
    <3>2. CASE q # p
      <4>1. local'[q] = local[q] /\ local[q] \in FileState
        BY <2>1, <3>2 DEF Inv, TypeOK
      <4>2. local[q].nr \in Nat /\ cmd.nr \in Nat
        BY <4>1 DEF FileState, Inv, TypeOK, Locals, Nr
      <4>3. local[q].nr <= cmd.nr
        BY <4>1 DEF CountInv, Written
      <4> QED BY <4>1, <4>2, <4>3, <2>3
    <3> QED BY <3>1, <3>2
  <2> QED BY <2>3, <2>4 DEF CountInv, Walks, Reported
<1>2. CASE PullFetch
  <2>1. cmd.pc = "fetch" /\ cmd.op = "pull" /\ cmd \in Locals /\ cmd.file \in File
    BY <1>2 DEF PullFetch, CountInv, Walks, Inv, TypeOK, Walking
  <2>2. cmd'.pc = "done" /\ cmd'.op = "pull" /\ cmd'.nr = cmd.nr
    BY <1>2, <2>1, Ending DEF PullFetch
  <2>3. \A q \in File : local'[q] = local[q] \/ local'[q] = Fetched
    BY <1>2, <2>1 DEF PullFetch, Inv, TypeOK
  <2>4. Fetched.nr = cmd.nr /\ cmd.nr \in Nat
    BY <2>1 DEF Fetched, Locals, Nr
  <2>5. Written(cmd', local')
    BY <2>2, <2>3, <2>4 DEF Written, CountInv
  <2> QED BY <2>2, <2>5 DEF CountInv, Walks, Reported
<1> QED BY <1>1, <1>2

LEMMA CountStart ==
  ASSUME Inv, CountInv, NEW root \in Root, PullTree(root)
  PROVE  CountInv'
<1>1. PICK c : /\ Start("pulltree") /\ c = [Fresh("pulltree") EXCEPT !.root = root]
               /\ \/ cmd' = [c EXCEPT !.pc = "tree"] /\ frames' = <<Opened(root)>>
                  \/ cmd' = [c EXCEPT !.end = "error"]
               /\ local' = local
  BY DEF PullTree, Opened
<1>2. root \in Seq(Names)
  <2>1. CASE root = <<>>
    BY <2>1
  <2>2. CASE root \in DOMAIN Remote
    BY <2>2, PathFacts
  <2> QED BY <2>1, <2>2 DEF Root
<1>3. /\ Fresh("pulltree") \in Locals /\ Fresh("pulltree").op = "pulltree"
      /\ Fresh("pulltree").nr = cmd.nr + 1 /\ Fresh("pulltree").pc = "done"
      /\ Fresh("pulltree").skipped = 0
  BY <1>1, Starting DEF Inv, TypeOK, Fresh, NoCommand
<1>4. /\ c \in Locals /\ c.op = "pulltree" /\ c.nr = cmd.nr + 1 /\ c.pc = "done"
      /\ c.skipped = 0 /\ c.root = root
  BY <1>1, <1>2, <1>3 DEF Locals
<1>5. cmd.nr \in Nat
  BY DEF Inv, TypeOK, Locals, Nr
<1>6. CASE cmd' = [c EXCEPT !.end = "error"]
  <2>1. cmd' \in Locals /\ cmd'.pc = "done" /\ cmd'.end = "error" /\ cmd'.nr = cmd.nr + 1
    BY <1>4, <1>6 DEF Locals
  <2> QED BY <1>1, <1>5, <2>1, Apart DEF Pulling
<1>7. CASE cmd' = [c EXCEPT !.pc = "tree"] /\ frames' = <<Opened(root)>>
  <2>1. /\ cmd' \in Locals /\ cmd'.pc = "tree" /\ cmd'.op = "pulltree" /\ cmd'.nr = cmd.nr + 1
        /\ cmd'.skipped = 0 /\ cmd'.root = root
    BY <1>4, <1>7 DEF Locals
  <2>2. Shape(frames', root) /\ Pending(frames') = Within(root)
    BY <1>2, <1>7, Starts
  <2>3. \A p \in File : local'[p] = None \/ (local'[p].nr \in Nat /\ local'[p].nr <= cmd.nr)
    BY <1>1 DEF CountInv, Written, Inv, TypeOK, FileState, Nr
  <2>4. Written(cmd', local')
    BY <1>5, <2>1, <2>3 DEF Written
  <2>5. \A p \in File : local'[p] # Got(cmd')
    <3> SUFFICES ASSUME NEW p \in File, local'[p] = Got(cmd') PROVE FALSE
      OBVIOUS
    <3>1. local'[p] # None
      <4>1. Got(cmd') \in [nr : Nr, whole : BOOLEAN]
        BY <2>1 DEF Got, Locals
      <4> QED BY <4>1, TransfersConstants
    <3>2. local'[p].nr = cmd.nr + 1
      BY <2>1 DEF Got
    <3> QED BY <1>5, <2>3, <3>1, <3>2
  <2>6. Lost(frames', cmd', local') = {}
    BY <2>1, <2>2 DEF Lost
  <2>7. Cardinality(Lost(frames', cmd', local')) = 0
    BY <2>6, FS_EmptySet
  <2> QED BY <2>1, <2>2, <2>4, <2>5, <2>7 DEF CountInv, Walks, Reported
<1> QED BY <1>1, <1>6, <1>7

\* The walk over an entry.
LEMMA CountEntry ==
  ASSUME Inv, CountInv, NEW p \in DOMAIN Remote, TreeUnsafe(p) \/ TreeDir(p) \/ TreeFile(p)
  PROVE  CountInv'
<1>1. /\ cmd.pc = "tree" /\ cmd.op = "pulltree" /\ p \in frames[Len(frames)].left /\ local' = local
      /\ cmd \in Locals /\ cmd.root \in Seq(Names) /\ cmd.nr \in Nat /\ Shape(frames, cmd.root)
      /\ cmd.skipped = Cardinality(Lost(frames, cmd, local))
      /\ \A q \in File \cap Pending(frames) : local[q] # Got(cmd)
  BY DEF TreeUnsafe, TreeDir, TreeFile, Entry, Top, Inv, TypeOK, Locals, CountInv, Walks, Nr
<1>2. ASSUME End("error") PROVE CountInv'
  <2>1. cmd' \in Locals /\ cmd'.pc = "done" /\ cmd'.end = "error" /\ cmd'.nr = cmd.nr
    BY <1>1, <1>2, Ending
  <2> QED BY <1>1, <2>1, Apart DEF Pulling
<1>3. PICK gs : gs = Struck(frames, p)
  OBVIOUS
<1>4. Done(p) = gs
  BY <1>3 DEF Done, Struck
<1>5. /\ p \in Pending(frames) /\ p \in Within(cmd.root)
  BY <1>1, <1>3, Leaves, PendingWithin
<1>6. ASSUME Skip(p), Remote[p] = "unsafe" \/ p \in File PROVE CountInv'
  <2>1. Remote[p] # "dir"
    BY <1>6 DEF File
  <2>2. Shape(gs, cmd.root) /\ Pending(gs) = Pending(frames) \ {p}
    BY <1>1, <1>3, <2>1, LeafDone
  <2>3. Cardinality(Lost(gs, cmd, local)) = Cardinality(Lost(frames, cmd, local)) + 1
    <3>1. Remote[p] = "unsafe" \/ (p \in File /\ local[p] # Got(cmd))
      BY <1>1, <1>5, <1>6
    <3>2. p \in Within(cmd.root) /\ p \in Pending(frames) /\ Pending(gs) = Pending(frames) \ {p}
      BY <1>5, <2>2
    <3>3. PICK k, loc : k = cmd /\ loc = local
      OBVIOUS
    <3>4. /\ p \in Within(k.root)
          /\ Remote[p] = "unsafe" \/ (p \in File /\ loc[p] # Got(k))
      BY <3>1, <3>2, <3>3
    <3>5. PICK fs : fs = frames
      OBVIOUS
    <3>6. p \in Pending(fs) /\ Pending(gs) = Pending(fs) \ {p}
      BY <3>2, <3>5
    <3>7. Cardinality(Lost(gs, k, loc)) = Cardinality(Lost(fs, k, loc)) + 1
      BY <3>4, <3>6, LostOne
    <3> QED BY <3>3, <3>5, <3>7
  <2>4. /\ cmd'.pc = "tree" /\ cmd'.op = "pulltree" /\ cmd'.root = cmd.root /\ cmd'.nr = cmd.nr
        /\ cmd'.skipped = cmd.skipped + 1 /\ frames' = gs
    BY <1>1, <1>4, <1>6 DEF Skip, Locals
  <2>5. Lost(frames', cmd', local') = Lost(gs, cmd, local) /\ Got(cmd') = Got(cmd)
    BY <1>1, <2>4 DEF Lost, Got
  <2>6. Written(cmd', local')
    BY <1>1, <2>4 DEF CountInv, Written
  <2>7. \A q \in File \cap Pending(gs) : local'[q] # Got(cmd')
    BY <1>1, <2>2, <2>5
  <2> QED BY <1>1, <2>2, <2>3, <2>4, <2>5, <2>6, <2>7 DEF CountInv, Walks, Reported
<1>7. CASE TreeUnsafe(p)
  BY <1>6, <1>7 DEF TreeUnsafe, Entry
<1>8. CASE TreeFile(p)
  <2>1. p \in File /\ Remote[p] = "file"
    BY <1>8 DEF TreeFile, Entry, File
  <2>2. CASE cmd' = [cmd EXCEPT !.pc = "download", !.file = p] /\ frames' = frames
    <3>1. /\ cmd'.pc = "download" /\ cmd'.op = "pulltree" /\ cmd'.root = cmd.root /\ cmd'.nr = cmd.nr
          /\ cmd'.skipped = cmd.skipped /\ cmd'.file = p
      BY <1>1, <2>2 DEF Locals
    <3>2. Lost(frames', cmd', local') = Lost(frames, cmd, local) /\ Got(cmd') = Got(cmd)
      BY <1>1, <2>2, <3>1 DEF Lost, Got
    <3>3. Written(cmd', local')
      BY <1>1, <3>1 DEF CountInv, Written
    <3> QED BY <1>1, <2>1, <2>2, <3>1, <3>2, <3>3 DEF CountInv, Walks, Reported
  <2> QED BY <1>6, <1>8, <2>1, <2>2 DEF TreeFile
<1>9. CASE TreeDir(p)
  <2>1. CASE /\ frames' = Append(Done(p), [at |-> p, left |-> Below(p)])
             /\ cmd' = cmd
    <3>1. /\ Shape(gs, cmd.root) /\ Len(gs) = Len(frames)
          /\ \A i \in 1..Len(frames) : gs[i].at = frames[i].at
          /\ Pending(gs) = Pending(frames) \ {q \in DOMAIN Remote : Under(q, p)}
      BY <1>1, <1>3, Leaves
    <3>2. Len(frames) \in 1..Len(frames) /\ frames[Len(frames)].left \subseteq Below(frames[Len(frames)].at)
      BY <1>1, ShapeFacts DEF Shape
    <3>3. p \in Seq(Names) /\ p \in Below(gs[Len(gs)].at) /\ p \notin Pending(gs)
      BY <1>1, <3>1, <3>2, PathFacts, UnderTransitive
    <3>4. frames' = Entered(gs, p)
      BY <1>4, <2>1 DEF Entered, Opened
    <3>5. Shape(frames', cmd.root)
          /\ Pending(frames') = Pending(gs) \cup {q \in DOMAIN Remote : Under(q, p) /\ q # p}
      BY <1>1, <3>1, <3>3, <3>4, Enters
    <3>6. \A q \in DOMAIN Remote : Under(q, p) => q \in Pending(frames)
      <4> SUFFICES ASSUME NEW q \in DOMAIN Remote, Under(q, p) PROVE q \in Pending(frames)
        OBVIOUS
      <4>1. q \in Seq(Names) /\ p \in Seq(Names)
        BY PathFacts
      <4>2. PICK i \in 1..Len(frames) : \E r \in frames[i].left : Under(p, r)
        BY <1>5 DEF Pending
      <4>3. PICK r \in frames[i].left : Under(p, r)
        BY <4>2
      <4>4. r \in Seq(Names)
        BY <1>1, <4>2, <4>3, ShapeFacts
      <4>5. Under(q, r)
        BY <4>1, <4>3, <4>4, UnderTransitive
      <4> QED BY <4>3, <4>5 DEF Pending
    <3>7. Pending(frames') = Pending(frames) \ {p}
      BY <3>1, <3>5, <3>6, <1>5, <3>3, UnderTransitive DEF Pending
    <3>8. Remote[p] = "dir" /\ p \notin File
      BY <1>9 DEF TreeDir, Entry, File
    <3>9. Lost(frames', cmd, local) = Lost(frames, cmd, local)
      BY <3>7, <3>8 DEF Lost
    <3>10. \A q \in File \cap Pending(frames') : local[q] # Got(cmd)
      BY <1>1, <3>7
    <3> QED BY <1>1, <2>1, <3>5, <3>9, <3>10 DEF CountInv, Walks, Reported
  <2> QED BY <1>2, <1>9, <2>1 DEF TreeDir
<1> QED BY <1>7, <1>8, <1>9

\* The other steps of a walk.
LEMMA CountWalk ==
  ASSUME Inv, CountInv, TreeUp \/ TreeDownload \/ TreeRename
  PROVE  CountInv'
<1>1. /\ cmd.pc \in {"tree", "download", "rename"} /\ cmd.op = "pulltree"
      /\ cmd \in Locals /\ cmd.root \in Seq(Names) /\ cmd.nr \in Nat /\ Shape(frames, cmd.root)
      /\ cmd.skipped = Cardinality(Lost(frames, cmd, local))
      /\ \A q \in File \cap Pending(frames) : local[q] # Got(cmd)
      /\ cmd.pc # "tree" => cmd.file \in frames[Len(frames)].left /\ Remote[cmd.file] = "file"
  BY DEF TreeUp, TreeDownload, TreeRename, Inv, TypeOK, Locals, CountInv, Walks, Nr
<1>2. ASSUME End("error"), local' = local PROVE CountInv'
  <2>1. cmd' \in Locals /\ cmd'.pc = "done" /\ cmd'.end = "error" /\ cmd'.nr = cmd.nr
    BY <1>1, <1>2, Ending
  <2> QED BY <1>1, <1>2, <2>1, Apart DEF Pulling
<1>3. CASE TreeUp
  <2>1. Len(frames) \in Nat /\ frames[Len(frames)].left = {} /\ local' = local
    BY <1>1, <1>3, ShapeFacts DEF TreeUp, Top
  <2>2. CASE Len(frames) = 1
    <3>1. Pending(frames) = {}
      BY <1>1, <2>1, <2>2, Ends
    <3>2. End("ok")
      BY <1>3, <2>2 DEF TreeUp
    <3>3. /\ cmd'.pc = "done" /\ cmd'.op = "pulltree" /\ cmd'.nr = cmd.nr
          /\ cmd'.root = cmd.root /\ cmd'.skipped = cmd.skipped
      BY <1>1, <3>2 DEF End, Locals
    <3>4. Lost(frames, cmd, local) =
            {p \in Within(cmd'.root) : Remote[p] = "unsafe" \/ (p \in File /\ local'[p] # Got(cmd'))}
      BY <2>1, <3>1, <3>3 DEF Lost, Got
    <3>5. Reported(cmd', local')
      BY <1>1, <3>3, <3>4 DEF Reported
    <3>6. Written(cmd', local')
      BY <2>1, <3>3 DEF CountInv, Written
    <3> QED BY <3>3, <3>5, <3>6 DEF CountInv, Walks
  <2>3. CASE Len(frames) # 1
    <3>1. frames' = Popped(frames) /\ cmd' = cmd
      BY <1>3, <2>3 DEF TreeUp, Popped
    <3>2. Shape(frames', cmd.root) /\ Pending(frames') = Pending(frames)
      BY <1>1, <2>1, <2>3, <3>1, Returns
    <3>3. Lost(frames', cmd, local) = Lost(frames, cmd, local)
      BY <3>2 DEF Lost
    <3>4. cmd.pc = "tree"
      BY <1>3 DEF TreeUp
    <3> QED BY <1>1, <2>1, <3>1, <3>2, <3>3, <3>4 DEF CountInv, Walks, Reported
  <2> QED BY <2>2, <2>3
<1>4. CASE TreeDownload
  <2>1. CASE Goto("rename") /\ frames' = frames
    <3>1. /\ cmd'.pc = "rename" /\ cmd'.op = "pulltree" /\ cmd'.nr = cmd.nr
          /\ cmd'.root = cmd.root /\ cmd'.skipped = cmd.skipped /\ cmd'.file = cmd.file
      BY <1>1, <2>1 DEF Goto, Locals
    <3>2. local' = local /\ cmd.pc = "download"
      BY <1>4 DEF TreeDownload
    <3>3. Lost(frames', cmd', local') = Lost(frames, cmd, local) /\ Got(cmd') = Got(cmd)
      BY <2>1, <3>1, <3>2 DEF Lost, Got
    <3>4. Written(cmd', local')
      BY <3>1, <3>2 DEF CountInv, Written
    <3> QED BY <1>1, <2>1, <3>1, <3>2, <3>3, <3>4 DEF CountInv, Walks, Reported
  <2> QED BY <1>2, <1>4, <2>1 DEF TreeDownload
<1>5. CASE TreeRename
  <2>1. CASE /\ local' = [local EXCEPT ![cmd.file] = Fetched]
             /\ frames' = Done(cmd.file) /\ Goto("tree")
    <3>1. /\ cmd.pc = "rename" /\ cmd.file \in frames[Len(frames)].left /\ Remote[cmd.file] = "file"
          /\ cmd.file \in File
      BY <1>1, <1>5 DEF TreeRename, Inv, Walking
    <3>2. /\ cmd'.pc = "tree" /\ cmd'.op = "pulltree" /\ cmd'.nr = cmd.nr
          /\ cmd'.root = cmd.root /\ cmd'.skipped = cmd.skipped
      BY <1>1, <2>1 DEF Goto, Locals
    <3>3. frames' = Struck(frames, cmd.file)
      BY <2>1 DEF Done, Struck
    <3>4. /\ Shape(frames', cmd.root) /\ cmd.file \in Pending(frames)
          /\ Pending(frames') = Pending(frames) \ {cmd.file}
      BY <1>1, <3>1, <3>3, LeafDone
    <3>5. /\ local'[cmd.file] = Got(cmd) /\ Got(cmd') = Got(cmd) /\ Got(cmd).nr = cmd.nr
          /\ \A q \in File : q # cmd.file => local'[q] = local[q]
      BY <2>1, <3>1, <3>2 DEF Got, Fetched, Inv, TypeOK
    <3>6. Lost(frames', cmd', local') = Lost(frames, cmd, local)
      BY <3>1, <3>2, <3>4, <3>5 DEF Lost
    <3>7. Written(cmd', local')
      BY <1>1, <3>2, <3>5 DEF CountInv, Written
    <3>8. \A q \in File \cap Pending(frames') : local'[q] # Got(cmd')
      BY <1>1, <3>4, <3>5
    <3> QED BY <1>1, <3>2, <3>4, <3>6, <3>7, <3>8 DEF CountInv, Walks, Reported
  <2> QED BY <1>2, <1>5, <2>1 DEF TreeRename
<1> QED BY <1>3, <1>4, <1>5

LEMMA CountStep ==
  ASSUME Ordinary
  PROVE  Inv /\ CountInv /\ [Next]_vars => CountInv'
<1> SUFFICES ASSUME Inv, CountInv, [Next]_vars PROVE CountInv'
  OBVIOUS
<1>0. cmd \in Locals /\ cmd.nr \in Nat
  BY DEF Inv, TypeOK, Locals, Nr
\* unpack, and a kill, are apart from the pulls.
<1>1. ASSUME cmd.op = "unpack", local' = local,
             \/ \E e \in {"ok", "error"} : End(e)
             \/ \E pc \in Unpacking : Goto(pc)
      PROVE  CountInv'
  <2>1. /\ cmd' \in Locals /\ cmd'.nr = cmd.nr /\ cmd'.op = "unpack"
        /\ cmd'.pc \in Unpacking \cup {"done"}
    <3>1. ASSUME NEW e \in {"ok", "error"}, End(e)
          PROVE  cmd' \in Locals /\ cmd'.nr = cmd.nr /\ cmd'.op = "unpack" /\ cmd'.pc = "done"
      BY <1>0, <1>1, <3>1, Ending
    <3>2. ASSUME NEW pc \in Unpacking, Goto(pc)
          PROVE  cmd' \in Locals /\ cmd'.nr = cmd.nr /\ cmd'.op = "unpack" /\ cmd'.pc \in Unpacking
      BY <1>0, <1>1, <3>2, Going
    <3> QED BY <1>1, <3>1, <3>2
  <2> QED BY <1>0, <1>1, <2>1, Apart DEF Pulling, Unpacking
<1>2. ASSUME NEW d \in Dests, Unpack(d) PROVE CountInv'
  <2>1. Fresh("unpack") \in Locals /\ Fresh("unpack").op = "unpack" /\ Fresh("unpack").nr = cmd.nr + 1
    BY <1>0, <1>2, Starting DEF Unpack
  <2>2. dir[d] \in Content /\ local' = local
    BY <1>2, Backups DEF Unpack, pulls, Inv, TypeOK
  <2>3. cmd' \in Locals /\ cmd'.op = "unpack" /\ cmd'.pc = "archive" /\ cmd'.nr = cmd.nr + 1
    BY <1>2, <2>1, <2>2 DEF Unpack, Locals
  <2> QED BY <1>0, <2>2, <2>3, Apart DEF Pulling
<1>3. CASE \/ UnpackDownload \/ UnpackExtract \/ PromoteRemove \/ PromoteAside \/ Promote
           \/ PromoteRestore \/ PromoteClean
  <2>1. cmd.pc \in Unpacking
    BY <1>3 DEF UnpackDownload, UnpackExtract, PromoteRemove, PromoteAside, Promote,
       PromoteRestore, PromoteClean, Unpacking
  <2>2. cmd.op = "unpack"
    BY <2>1 DEF Inv, Promotion
  <2>3. local' = local
    BY <1>3 DEF UnpackDownload, UnpackExtract, PromoteRemove, PromoteAside, Promote,
       PromoteRestore, PromoteClean, pulls
  <2>4. \/ End("ok") \/ End("error")
        \/ Goto("extract") \/ Goto("remove") \/ Goto("aside") \/ Goto("promote")
        \/ Goto("clean") \/ Goto("restore")
    BY <1>3 DEF UnpackDownload, UnpackExtract, PromoteRemove, PromoteAside, Promote,
       PromoteRestore, PromoteClean
  <2> QED BY <1>1, <2>2, <2>3, <2>4 DEF Unpacking
<1>4. CASE Kill
  <2>1. cmd' \in Locals /\ cmd'.nr = cmd.nr /\ cmd'.pc = "done" /\ cmd'.end = "killed"
    BY <1>0, <1>4, Ending DEF Kill
  <2> QED BY <1>0, <1>4, <2>1, Apart DEF Kill, Pulling
<1>5. CASE UNCHANGED vars
  BY <1>5 DEF vars, CountInv, Written, Walks, Reported, Lost, Got
<1> QED BY <1>2, <1>3, <1>4, <1>5, CountPull, CountStart, CountEntry, CountWalk DEF Next

-----------------------------------------------------------------------------
(* The theorems. *)

\* The state of the transfers is well formed; in particular no walk goes deeper
\* than MAX_TREE_DEPTH.
THEOREM TransferTypes ==
  ASSUME Ordinary
  PROVE  Spec => []TypeOK
<1>1. Inv => TypeOK
  BY DEF Inv
<1> QED BY <1>1, InitInv, StepInv, PTL DEF Spec

\* Whatever fails and whenever unpack is killed, a destination that had a tree
\* has a complete one somewhere on the disk: at its place, or left behind in a
\* staging directory.
THEOREM TreesSurvive ==
  ASSUME Ordinary
  PROVE  Spec => []TreeSurvives
<1>1. Inv => TreeSurvives
  <2> SUFFICES ASSUME Inv, NEW d \in Had
               PROVE  \E c \in {dir[d], dir[Backup(d)], staging} \cup leaked :
                        \E n \in Nr : c = Whole(d, n)
    BY DEF TreeSurvives
  <2>1. CASE cmd.dest = d /\ cmd.pc \in {"promote", "restore"}
    <3>1. staging = Whole(d, cmd.nr) /\ cmd.nr \in Nr
      BY <2>1 DEF Inv, Promotion, New, TypeOK, Locals
    <3> QED BY <3>1
  <2>2. CASE \E n \in Nr : dir[d] = Whole(d, n) \/ Whole(d, n) \in leaked
    BY <2>2
  <2> QED BY <2>1, <2>2 DEF Inv, Survivors
<1> QED BY <1>1, InitInv, StepInv, PTL DEF Spec

\* unpack is all or nothing, given that the rename that puts the old tree back
\* does not fail.
THEOREM UnpackHolds ==
  ASSUME Ordinary
  PROVE  Spec => []UnpackAllOrNothing
<1>1. Inv => UnpackAllOrNothing
  BY DEF Inv, Promotion, Old, New, UnpackAllOrNothing
<1> QED BY <1>1, InitInv, StepInv, PTL DEF Spec

\* pull_tree never leaves a part of a file under its name.
THEOREM FilesStayWhole ==
  ASSUME Ordinary
  PROVE  Spec => FilesWhole
<1>1. Inv /\ [Next]_vars
      => [\A p \in File : local'[p] # local[p] =>
            local'[p].whole \/ (cmd'.op = "pull" /\ cmd'.file = p)]_vars
  <2> SUFFICES ASSUME Inv, Next, NEW q \in File, local'[q] # local[q]
               PROVE  local'[q].whole \/ (cmd'.op = "pull" /\ cmd'.file = q)
    BY DEF vars
  <2>1. ASSUME NEW p \in Single, Pull(p) PROVE cmd'.op = "pull" /\ cmd'.file = q
    <3>1. p = q
      BY <2>1 DEF Pull, Inv, TypeOK
    <3>2. Fresh("pull") \in Locals /\ Fresh("pull").op = "pull"
      BY <2>1, Starting DEF Pull, Inv, TypeOK
    <3> QED BY <2>1, <3>1, <3>2 DEF Pull, Locals
  <2>2. CASE PullFetch \/ TreeRename
    <3>1. local' = [local EXCEPT ![cmd.file] = Fetched] /\ cmd.file \in File
      BY <2>2 DEF PullFetch, TreeRename, Inv, Walking
    <3> QED BY <3>1 DEF Inv, TypeOK, Fetched
  <2> QED
    BY Zenon, <2>1, <2>2 DEF Next, Unpack, PullTree, TreeUnsafe, TreeDir, TreeFile, TreeUp, TreeDownload,
       UnpackDownload, UnpackExtract, PromoteRemove, PromoteAside, Promote, PromoteRestore,
       PromoteClean, Kill, pulls
<1> QED BY <1>1, InitInv, StepInv, PTL DEF Spec, FilesWhole

\* A pulled tree that is reported has every file of the directory, of any width
\* and depth, fetched by the command, but for as many as are reported as skipped.
THEOREM PullReportHolds ==
  ASSUME Ordinary
  PROVE  Spec => []PullReportTrue
<1>1. CountInv => PullReportTrue
  BY ReportIs DEF CountInv
<1> QED BY <1>1, InitInv, StepInv, CountInit, CountStep, PTL DEF Spec
=============================================================================
