------------------------ MODULE PhoneCommandsProofs ------------------------
(***************************************************************************)
(* Proofs about PhoneCommands, for every phone, every local tree and every *)
(* set of commands and faults.                                             *)
(*                                                                         *)
(* 1. What a call leaves on the phone.                                     *)
(* 2. The walk over the local tree: what the frames say is still to do.    *)
(* 3. Types, and with them what a command knows between two of its calls.  *)
(* 4. What a command reports, and what it changes.                         *)
(***************************************************************************)
EXTENDS PhoneCommands, FiniteSetTheorems, SequenceTheorems, TLAPS

Phone == [Oid -> Object \cup {None}]

\* At, Pushed and the tree a command may rely on, of any phone ob.
Found(ob, d, n) == {o \in Oid : ob[o] # None /\ <<o[1], ob[o].parent>> = d /\ ob[o].name = n}
Reached(ob, d, p) ==
  {o \in Oid : \E way \in [0..Len(p) -> Oid] :
     /\ way[0] \in Found(ob, d, TreeName) /\ way[Len(p)] = o
     /\ \A i \in 1..Len(p) : way[i] \in Found(ob, way[i - 1], p[i])}

\* What is on the phone stays there.
Grows(ob, after) == \A o \in Oid : ob[o] # None => after[o] = ob[o]

\* A name has one object.
Unique(ob) ==
  \A x, y \in Oid :
    (/\ ob[x] # None /\ ob[y] # None
     /\ x[1] = y[1] /\ ob[x].parent = ob[y].parent /\ ob[x].name = ob[y].name) => x = y

LEMMA AtIsFound ==
  /\ \A d, n : At(d, n) = Found(obj, d, n)
  /\ \A d, n : At(d, n)' = Found(obj', d, n)
  /\ \A p : Pushed(p) = Reached(obj, cmd.dir, p)
  /\ \A p : Pushed(p)' = Reached(obj', cmd'.dir, p)
<1>1. \A d, n : At(d, n) = Found(obj, d, n)
  BY DEF At, Found, Parent
<1>2. \A d, n : At(d, n)' = Found(obj', d, n)
  BY DEF At, Found, Parent
<1>3. \A p : Pushed(p) = Reached(obj, cmd.dir, p)
  BY <1>1 DEF Pushed, Reached
<1>4. \A p : Pushed(p)' = Reached(obj', cmd'.dir, p)
  BY <1>2 DEF Pushed, Reached
<1> QED BY <1>1, <1>2, <1>3, <1>4

-----------------------------------------------------------------------------
(* The phone. *)

LEMMA NewOidFree ==
  ASSUME NEW d \in DirId, Unused(d) # {}
  PROVE  /\ NewOid(d) \in Oid /\ obj[NewOid(d)] = None
         /\ NewOid(d)[1] = d[1]
BY DEF NewOid, Unused, Oid, DirId

\* An object is stored where it should be, and beside what there was.
LEMMA StoredThere ==
  ASSUME obj \in Phone, NEW d \in DirId, NEW n \in Names, NEW isdir \in BOOLEAN,
         NEW k \in Size, CanStore(d, n)
  PROVE  LET after == Stored(d, n, isdir, k)
             o == NewOid(d)
         IN  /\ after \in Phone /\ Grows(obj, after)
             /\ o \in Found(after, d, n) /\ after[o].isdir = isdir /\ after[o].size = k
             /\ (Unique(obj) /\ ~AcceptsDuplicates => Unique(after))
<1> DEFINE o == NewOid(d)
           new == [parent |-> d[2], name |-> n, isdir |-> isdir, size |-> k]
           after == Stored(d, n, isdir, k)
<1>1. o \in Oid /\ obj[o] = None /\ o[1] = d[1]
  BY NewOidFree DEF CanStore
<1>2. new \in Object /\ d = <<d[1], d[2]>>
  BY DEF Object, DirId
<1>3. new # None
  BY <1>2, CommandsConstants
<1>4. after = [obj EXCEPT ![o] = new]
  BY DEF Stored
<1> HIDE DEF o, new, after
<1>5. after \in Phone /\ after[o] = new /\ \A x \in Oid : x # o => after[x] = obj[x]
  BY <1>1, <1>2, <1>4 DEF Phone
<1>6. Grows(obj, after)
  BY <1>1, <1>5 DEF Grows
<1>7. new.parent = d[2] /\ new.name = n /\ new.isdir = isdir /\ new.size = k
  BY DEF new
<1>8. o \in Found(after, d, n)
  BY <1>1, <1>2, <1>3, <1>5, <1>7 DEF Found
<1>9. ASSUME Unique(obj), ~AcceptsDuplicates PROVE Unique(after)
  <2>1. At(d, n) = {}
    BY <1>9 DEF CanStore, NameFree
  <2>2. \A x \in Oid : ~(obj[x] # None /\ x[1] = o[1] /\ obj[x].parent = new.parent /\ obj[x].name = new.name)
    BY <2>1, <1>1, <1>2, <1>7 DEF At, Parent
  <2> QED BY <2>2, <1>9, <1>1, <1>5 DEF Unique
<1> QED BY <1>5, <1>6, <1>7, <1>8, <1>9 DEF o, after

\* An upload, whole or in part, changes nothing that is there, and a
\* successful one has left a file of the length declared.
LEMMA UploadDoes ==
  ASSUME obj \in Phone, NEW d \in DirId, NEW n \in Names, NEW size \in Size, NEW sent,
         NEW ok, Upload(d, n, size, sent, ok)
  PROVE  /\ obj' \in Phone /\ Grows(obj, obj')
         /\ ok => \E o \in Found(obj', d, n) : ~obj'[o].isdir /\ obj'[o].size = size
         /\ Unique(obj) /\ ~AcceptsDuplicates => Unique(obj')
<1>1. CASE ok /\ CanStore(d, n) /\ obj' = Stored(d, n, FALSE, size)
  BY <1>1, StoredThere
<1>2. CASE ~ok /\ UNCHANGED obj
  BY <1>2 DEF Grows
<1>3. ASSUME ~ok, CanStore(d, n), NEW k \in 0..size, obj' = Stored(d, n, FALSE, k)
      PROVE  obj' \in Phone /\ Grows(obj, obj') /\ (Unique(obj) /\ ~AcceptsDuplicates => Unique(obj'))
  <2>1. k \in Size
    BY CommandsConstants DEF Size
  <2> QED BY <1>3, <2>1, StoredThere
<1> QED BY <1>1, <1>2, <1>3 DEF Upload

\* mkdir_all ends with a directory where it was asked for.
LEMMA MkdirDoes ==
  ASSUME obj \in Phone, NEW d \in DirId, NEW n \in Names, NEW o, MkdirAll(d, n, o)
  PROVE  /\ obj' \in Phone /\ Grows(obj, obj')
         /\ o \in Oid /\ o \in Found(obj', d, n) /\ obj'[o].isdir
         /\ Unique(obj) /\ ~AcceptsDuplicates => Unique(obj')
<1>1. CASE o \in At(d, n) /\ obj[o].isdir /\ UNCHANGED obj
  BY <1>1, AtIsFound DEF Grows, Found
<1>2. CASE CanStore(d, n) /\ o = NewOid(d) /\ obj' = Stored(d, n, TRUE, 0)
  <2>1. 0 \in Size
    BY CommandsConstants DEF Size
  <2>2. o \in Found(obj', d, n) /\ obj'[o].isdir = TRUE
    BY <1>2, <2>1, StoredThere
  <2> QED BY <1>2, <2>1, <2>2, StoredThere DEF Found
<1> QED BY <1>1, <1>2 DEF MkdirAll

\* What is found on a phone is found on one that has grown from it.
LEMMA FoundStays ==
  ASSUME NEW ob, NEW after, Grows(ob, after), NEW d, NEW n
  PROVE  Found(ob, d, n) \subseteq Found(after, d, n)
BY DEF Grows, Found

LEMMA ReachedStays ==
  ASSUME NEW ob, NEW after, Grows(ob, after), NEW d, NEW p
  PROVE  Reached(ob, d, p) \subseteq Reached(after, d, p)
<1> SUFFICES ASSUME NEW o \in Reached(ob, d, p) PROVE o \in Reached(after, d, p)
  OBVIOUS
<1>1. PICK way \in [0..Len(p) -> Oid] :
        /\ way[0] \in Found(ob, d, TreeName) /\ way[Len(p)] = o
        /\ \A i \in 1..Len(p) : way[i] \in Found(ob, way[i - 1], p[i])
  BY DEF Reached
<1>2. \A i \in 1..Len(p) : way[i] \in Found(after, way[i - 1], p[i])
  BY <1>1, FoundStays
<1>3. way[0] \in Found(after, d, TreeName)
  BY <1>1, FoundStays
<1>4. o \in Oid
  BY DEF Reached
<1> QED BY <1>1, <1>2, <1>3, <1>4 DEF Reached

-----------------------------------------------------------------------------
(* The walk over the local tree. *)

Links == TreePath \ Packed

\* The path p leads to q, or is q.
Under(q, p) == Len(q) >= Len(p) /\ \A k \in 1..Len(p) : q[k] = p[k]

LEMMA PathFacts ==
  /\ \A p \in TreePath : p \in Seq(Names) /\ Len(p) \in Nat /\ Len(p) >= 1
  /\ \A p \in Seq(Names), q \in Seq(Names) : Under(q, p) /\ Len(q) = Len(p) => q = p
<1>1. \A p \in TreePath : p \in Seq(Names) /\ Len(p) \in Nat /\ Len(p) >= 1
  <2> SUFFICES ASSUME NEW p \in TreePath PROVE p \in Seq(Names) /\ Len(p) \in Nat /\ Len(p) >= 1
    OBVIOUS
  <2>1. p \in Seq(Names) /\ p # <<>>
    BY CommandsConstants
  <2> QED BY <2>1, LenProperties, EmptySeq
<1>2. ASSUME NEW p \in Seq(Names), NEW q \in Seq(Names), Under(q, p), Len(q) = Len(p) PROVE q = p
  BY <1>2, SeqEqual DEF Under
<1> QED BY <1>1, <1>2

LEMMA UnderTransitive ==
  ASSUME NEW p \in Seq(Names), NEW q \in Seq(Names), NEW r \in Seq(Names)
  PROVE  /\ Under(r, q) /\ Under(q, p) => Under(r, p)
         /\ Under(r, q) /\ Under(r, p) /\ Len(p) <= Len(q) => Under(q, p)
         /\ Under(p, p)
<1>1. Len(p) \in Nat /\ Len(q) \in Nat /\ Len(r) \in Nat
  BY LenProperties
<1> QED BY <1>1 DEF Under

LEMMA BelowIs ==
  ASSUME NEW p \in Seq(Names), NEW q
  PROVE  q \in Below(p) <=> q \in TreePath /\ Len(q) = Len(p) + 1 /\ Under(q, p)
<1>1. ASSUME q \in TreePath, Len(q) = Len(p) + 1
      PROVE  SubSeq(q, 1, Len(p)) = p <=> \A k \in 1..Len(p) : q[k] = p[k]
  <2>1. q \in Seq(Names) /\ Len(p) \in Nat
    BY <1>1, PathFacts, LenProperties
  <2>2. /\ SubSeq(q, 1, Len(p)) \in Seq(Names) /\ Len(SubSeq(q, 1, Len(p))) = Len(p)
        /\ \A k \in 1..Len(p) : SubSeq(q, 1, Len(p))[k] = q[k]
    BY <1>1, <2>1, SubSeqProperties
  <2> QED BY <2>2, SeqEqual
<1>2. Len(p) \in Nat
  BY LenProperties
<1> QED BY <1>1, <1>2 DEF Below, Under

\* On the way from p to an entry under it lies one directly below p: it is the
\* entry, or a directory.
LEMMA Descends ==
  ASSUME NEW p \in Seq(Names), NEW q \in TreePath, Under(q, p), Len(q) > Len(p)
  PROVE  \E r \in Below(p) : Under(q, r) /\ (r = q \/ LocalTree[r] = "dir")
<1>1. q \in Seq(Names) /\ Len(q) \in Nat /\ Len(p) \in Nat
  BY PathFacts, LenProperties
<1>2. CASE Len(q) = Len(p) + 1
  BY <1>1, <1>2, BelowIs, UnderTransitive
<1>3. CASE Len(q) # Len(p) + 1
  <2> DEFINE n == Len(p) + 1
             r == SubSeq(q, 1, n)
  <2>1. n \in 1..Len(q) - 1
    BY <1>1, <1>3
  <2>2. r \in TreePath /\ LocalTree[r] = "dir"
    BY <2>1, CommandsConstants
  <2>3. Len(r) = n /\ \A k \in 1..n : r[k] = q[k]
    BY <1>1, <2>1, SubSeqProperties
  <2>4. Under(q, r) /\ Under(r, p)
    BY <1>1, <2>1, <2>3 DEF Under
  <2> HIDE DEF r
  <2>5. r \in Below(p)
    BY <2>2, <2>3, <2>4, BelowIs
  <2> QED BY <2>2, <2>4, <2>5
<1> QED BY <1>2, <1>3

\* The frames: one per level, each with entries directly below it that are
\* left to do; a frame leads to those above it, and nothing that a frame has
\* left to do leads to one above it.
Shape(fs) ==
  /\ fs \in Seq(Frame) /\ Len(fs) >= 1
  /\ \A i \in 1..Len(fs) : Len(fs[i].at) = i - 1 /\ fs[i].left \subseteq Below(fs[i].at)
  /\ \A i, j \in 1..Len(fs) : i < j =>
       /\ Under(fs[j].at, fs[i].at)
       /\ \A r \in fs[i].left : ~Under(fs[j].at, r)

\* What is still to do: the entries left, and what is under them.
Pending(fs) ==
  {q \in TreePath : \E i \in 1..Len(fs) : \E r \in fs[i].left : Under(q, r)}

LEMMA ShapeFacts ==
  ASSUME NEW fs, Shape(fs)
  PROVE  /\ Len(fs) \in Nat /\ Len(fs) \in 1..Len(fs)
         /\ fs \in [1..Len(fs) -> Frame] /\ DOMAIN fs = 1..Len(fs)
         /\ \A i \in 1..Len(fs) :
              fs[i].at \in Seq(Names) /\ Len(fs[i].at) = i - 1 /\ fs[i].dir \in DirId
         /\ \A i, j \in 1..Len(fs) : i < j =>
              Under(fs[j].at, fs[i].at) /\ \A r \in fs[i].left : ~Under(fs[j].at, r)
         /\ \A i \in 1..Len(fs) : \A r \in fs[i].left :
              r \in TreePath /\ r \in Seq(Names) /\ Len(r) = i /\ Under(r, fs[i].at)
<1>1. /\ fs \in Seq(Frame) /\ Len(fs) >= 1
      /\ Len(fs) \in Nat /\ fs \in [1..Len(fs) -> Frame] /\ DOMAIN fs = 1..Len(fs)
  BY LenProperties DEF Shape
<1>2. \A i \in 1..Len(fs) : fs[i].at \in Seq(Names) /\ fs[i].dir \in DirId
  BY <1>1 DEF Frame
<1>3. ASSUME NEW i \in 1..Len(fs), NEW r \in fs[i].left
      PROVE  r \in TreePath /\ r \in Seq(Names) /\ Len(r) = i /\ Under(r, fs[i].at)
  <2>1. r \in Below(fs[i].at) /\ Len(fs[i].at) = i - 1
    BY DEF Shape
  <2>2. r \in TreePath /\ Len(r) = Len(fs[i].at) + 1 /\ Under(r, fs[i].at)
    BY <2>1, <1>2, BelowIs
  <2> QED BY <2>1, <2>2, PathFacts
<1>4. \A i, j \in 1..Len(fs) : i < j =>
        Under(fs[j].at, fs[i].at) /\ \A r \in fs[i].left : ~Under(fs[j].at, r)
  BY DEF Shape
<1>5. \A i \in 1..Len(fs) : Len(fs[i].at) = i - 1
  BY DEF Shape
<1> QED BY <1>1, <1>2, <1>3, <1>4, <1>5

Struck(fs, p) == [fs EXCEPT ![Len(fs)].left = @ \ {p}]

\* An entry of the frame on top is done: it, and what is under it, is no
\* longer left to do.
LEMMA Leaves ==
  ASSUME NEW fs, Shape(fs), NEW p \in fs[Len(fs)].left,
         NEW gs, gs = Struck(fs, p)
  PROVE  /\ Shape(gs) /\ Len(gs) = Len(fs)
         /\ \A i \in 1..Len(fs) : gs[i].at = fs[i].at /\ gs[i].dir = fs[i].dir
         /\ Pending(gs) = Pending(fs) \ {q \in TreePath : Under(q, p)}
         /\ p \in Pending(fs)
<1> DEFINE n == Len(fs)
<1>1. /\ n \in Nat /\ n \in 1..n /\ fs \in [1..n -> Frame]
      /\ p \in TreePath /\ p \in Seq(Names) /\ Len(p) = n /\ Under(p, fs[n].at)
  BY ShapeFacts
<1>2. fs[n] \in Frame
  BY <1>1
<1>3. [fs[n] EXCEPT !.left = @ \ {p}] \in Frame
  BY <1>2 DEF Frame
<1>4. gs \in [1..n -> Frame] /\ gs[n] = [fs[n] EXCEPT !.left = @ \ {p}]
      /\ \A i \in 1..n : i # n => gs[i] = fs[i]
  BY <1>1, <1>3 DEF Struck
<1>5. gs \in Seq(Frame) /\ Len(gs) = n
  BY <1>1, <1>4, SeqDef, LenProperties
<1>6. gs[n].left = fs[n].left \ {p} /\ gs[n].at = fs[n].at /\ gs[n].dir = fs[n].dir
  BY <1>4, <1>2 DEF Frame
<1>7. \A i \in 1..n : gs[i].at = fs[i].at /\ gs[i].dir = fs[i].dir /\ gs[i].left \subseteq fs[i].left
  BY <1>4, <1>6
<1> HIDE DEF n
<1>8. Shape(gs)
  BY <1>1, <1>5, <1>7 DEF Shape, n
<1>9. p \in Pending(fs)
  BY <1>1, UnderTransitive DEF Pending, n
<1>10. ASSUME NEW q \in Pending(fs), ~Under(q, p) PROVE q \in Pending(gs)
  <2>1. PICK i \in 1..n : \E r \in fs[i].left : Under(q, r)
    BY DEF Pending, n
  <2>2. PICK r \in fs[i].left : Under(q, r)
    BY <2>1
  <2>3. r \in gs[i].left
    BY <2>2, <1>10, <1>4, <1>6
  <2> QED BY <2>2, <2>3, <1>5 DEF Pending
<1>11. ASSUME NEW q \in Pending(gs) PROVE q \in Pending(fs) /\ ~Under(q, p)
  <2>1. PICK i \in 1..n : \E r \in gs[i].left : Under(q, r)
    BY <1>5 DEF Pending
  <2>2. PICK r \in gs[i].left : Under(q, r)
    BY <2>1
  <2>3. r \in fs[i].left
    BY <2>2, <1>7
  <2>4. q \in Pending(fs) /\ q \in TreePath /\ q \in Seq(Names)
    BY <2>2, <2>3, PathFacts DEF Pending, n
  <2>5. r \in TreePath /\ r \in Seq(Names) /\ Len(r) = i
    BY <2>3, ShapeFacts DEF n
  <2>6. CASE i = n
    <3>1. r # p
      BY <2>2, <2>6, <1>6
    <3>2. ~Under(q, p)
      BY <3>1, <2>2, <2>4, <2>5, <2>6, <1>1, UnderTransitive, PathFacts
    <3> QED BY <3>2, <2>4
  <2>7. CASE i # n
    <3>1. i < n
      BY <2>7, <1>1
    <3>2. fs[n].at \in Seq(Names) /\ Len(fs[n].at) = n - 1 /\ ~Under(fs[n].at, r)
      BY <3>1, <2>3, <1>1, ShapeFacts DEF n
    <3>3. ~Under(p, r)
      BY <3>1, <3>2, <2>5, <1>1, UnderTransitive
    <3>4. ~Under(q, p)
      BY <3>1, <3>3, <2>2, <2>4, <2>5, <1>1, UnderTransitive
    <3> QED BY <3>4, <2>4
  <2> QED BY <2>6, <2>7
<1>12. Pending(gs) = Pending(fs) \ {q \in TreePath : Under(q, p)}
  BY <1>10, <1>11 DEF Pending
<1> QED BY <1>5, <1>7, <1>8, <1>9, <1>12 DEF n

Entered(fs, o, p) == Append(fs, NewFrame(o, p))

\* A directory that is done itself is entered: what is under it is left to do.
LEMMA Enters ==
  ASSUME NEW fs, Shape(fs), NEW p \in Below(fs[Len(fs)].at), p \notin Pending(fs),
         NEW o \in DirId, NEW gs, gs = Entered(fs, o, p)
  PROVE  /\ Shape(gs) /\ Len(gs) = Len(fs) + 1
         /\ \A i \in 1..Len(fs) : gs[i] = fs[i]
         /\ gs[Len(gs)].at = p /\ gs[Len(gs)].dir = o
         /\ Pending(gs) = Pending(fs) \cup {q \in TreePath : Under(q, p) /\ q # p}
<1> DEFINE n == Len(fs)
           top == NewFrame(o, p)
<1>1. /\ n \in Nat /\ n \in 1..n /\ fs \in [1..n -> Frame] /\ fs \in Seq(Frame)
      /\ \A i \in 1..n : fs[i].at \in Seq(Names) /\ Len(fs[i].at) = i - 1
  BY ShapeFacts DEF Shape
<1>2. p \in TreePath /\ p \in Seq(Names) /\ Len(p) = n /\ Under(p, fs[n].at)
  BY <1>1, BelowIs, PathFacts
<1>3. top \in Frame /\ top.at = p /\ top.dir = o /\ top.left = Below(p)
  BY <1>2 DEF NewFrame, Frame, Below
<1>0. \A i, j \in 1..n : i < j =>
       Under(fs[j].at, fs[i].at) /\ \A r \in fs[i].left : ~Under(fs[j].at, r)
  BY ShapeFacts
<1> HIDE DEF top
<1>4. gs \in Seq(Frame) /\ Len(gs) = n + 1 /\ gs[n + 1] = top /\ \A i \in 1..n : gs[i] = fs[i]
  BY <1>1, <1>3, AppendProperties DEF top, Entered
<1> HIDE DEF n
<1>5. ASSUME NEW i \in 1..Len(gs)
      PROVE  Len(gs[i].at) = i - 1 /\ gs[i].left \subseteq Below(gs[i].at)
  <2>1. CASE i = n + 1
    BY <2>1, <1>1, <1>2, <1>3, <1>4
  <2>2. CASE i # n + 1
    <3>1. i \in 1..n
      BY <2>2, <1>1, <1>4
    <3>2. fs[i].left \subseteq Below(fs[i].at)
      BY <3>1 DEF Shape, n
    <3> QED BY <3>1, <3>2, <1>1, <1>4
  <2> QED BY <2>1, <2>2
<1>6. ASSUME NEW i \in 1..n
      PROVE  Under(p, fs[i].at) /\ \A r \in fs[i].left : ~Under(p, r)
  <2>1. \A r \in fs[i].left : ~Under(p, r)
    BY <1>2 DEF Pending, n
  <2>2. Under(fs[n].at, fs[i].at)
    <3>1. CASE i = n
      BY <3>1, <1>1, UnderTransitive
    <3>2. CASE i # n
      <4>1. i < n
        BY <3>2, <1>1
      <4> QED BY <4>1, <1>1, <1>0
    <3> QED BY <3>1, <3>2
  <2> QED BY <2>1, <2>2, <1>1, <1>2, UnderTransitive
<1>7. ASSUME NEW i \in 1..Len(gs), NEW j \in 1..Len(gs), i < j
      PROVE  Under(gs[j].at, gs[i].at) /\ \A r \in gs[i].left : ~Under(gs[j].at, r)
  <2>1. CASE j = n + 1
    BY <2>1, <1>1, <1>3, <1>4, <1>6, <1>7
  <2>2. CASE j # n + 1
    <3>1. i \in 1..n /\ j \in 1..n
      BY <2>2, <1>1, <1>4, <1>7
    <3> QED BY <3>1, <1>4, <1>7, <1>0
  <2> QED BY <2>1, <2>2
<1>8. Shape(gs)
  <2>1. gs \in Seq(Frame) /\ Len(gs) >= 1
    BY <1>1, <1>4
  <2>2. \A i \in 1..Len(gs) : Len(gs[i].at) = i - 1 /\ gs[i].left \subseteq Below(gs[i].at)
    BY <1>5
  <2>3. \A i, j \in 1..Len(gs) : i < j =>
          Under(gs[j].at, gs[i].at) /\ \A r \in gs[i].left : ~Under(gs[j].at, r)
    BY <1>7
  <2> QED BY <2>1, <2>2, <2>3 DEF Shape
<1>9. ASSUME NEW q \in Pending(gs), q \notin Pending(fs)
      PROVE  q \in TreePath /\ Under(q, p) /\ q # p
  <2>1. q \in TreePath /\ q \in Seq(Names) /\ \A i \in 1..n : \A r \in fs[i].left : ~Under(q, r)
    BY <1>9, PathFacts DEF Pending, n
  <2>2. PICK r \in Below(p) : Under(q, r)
    BY <2>1, <1>1, <1>3, <1>4 DEF Pending
  <2>3. r \in Seq(Names) /\ Len(r) = n + 1 /\ Under(r, p)
    BY <1>2, BelowIs, PathFacts
  <2> QED BY <2>1, <2>2, <2>3, <1>1, <1>2, UnderTransitive DEF Under
<1>10. ASSUME NEW q \in Pending(fs) PROVE q \in Pending(gs)
  <2>1. PICK i \in 1..n : \E r \in fs[i].left : Under(q, r)
    BY DEF Pending, n
  <2> QED BY <2>1, <1>1, <1>4 DEF Pending
<1>11. ASSUME NEW q \in TreePath, Under(q, p), q # p PROVE q \in Pending(gs)
  <2>1. q \in Seq(Names) /\ Len(q) \in Nat
    BY PathFacts
  <2>2. Len(q) > Len(p)
    BY <2>1, <1>1, <1>2, <1>11, PathFacts DEF Under
  <2>3. PICK r \in Below(p) : Under(q, r)
    BY <2>2, <1>2, <1>11, Descends
  <2>4. n + 1 \in 1..Len(gs) /\ r \in gs[n + 1].left
    BY <2>3, <1>1, <1>3, <1>4
  <2> QED BY <2>3, <2>4 DEF Pending
<1>12. Pending(gs) = Pending(fs) \cup {q \in TreePath : Under(q, p) /\ q # p}
  BY <1>9, <1>10, <1>11 DEF Pending
<1> QED BY <1>1, <1>3, <1>4, <1>8, <1>12 DEF n

Popped(fs) == SubSeq(fs, 1, Len(fs) - 1)

\* A frame with nothing left is done.
LEMMA Returns ==
  ASSUME NEW fs, Shape(fs), fs[Len(fs)].left = {}, Len(fs) # 1,
         NEW gs, gs = Popped(fs)
  PROVE  /\ Shape(gs) /\ Len(gs) = Len(fs) - 1
         /\ \A i \in 1..Len(gs) : gs[i] = fs[i]
         /\ Pending(gs) = Pending(fs)
<1> DEFINE n == Len(fs)
<1>1. /\ n \in Nat /\ n \in 1..n /\ n # 1 /\ fs \in [1..n -> Frame]
  BY ShapeFacts
<1>2. \A i \in 1..n - 1 : fs[i] \in Frame
  BY <1>1
<1>3. gs \in Seq(Frame) /\ Len(gs) = n - 1 /\ \A i \in 1..n - 1 : gs[i] = fs[i]
  <2>1. gs = SubSeq(fs, 1, n - 1)
    BY DEF Popped
  <2> HIDE DEF n
  <2>2. gs \in Seq(Frame) /\ \A i \in 1..n - 1 : gs[i] = fs[i]
    BY <2>1, <1>1, <1>2, SubSeqProperties
  <2>3. Len(gs) = n - 1
    BY <2>1, <1>1, <1>2, SubSeqProperties
  <2> QED BY <2>2, <2>3
<1> HIDE DEF n
<1>4. Shape(gs)
  <2>1. gs \in Seq(Frame) /\ Len(gs) >= 1
    BY <1>1, <1>3
  <2>2. ASSUME NEW i \in 1..Len(gs)
        PROVE  Len(gs[i].at) = i - 1 /\ gs[i].left \subseteq Below(gs[i].at)
    <3>1. i \in 1..n /\ gs[i] = fs[i]
      BY <1>1, <1>3
    <3> QED BY <3>1 DEF Shape, n
  <2>3. ASSUME NEW i \in 1..Len(gs), NEW j \in 1..Len(gs), i < j
        PROVE  Under(gs[j].at, gs[i].at) /\ \A r \in gs[i].left : ~Under(gs[j].at, r)
    <3>1. i \in 1..n /\ gs[i] = fs[i] /\ j \in 1..n /\ gs[j] = fs[j]
      BY <1>1, <1>3
    <3> QED BY <2>3, <3>1 DEF Shape, n
  <2> QED BY <2>1, <2>2, <2>3 DEF Shape
<1>5. Pending(gs) = Pending(fs)
  BY <1>1, <1>3 DEF Pending, n
<1> QED BY <1>3, <1>4, <1>5 DEF n

\* At the start everything is left to do, at the end nothing.
LEMMA Starts ==
  ASSUME NEW o \in DirId, NEW fs, fs = <<NewFrame(o, <<>>)>>
  PROVE  /\ Shape(fs) /\ Len(fs) = 1 /\ fs[1].at = <<>> /\ fs[1].dir = o
         /\ Pending(fs) = TreePath
<1>1. <<>> \in Seq(Names) /\ Len(<<>>) = 0
  BY EmptySeq
<1>2. NewFrame(o, <<>>) \in Frame /\ Len(fs) = 1 /\ fs[1] = NewFrame(o, <<>>)
  BY <1>1 DEF NewFrame, Frame, Below
<1>3. fs[1].at = <<>> /\ fs[1].dir = o /\ fs[1].left = Below(<<>>)
  BY <1>2 DEF NewFrame
<1>4. fs \in Seq(Frame)
  BY <1>2
<1>5. Shape(fs)
  BY <1>1, <1>2, <1>3, <1>4 DEF Shape
<1>6. ASSUME NEW q \in TreePath PROVE q \in Pending(fs)
  <2>1. q \in Seq(Names) /\ Len(q) \in Nat /\ Len(q) >= 1
    BY PathFacts
  <2>2. Under(q, <<>>) /\ Len(q) > Len(<<>>)
    BY <2>1, <1>1 DEF Under
  <2>3. PICK r \in Below(<<>>) : Under(q, r)
    BY <2>2, <1>1, Descends
  <2> QED BY <2>3, <1>2, <1>3 DEF Pending
<1> QED BY <1>2, <1>3, <1>5, <1>6 DEF Pending

LEMMA Ends ==
  ASSUME NEW fs, Shape(fs), fs[Len(fs)].left = {}, Len(fs) = 1
  PROVE  Pending(fs) = {}
BY DEF Pending

\* Over its entry p, which is no directory, the walk goes on.
LEMMA LeafDone ==
  ASSUME NEW fs, Shape(fs), NEW p \in fs[Len(fs)].left, LocalTree[p] # "dir",
         NEW gs, gs = Struck(fs, p)
  PROVE  /\ Shape(gs) /\ Len(gs) = Len(fs)
         /\ \A i \in 1..Len(fs) : gs[i].at = fs[i].at /\ gs[i].dir = fs[i].dir
         /\ p \in Pending(fs) /\ Pending(gs) = Pending(fs) \ {p}
<1>1. p \in TreePath /\ p \in Seq(Names)
  BY ShapeFacts
<1>2. ASSUME NEW q \in TreePath, Under(q, p) PROVE q = p
  <2>1. q \in Seq(Names) /\ Len(q) \in Nat /\ Len(p) \in Nat
    BY <1>1, PathFacts
  <2>2. CASE Len(q) > Len(p)
    <3>1. PICK r \in Below(p) : Under(q, r)
      BY <1>1, <1>2, <2>2, Descends
    <3>2. r \in TreePath /\ r \in Seq(Names) /\ Len(r) = Len(p) + 1 /\ Under(r, p)
      BY <3>1, <1>1, BelowIs, PathFacts
    <3>3. Len(p) \in 1..Len(r) - 1
      BY <3>2, <1>1, PathFacts
    <3>4. SubSeq(r, 1, Len(p)) = p
      BY <3>1 DEF Below
    <3>5. LocalTree[SubSeq(r, 1, Len(p))] = "dir"
      BY <3>2, <3>3, CommandsConstants
    <3> QED BY <3>4, <3>5
  <2>3. CASE ~(Len(q) > Len(p))
    BY <2>1, <2>3, <1>1, <1>2, PathFacts DEF Under
  <2> QED BY <2>2, <2>3
<1>3. {q \in TreePath : Under(q, p)} = {p}
  BY <1>1, <1>2, UnderTransitive
<1>4. /\ Shape(gs) /\ Len(gs) = Len(fs)
      /\ \A i \in 1..Len(fs) : gs[i].at = fs[i].at /\ gs[i].dir = fs[i].dir
      /\ Pending(gs) = Pending(fs) \ {q \in TreePath : Under(q, p)}
      /\ p \in Pending(fs)
  BY Leaves
<1> QED BY <1>3, <1>4

\* The entries done, of a given kind, are counted one by one.
LEMMA CountOne ==
  ASSUME NEW fs, NEW gs, NEW p \in Links, p \in Pending(fs), Pending(gs) = Pending(fs) \ {p}
  PROVE  /\ Cardinality(Links \ Pending(gs)) = Cardinality(Links \ Pending(fs)) + 1
         /\ Cardinality(Links \ Pending(gs)) \in 0..Cardinality(Links)
         /\ Cardinality(Links \ Pending(fs)) \in Nat
<1>1. IsFiniteSet(Links)
  BY FS_Subset, CommandsConstants DEF Links
<1>2. IsFiniteSet(Links \ Pending(fs)) /\ IsFiniteSet(Links \ Pending(gs))
  BY <1>1, FS_Subset
<1>3. Links \ Pending(gs) = (Links \ Pending(fs)) \cup {p}
  OBVIOUS
<1>4. p \notin Links \ Pending(fs)
  OBVIOUS
<1>5. Cardinality(Links \ Pending(gs)) <= Cardinality(Links)
  BY <1>1, FS_Subset
<1>6. Cardinality((Links \ Pending(fs)) \cup {p}) = Cardinality(Links \ Pending(fs)) + 1
  BY <1>2, <1>4, FS_AddElement
<1>7. /\ Cardinality(Links \ Pending(fs)) \in Nat /\ Cardinality(Links \ Pending(gs)) \in Nat
      /\ Cardinality(Links) \in Nat
  BY <1>1, <1>2, FS_CardinalityType
<1> QED BY <1>3, <1>5, <1>6, <1>7

LEMMA LinkCount ==
  /\ Cardinality(Links) \in Nat
  /\ Cardinality(Links \ TreePath) = 0
<1>1. IsFiniteSet(Links)
  BY FS_Subset, CommandsConstants DEF Links
<1>2. Links \ TreePath = {}
  BY DEF Links
<1> QED BY <1>1, <1>2, FS_CardinalityType, FS_EmptySet

\* What is found in a directory that was reached is reached.
LEMMA ReachesBelow ==
  ASSUME NEW ob, NEW d, NEW p \in Seq(Names), NEW q \in Below(p), NEW e \in Reached(ob, d, p),
         NEW o \in Found(ob, e, Leaf(q))
  PROVE  o \in Reached(ob, d, q)
<1> DEFINE n == Len(p)
<1>1. n \in Nat /\ Len(q) = n + 1 /\ \A i \in 1..n : q[i] = p[i]
  BY LenProperties, BelowIs DEF Under
<1>2. PICK way \in [0..n -> Oid] :
        /\ way[0] \in Found(ob, d, TreeName) /\ way[n] = e
        /\ \A i \in 1..n : way[i] \in Found(ob, way[i - 1], p[i])
  BY DEF Reached
<1>3. o \in Oid /\ o \in Found(ob, e, q[n + 1])
  BY <1>1 DEF Found, Leaf
<1> HIDE DEF n
<1> DEFINE on == [i \in 0..n + 1 |-> IF i = n + 1 THEN o ELSE way[i]]
<1>4. on \in [0..n + 1 -> Oid] /\ on[n + 1] = o /\ \A i \in 0..n : on[i] = way[i]
  BY <1>1, <1>3
<1> HIDE DEF on
<1>5. ASSUME NEW i \in 1..n + 1 PROVE on[i] \in Found(ob, on[i - 1], q[i])
  <2>1. CASE i = n + 1
    BY <2>1, <1>1, <1>2, <1>3, <1>4
  <2>2. CASE i # n + 1
    <3>1. i \in 1..n /\ i \in 0..n /\ i - 1 \in 0..n
      BY <2>2, <1>1
    <3> QED BY <3>1, <1>1, <1>2, <1>4
  <2> QED BY <2>1, <2>2
<1>6. on[0] \in Found(ob, d, TreeName)
  BY <1>1, <1>2, <1>4
<1> QED BY <1>1, <1>3, <1>4, <1>5, <1>6 DEF Reached

\* What is found under the name of the tree is reached by the empty path.
LEMMA ReachesTop ==
  ASSUME NEW ob, NEW d, NEW o \in Found(ob, d, TreeName)
  PROVE  o \in Reached(ob, d, <<>>)
<1> DEFINE way == [i \in 0..0 |-> o]
<1>1. o \in Oid /\ Len(<<>>) = 0
  BY DEF Found
<1>2. way \in [0..0 -> Oid] /\ way[0] = o
  BY <1>1
<1> HIDE DEF way
<1> QED BY <1>1, <1>2 DEF Reached

-----------------------------------------------------------------------------
(* What a command knows between two of its calls. *)

\* The command k on the phone ob: a push has opened its source before it
\* removes anything, a mv has its object still where it found it, or, before
\* the rename, in the directory where it is to be, under its old name.
Knows(k, ob) ==
  /\ k.pc \in {"open", "remove"} => k.op = "push" /\ k.name \in Files
  /\ k.pc = "remove" => k.force /\ k.held # None
  /\ k.pc = "upload" => k.op \in {"push", "pack"} /\ k.held # None
  /\ k.pc = "tree" => k.op = "pushtree"
  /\ k.pc \in {"move", "rename"} =>
       k.op = "mv" /\ k.target \in Oid /\ k.from \in Object /\ ob[k.target] # None
  /\ k.pc = "move" => ob[k.target] = k.from
  /\ k.pc = "rename" => /\ <<k.target[1], ob[k.target].parent>> = k.dir
                        /\ ob[k.target].name = k.from.name

\* The walk: the links that are done are counted, the frames' directories are
\* those of their entries, and every other entry that is done is on the phone.
Walks(k, ob, fs) ==
  k.pc = "tree" =>
    /\ Shape(fs)
    /\ k.skipped = Cardinality(Links \ Pending(fs))
    /\ \A i \in 1..Len(fs) : fs[i].dir \in Reached(ob, k.dir, fs[i].at)
    /\ \A p \in Packed \ Pending(fs) :
         \E o \in Reached(ob, k.dir, p) : ob[o].isdir = (LocalTree[p] = "dir")

TypeInv == TypeOK /\ Knows(cmd, obj) /\ Walks(cmd, obj, frames)

-----------------------------------------------------------------------------
(* Types. *)

Sources == [Files -> Size \cup {None}]

LEMMA TypeFacts ==
  /\ TypeOK <=> /\ obj \in Phone /\ source \in Sources /\ cmd \in Locals
                /\ frames \in Seq(Frame) /\ Len(frames) <= MaxTreeDepth + 1
  /\ TypeOK' <=> /\ obj' \in Phone /\ source' \in Sources /\ cmd' \in Locals
                 /\ frames' \in Seq(Frame) /\ Len(frames') <= MaxTreeDepth + 1
BY DEF TypeOK, Phone, Sources

LEMMA SizeFacts == 0 \in Size /\ 1 \in Size /\ Size \subseteq Nat /\ None \notin Size
BY CommandsConstants DEF Size

LEMMA EmptyFrames == <<>> \in Seq(Frame) /\ Len(<<>>) <= MaxTreeDepth + 1
BY EmptySeq, CommandsConstants

LEMMA FreshOK ==
  ASSUME TypeOK, NEW op \in {"push", "pushtree", "pack", "mkdir", "rm", "mv"}, Start(op)
  PROVE  /\ Fresh(op) \in Locals
         /\ Fresh(op).pc = "done" /\ Fresh(op).op = op /\ Fresh(op).ok = TRUE
         /\ Fresh(op).skipped = 0 /\ Fresh(op).held = None
<1>1. cmd \in Locals /\ cmd.nr < MaxCommands
  BY TypeFacts DEF Start
<1>2. cmd.nr \in 0..MaxCommands
  BY <1>1 DEF Locals
<1>3. cmd.nr + 1 \in 0..MaxCommands /\ 0 \in 0..MaxCommands
  BY <1>1, <1>2, CommandsConstants
<1>4. 0 \in 0..Cardinality(TreePath \ Packed)
  BY LinkCount DEF Links
<1>5. (CHOOSE s \in Storages : TRUE) \in Storages /\ (CHOOSE n \in Names : TRUE) \in Names
  BY CommandsConstants
<1>6. NoCommand.dir \in DirId
  BY <1>5 DEF NoCommand, DirId
<1>7. NoCommand \in Locals
  BY <1>3, <1>4, <1>5, <1>6, SizeFacts DEF NoCommand, Locals
<1>8. Fresh(op) = [NoCommand EXCEPT !.op = op, !.nr = cmd.nr + 1]
  BY DEF Fresh
<1> QED BY <1>3, <1>7, <1>8 DEF NoCommand, Locals

\* A command that has ended knows nothing.
LEMMA EndOK ==
  ASSUME TypeOK, NEW ok \in BOOLEAN, End(ok), obj' \in Phone, source' \in Sources
  PROVE  /\ TypeInv'
         /\ cmd'.pc = "done" /\ cmd'.ok = ok /\ cmd'.op = cmd.op
         /\ cmd'.dir = cmd.dir /\ cmd'.name = cmd.name /\ cmd'.size = cmd.size
         /\ cmd'.target = cmd.target /\ cmd'.from = cmd.from /\ cmd'.skipped = cmd.skipped
<1>1. cmd \in Locals /\ cmd' = [cmd EXCEPT !.pc = "done", !.ok = ok] /\ frames' = <<>>
  BY TypeFacts DEF End
<1>2. /\ cmd' \in Locals /\ cmd'.pc = "done" /\ cmd'.ok = ok /\ cmd'.op = cmd.op
      /\ cmd'.dir = cmd.dir /\ cmd'.name = cmd.name /\ cmd'.size = cmd.size
      /\ cmd'.target = cmd.target /\ cmd'.from = cmd.from /\ cmd'.skipped = cmd.skipped
  BY <1>1 DEF Locals
<1>3. TypeOK'
  BY <1>1, <1>2, TypeFacts, EmptyFrames
<1> QED BY <1>2, <1>3 DEF TypeInv, Knows, Walks

\* A command that is not at a call, or not in a walk.
LEMMA NotWalking ==
  /\ \A k, ob, fs : k.pc # "tree" => Walks(k, ob, fs)
  /\ \A k, ob : k.pc = "done" => Knows(k, ob)
BY DEF Walks, Knows

LEMMA TypeInit == Init => TypeInv
<1> SUFFICES ASSUME Init PROVE TypeInv
  OBVIOUS
<1>1. 0 \in 0..MaxCommands /\ 0 \in 0..Cardinality(TreePath \ Packed)
  BY LinkCount, CommandsConstants DEF Links
<1>2. (CHOOSE s \in Storages : TRUE) \in Storages /\ (CHOOSE n \in Names : TRUE) \in Names
  BY CommandsConstants
<1>3. NoCommand.dir \in DirId
  BY <1>2 DEF NoCommand, DirId
<1>4. NoCommand \in Locals /\ NoCommand.pc = "done"
  BY <1>1, <1>2, <1>3, SizeFacts DEF NoCommand, Locals
<1>5. obj \in Phone /\ source \in Sources
  BY CommandsConstants, SizeFacts DEF Init, Phone, Sources
<1>6. TypeOK
  BY <1>4, <1>5, TypeFacts, EmptyFrames DEF Init
<1> QED BY <1>4, <1>6, NotWalking DEF Init, TypeInv

(* One lemma per command. *)

LEMMA PushTypes ==
  ASSUME TypeInv, NEW d \in DirId, NEW force \in BOOLEAN, NEW f \in Files, Push(f, d, force)
  PROVE  TypeInv'
<1>1. TypeOK /\ Start("push")
  BY DEF TypeInv, Push
<1>2. source[f] \in Size /\ f \in Names /\ obj' = obj /\ source' = source /\ frames' = frames
  <2>1. source \in Sources /\ source[f] # None /\ UNCHANGED <<obj, source, frames>>
    BY <1>1, TypeFacts DEF Push
  <2>2. Files \subseteq Names
    BY CommandsConstants
  <2> QED BY <2>1, <2>2 DEF Sources
<1>3. PICK k \in Locals : k = Fresh("push") /\ k.op = "push"
  BY <1>1, FreshOK
<1>4. PICK size \in Size : size = source[f]
  BY <1>2
<1>5. cmd' = [k EXCEPT !.pc = "open", !.dir = d, !.name = f, !.force = force, !.size = size]
  BY <1>3, <1>4 DEF Push
<1>6. cmd' \in Locals /\ cmd'.pc = "open" /\ cmd'.op = "push" /\ cmd'.name = f
  BY <1>2, <1>3, <1>5 DEF Locals
<1>7. TypeOK'
  BY <1>1, <1>2, <1>6, TypeFacts
<1> QED BY <1>6, <1>7, NotWalking DEF TypeInv, Knows

LEMMA PushOpenTypes ==
  ASSUME TypeInv, PushOpen
  PROVE  TypeInv'
<1>1. TypeOK /\ cmd.pc = "open" /\ cmd \in Locals /\ obj' = obj /\ source' = source
      /\ obj \in Phone /\ source \in Sources /\ cmd.op = "push" /\ cmd.name \in Files
  BY TypeFacts DEF TypeInv, PushOpen, Knows
<1>2. CASE End(FALSE)
  BY <1>1, <1>2, EndOK
<1>3. ASSUME NEW pc \in {"remove", "upload"}, source[cmd.name] # None, UNCHANGED frames,
             cmd' = [cmd EXCEPT !.pc = pc, !.held = source[cmd.name]],
             pc = "remove" => cmd.force
      PROVE  TypeInv'
  <2>1. source[cmd.name] \in Size
    BY <1>1, <1>3 DEF Sources
  <2>2. /\ cmd' \in Locals /\ cmd'.pc = pc /\ cmd'.held = source[cmd.name]
        /\ cmd'.op = "push" /\ cmd'.name = cmd.name /\ cmd'.force = cmd.force
    BY <1>1, <1>3, <2>1 DEF Locals
  <2>3. TypeOK'
    BY <1>1, <1>3, <2>2, TypeFacts
  <2> QED BY <1>1, <1>3, <2>1, <2>2, <2>3, NotWalking, SizeFacts DEF TypeInv, Knows
<1> QED BY <1>2, <1>3 DEF PushOpen

\* Objects are removed: what is left has its type.
LEMMA WithoutTypes ==
  ASSUME obj \in Phone, NEW S
  PROVE  Without(S) \in Phone
BY DEF Without, Phone

LEMMA PushRemoveTypes ==
  ASSUME TypeInv, PushRemove
  PROVE  TypeInv'
<1>1. TypeOK /\ cmd.pc = "remove" /\ cmd \in Locals /\ source' = source /\ cmd.held # None
      /\ obj \in Phone /\ source \in Sources /\ cmd.op = "push"
  BY TypeFacts DEF TypeInv, PushRemove, Knows
<1>2. CASE End(FALSE) /\ UNCHANGED obj
  BY <1>1, <1>2, EndOK
<1>3. ASSUME NEW o \in At(cmd.dir, cmd.name), obj' = Without({o}), UNCHANGED frames,
             cmd' = [cmd EXCEPT !.pc = "upload", !.target = o, !.from = obj[o]]
      PROVE  TypeInv'
  <2>1. o \in Oid /\ obj[o] \in Object /\ obj' \in Phone
    BY <1>1, <1>3, WithoutTypes DEF At, Phone
  <2>2. cmd' \in Locals /\ cmd'.pc = "upload" /\ cmd'.held = cmd.held /\ cmd'.op = "push"
    BY <1>1, <1>3, <2>1 DEF Locals
  <2>3. TypeOK'
    BY <1>1, <1>3, <2>1, <2>2, TypeFacts
  <2> QED BY <1>1, <2>2, <2>3, NotWalking DEF TypeInv, Knows
<1> QED BY <1>2, <1>3 DEF PushRemove

LEMMA UploadTypes ==
  ASSUME TypeInv, PushUpload \/ PackUpload
  PROVE  TypeInv'
<1>1. TypeOK /\ cmd \in Locals /\ source' = source /\ obj \in Phone /\ source \in Sources
  BY TypeFacts DEF TypeInv, PushUpload, PackUpload
<1>2. PICK ok \in BOOLEAN : Upload(cmd.dir, cmd.name, cmd.size, cmd.held, ok) /\ End(ok)
  BY DEF PushUpload, PackUpload
<1>3. cmd.dir \in DirId /\ cmd.name \in Names /\ cmd.size \in Size
  BY <1>1 DEF Locals
<1>4. obj' \in Phone
  BY <1>1, <1>2, <1>3, UploadDoes
<1> QED BY <1>1, <1>2, <1>4, EndOK

LEMMA PackTypes ==
  ASSUME TypeInv, NEW d \in DirId, Pack(d)
  PROVE  TypeInv'
<1>1. TypeOK /\ Start("pack") /\ obj' = obj /\ source' = source /\ frames' = frames
  BY DEF TypeInv, Pack
<1>2. ArchiveName \in Names
  BY CommandsConstants
<1>3. PICK size \in Size : size = Cardinality(Packed)
  BY CommandsConstants
<1>4. PICK skipped \in 0..Cardinality(TreePath \ Packed) : skipped = Cardinality(TreePath \ Packed)
  BY LinkCount DEF Links
<1>5. PICK k \in Locals : k = Fresh("pack") /\ k.op = "pack"
  BY <1>1, FreshOK
<1>6. cmd' = [k EXCEPT !.pc = "upload", !.dir = d, !.name = ArchiveName, !.size = size,
                       !.held = size, !.skipped = skipped]
  BY <1>3, <1>4, <1>5 DEF Pack
<1>7. cmd' \in Locals /\ cmd'.pc = "upload" /\ cmd'.op = "pack" /\ cmd'.held = size
  BY <1>2, <1>5, <1>6 DEF Locals
<1>8. TypeOK'
  BY <1>1, <1>7, TypeFacts
<1> QED BY <1>7, <1>8, NotWalking, SizeFacts DEF TypeInv, Knows

LEMMA MkdirTypes ==
  ASSUME TypeInv, NEW d \in DirId, NEW n \in Names, Mkdir(d, n)
  PROVE  TypeInv'
<1>1. TypeOK /\ Start("mkdir") /\ source' = source /\ frames' = frames /\ obj \in Phone
  BY TypeFacts DEF TypeInv, Mkdir
<1> DEFINE k == [Fresh("mkdir") EXCEPT !.dir = d, !.name = n]
<1>2. k \in Locals /\ k.pc = "done"
  BY <1>1, FreshOK DEF Locals
<1>3. [k EXCEPT !.ok = FALSE] \in Locals /\ [k EXCEPT !.ok = FALSE].pc = "done"
  BY <1>2 DEF Locals
<1>4. cmd' \in {k, [k EXCEPT !.ok = FALSE]}
  BY DEF Mkdir
<1> HIDE DEF k
<1>5. obj' \in Phone
  BY <1>1, MkdirDoes DEF Mkdir, MkdirFails
<1>6. cmd' \in Locals /\ cmd'.pc = "done"
  BY <1>2, <1>3, <1>4
<1>7. TypeOK'
  BY <1>1, <1>5, <1>6, TypeFacts
<1> QED BY <1>6, <1>7, NotWalking DEF TypeInv

LEMMA RmTypes ==
  ASSUME TypeInv, NEW o \in Oid, NEW recursive \in BOOLEAN, Rm(o, recursive)
  PROVE  TypeInv'
<1>1. TypeOK /\ Start("rm") /\ source' = source /\ frames' = frames /\ obj \in Phone /\ obj[o] # None
  BY TypeFacts DEF TypeInv, Rm
<1>2. PICK S \in SUBSET Subtree(o) :
        /\ obj' = Without(S)
        /\ cmd' = [Fresh("rm") EXCEPT !.target = o, !.from = obj[o], !.ok = (S = Subtree(o))]
  BY DEF Rm
<1>3. obj' \in Phone /\ obj[o] \in Object
  BY <1>1, <1>2, WithoutTypes DEF Phone
<1>4. PICK done \in BOOLEAN : done = (S = Subtree(o))
  OBVIOUS
<1>5. cmd' = [Fresh("rm") EXCEPT !.target = o, !.from = obj[o], !.ok = done]
  BY <1>2, <1>4
<1>6. cmd' \in Locals /\ cmd'.pc = "done"
  BY <1>1, <1>3, <1>5, FreshOK DEF Locals
<1>7. TypeOK'
  BY <1>1, <1>3, <1>6, TypeFacts
<1> QED BY <1>6, <1>7, NotWalking DEF TypeInv

LEMMA MvTypes ==
  ASSUME TypeInv, NEW o \in Oid, NEW d \in DirId, NEW n \in Names, NEW bare \in BOOLEAN,
         Mv(o, d, n, bare)
  PROVE  TypeInv'
<1>1. TypeOK /\ Start("mv") /\ UNCHANGED <<obj, source, frames>> /\ obj \in Phone /\ obj[o] # None
  BY TypeFacts DEF TypeInv, Mv
<1>2. obj[o] \in Object
  BY <1>1 DEF Phone
<1> DEFINE k == [Fresh("mv") EXCEPT !.target = o, !.from = obj[o]]
<1>3. k \in Locals /\ k.pc = "done" /\ k.op = "mv" /\ k.target = o /\ k.from = obj[o]
  BY <1>1, <1>2, FreshOK DEF Locals
<1>4. \/ \E t \in At(d, n) : cmd' = [k EXCEPT !.pc = "move", !.dir = t, !.name = obj[o].name]
      \/ cmd' = [k EXCEPT !.dir = d, !.name = n,
                          !.pc = IF ~IsSameParent(o, d) THEN "move"
                                 ELSE IF obj[o].name # n THEN "rename" ELSE "done"]
  BY DEF Mv
<1> HIDE DEF k
<1>5. ASSUME NEW t \in At(d, n), cmd' = [k EXCEPT !.pc = "move", !.dir = t, !.name = obj[o].name]
      PROVE  TypeInv'
  <2>1. t \in DirId /\ obj[o].name \in Names
    BY <1>2 DEF At, Oid, DirId, Object
  <2>2. cmd' \in Locals /\ cmd'.pc = "move" /\ cmd'.op = "mv" /\ cmd'.target = o /\ cmd'.from = obj[o]
    BY <1>3, <1>5, <2>1 DEF Locals
  <2>3. TypeOK'
    BY <1>1, <2>2, TypeFacts
  <2> QED BY <1>1, <1>2, <2>2, <2>3, NotWalking DEF TypeInv, Knows
<1>6. ASSUME NEW pc \in {"move", "rename", "done"}, pc = "rename" => IsSameParent(o, d),
             cmd' = [k EXCEPT !.dir = d, !.name = n, !.pc = pc]
      PROVE  TypeInv'
  <2>1. cmd' \in Locals /\ cmd'.pc = pc /\ cmd'.op = "mv" /\ cmd'.target = o /\ cmd'.from = obj[o]
        /\ cmd'.dir = d
    BY <1>3, <1>6 DEF Locals
  <2>2. TypeOK'
    BY <1>1, <2>1, TypeFacts
  <2>3. pc = "rename" => <<o[1], obj[o].parent>> = d
    BY <1>6 DEF IsSameParent, DirId
  <2> QED BY <1>1, <1>2, <1>6, <2>1, <2>2, <2>3, NotWalking DEF TypeInv, Knows
<1> QED BY <1>4, <1>5, <1>6

\* A field of an object is set.
LEMMA FieldTypes ==
  ASSUME obj \in Phone, NEW o \in Oid, obj[o] # None
  PROVE  /\ \A h \in Handle \cup {Root} :
              /\ [obj EXCEPT ![o].parent = h] \in Phone
              /\ [obj EXCEPT ![o].parent = h][o] = [obj[o] EXCEPT !.parent = h]
         /\ \A n \in Names :
              /\ [obj EXCEPT ![o].name = n] \in Phone
              /\ [obj EXCEPT ![o].name = n][o] = [obj[o] EXCEPT !.name = n]
<1>1. obj[o] \in Object
  BY DEF Phone
<1>2. ASSUME NEW h \in Handle \cup {Root}
      PROVE  /\ [obj EXCEPT ![o].parent = h] \in Phone
             /\ [obj EXCEPT ![o].parent = h][o] = [obj[o] EXCEPT !.parent = h]
  <2>1. [obj[o] EXCEPT !.parent = h] \in Object
    BY <1>1 DEF Object
  <2> QED BY <2>1 DEF Phone
<1>3. ASSUME NEW n \in Names
      PROVE  /\ [obj EXCEPT ![o].name = n] \in Phone
             /\ [obj EXCEPT ![o].name = n][o] = [obj[o] EXCEPT !.name = n]
  <2>1. [obj[o] EXCEPT !.name = n] \in Object
    BY <1>1 DEF Object
  <2> QED BY <2>1 DEF Phone
<1> QED BY <1>2, <1>3

LEMMA MvMoveTypes ==
  ASSUME TypeInv, MvMove
  PROVE  TypeInv'
<1>1. TypeOK /\ cmd.pc = "move" /\ cmd \in Locals /\ source' = source /\ source \in Sources
  BY TypeFacts DEF TypeInv, MvMove
<1>2. /\ obj \in Phone /\ cmd.op = "mv" /\ cmd.target \in Oid /\ cmd.from \in Object
      /\ obj[cmd.target] # None /\ obj[cmd.target] = cmd.from
  BY <1>1, TypeFacts DEF TypeInv, Knows
<1>3. CASE End(FALSE) /\ UNCHANGED obj
  BY <1>1, <1>2, <1>3, EndOK
<1>4. ASSUME MayMove(cmd.target, cmd.dir), obj' = [obj EXCEPT ![cmd.target].parent = cmd.dir[2]],
             End(TRUE) \/ End(FALSE) \/ Goto("rename")
      PROVE  TypeInv'
  <2> DEFINE o == cmd.target
  <2>1. cmd.dir \in DirId /\ cmd.dir[2] \in Handle \cup {Root} /\ cmd.dir = <<cmd.dir[1], cmd.dir[2]>>
    BY <1>1 DEF Locals, DirId
  <2>2. obj' \in Phone /\ obj'[o] = [obj[o] EXCEPT !.parent = cmd.dir[2]]
    BY <1>2, <1>4, <2>1, FieldTypes
  <2>3. obj'[o] \in Object /\ obj'[o].parent = cmd.dir[2] /\ obj'[o].name = cmd.from.name
    BY <1>2, <2>1, <2>2 DEF Object
  <2>4. CASE End(TRUE) \/ End(FALSE)
    BY <2>4, <1>1, <2>2, EndOK
  <2>5. CASE Goto("rename")
    <3>1. cmd' = [cmd EXCEPT !.pc = "rename"] /\ frames' = frames
      BY <2>5 DEF Goto
    <3>2. /\ cmd' \in Locals /\ cmd'.pc = "rename" /\ cmd'.op = "mv" /\ cmd'.target = o
          /\ cmd'.from = cmd.from /\ cmd'.dir = cmd.dir
      BY <3>1, <1>1, <1>2 DEF Locals
    <3>3. TypeOK'
      BY <3>1, <3>2, <2>2, <1>1, TypeFacts
    <3>4. o[1] = cmd.dir[1]
      BY <1>4 DEF MayMove
    <3>5. <<o[1], obj'[o].parent>> = cmd.dir
      BY <3>4, <2>1, <2>3
    <3>6. obj'[o] # None
      BY <2>3, CommandsConstants
    <3>7. Knows(cmd', obj')
      BY <3>2, <3>5, <3>6, <2>3, <1>2 DEF Knows
    <3> QED BY <3>2, <3>3, <3>7, NotWalking DEF TypeInv
  <2> QED BY <2>4, <2>5, <1>4
<1> QED BY <1>3, <1>4 DEF MvMove

LEMMA MvRenameTypes ==
  ASSUME TypeInv, MvRename
  PROVE  TypeInv'
<1>1. TypeOK /\ cmd.pc = "rename" /\ cmd \in Locals /\ source' = source /\ source \in Sources /\ obj \in Phone
  BY TypeFacts DEF TypeInv, MvRename
<1>2. PICK ok \in BOOLEAN : End(ok)
  BY DEF MvRename
<1>3. CASE UNCHANGED obj
  BY <1>1, <1>2, <1>3, EndOK
<1>4. ASSUME NEW o \in At(Parent(cmd.target), cmd.from.name), obj' = [obj EXCEPT ![o].name = cmd.name]
      PROVE  TypeInv'
  <2>1. o \in Oid /\ obj[o] # None /\ cmd.name \in Names
    BY <1>1 DEF At, Locals
  <2>2. obj' \in Phone
    BY <1>1, <1>4, <2>1, FieldTypes
  <2> QED BY <1>1, <1>2, <2>2, EndOK
<1> QED BY <1>3, <1>4 DEF MvRename

LEMMA KillTypes ==
  ASSUME TypeInv, Kill
  PROVE  TypeInv'
<1>1. TypeOK /\ cmd \in Locals /\ source' = source /\ source \in Sources /\ obj \in Phone /\ End(FALSE)
  BY TypeFacts DEF TypeInv, Kill
<1>2. CASE UNCHANGED obj
  BY <1>1, <1>2, EndOK
<1>3. ASSUME CanStore(cmd.dir, cmd.name), NEW k \in 0..cmd.size,
             obj' = Stored(cmd.dir, cmd.name, FALSE, k)
      PROVE  TypeInv'
  <2>1. cmd.dir \in DirId /\ cmd.name \in Names /\ cmd.size \in Size
    BY <1>1 DEF Locals
  <2>2. k \in Size
    BY <2>1, CommandsConstants DEF Size
  <2>3. obj' \in Phone
    BY <1>1, <1>3, <2>1, <2>2, StoredThere
  <2> QED BY <1>1, <2>3, EndOK
<1> QED BY <1>2, <1>3 DEF Kill

LEMMA EditTypes ==
  ASSUME TypeInv, NEW f \in Files, NEW s \in Size \cup {None}, Edit(f, s)
  PROVE  TypeInv'
<1>1. /\ TypeOK /\ cmd \in Locals /\ obj' = obj /\ frames' = frames
      /\ source \in Sources /\ source' = [source EXCEPT ![f] = s]
  BY TypeFacts DEF TypeInv, Edit
<1>2. source' \in Sources
  BY <1>1 DEF Sources
<1>3. CASE cmd' = cmd
  <2>1. TypeOK'
    BY <1>1, <1>2, <1>3, TypeFacts
  <2>2. Knows(cmd', obj') /\ Walks(cmd', obj', frames')
    BY <1>1, <1>3 DEF TypeInv
  <2> QED BY <2>1, <2>2 DEF TypeInv
<1>4. ASSUME s # None, cmd.pc \in {"remove", "upload"}, cmd' = [cmd EXCEPT !.held = s]
      PROVE  TypeInv'
  <2>1. /\ cmd' \in Locals /\ cmd'.held = s /\ cmd'.pc = cmd.pc /\ cmd'.op = cmd.op
        /\ cmd'.name = cmd.name /\ cmd'.force = cmd.force
    BY <1>1, <1>4 DEF Locals
  <2>2. TypeOK'
    BY <1>1, <1>2, <2>1, TypeFacts
  <2>3. Knows(cmd, obj)
    BY DEF TypeInv
  <2>4. Knows(cmd', obj')
    BY <2>1, <2>3, <1>1, <1>4 DEF Knows
  <2> QED BY <2>1, <2>2, <2>4, <1>4, NotWalking DEF TypeInv
<1> QED BY <1>3, <1>4 DEF Edit

(* The walk. *)

LEMMA PushTreeTypes ==
  ASSUME TypeInv, NEW d \in DirId, PushTree(d)
  PROVE  TypeInv'
<1>1. TypeOK /\ Start("pushtree") /\ source' = source /\ source \in Sources /\ obj \in Phone
  BY TypeFacts DEF TypeInv, PushTree
<1> DEFINE k == [Fresh("pushtree") EXCEPT !.dir = d, !.name = TreeName]
<1>2. k \in Locals /\ k.pc = "done" /\ k.op = "pushtree" /\ k.dir = d /\ k.skipped = 0
  <2>1. TreeName \in Names
    BY CommandsConstants
  <2>2. PICK c \in Locals : c = Fresh("pushtree") /\ c.pc = "done" /\ c.op = "pushtree" /\ c.skipped = 0
    BY <1>1, FreshOK
  <2>3. k = [c EXCEPT !.dir = d, !.name = TreeName]
    BY <2>2
  <2> HIDE DEF k
  <2> QED BY <2>1, <2>2, <2>3 DEF Locals
<1>3. \/ MkdirFails(d, TreeName) /\ cmd' = [k EXCEPT !.ok = FALSE] /\ UNCHANGED frames
      \/ \E o \in Oid : /\ MkdirAll(d, TreeName, o)
                        /\ cmd' = [k EXCEPT !.pc = "tree"] /\ frames' = <<NewFrame(o, <<>>)>>
  BY DEF PushTree
<1> HIDE DEF k
<1>4. CASE MkdirFails(d, TreeName) /\ cmd' = [k EXCEPT !.ok = FALSE] /\ UNCHANGED frames
  <2>1. cmd' \in Locals /\ cmd'.pc = "done" /\ obj' = obj
    BY <1>2, <1>4 DEF Locals, MkdirFails
  <2>2. TypeOK'
    BY <1>1, <1>4, <2>1, TypeFacts
  <2> QED BY <2>1, <2>2, NotWalking DEF TypeInv
<1>5. ASSUME NEW o \in Oid, MkdirAll(d, TreeName, o), cmd' = [k EXCEPT !.pc = "tree"],
             frames' = <<NewFrame(o, <<>>)>>
      PROVE  TypeInv'
  <2>1. cmd' \in Locals /\ cmd'.pc = "tree" /\ cmd'.op = "pushtree" /\ cmd'.dir = d /\ cmd'.skipped = 0
    BY <1>2, <1>5 DEF Locals
  <2>2. obj' \in Phone /\ o \in Found(obj', d, TreeName) /\ o \in DirId
    BY <1>1, <1>5, MkdirDoes, CommandsConstants DEF Oid, DirId
  <2>3. /\ Shape(frames') /\ Len(frames') = 1 /\ frames'[1].at = <<>> /\ frames'[1].dir = o
        /\ Pending(frames') = TreePath
    BY <1>5, <2>2, Starts
  <2>4. frames' \in Seq(Frame) /\ Len(frames') <= MaxTreeDepth + 1
    BY <2>3, CommandsConstants DEF Shape
  <2>5. TypeOK'
    BY <1>1, <2>1, <2>2, <2>4, TypeFacts
  <2>6. o \in Reached(obj', d, <<>>)
    BY <2>2, ReachesTop
  <2>7. Packed \ Pending(frames') = {}
    BY <2>3 DEF Packed
  <2>8. Walks(cmd', obj', frames')
    BY <2>1, <2>3, <2>6, <2>7, LinkCount DEF Walks
  <2>9. Knows(cmd', obj')
    BY <2>1 DEF Knows
  <2> QED BY <2>5, <2>8, <2>9 DEF TypeInv
<1> QED BY <1>3, <1>4, <1>5

\* A step of the walk does not change the rest of the command, and finds the
\* phone as it was, or grown.
LEMMA EntryFacts ==
  ASSUME TypeInv, NEW p, NEW kind, Entry(p, kind)
  PROVE  /\ TypeOK /\ cmd.pc = "tree" /\ cmd.op = "pushtree" /\ cmd \in Locals /\ obj \in Phone
         /\ source \in Sources /\ Len(frames) <= MaxTreeDepth + 1
         /\ Shape(frames) /\ p \in frames[Len(frames)].left /\ p \in TreePath /\ LocalTree[p] = kind
         /\ p \in Below(Top.at) /\ Top = frames[Len(frames)]
         /\ Top.at \in Seq(Names) /\ Top.dir \in DirId /\ Leaf(p) \in Names
         /\ Top.dir \in Reached(obj, cmd.dir, Top.at)
         /\ Done(p) = Struck(frames, p)
<1>1. /\ TypeOK /\ cmd.pc = "tree" /\ cmd.op = "pushtree" /\ cmd \in Locals /\ obj \in Phone
      /\ source \in Sources /\ Len(frames) <= MaxTreeDepth + 1
  BY TypeFacts DEF TypeInv, Entry, Knows
<1>2. Shape(frames) /\ \A i \in 1..Len(frames) : frames[i].dir \in Reached(obj, cmd.dir, frames[i].at)
  BY <1>1 DEF TypeInv, Walks
<1>3. p \in frames[Len(frames)].left /\ LocalTree[p] = kind /\ Top = frames[Len(frames)]
  BY DEF Entry, Top
<1>4. /\ Len(frames) \in 1..Len(frames)
      /\ p \in TreePath /\ Top.at \in Seq(Names) /\ Top.dir \in DirId
  BY <1>2, <1>3, ShapeFacts
<1>5. p \in Below(Top.at)
  BY <1>2, <1>3, <1>4 DEF Shape
<1>6. Leaf(p) \in Names
  BY <1>4, PathFacts, LenProperties DEF Leaf
<1>7. Done(p) = Struck(frames, p)
  BY DEF Done, Struck
<1> QED BY <1>1, <1>2, <1>3, <1>4, <1>5, <1>6, <1>7

LEMMA ReachedThere ==
  ASSUME NEW ob, NEW d, NEW p \in Seq(Names), NEW o \in Reached(ob, d, p)
  PROVE  ob[o] # None
<1>1. Len(p) \in Nat
  BY LenProperties
<1>2. PICK way \in [0..Len(p) -> Oid] :
        /\ way[0] \in Found(ob, d, TreeName) /\ way[Len(p)] = o
        /\ \A i \in 1..Len(p) : way[i] \in Found(ob, way[i - 1], p[i])
  BY DEF Reached
<1>3. CASE Len(p) = 0
  BY <1>2, <1>3 DEF Found
<1>4. CASE Len(p) # 0
  <2>1. Len(p) \in 1..Len(p)
    BY <1>1, <1>4
  <2> QED BY <1>2, <2>1 DEF Found
<1> QED BY <1>3, <1>4

\* The walk goes on over p: an entry that is no link is now on the phone.
LEMMA WalkGoesOn ==
  ASSUME NEW k, NEW k2, NEW ob, NEW after, NEW fs, NEW gs, NEW p \in TreePath,
         Walks(k, ob, fs), k.pc = "tree", k2.dir = k.dir, Grows(ob, after), Shape(gs),
         k2.skipped = Cardinality(Links \ Pending(gs)),
         \A i \in 1..Len(gs) : gs[i].dir \in Reached(after, k.dir, gs[i].at),
         Pending(gs) = Pending(fs) \ {p},
         LocalTree[p] # "link" =>
           \E o \in Reached(after, k.dir, p) : after[o].isdir = (LocalTree[p] = "dir")
  PROVE  Walks(k2, after, gs)
<1> SUFFICES ASSUME NEW q \in Packed \ Pending(gs)
             PROVE  \E o \in Reached(after, k.dir, q) : after[o].isdir = (LocalTree[q] = "dir")
  BY DEF Walks
<1>1. CASE q = p
  BY <1>1 DEF Packed
<1>2. CASE q # p
  <2>1. q \in Packed \ Pending(fs) /\ q \in Seq(Names)
    BY <1>2, PathFacts DEF Packed
  <2>2. \E o \in Reached(ob, k.dir, q) : ob[o].isdir = (LocalTree[q] = "dir")
    BY <2>1 DEF Walks
  <2>3. \A o \in Reached(ob, k.dir, q) : ob[o] # None
    BY <2>1, ReachedThere
  <2>4. PICK o \in Reached(ob, k.dir, q) : ob[o].isdir = (LocalTree[q] = "dir")
    BY <2>2
  <2>5. o \in Reached(after, k.dir, q)
    BY ReachedStays
  <2>6. after[o] = ob[o]
    BY <2>3 DEF Grows, Reached
  <2> QED BY <2>4, <2>5, <2>6
<1> QED BY <1>1, <1>2

LEMMA TreeLinkTypes ==
  ASSUME TypeInv, NEW p \in TreePath, TreeLink(p)
  PROVE  TypeInv'
<1>1. Entry(p, "link") /\ frames' = Done(p) /\ cmd' = [cmd EXCEPT !.skipped = @ + 1]
      /\ obj' = obj /\ source' = source
  BY DEF TreeLink
<1>2. /\ TypeOK /\ cmd.pc = "tree" /\ cmd.op = "pushtree" /\ cmd \in Locals
      /\ Shape(frames) /\ p \in frames[Len(frames)].left /\ LocalTree[p] = "link"
      /\ frames' = Struck(frames, p)
  BY <1>1, EntryFacts
<1>3. /\ Shape(frames') /\ Len(frames') = Len(frames)
      /\ \A i \in 1..Len(frames) : frames'[i].at = frames[i].at /\ frames'[i].dir = frames[i].dir
      /\ p \in Pending(frames) /\ Pending(frames') = Pending(frames) \ {p}
  BY <1>2, LeafDone
<1>4. Walks(cmd, obj, frames)
  BY DEF TypeInv
<1>5. cmd.skipped = Cardinality(Links \ Pending(frames))
  BY <1>2, <1>4 DEF Walks
<1>6. p \in Links
  BY <1>2 DEF Links, Packed
<1>7. /\ Cardinality(Links \ Pending(frames')) = Cardinality(Links \ Pending(frames)) + 1
      /\ Cardinality(Links \ Pending(frames')) \in 0..Cardinality(TreePath \ Packed)
  BY <1>3, <1>6, CountOne DEF Links
<1>8. /\ cmd' \in Locals /\ cmd'.pc = "tree" /\ cmd'.op = "pushtree" /\ cmd'.dir = cmd.dir
      /\ cmd'.skipped = Cardinality(Links \ Pending(frames'))
  BY <1>1, <1>2, <1>5, <1>7 DEF Locals
<1>9. TypeOK'
  BY <1>1, <1>2, <1>3, <1>8, TypeFacts DEF Shape
<1>10. \A i \in 1..Len(frames') : frames'[i].dir \in Reached(obj', cmd.dir, frames'[i].at)
  BY <1>1, <1>2, <1>3, <1>4 DEF Walks
<1>11. Grows(obj, obj')
  BY <1>1 DEF Grows
<1>12. Walks(cmd', obj', frames')
  BY <1>2, <1>3, <1>4, <1>8, <1>10, <1>11, WalkGoesOn
<1>13. Knows(cmd', obj')
  BY <1>8 DEF Knows
<1> QED BY <1>9, <1>12, <1>13 DEF TypeInv

LEMMA TreeUpTypes ==
  ASSUME TypeInv, TreeUp
  PROVE  TypeInv'
<1>1. /\ TypeOK /\ cmd.pc = "tree" /\ cmd \in Locals /\ obj' = obj /\ source' = source
      /\ obj \in Phone /\ source \in Sources /\ Len(frames) <= MaxTreeDepth + 1
      /\ frames[Len(frames)].left = {} /\ Walks(cmd, obj, frames) /\ Knows(cmd, obj)
  BY TypeFacts DEF TypeInv, TreeUp, Top
<1>2. CASE End(TRUE)
  BY <1>1, <1>2, EndOK
<1>3. CASE Len(frames) # 1 /\ frames' = SubSeq(frames, 1, Len(frames) - 1) /\ UNCHANGED cmd
  <2>1. Shape(frames)
    BY <1>1 DEF Walks
  <2>2. /\ Shape(frames') /\ Len(frames') = Len(frames) - 1
        /\ \A i \in 1..Len(frames') : frames'[i] = frames[i]
        /\ Pending(frames') = Pending(frames)
    <3>1. frames' = Popped(frames)
      BY <1>3 DEF Popped
    <3> QED BY <1>1, <1>3, <2>1, <3>1, Returns
  <2>3. Len(frames) \in Nat
    BY <2>1, ShapeFacts
  <2>4. Len(frames') <= MaxTreeDepth + 1
    BY <1>1, <2>2, <2>3, CommandsConstants
  <2>5. TypeOK'
    BY <1>1, <1>3, <2>2, <2>4, TypeFacts DEF Shape
  <2>6. \A i \in 1..Len(frames') : frames'[i].dir \in Reached(obj', cmd'.dir, frames'[i].at)
    <3> SUFFICES ASSUME NEW i \in 1..Len(frames')
                 PROVE  frames[i].dir \in Reached(obj, cmd.dir, frames[i].at)
      BY <1>1, <1>3, <2>2
    <3>1. i \in 1..Len(frames)
      BY <2>2, <2>3
    <3> QED BY <3>1, <1>1 DEF Walks
  <2>7. Walks(cmd', obj', frames')
    BY <1>1, <1>3, <2>2, <2>6 DEF Walks
  <2> QED BY <1>1, <1>3, <2>5, <2>7 DEF TypeInv
<1> QED BY <1>2, <1>3 DEF TreeUp

LEMMA TreeFileTypes ==
  ASSUME TypeInv, NEW p \in TreePath, TreeFile(p)
  PROVE  TypeInv'
<1>1. /\ TypeOK /\ cmd.pc = "tree" /\ cmd.op = "pushtree" /\ cmd \in Locals /\ obj \in Phone
      /\ source \in Sources /\ source' = source /\ Len(frames) <= MaxTreeDepth + 1
      /\ Shape(frames) /\ p \in frames[Len(frames)].left /\ LocalTree[p] = "file"
      /\ p \in Below(Top.at) /\ Top.at \in Seq(Names) /\ Top.dir \in DirId /\ Leaf(p) \in Names
      /\ Top.dir \in Reached(obj, cmd.dir, Top.at) /\ Done(p) = Struck(frames, p)
  BY EntryFacts DEF TreeFile
<1>2. PICK ok \in BOOLEAN :
        /\ Upload(Top.dir, Leaf(p), 1, 1, ok)
        /\ IF ok THEN frames' = Done(p) /\ UNCHANGED cmd ELSE End(FALSE)
  BY DEF TreeFile
<1>3. /\ obj' \in Phone /\ Grows(obj, obj')
      /\ ok => \E o \in Found(obj', Top.dir, Leaf(p)) : ~obj'[o].isdir
  BY <1>1, <1>2, UploadDoes, SizeFacts
<1>4. CASE ~ok
  BY <1>1, <1>2, <1>3, <1>4, EndOK
<1>5. CASE ok
  <2>1. frames' = Struck(frames, p) /\ cmd' = cmd
    BY <1>1, <1>2, <1>5
  <2>2. /\ Shape(frames') /\ Len(frames') = Len(frames)
        /\ \A i \in 1..Len(frames) : frames'[i].at = frames[i].at /\ frames'[i].dir = frames[i].dir
        /\ p \in Pending(frames) /\ Pending(frames') = Pending(frames) \ {p}
    BY <1>1, <2>1, LeafDone
  <2>3. Walks(cmd, obj, frames) /\ Knows(cmd, obj)
    BY DEF TypeInv
  <2>4. Links \ Pending(frames') = Links \ Pending(frames)
    BY <1>1, <2>2 DEF Links, Packed
  <2>5. cmd'.skipped = Cardinality(Links \ Pending(frames'))
    BY <1>1, <2>1, <2>3, <2>4 DEF Walks
  <2>6. \A i \in 1..Len(frames') : frames'[i].dir \in Reached(obj', cmd.dir, frames'[i].at)
    BY <1>1, <1>3, <2>2, <2>3, ReachedStays DEF Walks
  <2>7. \E o \in Reached(obj', cmd.dir, p) : obj'[o].isdir = (LocalTree[p] = "dir")
    <3>1. PICK o \in Found(obj', Top.dir, Leaf(p)) : ~obj'[o].isdir
      BY <1>3, <1>5
    <3>2. Top.dir \in Reached(obj', cmd.dir, Top.at)
      BY <1>1, <1>3, ReachedStays
    <3>3. o \in Reached(obj', cmd.dir, p)
      BY <3>1, <3>2, <1>1, ReachesBelow
    <3>4. obj'[o].isdir \in BOOLEAN
      BY <3>1, <1>3 DEF Found, Phone, Object
    <3> QED BY <3>1, <3>3, <3>4, <1>1
  <2>8. Walks(cmd', obj', frames')
    BY <1>1, <1>3, <2>1, <2>2, <2>3, <2>5, <2>6, <2>7, WalkGoesOn
  <2>9. TypeOK'
    BY <1>1, <1>3, <2>1, <2>2, TypeFacts DEF Shape
  <2>10. Knows(cmd', obj')
    BY <1>1, <2>1 DEF Knows
  <2> QED BY <2>8, <2>9, <2>10 DEF TypeInv
<1> QED BY <1>4, <1>5

LEMMA TreeDirTypes ==
  ASSUME TypeInv, NEW p \in TreePath, TreeDir(p)
  PROVE  TypeInv'
<1>1. /\ TypeOK /\ cmd.pc = "tree" /\ cmd.op = "pushtree" /\ cmd \in Locals /\ obj \in Phone
      /\ source \in Sources /\ source' = source /\ Len(frames) <= MaxTreeDepth + 1
      /\ Shape(frames) /\ p \in frames[Len(frames)].left /\ LocalTree[p] = "dir"
      /\ p \in Below(Top.at) /\ Top.at \in Seq(Names) /\ Top.dir \in DirId /\ Leaf(p) \in Names
      /\ Top.dir \in Reached(obj, cmd.dir, Top.at) /\ Done(p) = Struck(frames, p)
      /\ Top = frames[Len(frames)]
  BY EntryFacts DEF TreeDir
<1>2. CASE MkdirFails(Top.dir, Leaf(p)) /\ End(FALSE)
  BY <1>1, <1>2, EndOK DEF MkdirFails
<1>3. ASSUME NEW o \in Oid, MkdirAll(Top.dir, Leaf(p), o)
      PROVE  /\ obj' \in Phone /\ Grows(obj, obj')
             /\ o \in Found(obj', Top.dir, Leaf(p)) /\ obj'[o].isdir
  BY <1>1, <1>3, MkdirDoes
<1>4. ASSUME NEW o \in Oid, MkdirAll(Top.dir, Leaf(p), o), End(FALSE)
      PROVE  TypeInv'
  BY <1>1, <1>3, <1>4, EndOK
<1>5. ASSUME NEW o \in Oid, MkdirAll(Top.dir, Leaf(p), o), ~(Len(frames) > MaxTreeDepth),
             frames' = Append(Done(p), NewFrame(o, p)), UNCHANGED cmd
      PROVE  TypeInv'
  <2>1. PICK gs : gs = Struck(frames, p)
    OBVIOUS
  <2>2. /\ Shape(gs) /\ Len(gs) = Len(frames)
        /\ \A i \in 1..Len(frames) : gs[i].at = frames[i].at /\ gs[i].dir = frames[i].dir
        /\ Pending(gs) = Pending(frames) \ {q \in TreePath : Under(q, p)}
        /\ p \in Pending(frames)
    BY <1>1, <2>1, Leaves
  <2>3. Len(frames) \in Nat /\ Len(frames) \in 1..Len(frames) /\ p \in Seq(Names) /\ o \in DirId
    BY <1>1, ShapeFacts, PathFacts DEF Oid, DirId
  <2>4. p \in Below(gs[Len(gs)].at)
    BY <1>1, <2>2, <2>3
  <2>5. p \notin Pending(gs)
    BY <2>2, <2>3, UnderTransitive
  <2>6. frames' = Entered(gs, o, p)
    BY <1>1, <1>5, <2>1 DEF Entered
  <2>7. /\ Shape(frames') /\ Len(frames') = Len(gs) + 1
        /\ \A i \in 1..Len(gs) : frames'[i] = gs[i]
        /\ frames'[Len(frames')].at = p /\ frames'[Len(frames')].dir = o
        /\ Pending(frames') = Pending(gs) \cup {q \in TreePath : Under(q, p) /\ q # p}
    BY <2>2, <2>3, <2>4, <2>5, <2>6, Enters
  <2>8. Pending(frames') = Pending(frames) \ {p}
    <3>1. ASSUME NEW q \in TreePath, Under(q, p) PROVE q \in Pending(frames)
      <4>1. PICK n : n \in 1..Len(frames) /\ n = Len(frames)
        BY <2>3
      <4>2. p \in frames[n].left
        BY <4>1, <1>1
      <4> QED BY <3>1, <4>1, <4>2 DEF Pending
    <3> QED BY <3>1, <2>2, <2>3, <2>7, UnderTransitive
  <2>9. Walks(cmd, obj, frames) /\ Knows(cmd, obj)
    BY DEF TypeInv
  <2>10. Links \ Pending(frames') = Links \ Pending(frames)
    BY <1>1, <2>8 DEF Links, Packed
  <2>11. cmd'.skipped = Cardinality(Links \ Pending(frames'))
    BY <1>1, <1>5, <2>9, <2>10 DEF Walks
  <2>12. obj' \in Phone /\ Grows(obj, obj') /\ o \in Found(obj', Top.dir, Leaf(p)) /\ obj'[o].isdir
    BY <1>3, <1>5
  <2>13. o \in Reached(obj', cmd.dir, p)
    <3>1. Top.dir \in Reached(obj', cmd.dir, Top.at)
      BY <1>1, <2>12, ReachedStays
    <3> QED BY <3>1, <2>12, <1>1, ReachesBelow
  <2>14. ASSUME NEW i \in 1..Len(frames')
         PROVE  frames'[i].dir \in Reached(obj', cmd.dir, frames'[i].at)
    <3>1. CASE i = Len(frames')
      BY <3>1, <2>7, <2>13
    <3>2. CASE i # Len(frames')
      <4>1. i \in 1..Len(frames)
        BY <3>2, <2>2, <2>3, <2>7
      <4>2. frames'[i].dir = frames[i].dir /\ frames'[i].at = frames[i].at
        BY <4>1, <2>2, <2>7
      <4>3. frames[i].dir \in Reached(obj, cmd.dir, frames[i].at)
        BY <4>1, <1>1, <2>9 DEF Walks
      <4> QED BY <4>2, <4>3, <2>12, ReachedStays
    <3> QED BY <3>1, <3>2
  <2>15. \E x \in Reached(obj', cmd.dir, p) : obj'[x].isdir = (LocalTree[p] = "dir")
    <3>1. obj'[o].isdir \in BOOLEAN
      BY <2>12 DEF Found, Phone, Object
    <3> QED BY <3>1, <2>12, <2>13, <1>1
  <2>16. Walks(cmd', obj', frames')
    <3>1. \A i \in 1..Len(frames') : frames'[i].dir \in Reached(obj', cmd.dir, frames'[i].at)
      BY <2>14
    <3>2. cmd'.dir = cmd.dir
      BY <1>5
    <3>3. Walks(cmd, obj, frames) /\ cmd.pc = "tree" /\ Grows(obj, obj') /\ Shape(frames')
      BY <1>1, <2>7, <2>9, <2>12
    <3> QED BY <2>8, <2>11, <2>15, <3>1, <3>2, <3>3, WalkGoesOn
  <2>17. Len(frames') <= MaxTreeDepth + 1
    BY <1>1, <1>5, <2>2, <2>3, <2>7, CommandsConstants
  <2>18. TypeOK'
    BY <1>1, <1>5, <2>7, <2>12, <2>17, TypeFacts DEF Shape
  <2>19. Knows(cmd', obj')
    BY <1>1, <1>5 DEF Knows
  <2> QED BY <2>16, <2>18, <2>19 DEF TypeInv
<1>6. \/ MkdirFails(Top.dir, Leaf(p)) /\ End(FALSE)
      \/ \E o \in Oid :
           /\ MkdirAll(Top.dir, Leaf(p), o)
           /\ IF Len(frames) > MaxTreeDepth THEN End(FALSE)
              ELSE frames' = Append(Done(p), NewFrame(o, p)) /\ UNCHANGED cmd
  BY DEF TreeDir
<1> QED BY <1>2, <1>4, <1>5, <1>6

LEMMA TypeStep == TypeInv /\ [Next]_vars => TypeInv'
<1> SUFFICES ASSUME TypeInv, [Next]_vars PROVE TypeInv'
  OBVIOUS
<1>1. CASE UNCHANGED vars
  <2>1. TypeOK' /\ Knows(cmd', obj') /\ Walks(cmd', obj', frames')
    BY <1>1, TypeFacts DEF TypeInv, vars
  <2> QED BY <2>1 DEF TypeInv
<1>2. CASE Next
  <2>1. ASSUME NEW d \in DirId, PushTree(d) \/ Pack(d) PROVE TypeInv'
    BY <2>1, PushTreeTypes, PackTypes
  <2>2. ASSUME NEW d \in DirId, NEW force \in BOOLEAN, NEW f \in Files, Push(f, d, force) PROVE TypeInv'
    BY <2>2, PushTypes
  <2>3. ASSUME NEW d \in DirId, NEW n \in Names, Mkdir(d, n) PROVE TypeInv'
    BY <2>3, MkdirTypes
  <2>4. ASSUME NEW o \in Oid, NEW recursive \in BOOLEAN, Rm(o, recursive) PROVE TypeInv'
    BY <2>4, RmTypes
  <2>5. ASSUME NEW o \in Oid, NEW d \in DirId, NEW n \in Names, NEW bare \in BOOLEAN,
               Mv(o, d, n, bare)
        PROVE  TypeInv'
    BY <2>5, MvTypes
  <2>6. CASE PushOpen \/ PushRemove \/ PushUpload \/ PackUpload
    BY <2>6, PushOpenTypes, PushRemoveTypes, UploadTypes
  <2>7. CASE TreeUp \/ MvMove \/ MvRename \/ Kill
    BY <2>7, TreeUpTypes, MvMoveTypes, MvRenameTypes, KillTypes
  <2>8. ASSUME NEW p \in TreePath, TreeLink(p) \/ TreeFile(p) \/ TreeDir(p) PROVE TypeInv'
    BY <2>8, TreeLinkTypes, TreeFileTypes, TreeDirTypes
  <2>9. ASSUME NEW f \in Files, NEW s \in Size \cup {None}, Edit(f, s) PROVE TypeInv'
    BY <2>9, EditTypes
  <2> QED BY <1>2, <2>1, <2>2, <2>3, <2>4, <2>5, <2>6, <2>7, <2>8, <2>9 DEF Next
<1> QED BY <1>1, <1>2

\* Every variable keeps its type: in particular no more entries are counted as
\* skipped than there are links, and no directory is entered beyond the depth
\* limit.
THEOREM CommandTypes == Spec => []TypeOK
<1>1. TypeInv => TypeOK
  BY DEF TypeInv
<1> QED BY <1>1, TypeInit, TypeStep, PTL DEF Spec

-----------------------------------------------------------------------------
(* What is reported. *)

\* The steps a command may end with.
LEMMA HowEnds ==
  ASSUME TypeInv, Next, cmd'.pc = "done"
  PROVE  /\ cmd'.op = "push" /\ cmd'.ok => PushUpload
         /\ cmd'.op = "pushtree" /\ cmd'.ok => TreeUp
         /\ cmd'.op = "mv" =>
              \/ MvMove \/ MvRename
              \/ Kill /\ cmd.pc \in {"move", "rename"}
              \/ \E o \in Oid, d \in DirId, n \in Names, bare \in BOOLEAN : Mv(o, d, n, bare)
<1> DEFINE Goal == /\ cmd'.op = "push" /\ cmd'.ok => PushUpload
                   /\ cmd'.op = "pushtree" /\ cmd'.ok => TreeUp
                   /\ cmd'.op = "mv" =>
                        \/ MvMove \/ MvRename
                        \/ Kill /\ cmd.pc \in {"move", "rename"}
                        \/ \E o \in Oid, d \in DirId, n \in Names, bare \in BOOLEAN : Mv(o, d, n, bare)
<1>1. TypeOK /\ cmd \in Locals /\ Knows(cmd, obj)
  BY TypeFacts DEF TypeInv
<1>2. \A ok \in BOOLEAN : End(ok) => cmd'.ok = ok /\ cmd'.op = cmd.op
  BY <1>1 DEF End, Locals
<1>3. ASSUME NEW d \in DirId, PushTree(d) PROVE Goal
  <2>1. PICK k \in Locals : k = Fresh("pushtree") /\ k.op = "pushtree" /\ k.pc = "done"
    BY <1>1, <1>3, FreshOK DEF PushTree
  <2>2. \/ cmd' = [[k EXCEPT !.dir = d, !.name = TreeName] EXCEPT !.ok = FALSE]
        \/ cmd' = [[k EXCEPT !.dir = d, !.name = TreeName] EXCEPT !.pc = "tree"]
    BY <1>3, <2>1 DEF PushTree
  <2> QED BY <2>1, <2>2 DEF Locals
<1>4. ASSUME NEW d \in DirId, Pack(d) PROVE Goal
  <2>1. PICK k \in Locals : k = Fresh("pack") /\ k.op = "pack" /\ k.pc = "done"
    BY <1>1, <1>4, FreshOK DEF Pack
  <2>2. cmd'.pc = "upload"
    BY <1>4, <2>1 DEF Pack, Locals
  <2> QED BY <2>2
<1>5. ASSUME NEW d \in DirId, NEW force \in BOOLEAN, NEW f \in Files, Push(f, d, force) PROVE Goal
  <2>1. PICK k \in Locals : k = Fresh("push") /\ k.op = "push" /\ k.pc = "done"
    BY <1>1, <1>5, FreshOK DEF Push
  <2>2. cmd'.pc = "open"
    BY <1>5, <2>1 DEF Push, Locals
  <2> QED BY <2>2
<1>6. ASSUME NEW d \in DirId, NEW n \in Names, Mkdir(d, n) PROVE Goal
  <2>1. PICK k \in Locals : k = Fresh("mkdir") /\ k.op = "mkdir" /\ k.pc = "done"
    BY <1>1, <1>6, FreshOK DEF Mkdir
  <2>2. \/ cmd' = [[k EXCEPT !.dir = d, !.name = n] EXCEPT !.ok = FALSE]
        \/ cmd' = [k EXCEPT !.dir = d, !.name = n]
    BY <1>6, <2>1 DEF Mkdir
  <2>3. cmd'.op = "mkdir"
    BY <2>1, <2>2 DEF Locals
  <2> QED BY <2>3
<1>7. ASSUME NEW o \in Oid, NEW recursive \in BOOLEAN, Rm(o, recursive) PROVE Goal
  <2>1. PICK k \in Locals : k = Fresh("rm") /\ k.op = "rm" /\ k.pc = "done"
    BY <1>1, <1>7, FreshOK DEF Rm
  <2>2. PICK S : cmd' = [k EXCEPT !.target = o, !.from = obj[o], !.ok = (S = Subtree(o))]
    BY <1>7, <2>1 DEF Rm
  <2>3. cmd'.op = "rm"
    BY <2>1, <2>2 DEF Locals
  <2> QED BY <2>3
<1>8. ASSUME NEW o \in Oid, NEW d \in DirId, NEW n \in Names, NEW bare \in BOOLEAN, Mv(o, d, n, bare)
      PROVE  Goal
  <2>1. PICK k \in Locals : k = Fresh("mv") /\ k.op = "mv" /\ k.pc = "done"
    BY <1>1, <1>8, FreshOK DEF Mv
  <2> DEFINE c == [k EXCEPT !.target = o, !.from = obj[o]]
  <2>2. \/ \E t \in At(d, n) : cmd' = [c EXCEPT !.pc = "move", !.dir = t, !.name = obj[o].name]
        \/ \E pc : cmd' = [c EXCEPT !.dir = d, !.name = n, !.pc = pc]
    BY <1>8, <2>1 DEF Mv
  <2>3. cmd'.op = "mv"
    BY <2>1, <2>2 DEF Locals
  <2> QED BY <2>3, <1>8
<1>9. CASE PushOpen
  <2>1. \/ End(FALSE)
        \/ \E pc \in {"remove", "upload"} : cmd' = [cmd EXCEPT !.pc = pc, !.held = source[cmd.name]]
    BY <1>9 DEF PushOpen
  <2>2. cmd.op = "push" /\ End(FALSE)
    BY <2>1, <1>1, <1>9 DEF Locals, Knows, PushOpen
  <2> QED BY <2>2, <1>2
<1>10. CASE PushRemove
  <2>1. \/ End(FALSE)
        \/ \E o \in At(cmd.dir, cmd.name) : cmd' = [cmd EXCEPT !.pc = "upload", !.target = o, !.from = obj[o]]
    BY <1>10 DEF PushRemove
  <2>2. cmd.op = "push" /\ End(FALSE)
    BY <2>1, <1>1, <1>10 DEF Locals, Knows, PushRemove
  <2> QED BY <2>2, <1>2
<1>11. CASE PushUpload \/ PackUpload
  <2>1. PICK ok \in BOOLEAN : End(ok)
    BY <1>11 DEF PushUpload, PackUpload
  <2>2. cmd'.op \in {"push", "pack"} /\ (cmd'.op = "push" => PushUpload)
    BY <1>2, <1>11, <2>1 DEF PushUpload, PackUpload
  <2> QED BY <2>2
<1>12. CASE TreeUp
  <2>1. cmd'.op = cmd.op
    BY <1>2, <1>12 DEF TreeUp
  <2> QED BY <2>1, <1>1, <1>12 DEF TreeUp, Knows
<1>13. CASE MvMove \/ MvRename
  <2>1. cmd'.op = cmd.op
    BY <1>1, <1>2, <1>13 DEF MvMove, MvRename, Goto, Locals
  <2> QED BY <2>1, <1>1, <1>13 DEF MvMove, MvRename, Knows
<1>14. CASE Kill
  <2>1. cmd'.ok = FALSE /\ cmd'.op = cmd.op /\ cmd.pc # "done"
    BY <1>2, <1>14 DEF Kill
  <2>2. cmd.op = "mv" => cmd.pc \in {"move", "rename"}
    BY <2>1, <1>1 DEF Knows, Locals
  <2> QED BY <2>1, <2>2, <1>14
<1>15. ASSUME NEW p \in TreePath, TreeLink(p) \/ TreeFile(p) \/ TreeDir(p) PROVE Goal
  <2>1. cmd.pc = "tree" /\ cmd.op = "pushtree"
    BY <1>1, <1>15 DEF TreeLink, TreeFile, TreeDir, Entry, Knows
  <2>2. \/ cmd' = [cmd EXCEPT !.skipped = @ + 1]
        \/ cmd' = cmd \/ End(FALSE)
    BY <1>15 DEF TreeLink, TreeFile, TreeDir
  <2>3. End(FALSE)
    BY <2>1, <2>2, <1>1 DEF Locals
  <2> QED BY <2>1, <2>3, <1>2
<1>16. ASSUME NEW f \in Files, NEW s \in Size \cup {None}, Edit(f, s) PROVE Goal
  <2>1. cmd.pc # "done" /\ (cmd' = cmd \/ cmd' = [cmd EXCEPT !.held = s])
    BY <1>16 DEF Edit
  <2> QED BY <2>1, <1>1 DEF Locals
<1>17. ASSUME NEW d \in DirId, PushTree(d) \/ Pack(d) PROVE Goal
  BY <1>3, <1>4, <1>17
<1>18. CASE \/ PushOpen \/ PushRemove \/ PushUpload \/ PackUpload \/ TreeUp \/ MvMove
            \/ MvRename \/ Kill
  BY <1>9, <1>10, <1>11, <1>12, <1>13, <1>14, <1>18
<1>19. Goal
  BY <1>5, <1>6, <1>7, <1>8, <1>15, <1>16, <1>17, <1>18 DEF Next
<1> QED BY <1>19

\* A command that has ended stays as it is until the next one begins.
LEMMA StutterKeeps ==
  UNCHANGED vars => /\ (PushDelivers => PushDelivers') /\ (TreeReportTrue => TreeReportTrue')
                    /\ (MoveArrives => MoveArrives')
<1> SUFFICES ASSUME UNCHANGED vars
             PROVE  /\ (PushDelivers => PushDelivers') /\ (TreeReportTrue => TreeReportTrue')
                    /\ (MoveArrives => MoveArrives')
  OBVIOUS
<1>1. obj' = obj /\ cmd' = cmd
  BY DEF vars
<1>2. PushDelivers => PushDelivers'
  BY <1>1, AtIsFound DEF PushDelivers, Returned
<1>3. TreeReportTrue => TreeReportTrue'
  BY <1>1, AtIsFound DEF TreeReportTrue, Returned
<1>4. MoveArrives => MoveArrives'
  BY <1>1 DEF MoveArrives, Returned, Parent
<1> QED BY <1>2, <1>3, <1>4

\* A push that reports success has put a file of the declared length at its
\* target, whatever happened to the local file meanwhile: on any phone, and
\* with any calls failing.
THEOREM PushDeliversHolds == Spec => []PushDelivers
<1>1. Init => PushDelivers
  BY DEF Init, NoCommand, PushDelivers, Returned
<1>2. TypeInv /\ PushDelivers /\ [Next]_vars => PushDelivers'
  <2>1. ASSUME TypeInv, Next, cmd'.pc = "done", cmd'.op = "push", cmd'.ok
        PROVE  \E o \in Found(obj', cmd'.dir, cmd'.name) : ~obj'[o].isdir /\ obj'[o].size = cmd'.size
    <3>1. PushUpload
      BY <2>1, HowEnds
    <3>2. PICK ok \in BOOLEAN : Upload(cmd.dir, cmd.name, cmd.size, cmd.held, ok) /\ End(ok)
      BY <3>1 DEF PushUpload
    <3>3. TypeOK /\ obj \in Phone /\ cmd \in Locals /\ source' = source /\ source \in Sources
      BY <2>1, <3>1, TypeFacts DEF TypeInv, PushUpload
    <3>4. cmd.dir \in DirId /\ cmd.name \in Names /\ cmd.size \in Size
      BY <3>3 DEF Locals
    <3>5. /\ obj' \in Phone
          /\ ok => \E o \in Found(obj', cmd.dir, cmd.name) : ~obj'[o].isdir /\ obj'[o].size = cmd.size
      BY <3>2, <3>3, <3>4, UploadDoes
    <3>6. cmd'.ok = ok /\ cmd'.dir = cmd.dir /\ cmd'.name = cmd.name /\ cmd'.size = cmd.size
      BY <3>2, <3>3, <3>5, EndOK
    <3> QED BY <2>1, <3>5, <3>6
  <2>2. TypeInv /\ Next => PushDelivers'
    BY <2>1, AtIsFound DEF PushDelivers, Returned
  <2> QED BY <2>2, StutterKeeps
<1> QED BY <1>1, <1>2, TypeInit, TypeStep, PTL DEF Spec

\* A pushed tree that is reported as such is on the phone, entry by entry, but
\* for its links, and these are counted: for a tree of any shape.
THEOREM TreeReportHolds == Spec => []TreeReportTrue
<1>1. Init => TreeReportTrue
  BY DEF Init, NoCommand, TreeReportTrue, Returned
<1>2. TypeInv /\ TreeReportTrue /\ [Next]_vars => TreeReportTrue'
  <2>1. ASSUME TypeInv, Next, cmd'.pc = "done", cmd'.op = "pushtree", cmd'.ok
        PROVE  /\ cmd'.skipped = Cardinality(Links)
               /\ \A p \in Packed : \E o \in Reached(obj', cmd'.dir, p) :
                    obj'[o].isdir = (LocalTree[p] = "dir")
    <3>1. TreeUp
      BY <2>1, HowEnds
    <3>2. /\ cmd.pc = "tree" /\ frames[Len(frames)].left = {} /\ obj' = obj /\ source' = source
          /\ TypeOK /\ obj \in Phone /\ source \in Sources /\ cmd \in Locals
          /\ Walks(cmd, obj, frames)
      BY <2>1, <3>1, TypeFacts DEF TreeUp, Top, TypeInv
    <3>3. Len(frames) = 1 /\ End(TRUE)
      BY <2>1, <3>1, <3>2 DEF TreeUp
    <3>4. Shape(frames)
      BY <3>2 DEF Walks
    <3>5. Pending(frames) = {}
      BY <3>2, <3>3, <3>4, Ends
    <3>6. cmd'.dir = cmd.dir /\ cmd'.skipped = cmd.skipped
      BY <3>2, <3>3, EndOK
    <3> QED BY <3>2, <3>5, <3>6 DEF Walks
  <2>2. TypeInv /\ Next => TreeReportTrue'
    BY <2>1, AtIsFound DEF TreeReportTrue, Returned, Links
  <2> QED BY <2>2, StutterKeeps
<1> QED BY <1>1, <1>2, TypeInit, TypeStep, PTL DEF Spec

-----------------------------------------------------------------------------
(* What is changed, on a phone where a name has one object. *)

\* The phone takes no second object of a name.
OneObjectPerName == ~AcceptsDuplicates /\ Unique(Phone0)

\* An object that gets a place that is free leaves names unique.
LEMMA MovedUnique ==
  ASSUME NEW ob, NEW after, Unique(ob), NEW o \in Oid,
         \A x \in Oid : x # o => after[x] = ob[x],
         \A x \in Oid : ~(ob[x] # None /\ x[1] = o[1] /\ ob[x].parent = after[o].parent /\ ob[x].name = after[o].name)
  PROVE  Unique(after)
BY DEF Unique

LEMMA WithoutUnique ==
  ASSUME obj \in Phone, NEW S, Unique(obj)
  PROVE  Unique(Without(S))
<1>1. \A x \in Oid : Without(S)[x] # None => Without(S)[x] = obj[x]
  BY DEF Without
<1> QED BY <1>1 DEF Unique

\* The move of mv puts its object where it should be.
LEMMA MvMoveDoes ==
  ASSUME TypeInv, MvMove
  PROVE  \/ End(FALSE) /\ obj' = obj
         \/ /\ \A x \in Oid : x # cmd.target => obj'[x] = obj[x]
            /\ obj'[cmd.target] \in Object /\ obj'[cmd.target].name = obj[cmd.target].name
            /\ <<cmd.target[1], obj'[cmd.target].parent>> = cmd.dir
            /\ NameFree(cmd.dir, obj[cmd.target].name)
            /\ \/ obj[cmd.target].name = cmd.name /\ End(TRUE)
               \/ Goto("rename")
               \/ End(FALSE)
<1>1. /\ cmd.pc = "move" /\ cmd \in Locals /\ obj \in Phone /\ cmd.target \in Oid /\ obj[cmd.target] # None
      /\ obj[cmd.target] \in Object
  BY TypeFacts DEF TypeInv, MvMove, Knows, Phone
<1>2. CASE End(FALSE) /\ UNCHANGED obj
  BY <1>2
<1>3. ASSUME MayMove(cmd.target, cmd.dir), obj' = [obj EXCEPT ![cmd.target].parent = cmd.dir[2]],
             \/ obj[cmd.target].name = cmd.name /\ End(TRUE)
             \/ Goto("rename") \/ End(FALSE)
      PROVE  /\ \A x \in Oid : x # cmd.target => obj'[x] = obj[x]
             /\ obj'[cmd.target] \in Object /\ obj'[cmd.target].name = obj[cmd.target].name
             /\ <<cmd.target[1], obj'[cmd.target].parent>> = cmd.dir
             /\ NameFree(cmd.dir, obj[cmd.target].name)
  <2>1. cmd.dir[2] \in Handle \cup {Root} /\ cmd.dir = <<cmd.dir[1], cmd.dir[2]>>
    BY <1>1 DEF Locals, DirId
  <2>2. obj'[cmd.target] = [obj[cmd.target] EXCEPT !.parent = cmd.dir[2]]
    BY <1>1, <1>3, <2>1, FieldTypes
  <2>3. /\ obj'[cmd.target] \in Object /\ obj'[cmd.target].parent = cmd.dir[2]
        /\ obj'[cmd.target].name = obj[cmd.target].name
    BY <1>1, <2>1, <2>2 DEF Object
  <2>4. \A x \in Oid : x # cmd.target => obj'[x] = obj[x]
    BY <1>1, <1>3 DEF Phone
  <2>5. cmd.target[1] = cmd.dir[1] /\ NameFree(cmd.dir, obj[cmd.target].name)
    BY <1>3 DEF MayMove
  <2>6. <<cmd.target[1], obj'[cmd.target].parent>> = cmd.dir
    BY <2>1, <2>3, <2>5
  <2> QED BY <2>3, <2>4, <2>5, <2>6
<1>4. \/ End(FALSE) /\ UNCHANGED obj
      \/ /\ MayMove(cmd.target, cmd.dir) /\ obj' = [obj EXCEPT ![cmd.target].parent = cmd.dir[2]]
         /\ \/ obj[cmd.target].name = cmd.name /\ End(TRUE)
            \/ Goto("rename") \/ End(FALSE)
  BY DEF MvMove
<1> QED BY <1>2, <1>3, <1>4

\* Its rename renames the object that has the old name in the directory now:
\* as names are unique, its own.
LEMMA MvRenameDoes ==
  ASSUME TypeInv, Unique(obj), MvRename
  PROVE  \/ End(FALSE) /\ obj' = obj
         \/ /\ \A x \in Oid : x # cmd.target => obj'[x] = obj[x]
            /\ obj'[cmd.target] \in Object /\ obj'[cmd.target].name = cmd.name
            /\ obj'[cmd.target].parent = obj[cmd.target].parent
            /\ NameFree(cmd.dir, cmd.name)
            /\ \E ok \in BOOLEAN : End(ok)
<1>1. /\ cmd.pc = "rename" /\ cmd \in Locals /\ obj \in Phone /\ cmd.target \in Oid /\ obj[cmd.target] # None
      /\ Parent(cmd.target) = cmd.dir /\ obj[cmd.target].name = cmd.from.name
      /\ obj[cmd.target] \in Object
  BY TypeFacts DEF TypeInv, MvRename, Knows, Phone, Parent
<1>2. CASE End(FALSE) /\ UNCHANGED obj
  BY <1>2
<1>3. ASSUME NameFree(cmd.dir, cmd.name), NEW o \in At(cmd.dir, cmd.from.name),
             obj' = [obj EXCEPT ![o].name = cmd.name], End(TRUE) \/ End(FALSE)
      PROVE  /\ \A x \in Oid : x # cmd.target => obj'[x] = obj[x]
             /\ obj'[cmd.target] \in Object /\ obj'[cmd.target].name = cmd.name
             /\ obj'[cmd.target].parent = obj[cmd.target].parent
  <2>1. o = cmd.target
    BY <1>1, <1>3 DEF At, Unique, Parent
  <2>2. cmd.name \in Names
    BY <1>1 DEF Locals
  <2>3. obj'[o] = [obj[o] EXCEPT !.name = cmd.name]
    BY <1>1, <1>3, <2>1, <2>2, FieldTypes
  <2>4. \A x \in Oid : x # o => obj'[x] = obj[x]
    BY <1>1, <1>3, <2>1 DEF Phone
  <2> QED BY <1>1, <2>1, <2>2, <2>3, <2>4 DEF Object
<1>4. \/ End(FALSE) /\ UNCHANGED obj
      \/ /\ NameFree(cmd.dir, cmd.name)
         /\ \E o \in At(cmd.dir, cmd.from.name) : obj' = [obj EXCEPT ![o].name = cmd.name]
         /\ End(TRUE) \/ End(FALSE)
  BY <1>1 DEF MvRename
<1> QED BY <1>2, <1>3, <1>4

\* What a step does to the phone: nothing, or it adds to it, or it is one of
\* the four that change what is there.
LEMMA HowChanges ==
  ASSUME TypeInv, Next
  PROVE  \/ /\ Grows(obj, obj') /\ (Unique(obj) /\ ~AcceptsDuplicates => Unique(obj'))
         \/ PushRemove \/ MvMove \/ MvRename
         \/ \E o \in Oid, recursive \in BOOLEAN : Rm(o, recursive)
<1> DEFINE Adds == Grows(obj, obj') /\ (Unique(obj) /\ ~AcceptsDuplicates => Unique(obj'))
<1>1. TypeOK /\ obj \in Phone /\ cmd \in Locals
  BY TypeFacts DEF TypeInv
<1>2. ASSUME UNCHANGED obj PROVE Adds
  BY <1>2 DEF Grows
<1>3. ASSUME NEW d \in DirId, PushTree(d) \/ Pack(d) PROVE Adds
  <2>1. TreeName \in Names
    BY CommandsConstants
  <2>2. UNCHANGED obj \/ \E o \in Oid : MkdirAll(d, TreeName, o)
    BY <1>3 DEF PushTree, Pack, MkdirFails
  <2> QED BY <1>1, <1>2, <2>1, <2>2, MkdirDoes
<1>4. ASSUME NEW d \in DirId, NEW force \in BOOLEAN, NEW f \in Files, Push(f, d, force) PROVE Adds
  BY <1>2, <1>4 DEF Push
<1>5. ASSUME NEW d \in DirId, NEW n \in Names, Mkdir(d, n) PROVE Adds
  <2>1. UNCHANGED obj \/ \E o \in Oid : MkdirAll(d, n, o)
    BY <1>5 DEF Mkdir, MkdirFails
  <2> QED BY <1>1, <1>2, <2>1, MkdirDoes
<1>6. ASSUME NEW o \in Oid, NEW d \in DirId, NEW n \in Names, NEW bare \in BOOLEAN, Mv(o, d, n, bare)
      PROVE  Adds
  BY <1>2, <1>6 DEF Mv
<1>7. CASE PushOpen \/ TreeUp
  BY <1>2, <1>7 DEF PushOpen, TreeUp
<1>8. CASE PushUpload \/ PackUpload
  <2>1. cmd.dir \in DirId /\ cmd.name \in Names /\ cmd.size \in Size
    BY <1>1 DEF Locals
  <2>2. PICK ok \in BOOLEAN : Upload(cmd.dir, cmd.name, cmd.size, cmd.held, ok)
    BY <1>8 DEF PushUpload, PackUpload
  <2> QED BY <1>1, <2>1, <2>2, UploadDoes
<1>9. CASE Kill
  <2>1. cmd.dir \in DirId /\ cmd.name \in Names /\ cmd.size \in Size
    BY <1>1 DEF Locals
  <2>2. ASSUME CanStore(cmd.dir, cmd.name), NEW k \in 0..cmd.size,
               obj' = Stored(cmd.dir, cmd.name, FALSE, k)
        PROVE  Adds
    <3>1. k \in Size
      BY <2>1, CommandsConstants DEF Size
    <3> QED BY <1>1, <2>1, <2>2, <3>1, StoredThere
  <2> QED BY <1>2, <1>9, <2>2 DEF Kill
<1>10. ASSUME NEW p \in TreePath, TreeLink(p) \/ TreeFile(p) \/ TreeDir(p) PROVE Adds
  <2>1. PICK kind : Entry(p, kind)
    BY <1>10 DEF TreeLink, TreeFile, TreeDir
  <2>2. Top.dir \in DirId /\ Leaf(p) \in Names
    BY <2>1, EntryFacts
  <2>3. \/ UNCHANGED obj
        \/ \E ok \in BOOLEAN : Upload(Top.dir, Leaf(p), 1, 1, ok)
        \/ \E o \in Oid : MkdirAll(Top.dir, Leaf(p), o)
    BY <1>10 DEF TreeLink, TreeFile, TreeDir, MkdirFails
  <2>4. ASSUME NEW ok \in BOOLEAN, Upload(Top.dir, Leaf(p), 1, 1, ok) PROVE Adds
    BY <1>1, <2>2, <2>4, UploadDoes, SizeFacts
  <2>5. ASSUME NEW o \in Oid, MkdirAll(Top.dir, Leaf(p), o) PROVE Adds
    BY <1>1, <2>2, <2>5, MkdirDoes
  <2> QED BY <1>2, <2>3, <2>4, <2>5
<1>11. ASSUME NEW f \in Files, NEW s \in Size \cup {None}, Edit(f, s) PROVE Adds
  BY <1>2, <1>11 DEF Edit
<1>12. ASSUME NEW o \in Oid, NEW recursive \in BOOLEAN, Rm(o, recursive)
       PROVE  \E x \in Oid, r \in BOOLEAN : Rm(x, r)
  BY <1>12
<1> QED BY <1>3, <1>4, <1>5, <1>6, <1>7, <1>8, <1>9, <1>10, <1>11, <1>12 DEF Next

LEMMA UniqueStep ==
  ASSUME ~AcceptsDuplicates, TypeInv, Unique(obj), [Next]_vars
  PROVE  Unique(obj')
<1>1. CASE UNCHANGED vars
  BY <1>1 DEF vars
<1>2. ASSUME Next PROVE Unique(obj')
  <2>1. TypeOK /\ obj \in Phone /\ cmd \in Locals /\ Knows(cmd, obj)
    BY TypeFacts DEF TypeInv
  <2>2. CASE PushRemove \/ \E o \in Oid, recursive \in BOOLEAN : Rm(o, recursive)
    <3>1. obj' = obj \/ \E S : obj' = Without(S)
      BY <2>2 DEF PushRemove, Rm
    <3> QED BY <2>1, <3>1, WithoutUnique
  <2>3. CASE MvMove
    <3>1. cmd.target \in Oid
      BY <2>1, <2>3 DEF MvMove, Knows
    <3>2. ASSUME \A x \in Oid : x # cmd.target => obj'[x] = obj[x],
                 obj'[cmd.target].name = obj[cmd.target].name,
                 <<cmd.target[1], obj'[cmd.target].parent>> = cmd.dir,
                 NameFree(cmd.dir, obj[cmd.target].name)
          PROVE  Unique(obj')
      <4>1. At(cmd.dir, obj[cmd.target].name) = {}
        BY <3>2 DEF NameFree
      <4>2. \A x \in Oid : ~(/\ obj[x] # None /\ x[1] = cmd.target[1]
                            /\ obj[x].parent = obj'[cmd.target].parent /\ obj[x].name = obj'[cmd.target].name)
        BY <3>2, <4>1 DEF At, Parent
      <4> QED BY <3>1, <3>2, <4>2, MovedUnique
    <3> QED BY <2>3, <3>2, MvMoveDoes
  <2>4. CASE MvRename
    <3>1. cmd.target \in Oid /\ <<cmd.target[1], obj[cmd.target].parent>> = cmd.dir
      BY <2>1, <2>4 DEF MvRename, Knows
    <3>2. ASSUME \A x \in Oid : x # cmd.target => obj'[x] = obj[x],
                 obj'[cmd.target].name = cmd.name,
                 obj'[cmd.target].parent = obj[cmd.target].parent,
                 NameFree(cmd.dir, cmd.name)
          PROVE  Unique(obj')
      <4>1. At(cmd.dir, cmd.name) = {}
        BY <3>2 DEF NameFree
      <4>2. \A x \in Oid : ~(/\ obj[x] # None /\ x[1] = cmd.target[1]
                            /\ obj[x].parent = obj'[cmd.target].parent /\ obj[x].name = obj'[cmd.target].name)
        BY <3>1, <3>2, <4>1 DEF At, Parent
      <4> QED BY <3>1, <3>2, <4>2, MovedUnique
    <3> QED BY <2>4, <3>2, MvRenameDoes
  <2> QED BY <1>2, <2>2, <2>3, <2>4, HowChanges
<1> QED BY <1>1, <1>2

\* mv ends with its object where it was to go, or, with an error, where it was
\* or on the way, on a phone that takes no second object of a name: where it
\* does, the rename of mv, which goes by path, may find another object.
THEOREM MoveArrivesHolds ==
  ASSUME OneObjectPerName
  PROVE  Spec => []MoveArrives
<1>1. Init => MoveArrives /\ Unique(obj)
  BY DEF Init, NoCommand, MoveArrives, Returned, OneObjectPerName
<1>2. TypeInv /\ Unique(obj) /\ [Next]_vars => Unique(obj)'
  BY UniqueStep DEF OneObjectPerName
<1> DEFINE There(k, ob, d, n) ==
             ob[k.target] # None /\ <<k.target[1], ob[k.target].parent>> = d /\ ob[k.target].name = n
           Arrived(k, ob) ==
             \/ There(k, ob, k.dir, k.name)
             \/ ~k.ok /\ (There(k, ob, k.dir, k.from.name) \/ ob[k.target] = k.from)
<1>3. TypeInv /\ Unique(obj) /\ Next /\ cmd'.pc = "done" /\ cmd'.op = "mv" => Arrived(cmd', obj')
  <2> SUFFICES ASSUME TypeInv, Unique(obj), Next, cmd'.pc = "done", cmd'.op = "mv"
               PROVE  Arrived(cmd', obj')
    OBVIOUS
  <2>1. /\ TypeOK /\ obj \in Phone /\ cmd \in Locals /\ Knows(cmd, obj) /\ source \in Sources
        /\ TypeInv'
    BY TypeFacts, TypeStep DEF TypeInv
  <2>2. ASSUME NEW ok \in BOOLEAN, End(ok)
        PROVE  /\ cmd'.ok = ok /\ cmd'.target = cmd.target /\ cmd'.from = cmd.from
               /\ cmd'.dir = cmd.dir /\ cmd'.name = cmd.name
    BY <2>1, <2>2 DEF End, Locals
  <2>3. CASE MvMove
    <3>1. cmd.pc = "move" /\ obj[cmd.target] = cmd.from /\ obj[cmd.target] # None
      BY <2>1, <2>3 DEF MvMove, Knows
    <3>2. CASE End(FALSE) /\ obj' = obj
      BY <2>2, <3>1, <3>2
    <3>3. ASSUME obj'[cmd.target] \in Object, obj'[cmd.target].name = obj[cmd.target].name,
                 <<cmd.target[1], obj'[cmd.target].parent>> = cmd.dir,
                 \/ obj[cmd.target].name = cmd.name /\ End(TRUE)
                 \/ Goto("rename")
                 \/ End(FALSE)
          PROVE  Arrived(cmd', obj')
      <4>1. obj'[cmd.target] # None
        BY <3>3, CommandsConstants
      <4>2. ~Goto("rename")
        BY <2>1 DEF Goto, Locals
      <4>3. CASE obj[cmd.target].name = cmd.name /\ End(TRUE)
        BY <2>2, <3>1, <3>3, <4>1, <4>3
      <4>4. CASE End(FALSE)
        BY <2>2, <3>1, <3>3, <4>1, <4>4
      <4> QED BY <3>3, <4>2, <4>3, <4>4
    <3> QED BY <2>3, <3>2, <3>3, MvMoveDoes
  <2>4. CASE MvRename
    <3>1. /\ cmd.pc = "rename" /\ obj[cmd.target] # None /\ obj[cmd.target].name = cmd.from.name
          /\ <<cmd.target[1], obj[cmd.target].parent>> = cmd.dir
      BY <2>1, <2>4 DEF MvRename, Knows
    <3>2. CASE End(FALSE) /\ obj' = obj
      BY <2>2, <3>1, <3>2
    <3>3. ASSUME obj'[cmd.target] \in Object, obj'[cmd.target].name = cmd.name,
                 obj'[cmd.target].parent = obj[cmd.target].parent,
                 NEW ok \in BOOLEAN, End(ok)
          PROVE  Arrived(cmd', obj')
      <4>1. obj'[cmd.target] # None
        BY <3>3, CommandsConstants
      <4> QED BY <2>2, <3>1, <3>3, <4>1
    <3> QED BY <2>4, <3>2, <3>3, MvRenameDoes
  <2>5. CASE Kill /\ cmd.pc \in {"move", "rename"}
    <3>1. obj' = obj /\ End(FALSE)
      BY <2>5 DEF Kill
    <3> QED BY <2>1, <2>2, <2>5, <3>1 DEF Knows
  <2>6. ASSUME NEW o \in Oid, NEW d \in DirId, NEW n \in Names, NEW bare \in BOOLEAN, Mv(o, d, n, bare)
        PROVE  Arrived(cmd', obj')
    <3>1. PICK k \in Locals : k = Fresh("mv")
      BY <2>1, <2>6, FreshOK DEF Mv
    <3>2. obj[o] # None /\ obj' = obj /\ obj[o] \in Object
      BY <2>1, <2>6 DEF Mv, Phone
    <3>3. PICK c : c = [k EXCEPT !.target = o, !.from = obj[o]]
      OBVIOUS
    <3>5. c \in Locals /\ c.target = o
      BY <3>1, <3>2, <3>3 DEF Locals
    <3>4. PICK t, pc :
            \/ cmd' = [c EXCEPT !.pc = "move", !.dir = t, !.name = obj[o].name]
            \/ /\ cmd' = [c EXCEPT !.dir = d, !.name = n, !.pc = pc]
               /\ pc = "done" => IsSameParent(o, d) /\ obj[o].name = n
      BY <2>6, <3>1, <3>3, Zenon DEF Mv
    <3>6. /\ cmd'.target = o /\ cmd'.dir = d /\ cmd'.name = n
          /\ IsSameParent(o, d) /\ obj[o].name = n
      <4>1. CASE cmd' = [c EXCEPT !.pc = "move", !.dir = t, !.name = obj[o].name]
        <5>1. cmd'.pc = "move"
          BY <3>5, <4>1 DEF Locals
        <5> QED BY <5>1
      <4>2. CASE /\ cmd' = [c EXCEPT !.dir = d, !.name = n, !.pc = pc]
                 /\ pc = "done" => IsSameParent(o, d) /\ obj[o].name = n
        <5>1. cmd'.target = o /\ cmd'.dir = d /\ cmd'.name = n /\ cmd'.pc = pc
          BY <3>5, <4>2 DEF Locals
        <5> QED BY <4>2, <5>1
      <4> QED BY <3>4, <4>1, <4>2
    <3>7. <<o[1], obj[o].parent>> = d
      BY <3>6 DEF IsSameParent, DirId
    <3> QED BY <3>2, <3>6, <3>7
  <2> QED BY <2>3, <2>4, <2>5, <2>6, HowEnds
<1>4. MoveArrives' <=> (cmd'.pc = "done" /\ cmd'.op = "mv" => Arrived(cmd', obj'))
  BY DEF MoveArrives, Returned, Parent
<1>5. TypeInv /\ Unique(obj) /\ MoveArrives /\ [Next]_vars => MoveArrives'
  BY <1>3, <1>4, StutterKeeps
<1> QED BY <1>1, <1>2, <1>5, TypeInit, TypeStep, PTL DEF Spec

\* No command changes or removes an object that it was not asked to, on a phone
\* that takes no second object of a name (see MoveArrivesHolds).
THEOREM OnlyAskedHolds ==
  ASSUME OneObjectPerName
  PROVE  Spec => OnlyAskedChanged
<1>1. Init => Unique(obj)
  BY DEF Init, OneObjectPerName
<1>2. TypeInv /\ Unique(obj) /\ [Next]_vars => Unique(obj)'
  BY UniqueStep DEF OneObjectPerName
<1>3. TypeInv /\ Unique(obj) /\ [Next]_vars =>
        [\A o \in Oid : obj[o] # None /\ obj'[o] # obj[o] =>
           \/ cmd'.op = "rm" /\ o \in Subtree(cmd'.target)
           \/ /\ cmd'.op = "push" /\ cmd'.force /\ ~obj[o].isdir
              /\ Parent(o) = cmd'.dir /\ obj[o].name = cmd'.name /\ cmd.held # None
           \/ cmd'.op = "mv" /\ o = cmd'.target]_vars
  <2> SUFFICES ASSUME TypeInv, Unique(obj), Next, NEW o \in Oid, obj[o] # None, obj'[o] # obj[o]
               PROVE  \/ cmd'.op = "rm" /\ o \in Subtree(cmd'.target)
                      \/ /\ cmd'.op = "push" /\ cmd'.force /\ ~obj[o].isdir
                         /\ Parent(o) = cmd'.dir /\ obj[o].name = cmd'.name /\ cmd.held # None
                      \/ cmd'.op = "mv" /\ o = cmd'.target
    BY DEF vars
  <2>1. TypeOK /\ obj \in Phone /\ cmd \in Locals /\ Knows(cmd, obj)
    BY TypeFacts DEF TypeInv
  <2>2. ~Grows(obj, obj')
    BY DEF Grows
  <2>3. ASSUME PushRemove
        PROVE  /\ cmd'.op = "push" /\ cmd'.force /\ ~obj[o].isdir
               /\ Parent(o) = cmd'.dir /\ obj[o].name = cmd'.name /\ cmd.held # None
    <3>1. cmd.op = "push" /\ cmd.force /\ cmd.held # None
      BY <2>1, <2>3 DEF PushRemove, Knows
    <3>2. PICK x \in At(cmd.dir, cmd.name) :
            /\ ~obj[x].isdir /\ obj' = Without({x})
            /\ cmd' = [cmd EXCEPT !.pc = "upload", !.target = x, !.from = obj[x]]
      BY <2>3 DEF PushRemove
    <3>3. x = o
      BY <3>2 DEF Without
    <3>4. cmd'.op = cmd.op /\ cmd'.force = cmd.force /\ cmd'.dir = cmd.dir /\ cmd'.name = cmd.name
      BY <2>1, <3>2 DEF Locals
    <3> QED BY <3>1, <3>2, <3>3, <3>4 DEF At
  <2>4. ASSUME MvMove \/ MvRename
        PROVE  cmd'.op = "mv" /\ o = cmd'.target
    <3>1. cmd.op = "mv"
      BY <2>1, <2>4 DEF MvMove, MvRename, Knows
    <3>2. \A x \in Oid : x # cmd.target => obj'[x] = obj[x]
      BY <2>4, MvMoveDoes, MvRenameDoes
    <3>3. cmd'.op = cmd.op /\ cmd'.target = cmd.target
      BY <2>1, <2>4 DEF MvMove, MvRename, End, Goto, Locals
    <3> QED BY <3>1, <3>2, <3>3
  <2>5. ASSUME NEW x \in Oid, NEW recursive \in BOOLEAN, Rm(x, recursive)
        PROVE  cmd'.op = "rm" /\ o \in Subtree(cmd'.target)
    <3>1. PICK k \in Locals : k = Fresh("rm") /\ k.op = "rm"
      BY <2>1, <2>5, FreshOK DEF Rm
    <3>2. PICK S \in SUBSET Subtree(x) :
            /\ obj' = Without(S)
            /\ cmd' = [k EXCEPT !.target = x, !.from = obj[x], !.ok = (S = Subtree(x))]
      BY <2>5, <3>1 DEF Rm
    <3>3. cmd'.op = "rm" /\ cmd'.target = x
      BY <3>1, <3>2 DEF Locals
    <3>4. o \in S
      BY <3>2 DEF Without
    <3> QED BY <3>2, <3>3, <3>4
  <2> QED BY <2>2, <2>3, <2>4, <2>5, HowChanges
<1> QED BY <1>1, <1>2, <1>3, TypeInit, TypeStep, PTL DEF Spec, OnlyAskedChanged
=============================================================================
