-------------------------- MODULE WriteBackProofs --------------------------
(***************************************************************************)
(* Proofs about WriteBack, for every set of connections, names and         *)
(* directories and every bound.                                            *)
(*                                                                         *)
(* 1. On any number of connections: types, the read-only export,           *)
(*    directories, and what a COMMIT means, which needs one connection.    *)
(* 2. With one connection: the invariant that binds each stage to its      *)
(*    objects and each handler to what it has found out, and from it       *)
(*    durability, names, and the object a flush deletes.                   *)
(* 3. With one connection: WriteBack implements DurableFile.               *)
(***************************************************************************)
EXTENDS WriteBackDurable, SequenceTheorems, TLAPS

-----------------------------------------------------------------------------
(* Types. *)

\* What the program counter says about the locals of a handler: from the points
\* named on it has an id, and the handle it goes on to use; the steps that are
\* CREATE's own serve a CREATE.
HasId == {"stage", "info", "pull", "read", "insert", "apply", "snapshot", "delete",
          "upload", "flushed", "rmdelete", "rmdrop", "hrename", "resync"}
HasHandle == {"info", "pull", "read", "insert", "flushed", "rmdelete"}
Creating == {"probe", "stagenew", "lookup"}

ConnOK(k) ==
  /\ k \in Locals
  /\ k.pc \in HasId => k.id \in Id
  /\ k.pc \in HasHandle => k.h \in Handle
  /\ k.pc \in Creating => k.op = "create"

ConnTypes ==
  /\ conn \in [Connections -> Locals]
  /\ \A c \in Connections : ConnOK(conn[c])

\* The inductive strengthening of TypeOK.
TypeInv == TypeOK /\ ConnTypes

\* The content of a file is a sequence of at most MaxSize blocks.
LEMMA ContentSeq ==
  ASSUME NEW data \in Content
  PROVE  /\ Len(data) \in 0..MaxSize
         /\ data \in [1..Len(data) -> Byte]
<1>1. PICK n \in 0..MaxSize : data \in [1..n -> Byte]
  BY DEF Content
<1>2. n \in Nat
  BY <1>1, ConstantsAssumption
<1>3. data \in Seq(Byte)
  BY <1>1, <1>2, SeqDef
<1>4. Len(data) = n
  BY <1>1, <1>2, <1>3, LenProperties
<1> QED BY <1>1, <1>4

\* A function over the first n positions, n within the bound, is a content.
LEMMA ContentIntro ==
  ASSUME NEW n \in 0..MaxSize, NEW f \in [1..n -> Byte]
  PROVE  f \in Content /\ Len(f) = n
<1>1. f \in Content
  BY DEF Content
<1>2. n \in Nat
  BY ConstantsAssumption
<1>3. f \in Seq(Byte)
  BY <1>2, SeqDef
<1>4. Len(f) = n
  BY <1>2, <1>3, LenProperties
<1> QED BY <1>1, <1>4

\* pwrite within the bound yields a content; so do ftruncate and a prefix.
LEMMA PWriteType ==
  ASSUME NEW data \in Content, NEW off \in 0..(MaxSize - 1), NEW b \in Byte
  PROVE  PWrite(data, off, b) \in Content
<1> DEFINE n == IF off + 1 > Len(data) THEN off + 1 ELSE Len(data)
<1>1. Len(data) \in 0..MaxSize /\ data \in [1..Len(data) -> Byte]
  BY ContentSeq
<1>2. n \in 0..MaxSize
  BY <1>1, ConstantsAssumption
<1>3. PWrite(data, off, b) \in [1..n -> Byte]
  BY <1>1, <1>2, ConstantsAssumption DEF PWrite
<1> QED BY <1>2, <1>3, ContentIntro

LEMMA SetLenType ==
  ASSUME NEW data \in Content, NEW n \in 0..MaxSize
  PROVE  SetLen(data, n) \in Content
<1>1. Len(data) \in 0..MaxSize /\ data \in [1..Len(data) -> Byte]
  BY ContentSeq
<1>2. SetLen(data, n) \in [1..n -> Byte]
  BY <1>1, ConstantsAssumption DEF SetLen
<1> QED BY <1>2, ContentIntro

LEMMA PrefixType ==
  ASSUME NEW data \in Content, NEW n \in 0..Len(data)
  PROVE  Prefix(data, n) \in Content
<1>1. Len(data) \in 0..MaxSize /\ data \in [1..Len(data) -> Byte]
  BY ContentSeq
<1>2. n \in 0..MaxSize
  BY <1>1, ConstantsAssumption
<1>3. Prefix(data, n) \in [1..n -> Byte]
  BY <1>1, <1>2 DEF Prefix
<1> QED BY <1>2, <1>3, ContentIntro

LEMMA OverlayType ==
  ASSUME NEW old \in Content, NEW data \in Content
  PROVE  Overlay(old, data) \in Content
<1> DEFINE n == IF Len(data) > Len(old) THEN Len(data) ELSE Len(old)
<1>1. /\ Len(old) \in 0..MaxSize /\ old \in [1..Len(old) -> Byte]
      /\ Len(data) \in 0..MaxSize /\ data \in [1..Len(data) -> Byte]
  BY ContentSeq
<1>2. n \in 0..MaxSize
  BY <1>1
<1>3. Overlay(old, data) \in [1..n -> Byte]
  BY <1>1, ConstantsAssumption DEF Overlay
<1> QED BY <1>2, <1>3, ContentIntro

LEMMA EmptyType == <<>> \in Content
<1>1. <<>> \in [1..0 -> Byte]
  OBVIOUS
<1>2. 0 \in 0..MaxSize
  BY ConstantsAssumption
<1> QED BY <1>1, <1>2, ContentIntro

LEMMA IdleType == Idle \in Locals /\ Idle.pc = "idle"
<1>1. (CHOOSE d \in Dirs : TRUE) \in Dirs
  BY ConstantsAssumption
<1>2. (CHOOSE n \in Names : TRUE) \in Names
  BY ConstantsAssumption
<1> QED BY <1>1, <1>2, ConstantsAssumption DEF Idle, Locals, Pc

\* Initially all is well typed.
LEMMA TypeInit == Init => TypeInv
<1> SUFFICES ASSUME Init PROVE TypeInv
  OBVIOUS
<1>1. ConnOK(Idle)
  BY IdleType DEF ConnOK, HasId, HasHandle, Creating
<1>2. ConnTypes
  BY <1>1, IdleType DEF Init, ConnTypes
<1>3. 0 \in 0..MaxVirt
  BY ConstantsAssumption
<1> QED BY <1>2, <1>3, ConstantsAssumption DEF Init, TypeInv, TypeOK, ConnTypes

-----------------------------------------------------------------------------
(* How a step changes the locals of one connection. *)

\* One connection gets locals that are in order.
LEMMA ConnStep ==
  ASSUME ConnTypes, NEW c \in Connections, NEW k, ConnOK(k),
         conn' = [conn EXCEPT ![c] = k]
  PROVE  ConnTypes'
BY DEF ConnOK, ConnTypes

\* Goto to a point whose needs are met.
LEMMA GotoStep ==
  ASSUME ConnTypes, NEW c \in Connections, NEW p \in Pc \ Creating, Goto(c, p),
         p \in HasId => conn[c].id \in Id,
         p \in HasHandle => conn[c].h \in Handle
  PROVE  ConnTypes'
<1> DEFINE k == [conn[c] EXCEPT !.pc = p]
<1>1. conn[c] \in Locals
  BY DEF ConnTypes
<1>2. k \in Locals /\ k.pc = p /\ k.id = conn[c].id /\ k.h = conn[c].h
  BY <1>1 DEF Locals
<1>3. ConnOK(k)
  BY <1>2 DEF ConnOK
<1>4. conn' = [conn EXCEPT ![c] = k]
  BY DEF Goto
<1> QED BY <1>3, <1>4, ConnStep

\* CREATE going on to its next step.
LEMMA CreatingStep ==
  ASSUME ConnTypes, NEW c \in Connections, NEW p \in Creating, Goto(c, p),
         conn[c].op = "create"
  PROVE  ConnTypes'
<1> DEFINE k == [conn[c] EXCEPT !.pc = p]
<1>1. conn[c] \in Locals
  BY DEF ConnTypes
<1>2. k \in Locals /\ k.pc = p /\ k.op = "create"
  BY <1>1 DEF Locals, Pc, Creating
<1>3. ConnOK(k)
  BY <1>2 DEF ConnOK, Creating, HasId, HasHandle
<1>4. conn' = [conn EXCEPT ![c] = k]
  BY DEF Goto
<1> QED BY <1>3, <1>4, ConnStep

\* The handler returns.
LEMMA ReturnStep ==
  ASSUME ConnTypes, NEW c \in Connections, Return(c)
  PROVE  ConnTypes'
<1>1. ConnOK(Idle)
  BY IdleType DEF ConnOK, HasId, HasHandle, Creating
<1> QED BY <1>1, ConnStep DEF Return

\* A file is staged: the request goes on.
LEMMA StageReadyStep ==
  ASSUME ConnTypes, NEW c \in Connections, NEW id \in Id, StageReady(c, id),
         conn[c].op # "create" => conn[c].id \in Id
  PROVE  ConnTypes'
<1>1. CASE conn[c].op # "create" /\ Goto(c, "apply")
  BY <1>1, GotoStep DEF Pc, Creating, HasHandle
<1>2. CASE Return(c)
  BY <1>2, ReturnStep
<1>3. CASE conn' = [conn EXCEPT ![c].pc = "stage", ![c].op = "setattr", ![c].id = id]
  <2> DEFINE k == [conn[c] EXCEPT !.pc = "stage", !.op = "setattr", !.id = id]
  <2>1. conn[c] \in Locals
    BY DEF ConnTypes
  <2>2. k \in Locals /\ k.pc = "stage" /\ k.id = id
    BY <2>1 DEF Locals, Pc
  <2>3. ConnOK(k)
    BY <2>2 DEF ConnOK, HasHandle, Creating
  <2>4. conn' = [conn EXCEPT ![c] = k]
    BY <1>3
  <2> QED BY <2>3, <2>4, ConnStep
<1> QED BY <1>1, <1>2, <1>3 DEF StageReady

\* A request that names a file arrives.
LEMMA RequestStep ==
  ASSUME ConnTypes, NEW c \in Connections, NEW id \in ClientIds,
         NEW p \in {"stage", "snapshot"}, NEW o \in {"none", "write", "setattr"},
         conn' = [conn EXCEPT ![c] = [Idle EXCEPT !.pc = p, !.op = o, !.id = id]]
  PROVE  ConnTypes'
<1> DEFINE k == [Idle EXCEPT !.pc = p, !.op = o, !.id = id]
<1>1. id \in Id
  BY DEF ClientIds, Id
<1>2. k \in Locals /\ k.pc = p /\ k.id = id
  BY <1>1, IdleType DEF Locals, Pc
<1>3. ConnOK(k)
  BY <1>1, <1>2 DEF ConnOK, HasHandle, Creating
<1> QED BY <1>3, ConnStep

\* The types a step starts from, as the cases below use them.
LEMMA TypeFacts ==
  ASSUME TypeInv, NEW c \in Connections
  PROVE  /\ ConnTypes /\ ConnOK(conn[c]) /\ conn[c] \in Locals
         /\ dev \in [Handle -> Object \cup {None}] /\ lastHandle \in 0..MaxHandle
         /\ staged \in [Id -> Stage \cup {None}] /\ tmp \in [Id -> Content \cup {None}]
         /\ virtSeq \in 0..MaxVirt /\ writable \in BOOLEAN /\ sess \in BOOLEAN
         /\ MaxHandle \in Nat /\ MaxVirt \in Nat /\ MaxSize \in Nat
         /\ Handle \subseteq Id /\ Handle \subseteq 0..MaxHandle
<1>1. MaxHandle \in Nat /\ MaxVirt \in Nat /\ MaxSize \in Nat
  BY ConstantsAssumption
<1>2. Handle \subseteq Id /\ Handle \subseteq 0..MaxHandle
  BY <1>1 DEF Handle, Id
<1> QED BY <1>1, <1>2 DEF TypeInv, TypeOK, ConnTypes

\* A step that leaves all but the locals alone.
LEMMA ConnOnly ==
  ASSUME TypeInv, UNCHANGED <<writable, sess, phone, local>>, ConnTypes'
  PROVE  TypeInv'
BY DEF TypeInv, TypeOK, ConnTypes, phone, local

\* A step that also changes stages and their files, with the right types.
LEMMA LocalStep ==
  ASSUME TypeInv, UNCHANGED <<writable, sess, phone, virtSeq>>, ConnTypes',
         staged' \in [Id -> Stage \cup {None}], tmp' \in [Id -> Content \cup {None}]
  PROVE  TypeInv'
BY DEF TypeInv, TypeOK, ConnTypes, phone

\* A step that also changes the phone.
LEMMA PhoneStep ==
  ASSUME TypeInv, UNCHANGED <<writable, sess, local>>, ConnTypes',
         dev' \in [Handle -> Object \cup {None}], lastHandle' \in 0..MaxHandle
  PROVE  TypeInv'
BY DEF TypeInv, TypeOK, ConnTypes, local

-----------------------------------------------------------------------------
(* Every handler keeps the types. *)

\* WRITE and SETATTR, up to the stage being there.
LEMMA TypeStaging ==
  ASSUME TypeInv, NEW c \in Connections,
         \/ WriteCall(c) \/ SetattrCall(c) \/ StageForWrites(c) \/ ObjectInfo(c)
         \/ PullOpen(c) \/ PullRead(c) \/ PullInsert(c)
  PROVE  TypeInv'
<1> USE TypeFacts
<1>1. CASE WriteCall(c)
  <2>1. ConnTypes'
    BY Zenon, <1>1, RequestStep DEF WriteCall
  <2> QED BY Zenon, <2>1, <1>1, ConnOnly DEF WriteCall
<1>2. CASE SetattrCall(c)
  <2>1. ConnTypes'
    BY Zenon, <1>2, RequestStep DEF SetattrCall
  <2> QED BY Zenon, <2>1, <1>2, ConnOnly DEF SetattrCall
<1>3. CASE StageForWrites(c)
  <2>1. conn[c].id \in Id
    BY <1>3 DEF ConnOK, HasId, StageForWrites
  <2>2. CASE Goto(c, "apply")
    <3>1. ConnTypes'
      BY <2>1, <2>2, GotoStep DEF Pc, HasHandle, Creating
    <3> QED BY <3>1, <1>3, ConnOnly DEF StageForWrites
  <2>3. CASE conn[c].id > 0 /\ conn' = [conn EXCEPT ![c].pc = "info", ![c].h = conn[c].id]
    <3> DEFINE k == [conn[c] EXCEPT !.pc = "info", !.h = conn[c].id]
    <3>1. conn[c].id \in Handle
      BY <2>1, <2>3 DEF Id, Handle
    <3>2. k \in Locals /\ k.pc = "info" /\ k.id = conn[c].id /\ k.h = conn[c].id
      BY ZenonT(40), <3>1 DEF Locals, Pc
    <3>3. ConnOK(k)
      BY <3>1, <3>2, <2>1 DEF ConnOK, Creating
    <3>4. ConnTypes'
      BY <2>3, <3>3, ConnStep
    <3> QED BY <3>4, <1>3, ConnOnly DEF StageForWrites
  <2>4. CASE Return(c)
    <3>1. ConnTypes'
      BY <2>4, ReturnStep
    <3> QED BY <3>1, <1>3, ConnOnly DEF StageForWrites
  <2> QED BY <1>3, <2>2, <2>3, <2>4 DEF StageForWrites
<1>4. CASE ObjectInfo(c)
  <2>1. conn[c].id \in Id /\ conn[c].h \in Handle
    BY Zenon, <1>4 DEF ConnOK, HasId, HasHandle, ObjectInfo
  <2>2. CASE Return(c)
    <3>1. ConnTypes'
      BY <2>2, ReturnStep
    <3> QED BY <3>1, <1>4, ConnOnly DEF ObjectInfo
  <2>3. ASSUME NEW o \in Object,
          conn' = [conn EXCEPT ![c].pc = "pull", ![c].name = o.name,
                               ![c].dir = IF conn[c].op = "create" THEN @ ELSE o.dir,
                               ![c].size = Len(o.data)]
        PROVE ConnTypes'
    <3> DEFINE k == [conn[c] EXCEPT !.pc = "pull", !.name = o.name,
                                    !.dir = IF conn[c].op = "create" THEN @ ELSE o.dir,
                                    !.size = Len(o.data)]
    <3>1. o.name \in Names /\ o.dir \in Dirs /\ Len(o.data) \in 0..MaxSize
      BY ContentSeq DEF Object
    <3>2. k \in Locals /\ k.pc = "pull" /\ k.id = conn[c].id /\ k.h = conn[c].h
      BY ZenonT(40), <3>1 DEF Locals, Pc
    <3>3. ConnOK(k)
      BY <3>2, <2>1 DEF ConnOK, Creating
    <3>4. conn' = [conn EXCEPT ![c] = k]
      BY <2>3
    <3> QED BY <3>4, <3>3, ConnStep
  <2>4. CASE ~Return(c)
    <3>1. dev[conn[c].h] \in Object
      BY <2>1, <2>4, <1>4 DEF ObjectInfo
    <3>2. ConnTypes'
      BY Zenon, <3>1, <2>3, <2>4, <1>4 DEF ObjectInfo
    <3> QED BY <3>2, <1>4, ConnOnly DEF ObjectInfo
  <2> QED BY Zenon, <2>2, <2>4
<1>5. CASE PullOpen(c)
  <2>1. conn[c].id \in Id /\ conn[c].h \in Handle
    BY <1>5 DEF ConnOK, HasId, HasHandle, PullOpen
  <2>2. ConnTypes'
    <3>1. CASE StageReady(c, conn[c].id)
      BY <2>1, <3>1, StageReadyStep
    <3>2. CASE Goto(c, "read")
      BY <2>1, <3>2, GotoStep DEF Pc, Creating
    <3> QED BY <1>5, <3>1, <3>2 DEF PullOpen
  <2>3. tmp' \in [Id -> Content \cup {None}]
    BY <1>5, EmptyType DEF PullOpen
  <2> QED BY <1>5, <2>2, <2>3, LocalStep DEF PullOpen
<1>6. CASE PullRead(c)
  <2>1. conn[c].id \in Id /\ conn[c].h \in Handle
    BY <1>6 DEF ConnOK, HasId, HasHandle, PullRead
  <2>2. ConnTypes'
    <3>1. CASE Goto(c, "insert")
      BY <2>1, <3>1, GotoStep DEF Pc, Creating
    <3> QED BY <1>6, <3>1, ReturnStep DEF PullRead
  <2>3. tmp' \in [Id -> Content \cup {None}]
    <3>1. CASE UNCHANGED tmp
      BY <3>1
    <3>2. CASE dev[conn[c].h] # None /\ \E n \in 0..conn[c].size :
             /\ n <= Len(dev[conn[c].h].data)
             /\ tmp' = [tmp EXCEPT ![conn[c].id] = IF @ = None THEN None
                          ELSE Overlay(@, Prefix(dev[conn[c].h].data, n))]
      <4>1. dev[conn[c].h].data \in Content
        BY <2>1, <3>2 DEF Object
      <4>2. PICK n \in 0..conn[c].size :
             /\ n <= Len(dev[conn[c].h].data)
             /\ tmp' = [tmp EXCEPT ![conn[c].id] = IF @ = None THEN None
                          ELSE Overlay(@, Prefix(dev[conn[c].h].data, n))]
        BY <3>2
      <4>3. conn[c].size \in 0..MaxSize
        BY DEF Locals
      <4>4. n \in 0..Len(dev[conn[c].h].data)
        BY <4>1, <4>2, <4>3, ContentSeq
      <4>5. Prefix(dev[conn[c].h].data, n) \in Content
        BY <4>1, <4>4, PrefixType
      <4>6. tmp[conn[c].id] # None => Overlay(tmp[conn[c].id], Prefix(dev[conn[c].h].data, n)) \in Content
        BY <2>1, <4>5, OverlayType
      <4> QED BY <4>2, <4>6
    <3> QED BY <1>6, <3>1, <3>2 DEF PullRead
  <2> QED BY <1>6, <2>2, <2>3, LocalStep DEF PullRead
<1>7. CASE PullInsert(c)
  <2>1. conn[c].id \in Id /\ conn[c].h \in Handle
    BY <1>7 DEF ConnOK, HasId, HasHandle, PullInsert
  <2>2. ConnTypes'
    <3>1. CASE StageReady(c, conn[c].id)
      BY <2>1, <3>1, StageReadyStep
    <3> QED BY <1>7, <3>1, ReturnStep DEF PullInsert
  <2>3. tmp' \in [Id -> Content \cup {None}]
    BY <1>7 DEF PullInsert
  <2>4. [dir |-> conn[c].dir, name |-> conn[c].name, size |-> conn[c].size,
         origin |-> conn[c].h, flushed |-> 0, dirty |-> FALSE] \in Stage
    BY <2>1 DEF Locals, Stage
  <2>5. staged' \in [Id -> Stage \cup {None}]
    BY Zenon, <1>7, <2>4 DEF PullInsert
  <2> QED BY <1>7, <2>2, <2>3, <2>5, LocalStep DEF PullInsert
<1> QED BY <1>1, <1>2, <1>3, <1>4, <1>5, <1>6, <1>7

\* The effects of WRITE and SETATTR on the stage.
LEMMA TypeApply ==
  ASSUME TypeInv, NEW c \in Connections, ApplyWrite(c) \/ ApplySetattr(c)
  PROVE  TypeInv'
<1> USE TypeFacts
<1> DEFINE id == conn[c].id
<1>1. id \in Id /\ Return(c)
  BY DEF ConnOK, HasId, ApplyWrite, ApplySetattr
<1>2. ConnTypes'
  BY Zenon, <1>1, ReturnStep
<1>3. CASE UNCHANGED <<tmp, staged>>
  BY Zenon, <1>2, <1>3, LocalStep DEF ApplyWrite, ApplySetattr
<1>4. CASE ApplyWrite(c) /\ staged[id] # None
  <2>1. PICK off \in 0..(MaxSize - 1), b \in Byte :
             /\ tmp' = [tmp EXCEPT ![id] =
                          PWrite(IF tmp[id] = None THEN <<>> ELSE tmp[id], off, b)]
             /\ staged' = [staged EXCEPT
                  ![id].size = IF off + 1 > @ THEN off + 1 ELSE @, ![id].dirty = TRUE]
    BY Zenon, <1>4 DEF ApplyWrite
  <2>2. (IF tmp[id] = None THEN <<>> ELSE tmp[id]) \in Content
    BY <1>1, EmptyType
  <2>3. tmp' \in [Id -> Content \cup {None}]
    BY <2>1, <2>2, PWriteType
  <2>4. staged[id] \in Stage
    BY <1>1, <1>4
  <2>5. [staged[id] EXCEPT !.size = IF off + 1 > @ THEN off + 1 ELSE @, !.dirty = TRUE] \in Stage
    <3> DEFINE n == IF off + 1 > staged[id].size THEN off + 1 ELSE staged[id].size
    <3>1. staged[id].size \in 0..MaxSize
      BY <2>4 DEF Stage
    <3>2. n \in 0..MaxSize
      BY <3>1
    <3> HIDE DEF n
    <3>3. [staged[id] EXCEPT !.size = n, !.dirty = TRUE] \in Stage
      BY <2>4, <3>2 DEF Stage
    <3> QED BY <3>3 DEF n
  <2>6. staged' \in [Id -> Stage \cup {None}]
    BY <2>1, <2>5
  <2> QED BY Zenon, <1>2, <1>4, <2>3, <2>6, LocalStep DEF ApplyWrite
<1>5. CASE ApplySetattr(c) /\ staged[id] # None /\ tmp[id] # None
  <2>1. PICK n \in 0..MaxSize :
             /\ tmp' = [tmp EXCEPT ![id] = SetLen(tmp[id], n)]
             /\ staged' = [staged EXCEPT ![id].size = n, ![id].dirty = TRUE]
    BY <1>5 DEF ApplySetattr
  <2>2. tmp[id] \in Content /\ staged[id] \in Stage
    BY <1>1, <1>5
  <2>3. tmp' \in [Id -> Content \cup {None}]
    BY <2>1, <2>2, SetLenType
  <2>4. [staged[id] EXCEPT !.size = n, !.dirty = TRUE] \in Stage
    BY <2>2 DEF Stage
  <2>5. staged' \in [Id -> Stage \cup {None}]
    BY <2>1, <2>4
  <2> QED BY <1>2, <1>5, <2>3, <2>5, LocalStep DEF ApplySetattr
<1> QED BY Zenon, <1>3, <1>4, <1>5 DEF ApplyWrite, ApplySetattr

\* The object of an id is a handle, or there is none.
LEMMA HandleOfId ==
  ASSUME TypeInv, NEW i \in Id
  PROVE  /\ DeviceHandleOf(i) \in 0..MaxHandle
         /\ DeviceHandleOf(i) # 0 => DeviceHandleOf(i) \in Handle
<1>1. MaxHandle \in Nat
  BY ConstantsAssumption
<1>2. CASE staged[i] # None
  <2>1. staged[i] \in Stage
    BY <1>2 DEF TypeInv, TypeOK
  <2>2. staged[i].flushed \in 0..MaxHandle
    BY <2>1 DEF Stage
  <2> QED BY <1>1, <1>2, <2>2 DEF DeviceHandleOf, Handle
<1>3. CASE staged[i] = None
  BY <1>1, <1>3 DEF DeviceHandleOf, Id, Handle
<1> QED BY <1>2, <1>3

\* A stage that has been flushed is a stage.
LEMMA FlushedStage ==
  ASSUME NEW s \in Stage, NEW h \in Handle, NEW n \in 0..MaxSize
  PROVE  [s EXCEPT !.origin = 0, !.flushed = h, !.dirty = FALSE, !.size = n] \in Stage
<1>1. 0 \in 0..MaxHandle /\ h \in 0..MaxHandle
  BY ConstantsAssumption DEF Handle
<1> QED BY <1>1 DEF Stage

\* CREATE.
LEMMA TypeCreate ==
  ASSUME TypeInv, NEW c \in Connections,
         CreateCall(c) \/ CreateExclusiveCall(c) \/ Probe(c) \/ StageNew(c) \/ LookupOrNew(c)
  PROVE  TypeInv'
<1> USE TypeFacts
<1>1. ASSUME NEW p \in Creating, NEW d \in Dirs, NEW n \in Names,
             conn' = [conn EXCEPT ![c] = [Idle EXCEPT !.pc = p, !.op = "create",
                                                      !.dir = d, !.name = n]]
      PROVE  ConnTypes'
  <2> DEFINE k == [Idle EXCEPT !.pc = p, !.op = "create", !.dir = d, !.name = n]
  <2>1. k \in Locals /\ k.pc = p /\ k.op = "create"
    BY IdleType DEF Locals, Pc, Creating
  <2>2. ConnOK(k)
    BY <2>1 DEF ConnOK, HasId, HasHandle, Creating
  <2> QED BY <1>1, <2>2, ConnStep
<1>2. CASE CreateCall(c)
  <2>1. ConnTypes'
    BY Zenon, <1>1, <1>2 DEF CreateCall, Creating
  <2> QED BY Zenon, <1>2, <2>1, ConnOnly DEF CreateCall
<1>3. CASE CreateExclusiveCall(c)
  <2>1. ConnTypes'
    BY Zenon, <1>1, <1>3 DEF CreateExclusiveCall, Creating
  <2> QED BY Zenon, <1>3, <2>1, ConnOnly DEF CreateExclusiveCall
<1>4. CASE Probe(c)
  <2>1. conn[c].op = "create"
    BY <1>4 DEF ConnOK, Creating, Probe
  <2>2. ConnTypes'
    BY <1>4, <2>1, CreatingStep, ReturnStep DEF Probe, Creating
  <2> QED BY <1>4, <2>2, ConnOnly DEF Probe
<1>5. CASE StageNew(c)
  <2>1. conn[c].op = "create"
    BY <1>5 DEF ConnOK, Creating, StageNew
  <2>2. CASE Goto(c, "lookup")
    <3>1. ConnTypes'
      BY <2>1, <2>2, CreatingStep DEF Creating
    <3> QED BY <1>5, <3>1, ConnOnly DEF StageNew
  <2>3. CASE \E id \in StagedAs(conn[c].dir, conn[c].name) : StageReady(c, id)
    <3>1. ConnTypes'
      BY <2>1, <2>3, StageReadyStep DEF StagedAs
    <3> QED BY <1>5, <3>1, ConnOnly DEF StageNew
  <2>4. CASE Return(c)
    BY <1>5, <2>4, ReturnStep, ConnOnly DEF StageNew
  <2> QED BY <1>5, <2>2, <2>3, <2>4 DEF StageNew
<1>6. CASE LookupOrNew(c)
  <2> DEFINE id == -(virtSeq + 1)
  <2>1. conn[c].op = "create"
    BY Zenon, <1>6 DEF ConnOK, Creating, LookupOrNew
  <2>2. CASE \E i \in LookupIds(conn[c].dir, conn[c].name) :
             /\ DeviceHandleOf(i) # 0
             /\ conn' = [conn EXCEPT ![c].pc = "info", ![c].id = i, ![c].h = DeviceHandleOf(i)]
             /\ UNCHANGED local
    <3>1. PICK i \in LookupIds(conn[c].dir, conn[c].name) :
             /\ DeviceHandleOf(i) # 0
             /\ conn' = [conn EXCEPT ![c].pc = "info", ![c].id = i, ![c].h = DeviceHandleOf(i)]
      BY Zenon, <2>2
    <3>2. i \in Id
      BY DEF LookupIds, StagedAs, Listed
    <3>3. DeviceHandleOf(i) \in Handle
      BY <3>1, <3>2, HandleOfId
    <3> DEFINE k == [conn[c] EXCEPT !.pc = "info", !.id = i, !.h = DeviceHandleOf(i)]
    <3>4. k \in Locals /\ k.pc = "info" /\ k.id = i /\ k.h = DeviceHandleOf(i)
      BY ZenonT(40), <3>2, <3>3 DEF Locals, Pc
    <3>5. ConnOK(k)
      BY <3>2, <3>3, <3>4 DEF ConnOK, Creating
    <3>6. conn' = [conn EXCEPT ![c] = k]
      BY <3>1
    <3>7. ConnTypes'
      BY <3>5, <3>6, ConnStep
    <3> QED BY Zenon, <1>6, <2>2, <3>7, ConnOnly DEF LookupOrNew
  <2>3. CASE /\ virtSeq < MaxVirt /\ virtSeq' = virtSeq + 1
             /\ tmp' = [tmp EXCEPT ![id] = <<>>]
             /\ staged' = [staged EXCEPT ![id] =
                  [dir |-> conn[c].dir, name |-> conn[c].name, size |-> 0,
                   origin |-> 0, flushed |-> 0, dirty |-> TRUE]]
             /\ StageReady(c, id)
    <3>0. virtSeq + 1 \in 1..MaxVirt /\ virtSeq + 1 \in 0..MaxVirt
      BY <2>3
    <3>1. id \in Id
      BY <3>0 DEF Id
    <3>2. ConnTypes'
      BY <2>1, <2>3, <3>1, StageReadyStep
    <3>3. tmp' \in [Id -> Content \cup {None}]
      BY <2>3, EmptyType
    <3>4. [dir |-> conn[c].dir, name |-> conn[c].name, size |-> 0,
           origin |-> 0, flushed |-> 0, dirty |-> TRUE] \in Stage
      BY DEF Locals, Stage
    <3>5. staged' \in [Id -> Stage \cup {None}]
      BY <2>3, <3>4
    <3> QED BY Zenon, <1>6, <2>3, <3>0, <3>2, <3>3, <3>5
            DEF LookupOrNew, TypeInv, TypeOK, ConnTypes, phone
  <2>4. CASE Return(c) /\ UNCHANGED local
    <3>1. ConnTypes'
      BY <2>4, ReturnStep
    <3> QED BY Zenon, <1>6, <2>4, <3>1, ConnOnly DEF LookupOrNew
  <2> QED BY Zenon, <1>6, <2>2, <2>3, <2>4 DEF LookupOrNew
<1> QED BY <1>2, <1>3, <1>4, <1>5, <1>6

\* COMMIT.
LEMMA TypeCommit ==
  ASSUME TypeInv, NEW c \in Connections,
         CommitCall(c) \/ FlushSnapshot(c) \/ FlushDelete(c) \/ FlushUpload(c) \/ FlushDone(c)
  PROVE  TypeInv'
<1> USE TypeFacts
<1>1. CASE CommitCall(c)
  <2>1. PICK id \in ClientIds :
          conn' = [conn EXCEPT ![c] = [Idle EXCEPT !.pc = "snapshot", !.id = id]]
    BY Zenon, <1>1 DEF CommitCall
  <2> DEFINE k == [Idle EXCEPT !.pc = "snapshot", !.id = id]
  <2>2. id \in Id
    BY DEF ClientIds, Id
  <2>3. k \in Locals /\ k.pc = "snapshot" /\ k.id = id
    BY <2>2, IdleType DEF Locals, Pc
  <2>4. ConnOK(k)
    BY <2>2, <2>3 DEF ConnOK, HasHandle, Creating
  <2>5. ConnTypes'
    BY <2>1, <2>4, ConnStep
  <2> QED BY Zenon, <1>1, <2>5, ConnOnly DEF CommitCall
<1>2. CASE FlushSnapshot(c)
  <2> DEFINE s == staged[conn[c].id]
  <2>1. conn[c].id \in Id
    BY Zenon, <1>2 DEF ConnOK, HasId, FlushSnapshot
  <2>2. CASE Return(c)
    <3>1. ConnTypes'
      BY <2>2, ReturnStep
    <3> QED BY Zenon, <1>2, <3>1, ConnOnly DEF FlushSnapshot
  <2>3. CASE /\ s # None
             /\ conn' = [conn EXCEPT ![c].pc = "delete", ![c].dir = s.dir, ![c].name = s.name,
                                     ![c].size = s.size, ![c].h = CurrentDev(s)]
    <3>1. s \in Stage
      BY <2>1, <2>3
    <3>2. /\ s.dir \in Dirs /\ s.name \in Names /\ s.size \in 0..MaxSize
          /\ CurrentDev(s) \in 0..MaxHandle
      BY <3>1 DEF Stage, CurrentDev
    <3> HIDE DEF s
    <3> DEFINE k == [conn[c] EXCEPT !.pc = "delete", !.dir = s.dir, !.name = s.name,
                                    !.size = s.size, !.h = CurrentDev(s)]
    <3>3. k \in Locals /\ k.pc = "delete" /\ k.id = conn[c].id
      BY ZenonT(40), <3>2 DEF Locals, Pc
    <3>4. ConnOK(k)
      BY <2>1, <3>3 DEF ConnOK, HasHandle, Creating
    <3>5. conn' = [conn EXCEPT ![c] = k]
      BY <2>3
    <3>6. ConnTypes'
      BY <3>4, <3>5, ConnStep
    <3> QED BY <1>2, <3>6, ConnOnly DEF FlushSnapshot
  <2> QED BY Zenon, <1>2, <2>2, <2>3 DEF FlushSnapshot
<1>3. CASE FlushDelete(c)
  <2>1. conn[c].id \in Id
    BY <1>3 DEF ConnOK, HasId, FlushDelete
  <2>2. ConnTypes'
    <3>1. CASE Goto(c, "upload")
      BY <2>1, <3>1, GotoStep DEF Pc, HasHandle, Creating
    <3> QED BY <1>3, <3>1, ReturnStep DEF FlushDelete
  <2>3. dev' \in [Handle -> Object \cup {None}]
    BY <1>3 DEF FlushDelete
  <2> QED BY <1>3, <2>2, <2>3, PhoneStep DEF FlushDelete
<1>4. CASE FlushUpload(c)
  <2> DEFINE h == lastHandle + 1
             data == tmp[conn[c].id]
  <2>1. conn[c].id \in Id
    BY <1>4 DEF ConnOK, HasId, FlushUpload
  <2>2. CASE Return(c) /\ UNCHANGED phone
    <3>1. ConnTypes'
      BY <2>2, ReturnStep
    <3> QED BY <1>4, <2>2, <3>1, ConnOnly DEF FlushUpload
  <2>3. ASSUME h \in Handle, lastHandle' = h,
               NEW d \in Content, dev' = [dev EXCEPT ![h] = UploadedObject(c, d)],
               Return(c) \/ conn' = [conn EXCEPT ![c].pc = "flushed", ![c].h = h]
        PROVE  TypeInv'
    <3>1. UploadedObject(c, d) \in Object
      BY <2>3 DEF UploadedObject, Object, Locals
    <3>2. dev' \in [Handle -> Object \cup {None}] /\ lastHandle' \in 0..MaxHandle
      BY <2>3, <3>1
    <3>3. ConnTypes'
      <4>1. CASE conn' = [conn EXCEPT ![c].pc = "flushed", ![c].h = h]
        <5> DEFINE k == [conn[c] EXCEPT !.pc = "flushed", !.h = h]
        <5>1. h \in Handle /\ h \in 0..MaxHandle
          BY <2>3
        <5> HIDE DEF h
        <5>2. k \in Locals /\ k.pc = "flushed" /\ k.id = conn[c].id /\ k.h = h
          BY ZenonT(40), <5>1 DEF Locals, Pc
        <5>3. ConnOK(k)
          BY <2>1, <5>1, <5>2 DEF ConnOK, Creating
        <5>4. conn' = [conn EXCEPT ![c] = k]
          BY <4>1
        <5> QED BY <5>3, <5>4, ConnStep
      <4> QED BY <2>3, <4>1, ReturnStep
    <3> QED BY <1>4, <3>2, <3>3, PhoneStep DEF FlushUpload
  <2>4. CASE /\ h \in Handle /\ data # None /\ lastHandle' = h
             /\ dev' = [dev EXCEPT ![h] = UploadedObject(c, data)]
             /\ Return(c) \/ conn' = [conn EXCEPT ![c].pc = "flushed", ![c].h = h]
    BY <2>1, <2>3, <2>4
  <2>5. CASE /\ h \in Handle /\ data # None /\ lastHandle' = h
             /\ \E n \in 0..Len(data) : dev' = [dev EXCEPT ![h] = UploadedObject(c, Prefix(data, n))]
             /\ Return(c)
    <3>1. data \in Content
      BY <2>1, <2>5
    <3>2. PICK n \in 0..Len(data) : dev' = [dev EXCEPT ![h] = UploadedObject(c, Prefix(data, n))]
      BY <2>5
    <3>3. Prefix(data, n) \in Content
      BY <3>1, PrefixType
    <3> QED BY <2>3, <2>5, <3>2, <3>3
  <2> QED BY <1>4, <2>2, <2>4, <2>5 DEF FlushUpload
<1>5. CASE FlushDone(c)
  <2> DEFINE id == conn[c].id
  <2>1. id \in Id /\ conn[c].h \in Handle /\ conn[c].size \in 0..MaxSize
    BY <1>5 DEF ConnOK, HasId, HasHandle, FlushDone, Locals
  <2>2. ConnTypes'
    BY <1>5, ReturnStep DEF FlushDone
  <2>3. staged' \in [Id -> Stage \cup {None}]
    <3>1. CASE staged[id] # None
      <4>1. staged[id] \in Stage
        BY <2>1, <3>1
      <4>2. [staged[id] EXCEPT !.origin = 0, !.flushed = conn[c].h, !.dirty = FALSE,
                               !.size = conn[c].size] \in Stage
        BY Zenon, <2>1, <4>1, FlushedStage
      <4> QED BY <1>5, <2>1, <3>1, <4>2 DEF FlushDone
    <3> QED BY <1>5, <3>1 DEF FlushDone
  <2> QED BY <1>5, <2>2, <2>3, LocalStep DEF FlushDone
<1> QED BY <1>1, <1>2, <1>3, <1>4, <1>5

\* REMOVE.
LEMMA TypeRemove ==
  ASSUME TypeInv, NEW c \in Connections, RemoveCall(c) \/ RemoveDelete(c) \/ RemoveDrop(c)
  PROVE  TypeInv'
<1> USE TypeFacts
<1>1. CASE RemoveCall(c)
  <2>0. PICK d \in Dirs, n \in Names : \E id \in LookupIds(d, n) :
          LET viaStage == id \in StagedAs(d, n)
              h == IF viaStage THEN CurrentDev(staged[id]) ELSE DeviceHandleOf(id) IN
          conn' = [conn EXCEPT ![c] = [Idle EXCEPT
            !.id = id, !.h = h, !.op = IF viaStage THEN "unlink" ELSE "none",
            !.pc = IF h = 0 THEN "rmdrop" ELSE "rmdelete"]]
    BY Zenon, <1>1 DEF RemoveCall
  <2>1. PICK id \in LookupIds(d, n) :
          LET viaStage == id \in StagedAs(d, n)
              h == IF viaStage THEN CurrentDev(staged[id]) ELSE DeviceHandleOf(id) IN
          conn' = [conn EXCEPT ![c] = [Idle EXCEPT
            !.id = id, !.h = h, !.op = IF viaStage THEN "unlink" ELSE "none",
            !.pc = IF h = 0 THEN "rmdrop" ELSE "rmdelete"]]
    BY Zenon, <2>0
  <2> DEFINE viaStage == id \in StagedAs(d, n)
             h == IF viaStage THEN CurrentDev(staged[id]) ELSE DeviceHandleOf(id)
             o == IF viaStage THEN "unlink" ELSE "none"
             p == IF h = 0 THEN "rmdrop" ELSE "rmdelete"
             k == [Idle EXCEPT !.id = id, !.h = h, !.op = o, !.pc = p]
  <2>2. id \in Id
    BY DEF LookupIds, StagedAs, Listed
  <2>3. h \in 0..MaxHandle
    <3>1. CASE viaStage
      <4>1. staged[id] \in Stage
        BY <2>2, <3>1 DEF StagedAs
      <4>2. CurrentDev(staged[id]) \in 0..MaxHandle
        BY <4>1 DEF CurrentDev, Stage
      <4> QED BY <3>1, <4>2
    <3>2. CASE ~viaStage
      <4>1. DeviceHandleOf(id) \in 0..MaxHandle
        BY <2>2, HandleOfId
      <4> QED BY <3>2, <4>1
    <3> QED BY <3>1, <3>2
  <2>4. conn' = [conn EXCEPT ![c] = k]
    BY <2>1
  <2>5. /\ o \in {"unlink", "none"} /\ p \in {"rmdrop", "rmdelete"}
        /\ p = "rmdelete" => h \in Handle
    BY <2>3 DEF Handle
  <2> HIDE DEF h, o, p
  <2>6. k \in Locals /\ k.pc = p /\ k.id = id /\ k.h = h
    BY <2>2, <2>3, <2>5, IdleType DEF Locals, Pc
  <2>7. ConnOK(k)
    BY <2>2, <2>5, <2>6 DEF ConnOK, HasHandle, Creating
  <2>8. ConnTypes'
    BY <2>4, <2>7, ConnStep
  <2> QED BY Zenon, <1>1, <2>8, ConnOnly DEF RemoveCall
<1>2. CASE RemoveDelete(c)
  <2>1. conn[c].id \in Id
    BY <1>2 DEF ConnOK, HasId, RemoveDelete
  <2>2. ConnTypes'
    <3>1. CASE Goto(c, "rmdrop")
      BY <2>1, <3>1, GotoStep DEF Pc, HasHandle, Creating
    <3> QED BY <1>2, <3>1, ReturnStep DEF RemoveDelete
  <2>3. dev' \in [Handle -> Object \cup {None}]
    BY <1>2 DEF RemoveDelete
  <2> QED BY <1>2, <2>2, <2>3, PhoneStep DEF RemoveDelete
<1>3. CASE RemoveDrop(c)
  <2>1. ConnTypes'
    BY <1>3, ReturnStep DEF RemoveDrop
  <2>2. conn[c].id \in Id
    BY <1>3 DEF ConnOK, HasId, RemoveDrop
  <2>3. staged' \in [Id -> Stage \cup {None}] /\ tmp' \in [Id -> Content \cup {None}]
    BY <1>3, <2>2 DEF RemoveDrop
  <2> QED BY <1>3, <2>1, <2>3, LocalStep DEF RemoveDrop
<1> QED BY <1>1, <1>2, <1>3

\* A stage that takes another name is a stage.
LEMMA RenamedStage ==
  ASSUME NEW s \in Stage, NEW d \in Dirs, NEW n \in Names
  PROVE  [s EXCEPT !.dir = d, !.name = n] \in Stage
BY DEF Stage

\* RENAME.
LEMMA TypeRename ==
  ASSUME TypeInv, NEW c \in Connections,
         RenameCall(c) \/ RenameLookup(c) \/ HRename(c) \/ RenameResync(c)
  PROVE  TypeInv'
<1> USE TypeFacts
<1>1. CASE RenameCall(c)
  <2>1. PICK d \in Dirs, n \in Names, td \in Dirs, tn \in Names :
       \/ \E id \in StagedAs(d, n) :
            /\ staged' = [staged EXCEPT ![id].dir = td, ![id].name = tn]
            /\ UNCHANGED conn
       \/ /\ conn' = [conn EXCEPT ![c] = [Idle EXCEPT !.pc = "rnlookup", !.dir = d, !.name = n,
                                                     !.toDir = td, !.toName = tn]]
          /\ UNCHANGED staged
    BY ZenonT(40), <1>1 DEF RenameCall
  <2>2. CASE \E id \in StagedAs(d, n) :
            /\ staged' = [staged EXCEPT ![id].dir = td, ![id].name = tn]
            /\ UNCHANGED conn
    <3>1. PICK id \in StagedAs(d, n) :
            staged' = [staged EXCEPT ![id].dir = td, ![id].name = tn]
      BY <2>2
    <3>2. id \in Id /\ staged[id] \in Stage
      BY <3>1 DEF StagedAs
    <3>3. [staged[id] EXCEPT !.dir = td, !.name = tn] \in Stage
      BY Zenon, <3>2, RenamedStage
    <3>4. staged' \in [Id -> Stage \cup {None}]
      BY <3>1, <3>2, <3>3
    <3>5. ConnTypes'
      BY <2>2 DEF ConnTypes
    <3> QED BY Zenon, <1>1, <3>4, <3>5, LocalStep DEF RenameCall
  <2>3. CASE /\ conn' = [conn EXCEPT ![c] = [Idle EXCEPT !.pc = "rnlookup", !.dir = d, !.name = n,
                                                     !.toDir = td, !.toName = tn]]
             /\ UNCHANGED staged
    <3> DEFINE k == [Idle EXCEPT !.pc = "rnlookup", !.dir = d, !.name = n,
                                 !.toDir = td, !.toName = tn]
    <3>1. k \in Locals /\ k.pc = "rnlookup"
      BY IdleType DEF Locals, Pc
    <3>2. ConnOK(k)
      BY <3>1 DEF ConnOK, HasId, HasHandle, Creating
    <3>3. ConnTypes'
      BY <2>3, <3>2, ConnStep
    <3> QED BY Zenon, <1>1, <2>3, <3>3, LocalStep DEF RenameCall
  <2> QED BY Zenon, <2>1, <2>2, <2>3
<1>2. CASE RenameLookup(c)
  <2>1. CASE Return(c)
    <3>1. ConnTypes'
      BY <2>1, ReturnStep
    <3> QED BY <1>2, <3>1, ConnOnly DEF RenameLookup
  <2>2. CASE \E id \in LookupIds(conn[c].dir, conn[c].name) :
               conn' = [conn EXCEPT ![c].pc = "hrename", ![c].id = id]
    <3>1. PICK id \in LookupIds(conn[c].dir, conn[c].name) :
               conn' = [conn EXCEPT ![c].pc = "hrename", ![c].id = id]
      BY <2>2
    <3>2. id \in Id
      BY DEF LookupIds, StagedAs, Listed
    <3> DEFINE k == [conn[c] EXCEPT !.pc = "hrename", !.id = id]
    <3>3. k \in Locals /\ k.pc = "hrename" /\ k.id = id
      BY ZenonT(40), <3>2 DEF Locals, Pc
    <3>4. ConnOK(k)
      BY <3>2, <3>3 DEF ConnOK, HasHandle, Creating
    <3>5. conn' = [conn EXCEPT ![c] = k]
      BY <3>1
    <3>6. ConnTypes'
      BY <3>4, <3>5, ConnStep
    <3> QED BY <1>2, <3>6, ConnOnly DEF RenameLookup
  <2> QED BY <1>2, <2>1, <2>2 DEF RenameLookup
<1>3. CASE HRename(c)
  <2>1. conn[c].id \in Id /\ conn[c].toDir \in Dirs /\ conn[c].toName \in Names
    BY <1>3 DEF ConnOK, HasId, HRename, Locals
  <2>2. ConnTypes'
    <3>1. CASE Goto(c, "resync")
      BY <2>1, <3>1, GotoStep DEF Pc, HasHandle, Creating
    <3> QED BY <1>3, <3>1, ReturnStep DEF HRename
  <2>3. dev' \in [Handle -> Object \cup {None}]
    <3>1. CASE UNCHANGED dev
      BY <3>1
    <3>2. CASE \E h \in Listed(conn[c].dir, conn[c].name) :
                 dev' = [dev EXCEPT ![h].dir = conn[c].toDir, ![h].name = conn[c].toName]
      <4>1. PICK h \in Listed(conn[c].dir, conn[c].name) :
                 dev' = [dev EXCEPT ![h].dir = conn[c].toDir, ![h].name = conn[c].toName]
        BY <3>2
      <4>2. h \in Handle /\ dev[h] \in Object
        BY DEF Listed
      <4>3. [dev[h] EXCEPT !.dir = conn[c].toDir, !.name = conn[c].toName] \in Object
        BY <2>1, <4>2 DEF Object
      <4> QED BY <4>1, <4>2, <4>3
    <3>3. CASE \E h \in Listed(conn[c].dir, conn[c].name) :
                 dev' = [dev EXCEPT ![h].dir = conn[c].toDir]
      <4>1. PICK h \in Listed(conn[c].dir, conn[c].name) :
                 dev' = [dev EXCEPT ![h].dir = conn[c].toDir]
        BY <3>3
      <4>2. h \in Handle /\ dev[h] \in Object
        BY DEF Listed
      <4>3. [dev[h] EXCEPT !.dir = conn[c].toDir] \in Object
        BY <2>1, <4>2 DEF Object
      <4> QED BY <4>1, <4>2, <4>3
    <3> QED BY <1>3, <3>1, <3>2, <3>3 DEF HRename
  <2> QED BY <1>3, <2>2, <2>3, PhoneStep DEF HRename
<1>4. CASE RenameResync(c)
  <2>1. conn[c].id \in Id /\ conn[c].toDir \in Dirs /\ conn[c].toName \in Names
    BY <1>4 DEF ConnOK, HasId, RenameResync, Locals
  <2>2. ConnTypes'
    BY <1>4, ReturnStep DEF RenameResync
  <2>3. staged' \in [Id -> Stage \cup {None}]
    <3>1. CASE staged[conn[c].id] # None
      <4>1. staged[conn[c].id] \in Stage
        BY <2>1, <3>1
      <4>2. [staged[conn[c].id] EXCEPT !.dir = conn[c].toDir, !.name = conn[c].toName] \in Stage
        BY Zenon, <2>1, <4>1, RenamedStage
      <4> QED BY <1>4, <3>1, <4>2 DEF RenameResync
    <3> QED BY <1>4, <3>1 DEF RenameResync
  <2> QED BY <1>4, <2>2, <2>3, LocalStep DEF RenameResync
<1> QED BY <1>1, <1>2, <1>3, <1>4

\* MKDIR.
LEMMA TypeMkdir ==
  ASSUME TypeInv, NEW c \in Connections, MkdirCall(c)
  PROVE  TypeInv'
<1> USE TypeFacts
<1> DEFINE h == lastHandle + 1
<1>1. ConnTypes'
  BY DEF MkdirCall, ConnTypes
<1>2. PICK d \in Dirs, n \in Names :
        dev' = [dev EXCEPT ![h] = [dir |-> d, name |-> n, isdir |-> TRUE, data |-> <<>>]]
  BY DEF MkdirCall
<1>3. [dir |-> d, name |-> n, isdir |-> TRUE, data |-> <<>>] \in Object
  BY EmptyType DEF Object
<1>4. dev' \in [Handle -> Object \cup {None}] /\ lastHandle' \in 0..MaxHandle
  BY <1>2, <1>3 DEF MkdirCall
<1> QED BY <1>1, <1>4, PhoneStep DEF MkdirCall

\* The session comes and goes, the daemon restarts.
LEMMA TypeSession ==
  ASSUME TypeInv, Detach \/ Attach \/ Restart
  PROVE  TypeInv'
<1> USE DEF phone, local
<1>1. CASE Detach
  BY <1>1 DEF Detach, TypeInv, TypeOK, ConnTypes
<1>2. CASE Attach
  <2>1. dev' \in [Handle -> Object \cup {None}]
    <3>1. CASE UNCHANGED dev
      BY <3>1 DEF TypeInv, TypeOK
    <3>2. CASE \E h1, h2 \in 1..lastHandle :
                 dev' = [dev EXCEPT ![h1] = dev[h2], ![h2] = dev[h1]]
      BY <3>2, ConstantsAssumption DEF TypeInv, TypeOK, Handle
    <3> QED BY <1>2, <3>1, <3>2 DEF Attach
  <2> QED BY <1>2, <2>1 DEF Attach, TypeInv, TypeOK, ConnTypes
<1>3. CASE Restart
  <2>1. ConnOK(Idle)
    BY IdleType DEF ConnOK, HasId, HasHandle, Creating
  <2>2. ConnTypes'
    BY <1>3, <2>1, IdleType DEF Restart, ConnTypes
  <2>3. 0 \in 0..MaxVirt
    BY ConstantsAssumption
  <2> QED BY <1>3, <2>2, <2>3 DEF Restart, TypeInv, TypeOK, ConnTypes
<1> QED BY <1>1, <1>2, <1>3

\* Every step keeps the types.
LEMMA TypeStep == TypeInv /\ [Next]_vars => TypeInv'
<1> SUFFICES ASSUME TypeInv, [Next]_vars PROVE TypeInv'
  OBVIOUS
<1>1. CASE UNCHANGED vars
  BY <1>1 DEF vars, TypeInv, TypeOK, ConnTypes
<1>2. ASSUME NEW c \in Connections, Serve(c) PROVE TypeInv'
  BY <1>2, TypeStaging, TypeApply, TypeCreate, TypeCommit, TypeRemove, TypeRename, TypeMkdir
     DEF Serve
<1>3. CASE Detach \/ Attach \/ Restart
  BY <1>3, TypeSession
<1> QED BY <1>1, <1>2, <1>3 DEF Next, Quiet

\* Every reachable state is well typed, whatever the number of connections and
\* the bounds: in particular no handler follows an id or a handle it does not
\* have, and no size or content outgrows its bound.
THEOREM TypeCorrect == Spec => []TypeOK
<1>1. TypeInv => TypeOK
  BY DEF TypeInv
<1> QED BY <1>1, TypeInit, TypeStep, PTL DEF Spec


-----------------------------------------------------------------------------
(* The read-only export. *)

\* Where a request may be on a read-only export: at the lookup of an exclusive
\* CREATE, or before the check of stage_new or stage_for_writes.
Refused(k) == k.pc \in {"idle", "probe", "stagenew", "stage"}

\* On a read-only export every request is refused, and nothing was ever staged.
Untouched ==
  ~writable => /\ \A c \in Connections : Refused(conn[c])
               /\ staged = [id \in Id |-> None]
               /\ tmp = [id \in Id |-> None]

\* What a connection does on a read-only export: a CREATE is begun or ended.
LEMMA ReadOnlyStep ==
  ASSUME TypeInv, Untouched, ~writable, NEW c \in Connections, Serve(c)
  PROVE  UNCHANGED <<sess, dev, lastHandle, local>> /\ \A x \in Connections : Refused(conn'[x])
<1>1. Refused(conn[c])
  BY DEF Untouched
<1>2. CreateCall(c) \/ CreateExclusiveCall(c) \/ Probe(c) \/ StageNew(c) \/ StageForWrites(c)
  BY Zenon, <1>1 DEF Refused, Serve, Request, WriteCall, SetattrCall, ObjectInfo,
     PullOpen, PullRead, PullInsert, ApplyWrite, ApplySetattr, LookupOrNew, CommitCall,
     FlushSnapshot, FlushDelete, FlushUpload, FlushDone, RemoveCall, RemoveDelete, RemoveDrop,
     RenameCall, RenameLookup, HRename, RenameResync, MkdirCall
<1>3. UNCHANGED <<sess, dev, lastHandle, local>>
  BY Zenon, <1>2 DEF CreateCall, CreateExclusiveCall, Probe, StageNew, StageForWrites, phone
<1>4. conn \in [Connections -> Locals]
  BY TypeFacts DEF ConnTypes
<1>5. conn'[c].pc \in {"idle", "probe", "stagenew", "stage"}
  <2>1. CASE CreateCall(c)
    <3>1. PICK d \in Dirs, n \in Names :
            conn' = [conn EXCEPT ![c] = [Idle EXCEPT !.pc = "stagenew", !.op = "create",
                                                     !.dir = d, !.name = n]]
      BY <2>1 DEF CreateCall
    <3> QED BY <1>4, <3>1, IdleType DEF Locals
  <2>2. CASE CreateExclusiveCall(c)
    <3>1. PICK d \in Dirs, n \in Names :
            conn' = [conn EXCEPT ![c] = [Idle EXCEPT !.pc = "probe", !.op = "create",
                                                     !.dir = d, !.name = n]]
      BY <2>2 DEF CreateExclusiveCall
    <3> QED BY <1>4, <3>1, IdleType DEF Locals
  <2>3. ASSUME Return(c) PROVE conn'[c].pc = "idle"
    BY <1>4, <2>3, IdleType DEF Return
  <2>4. ASSUME Goto(c, "stagenew") PROVE conn'[c].pc = "stagenew"
    BY <1>4, <2>4 DEF Goto, Locals
  <2>5. CASE Probe(c)
    BY <2>3, <2>4, <2>5 DEF Probe
  <2>6. CASE StageNew(c)
    BY <2>3, <2>6 DEF StageNew
  <2>7. CASE StageForWrites(c)
    BY <2>3, <2>7 DEF StageForWrites
  <2> QED BY <1>2, <2>1, <2>2, <2>5, <2>6, <2>7
<1>6. \A x \in Connections : x # c => conn'[x] = conn[x]
  <2>1. CASE CreateCall(c) \/ CreateExclusiveCall(c) \/ Probe(c) \/ StageNew(c)
    BY <1>4, <2>1 DEF CreateCall, CreateExclusiveCall, Probe, StageNew, Return, Goto
  <2>2. CASE StageForWrites(c)
    BY <1>4, <2>2 DEF StageForWrites, Return
  <2> QED BY <1>2, <2>1, <2>2
<1> QED BY <1>3, <1>5, <1>6 DEF Untouched, Refused

\* Whether an export is writable is settled when it starts.
LEMMA WritableFixed ==
  ASSUME [Next]_vars
  PROVE  writable' = writable
<1>1. ASSUME NEW c \in Connections, Serve(c) PROVE writable' = writable
  <2>1. CASE \/ WriteCall(c) \/ SetattrCall(c) \/ StageForWrites(c) \/ ObjectInfo(c)
             \/ PullOpen(c) \/ PullRead(c) \/ PullInsert(c)
    BY Zenon, <2>1 DEF WriteCall, SetattrCall, StageForWrites, ObjectInfo, PullOpen, PullRead, PullInsert
  <2>2. CASE \/ ApplyWrite(c) \/ ApplySetattr(c) \/ CreateCall(c) \/ CreateExclusiveCall(c)
             \/ Probe(c) \/ StageNew(c) \/ LookupOrNew(c)
    BY Zenon, <2>2 DEF ApplyWrite, ApplySetattr, CreateCall, CreateExclusiveCall, Probe, StageNew,
                LookupOrNew
  <2>3. CASE \/ CommitCall(c) \/ FlushSnapshot(c) \/ FlushDelete(c) \/ FlushUpload(c) \/ FlushDone(c)
    BY Zenon, <2>3 DEF CommitCall, FlushSnapshot, FlushDelete, FlushUpload, FlushDone
  <2>4. CASE \/ RemoveCall(c) \/ RemoveDelete(c) \/ RemoveDrop(c) \/ RenameCall(c)
             \/ RenameLookup(c) \/ HRename(c) \/ RenameResync(c) \/ MkdirCall(c)
    BY Zenon, <2>4 DEF RemoveCall, RemoveDelete, RemoveDrop, RenameCall, RenameLookup, HRename,
                RenameResync, MkdirCall
  <2> QED BY <1>1, <2>1, <2>2, <2>3, <2>4 DEF Serve
<1>2. CASE Detach \/ Attach \/ Restart \/ UNCHANGED vars
  BY <1>2 DEF Detach, Attach, Restart, vars
<1> QED BY <1>1, <1>2 DEF Next, Quiet

LEMMA UntouchedStep == TypeInv /\ Untouched /\ [Next]_vars => Untouched'
<1> SUFFICES ASSUME TypeInv, Untouched, [Next]_vars, ~writable PROVE Untouched'
  BY WritableFixed DEF Untouched
<1>1. ASSUME NEW c \in Connections, Serve(c) PROVE Untouched'
  BY <1>1, ReadOnlyStep DEF Untouched, local
<1>2. CASE UNCHANGED vars
  BY <1>2 DEF vars, Untouched
<1>3. CASE Detach
  BY <1>3 DEF Detach, Untouched, local
<1>4. CASE Attach
  BY <1>4 DEF Attach, Untouched, local
<1>5. CASE Restart
  BY <1>5, IdleType DEF Restart, Untouched, Refused
<1> QED BY <1>1, <1>2, <1>3, <1>4, <1>5 DEF Next, Quiet

\* On a read-only export every procedure refuses to write, each by its own
\* check: nothing changes on the phone, nothing is staged, and no request gets
\* past the checks, however many connections ask.
THEOREM ReadOnlyHolds == Spec => ReadOnlyExport
<1>1. Init => Untouched
  BY IdleType DEF Init, Untouched, Refused
<1>2. TypeInv /\ Untouched /\ [Next]_vars =>
        [~writable => /\ sess => UNCHANGED <<dev, staged, tmp>>
                      /\ \A c \in Connections : conn'[c].pc \in {"idle", "probe", "stagenew", "stage"}]_vars
  <2> SUFFICES ASSUME TypeInv, Untouched, Next, ~writable
               PROVE  /\ sess => UNCHANGED <<dev, staged, tmp>>
                      /\ \A c \in Connections : conn'[c].pc \in {"idle", "probe", "stagenew", "stage"}
    BY DEF vars
  <2>1. ~writable' /\ Untouched'
    BY UntouchedStep, WritableFixed
  <2>2. \A c \in Connections : conn'[c].pc \in {"idle", "probe", "stagenew", "stage"}
    BY <2>1 DEF Untouched, Refused
  <2>3. UNCHANGED <<staged, tmp>>
    BY <2>1 DEF Untouched
  <2>4. ASSUME sess, NEW c \in Connections, Serve(c) PROVE dev' = dev
    BY <2>4, ReadOnlyStep
  <2>5. ASSUME sess, Quiet \/ Detach \/ Attach \/ Restart PROVE dev' = dev
    BY <2>5 DEF Quiet, Detach, Attach, Restart, vars, phone
  <2> QED BY <2>2, <2>3, <2>4, <2>5 DEF Next
<1> QED BY <1>1, <1>2, TypeInit, TypeStep, UntouchedStep, PTL DEF Spec, ReadOnlyExport

-----------------------------------------------------------------------------
(* Directories. *)

\* The handle is none, or one given out whose object is no directory (any
\* more, or at all).
NoDirectory(h) ==
  h = 0 \/ (h <= lastHandle /\ (dev[h] # None => ~dev[h].isdir))

\* What the handles the adapter keeps may stand for: the flush deletes the
\* object a stage was read from or last flushed to, and never a directory.
KeepsFiles ==
  /\ \A h \in Handle : h > lastHandle => dev[h] = None
  /\ \A id \in Id : staged[id] # None =>
       NoDirectory(staged[id].origin) /\ NoDirectory(staged[id].flushed)
  /\ \A c \in Connections :
       conn[c].pc \in {"pull", "read", "insert", "delete", "flushed"} => NoDirectory(conn[c].h)

NoDirectoryAfter(h) ==
  h = 0 \/ (h <= lastHandle' /\ (dev'[h] # None => ~dev'[h].isdir))

\* Some request is about to delete the object.
Deleting(h) ==
  \E c \in Connections : conn[c].pc \in {"delete", "rmdelete"} /\ conn[c].h = h

\* What a step does to the objects there are.
KindsKept ==
  /\ lastHandle' >= lastHandle
  /\ \A h \in Handle : h <= lastHandle =>
       \/ dev'[h] = None /\ (dev[h] = None \/ Deleting(h))
       \/ dev[h] # None /\ dev'[h] # None /\ dev'[h].isdir = dev[h].isdir
  /\ \A h \in Handle : h > lastHandle' => dev'[h] = None

LEMMA NoDirectoryKept ==
  ASSUME TypeInv, KindsKept, NEW h \in 0..MaxHandle, NoDirectory(h), lastHandle' \in 0..MaxHandle
  PROVE  NoDirectoryAfter(h)
<1>1. CASE h = 0
  BY <1>1 DEF NoDirectoryAfter
<1>2. CASE h # 0
  <2>1. h \in Handle /\ h <= lastHandle
    BY <1>2, ConstantsAssumption DEF Handle, NoDirectory
  <2>2. lastHandle \in Int /\ lastHandle' \in Int
    BY ConstantsAssumption DEF TypeInv, TypeOK
  <2> QED BY <2>1, <2>2, <1>2 DEF NoDirectory, NoDirectoryAfter, KindsKept
<1> QED BY <1>1, <1>2

\* Objects keep their kind: no call to the phone turns a file into a directory,
\* and a new handle is one that was never used.
LEMMA KindsServe ==
  ASSUME TypeInv, KeepsFiles, NEW c \in Connections, Serve(c)
  PROVE  KindsKept
<1> USE TypeFacts
<1>1. CASE UNCHANGED phone
  BY <1>1 DEF phone, KindsKept, KeepsFiles
<1>2. ASSUME NEW h \in Handle, dev' = [dev EXCEPT ![h] = None], UNCHANGED lastHandle,
             Deleting(h)
      PROVE  KindsKept
  BY <1>2 DEF KindsKept, KeepsFiles
<1>3. ASSUME NEW o, lastHandle + 1 \in Handle, lastHandle' = lastHandle + 1,
             dev' = [dev EXCEPT ![lastHandle + 1] = o]
      PROVE  KindsKept
  BY <1>3 DEF KindsKept, KeepsFiles, Handle
<1>4. CASE FlushDelete(c)
  <2>1. conn[c].h \in 0..MaxHandle
    BY DEF Locals
  <2>2. CASE UNCHANGED dev
    BY <1>1, <1>4, <2>2 DEF FlushDelete, phone
  <2>3. CASE conn[c].h # 0 /\ dev' = [dev EXCEPT ![conn[c].h] = None]
    <3>1. conn[c].h \in Handle
      BY <2>1, <2>3 DEF Handle
    <3>2. UNCHANGED lastHandle /\ Deleting(conn[c].h)
      BY <1>4 DEF FlushDelete, Deleting
    <3> QED BY <1>2, <2>3, <3>1, <3>2
  <2> QED BY <1>4, <2>2, <2>3 DEF FlushDelete
<1>5. CASE FlushUpload(c)
  BY <1>1, <1>3, <1>5 DEF FlushUpload
<1>6. CASE RemoveDelete(c)
  <2>1. conn[c].h \in Handle
    BY <1>6 DEF RemoveDelete, ConnOK, HasHandle
  <2>2. Deleting(conn[c].h)
    BY <1>6 DEF RemoveDelete, Deleting
  <2> QED BY <1>1, <1>2, <1>6, <2>1, <2>2 DEF RemoveDelete, phone
<1>7. CASE HRename(c)
  <2>1. CASE UNCHANGED dev
    BY <1>1, <1>7, <2>1 DEF HRename, phone
  <2>2. CASE \E h \in Listed(conn[c].dir, conn[c].name) :
               \/ dev' = [dev EXCEPT ![h].dir = conn[c].toDir, ![h].name = conn[c].toName]
               \/ dev' = [dev EXCEPT ![h].dir = conn[c].toDir]
    <3>1. PICK h \in Listed(conn[c].dir, conn[c].name) :
               \/ dev' = [dev EXCEPT ![h].dir = conn[c].toDir, ![h].name = conn[c].toName]
               \/ dev' = [dev EXCEPT ![h].dir = conn[c].toDir]
      BY <2>2
    <3>2. h \in Handle /\ dev[h] \in Object /\ dev[h] # None
      BY DEF Listed
    <3>3. /\ dev'[h] \in Object /\ dev'[h] # None /\ dev'[h].isdir = dev[h].isdir
          /\ \A g \in Handle : g # h => dev'[g] = dev[g]
      <4>1. conn[c].toDir \in Dirs /\ conn[c].toName \in Names
        BY DEF Locals
      <4>2. dev'[h] \in Object
        BY <3>1, <3>2, <4>1 DEF Object
      <4>3. dev'[h].isdir = dev[h].isdir
        BY <3>1, <3>2 DEF Object
      <4> QED BY <3>1, <3>2, <4>2, <4>3, NoneAssumption
    <3>4. lastHandle' = lastHandle
      BY <1>7 DEF HRename
    <3>5. h <= lastHandle
      BY <3>2 DEF KeepsFiles, Handle
    <3>6. \A g \in Handle : g > lastHandle => dev'[g] = None
      BY <3>3, <3>5 DEF KeepsFiles, Handle
    <3>7. \A g \in Handle : g <= lastHandle =>
            \/ dev'[g] = None /\ dev[g] = None
            \/ dev[g] # None /\ dev'[g] # None /\ dev'[g].isdir = dev[g].isdir
      <4> TAKE g \in Handle
      <4>1. CASE g = h
        BY <4>1, <3>2, <3>3
      <4>2. CASE g # h
        BY <4>2, <3>3
      <4> QED BY <4>1, <4>2
    <3> QED BY <3>4, <3>6, <3>7 DEF KindsKept
  <2> QED BY <1>7, <2>1, <2>2 DEF HRename
<1>8. CASE MkdirCall(c)
  BY Zenon, <1>3, <1>8 DEF MkdirCall
<1>9. CASE \/ WriteCall(c) \/ SetattrCall(c) \/ StageForWrites(c) \/ ObjectInfo(c)
           \/ PullOpen(c) \/ PullRead(c) \/ PullInsert(c) \/ ApplyWrite(c) \/ ApplySetattr(c)
  BY Zenon, <1>1, <1>9 DEF WriteCall, SetattrCall, StageForWrites, ObjectInfo, PullOpen, PullRead,
                    PullInsert, ApplyWrite, ApplySetattr
<1>10. CASE \/ CreateCall(c) \/ CreateExclusiveCall(c) \/ Probe(c) \/ StageNew(c)
            \/ LookupOrNew(c) \/ CommitCall(c) \/ FlushSnapshot(c) \/ FlushDone(c)
  BY Zenon, <1>1, <1>10 DEF CreateCall, CreateExclusiveCall, Probe, StageNew, LookupOrNew, CommitCall,
                     FlushSnapshot, FlushDone
<1>11. CASE \/ RemoveCall(c) \/ RemoveDrop(c) \/ RenameCall(c) \/ RenameLookup(c)
            \/ RenameResync(c)
  BY Zenon, <1>1, <1>11 DEF RemoveCall, RemoveDrop, RenameCall, RenameLookup, RenameResync
<1> QED BY <1>4, <1>5, <1>6, <1>7, <1>8, <1>9, <1>10, <1>11 DEF Serve

\* The handles of the stages after a step stand for no directory before it.
LEMMA StagesServe ==
  ASSUME TypeInv, KeepsFiles, NEW c \in Connections, Serve(c)
  PROVE  \A id \in Id : staged'[id] # None =>
           NoDirectory(staged'[id].origin) /\ NoDirectory(staged'[id].flushed)
<1> USE TypeFacts
<1>1. CASE UNCHANGED staged
  BY <1>1 DEF KeepsFiles
\* The stages other than one stay, and that one keeps its handles or is new.
<1>2. ASSUME NEW i \in Id, NEW s, staged' = [staged EXCEPT ![i] = s],
             s # None => NoDirectory(s.origin) /\ NoDirectory(s.flushed)
      PROVE  \A id \in Id : staged'[id] # None =>
               NoDirectory(staged'[id].origin) /\ NoDirectory(staged'[id].flushed)
  BY <1>2 DEF KeepsFiles
<1>3. CASE PullInsert(c)
  <2> DEFINE s == [dir |-> conn[c].dir, name |-> conn[c].name, size |-> conn[c].size,
                   origin |-> conn[c].h, flushed |-> 0, dirty |-> FALSE]
  <2>1. conn[c].id \in Id /\ NoDirectory(conn[c].h)
    BY <1>3 DEF PullInsert, KeepsFiles, ConnOK, HasId
  <2>2. NoDirectory(s.origin) /\ NoDirectory(s.flushed)
    BY <2>1 DEF NoDirectory
  <2> QED BY <1>1, <1>2, <1>3, <2>1, <2>2 DEF PullInsert
<1>4. CASE ApplyWrite(c)
  <2>1. conn[c].id \in Id
    BY <1>4 DEF ApplyWrite, ConnOK, HasId
  <2>2. CASE staged[conn[c].id] # None
    <3>1. staged[conn[c].id] \in Stage
      BY <2>1, <2>2
    <3>2. PICK off \in 0..(MaxSize - 1) :
            staged' = [staged EXCEPT ![conn[c].id].size = IF off + 1 > @ THEN off + 1 ELSE @,
                                     ![conn[c].id].dirty = TRUE]
      BY <1>4, <2>2 DEF ApplyWrite
    <3> DEFINE s == [staged[conn[c].id] EXCEPT !.size = IF off + 1 > @ THEN off + 1 ELSE @,
                                               !.dirty = TRUE]
    <3>3. s.origin = staged[conn[c].id].origin /\ s.flushed = staged[conn[c].id].flushed
      BY <3>1 DEF Stage
    <3>4. staged' = [staged EXCEPT ![conn[c].id] = s]
      BY <3>2
    <3>5. NoDirectory(s.origin) /\ NoDirectory(s.flushed)
      BY <2>1, <2>2, <3>3 DEF KeepsFiles
    <3> HIDE DEF s
    <3> QED BY <1>2, <2>1, <3>4, <3>5
  <2> QED BY <1>1, <1>4, <2>2 DEF ApplyWrite
<1>5. CASE ApplySetattr(c)
  <2>1. conn[c].id \in Id
    BY <1>5 DEF ApplySetattr, ConnOK, HasId
  <2>2. CASE ~UNCHANGED staged
    <3>1. staged[conn[c].id] # None /\ staged[conn[c].id] \in Stage
      BY <1>5, <2>1, <2>2 DEF ApplySetattr
    <3>2. PICK n \in 0..MaxSize :
            staged' = [staged EXCEPT ![conn[c].id].size = n, ![conn[c].id].dirty = TRUE]
      BY <1>5, <2>2 DEF ApplySetattr
    <3> DEFINE s == [staged[conn[c].id] EXCEPT !.size = n, !.dirty = TRUE]
    <3>3. s.origin = staged[conn[c].id].origin /\ s.flushed = staged[conn[c].id].flushed
      BY <3>1 DEF Stage
    <3>4. staged' = [staged EXCEPT ![conn[c].id] = s]
      BY <3>2
    <3>5. NoDirectory(s.origin) /\ NoDirectory(s.flushed)
      BY <2>1, <3>1, <3>3 DEF KeepsFiles
    <3> HIDE DEF s
    <3> QED BY <1>2, <2>1, <3>4, <3>5
  <2> QED BY <1>1, <2>2
<1>6. CASE LookupOrNew(c)
  <2>1. CASE ~UNCHANGED staged
    <3> DEFINE id == -(virtSeq + 1)
               s == [dir |-> conn[c].dir, name |-> conn[c].name, size |-> 0,
                     origin |-> 0, flushed |-> 0, dirty |-> TRUE]
    <3>1. virtSeq < MaxVirt /\ staged' = [staged EXCEPT ![id] = s]
      BY Zenon, <1>6, <2>1 DEF LookupOrNew, local
    <3>2. virtSeq + 1 \in 1..MaxVirt
      BY <3>1
    <3>3. id \in Id
      BY <3>2 DEF Id
    <3>4. NoDirectory(s.origin) /\ NoDirectory(s.flushed)
      BY DEF NoDirectory
    <3> QED BY <1>2, <3>1, <3>3, <3>4
  <2> QED BY <1>1, <2>1
<1>7. CASE FlushDone(c)
  <2>1. conn[c].id \in Id /\ NoDirectory(conn[c].h)
    BY <1>7 DEF FlushDone, KeepsFiles, ConnOK, HasId
  <2>2. CASE staged[conn[c].id] # None
    <3>1. staged[conn[c].id] \in Stage
      BY <2>1, <2>2
    <3> DEFINE s == [staged[conn[c].id] EXCEPT !.origin = 0, !.flushed = conn[c].h,
                                               !.dirty = FALSE, !.size = conn[c].size]
    <3>2. s.origin = 0 /\ s.flushed = conn[c].h
      BY <3>1 DEF Stage
    <3>3. staged' = [staged EXCEPT ![conn[c].id] = s]
      BY <1>7, <2>2 DEF FlushDone
    <3>4. NoDirectory(s.origin) /\ NoDirectory(s.flushed)
      BY <2>1, <3>2 DEF NoDirectory
    <3> HIDE DEF s
    <3> QED BY <1>2, <2>1, <3>3, <3>4
  <2> QED BY <1>1, <1>7, <2>2 DEF FlushDone
<1>8. CASE RemoveDrop(c)
  <2>1. conn[c].id \in Id
    BY <1>8 DEF RemoveDrop, ConnOK, HasId
  <2> QED BY <1>2, <1>8, <2>1 DEF RemoveDrop
\* A stage that takes another name keeps its handles.
<1>9. ASSUME NEW i \in Id, staged[i] # None, NEW d, NEW n,
             staged' = [staged EXCEPT ![i].dir = d, ![i].name = n]
      PROVE  \A id \in Id : staged'[id] # None =>
               NoDirectory(staged'[id].origin) /\ NoDirectory(staged'[id].flushed)
  <2>1. staged[i] \in Stage
    BY <1>9
  <2> DEFINE s == [staged[i] EXCEPT !.dir = d, !.name = n]
  <2>2. s.origin = staged[i].origin /\ s.flushed = staged[i].flushed
    BY <2>1 DEF Stage
  <2>3. staged' = [staged EXCEPT ![i] = s]
    BY <1>9
  <2>4. NoDirectory(s.origin) /\ NoDirectory(s.flushed)
    BY <1>9, <2>2 DEF KeepsFiles
  <2> HIDE DEF s
  <2> QED BY <1>2, <2>3, <2>4
<1>10. CASE RenameCall(c)
  <2>1. CASE UNCHANGED staged
    BY <1>1, <2>1
  <2>2. CASE ~UNCHANGED staged
    <3>1. PICK i \in Id : \E d, n : staged[i] # None /\ staged' = [staged EXCEPT ![i].dir = d, ![i].name = n]
      BY ZenonT(40), <1>10, <2>2 DEF RenameCall, StagedAs
    <3> QED BY <1>9, <3>1
  <2> QED BY <2>1, <2>2
<1>11. CASE RenameResync(c)
  <2>1. conn[c].id \in Id
    BY <1>11 DEF RenameResync, ConnOK, HasId
  <2> QED BY <1>1, <1>9, <1>11, <2>1 DEF RenameResync
<1>12. CASE \/ WriteCall(c) \/ SetattrCall(c) \/ StageForWrites(c) \/ ObjectInfo(c)
            \/ PullOpen(c) \/ PullRead(c) \/ CreateCall(c) \/ CreateExclusiveCall(c)
            \/ Probe(c) \/ StageNew(c)
  BY Zenon, <1>1, <1>12 DEF WriteCall, SetattrCall, StageForWrites, ObjectInfo, PullOpen, PullRead,
                     CreateCall, CreateExclusiveCall, Probe, StageNew, local
<1>13. CASE \/ CommitCall(c) \/ FlushSnapshot(c) \/ FlushDelete(c) \/ FlushUpload(c)
            \/ RemoveCall(c) \/ RemoveDelete(c) \/ RenameLookup(c) \/ HRename(c) \/ MkdirCall(c)
  BY Zenon, <1>1, <1>13 DEF CommitCall, FlushSnapshot, FlushDelete, FlushUpload, RemoveCall,
                     RemoveDelete, RenameLookup, HRename, MkdirCall, local
<1> QED BY <1>3, <1>4, <1>5, <1>6, <1>7, <1>8, <1>10, <1>11, <1>12, <1>13 DEF Serve

\* The points at which a handler still goes by a handle it took.
HoldsHandle == {"pull", "read", "insert", "delete", "flushed"}

\* The handles the handlers go by after a step stand for no directory.
LEMMA LocalsServe ==
  ASSUME TypeInv, TypeInv', KeepsFiles, NEW c \in Connections, Serve(c)
  PROVE  \A d \in Connections : conn'[d].pc \in HoldsHandle =>
           NoDirectory(conn'[d].h) \/ NoDirectoryAfter(conn'[d].h)
<1> USE TypeFacts
<1>1. CASE UNCHANGED conn
  BY <1>1 DEF KeepsFiles, HoldsHandle
\* The other connections stay; this one gets locals that are in order.
<1>2. ASSUME NEW k, conn' = [conn EXCEPT ![c] = k],
             k.pc \in HoldsHandle => NoDirectory(k.h) \/ NoDirectoryAfter(k.h)
      PROVE  \A d \in Connections : conn'[d].pc \in HoldsHandle =>
               NoDirectory(conn'[d].h) \/ NoDirectoryAfter(conn'[d].h)
  <2> TAKE d \in Connections
  <2>1. CASE d = c
    <3>1. conn'[d] = k
      BY <1>2, <2>1 DEF ConnTypes
    <3> QED BY <1>2, <3>1 DEF NoDirectory
  <2>2. CASE d # c
    BY <1>2, <2>2 DEF KeepsFiles, HoldsHandle, ConnTypes
  <2> QED BY <2>1, <2>2
<1>3. ASSUME Return(c)
      PROVE  \A d \in Connections : conn'[d].pc \in HoldsHandle =>
               NoDirectory(conn'[d].h) \/ NoDirectoryAfter(conn'[d].h)
  <2>1. Idle.pc \notin HoldsHandle
    BY IdleType DEF HoldsHandle
  <2> QED BY <1>2, <1>3, <2>1 DEF Return
<1>4. ASSUME NEW p, Goto(c, p), p \in HoldsHandle => NoDirectory(conn[c].h)
      PROVE  \A d \in Connections : conn'[d].pc \in HoldsHandle =>
               NoDirectory(conn'[d].h) \/ NoDirectoryAfter(conn'[d].h)
  <2> DEFINE k == [conn[c] EXCEPT !.pc = p]
  <2>1. k.pc = p /\ k.h = conn[c].h
    BY DEF Locals
  <2>2. conn' = [conn EXCEPT ![c] = k]
    BY <1>4 DEF Goto
  <2>3. k.pc \in HoldsHandle => NoDirectory(k.h) \/ NoDirectoryAfter(k.h)
    BY <1>4, <2>1
  <2> HIDE DEF k
  <2> QED BY <1>2, <2>2, <2>3
<1>6. ASSUME NEW id, StageReady(c, id)
      PROVE  \A d \in Connections : conn'[d].pc \in HoldsHandle =>
               NoDirectory(conn'[d].h) \/ NoDirectoryAfter(conn'[d].h)
  <2>1. CASE Goto(c, "apply")
    BY <1>4, <2>1 DEF HoldsHandle
  <2>2. CASE conn' = [conn EXCEPT ![c].pc = "stage", ![c].op = "setattr", ![c].id = id]
    <3> DEFINE k == [conn[c] EXCEPT !.pc = "stage", !.op = "setattr", !.id = id]
    <3>1. k.pc = "stage"
      BY DEF Locals
    <3>2. conn' = [conn EXCEPT ![c] = k]
      BY <2>2
    <3> HIDE DEF k
    <3> QED BY <1>2, <3>1, <3>2 DEF HoldsHandle
  <2> QED BY <1>3, <1>6, <2>1, <2>2 DEF StageReady
<1>7. CASE \/ WriteCall(c) \/ SetattrCall(c) \/ CreateCall(c) \/ CreateExclusiveCall(c)
           \/ CommitCall(c) \/ RemoveCall(c)
  <2>1. \E k : conn' = [conn EXCEPT ![c] = k] /\ k.pc \notin HoldsHandle
    <3>1. CASE WriteCall(c) \/ SetattrCall(c) \/ CommitCall(c)
      <4>1. CASE WriteCall(c) \/ SetattrCall(c)
        <5>1. PICK id \in ClientIds, o \in {"write", "setattr"} :
                conn' = [conn EXCEPT ![c] = [Idle EXCEPT !.pc = "stage", !.op = o, !.id = id]]
          BY Zenon, <4>1 DEF WriteCall, SetattrCall
        <5>2. [Idle EXCEPT !.pc = "stage", !.op = o, !.id = id].pc = "stage"
          BY IdleType DEF Locals
        <5> QED BY <5>1, <5>2 DEF HoldsHandle
      <4>2. CASE CommitCall(c)
        <5>1. PICK id \in ClientIds :
                conn' = [conn EXCEPT ![c] = [Idle EXCEPT !.pc = "snapshot", !.id = id]]
          BY Zenon, <4>2 DEF CommitCall
        <5>2. [Idle EXCEPT !.pc = "snapshot", !.id = id].pc = "snapshot"
          BY IdleType DEF Locals
        <5> QED BY <5>1, <5>2 DEF HoldsHandle
      <4> QED BY <3>1, <4>1, <4>2
    <3>2. CASE CreateCall(c) \/ CreateExclusiveCall(c)
      <4>1. PICK p \in {"stagenew", "probe"}, d \in Dirs, n \in Names :
              conn' = [conn EXCEPT ![c] = [Idle EXCEPT !.pc = p, !.op = "create",
                                                       !.dir = d, !.name = n]]
        BY Zenon, <3>2 DEF CreateCall, CreateExclusiveCall
      <4>2. [Idle EXCEPT !.pc = p, !.op = "create", !.dir = d, !.name = n].pc = p
        BY IdleType DEF Locals
      <4> QED BY <4>1, <4>2 DEF HoldsHandle
    <3>3. CASE RemoveCall(c)
      <4>1. PICK id, h, o :
              conn' = [conn EXCEPT ![c] = [Idle EXCEPT !.id = id, !.h = h, !.op = o,
                         !.pc = IF h = 0 THEN "rmdrop" ELSE "rmdelete"]]
        BY Zenon, <3>3 DEF RemoveCall
      <4>2. [Idle EXCEPT !.id = id, !.h = h, !.op = o,
                         !.pc = IF h = 0 THEN "rmdrop" ELSE "rmdelete"].pc
              \in {"rmdrop", "rmdelete"}
        BY IdleType DEF Locals
      <4> QED BY <4>1, <4>2 DEF HoldsHandle
    <3> QED BY <1>7, <3>1, <3>2, <3>3
  <2> QED BY <1>2, <2>1
<1>8. CASE StageForWrites(c)
  <2>1. CASE conn' = [conn EXCEPT ![c].pc = "info", ![c].h = conn[c].id]
    <3> DEFINE k == [conn[c] EXCEPT !.pc = "info", !.h = conn[c].id]
    <3>1. k.pc = "info"
      BY DEF Locals
    <3>2. conn' = [conn EXCEPT ![c] = k]
      BY <2>1
    <3> HIDE DEF k
    <3> QED BY <1>2, <3>1, <3>2 DEF HoldsHandle
  <2>2. CASE Goto(c, "apply")
    BY <1>4, <2>2 DEF HoldsHandle
  <2> QED BY <1>3, <1>8, <2>1, <2>2 DEF StageForWrites
<1>9. CASE ObjectInfo(c)
  <2>1. CASE Return(c)
    BY <1>3, <2>1
  <2>2. CASE ~Return(c)
    <3> DEFINE o == dev[conn[c].h]
               k == [conn[c] EXCEPT !.pc = "pull", !.name = o.name,
                                    !.dir = IF conn[c].op = "create" THEN @ ELSE o.dir,
                                    !.size = Len(o.data)]
    <3>1. o # None /\ ~o.isdir /\ conn' = [conn EXCEPT ![c] = k]
      BY <1>9, <2>2 DEF ObjectInfo
    <3>2. conn[c].h \in Handle
      BY <1>9 DEF ObjectInfo, ConnOK, HasHandle
    <3>3. conn[c].h <= lastHandle
      BY <3>1, <3>2 DEF KeepsFiles, Handle
    <3>4. k.h = conn[c].h
      BY DEF Locals
    <3>5. NoDirectory(k.h)
      BY <3>1, <3>3, <3>4 DEF NoDirectory
    <3> HIDE DEF k
    <3> QED BY <1>2, <3>1, <3>5
  <2> QED BY <2>1, <2>2
<1>10. CASE PullOpen(c) \/ PullRead(c) \/ PullInsert(c)
  <2>1. NoDirectory(conn[c].h)
    BY Zenon, <1>10 DEF PullOpen, PullRead, PullInsert, KeepsFiles
  <2> QED BY <1>3, <1>4, <1>6, <1>10, <2>1 DEF PullOpen, PullRead, PullInsert
<1>11. CASE \/ ApplyWrite(c) \/ ApplySetattr(c) \/ FlushDone(c) \/ RemoveDrop(c)
            \/ RenameResync(c)
  BY Zenon, <1>3, <1>11 DEF ApplyWrite, ApplySetattr, FlushDone, RemoveDrop, RenameResync
<1>12. CASE Probe(c) \/ StageNew(c)
  <2>1. "stagenew" \notin HoldsHandle /\ "lookup" \notin HoldsHandle
    BY DEF HoldsHandle
  <2> QED BY <1>3, <1>4, <1>6, <1>12, <2>1 DEF Probe, StageNew
<1>13. CASE LookupOrNew(c)
  <2>1. CASE \E i, h : conn' = [conn EXCEPT ![c].pc = "info", ![c].id = i, ![c].h = h]
    <3>1. PICK i, h : conn' = [conn EXCEPT ![c].pc = "info", ![c].id = i, ![c].h = h]
      BY Zenon, <2>1
    <3> DEFINE k == [conn[c] EXCEPT !.pc = "info", !.id = i, !.h = h]
    <3>2. k.pc = "info"
      BY DEF Locals
    <3>3. conn' = [conn EXCEPT ![c] = k]
      BY <3>1
    <3> HIDE DEF k
    <3> QED BY <1>2, <3>2, <3>3 DEF HoldsHandle
  <2> QED BY Zenon, <1>3, <1>6, <1>13, <2>1 DEF LookupOrNew
<1>14. CASE FlushSnapshot(c)
  <2>1. CASE Return(c)
    BY <1>3, <2>1
  <2>2. CASE ~Return(c)
    <3> DEFINE s == staged[conn[c].id]
               k == [conn[c] EXCEPT !.pc = "delete", !.dir = s.dir, !.name = s.name,
                                    !.size = s.size, !.h = CurrentDev(s)]
    <3>1. s # None /\ conn' = [conn EXCEPT ![c] = k] /\ conn[c].id \in Id
      BY <1>14, <2>2 DEF FlushSnapshot, ConnOK, HasId
    <3>2. NoDirectory(CurrentDev(s))
      BY <3>1 DEF KeepsFiles, CurrentDev
    <3>3. k.h = CurrentDev(s)
      BY DEF Locals
    <3> HIDE DEF k, s
    <3> QED BY <1>2, <3>1, <3>2, <3>3
  <2> QED BY <2>1, <2>2
<1>15. CASE FlushDelete(c) \/ RemoveDelete(c)
  <2>1. "upload" \notin HoldsHandle /\ "rmdrop" \notin HoldsHandle
    BY DEF HoldsHandle
  <2> QED BY <1>3, <1>4, <1>15, <2>1 DEF FlushDelete, RemoveDelete
<1>16. CASE FlushUpload(c)
  <2> DEFINE h == lastHandle + 1
             k == [conn[c] EXCEPT !.pc = "flushed", !.h = h]
             o == UploadedObject(c, tmp[conn[c].id])
  <2>1. CASE /\ h \in Handle /\ lastHandle' = h
             /\ dev' = [dev EXCEPT ![h] = o]
             /\ conn' = [conn EXCEPT ![c].pc = "flushed", ![c].h = h]
    <3>1. conn' = [conn EXCEPT ![c] = k]
      BY <2>1
    <3>2. k.h = h
      BY DEF Locals
    <3>3. dev'[h] = o /\ ~o.isdir
      BY <2>1 DEF UploadedObject
    <3>4. NoDirectoryAfter(h)
      BY <2>1, <3>3 DEF NoDirectoryAfter, Handle
    <3>5. NoDirectoryAfter(k.h)
      BY <3>2, <3>4
    <3> HIDE DEF k
    <3> QED BY <1>2, <3>1, <3>5
  <2> QED BY <1>3, <1>16, <2>1 DEF FlushUpload
<1>17. CASE RenameCall(c)
  <2>1. CASE ~UNCHANGED conn
    <3>1. PICK d, n, td, tn :
            conn' = [conn EXCEPT ![c] = [Idle EXCEPT !.pc = "rnlookup", !.dir = d, !.name = n,
                                                     !.toDir = td, !.toName = tn]]
      BY Zenon, <1>17, <2>1 DEF RenameCall
    <3> DEFINE k == [Idle EXCEPT !.pc = "rnlookup", !.dir = d, !.name = n,
                                 !.toDir = td, !.toName = tn]
    <3>2. k.pc = "rnlookup"
      BY IdleType DEF Locals
    <3> HIDE DEF k
    <3> QED BY <1>2, <3>1, <3>2 DEF HoldsHandle, k
  <2> QED BY <1>1, <2>1
<1>18. CASE RenameLookup(c)
  <2>1. CASE ~Return(c)
    <3>1. PICK id : conn' = [conn EXCEPT ![c].pc = "hrename", ![c].id = id]
      BY <1>18, <2>1 DEF RenameLookup
    <3> DEFINE k == [conn[c] EXCEPT !.pc = "hrename", !.id = id]
    <3>2. k.pc = "hrename"
      BY DEF Locals
    <3>3. conn' = [conn EXCEPT ![c] = k]
      BY <3>1
    <3> HIDE DEF k
    <3> QED BY <1>2, <3>2, <3>3 DEF HoldsHandle
  <2> QED BY <1>3, <2>1
<1>19. CASE HRename(c)
  <2>1. "resync" \notin HoldsHandle
    BY DEF HoldsHandle
  <2> QED BY <1>3, <1>4, <1>19, <2>1 DEF HRename
<1>20. CASE MkdirCall(c)
  BY <1>1, <1>20 DEF MkdirCall
<1> QED BY <1>7, <1>8, <1>9, <1>10, <1>11, <1>12, <1>13, <1>14, <1>15, <1>16, <1>17, <1>18,
           <1>19, <1>20 DEF Serve

\* The invariant is inductive while the phone keeps its numbering.
LEMMA KeepsFilesStep ==
  ASSUME TypeInv, TypeInv', KeepsFiles, [Next]_vars, "renumber" \notin Faults
  PROVE  KeepsFiles'
<1>1. CASE UNCHANGED vars
  BY <1>1 DEF vars, KeepsFiles, NoDirectory
<1>2. ASSUME NEW c \in Connections, Serve(c) PROVE KeepsFiles'
  <2>1. KindsKept
    BY <1>2, KindsServe
  <2>2. lastHandle' \in 0..MaxHandle
    BY DEF TypeInv, TypeOK
  <2>3. ASSUME NEW id \in Id, staged'[id] # None
        PROVE  NoDirectoryAfter(staged'[id].origin) /\ NoDirectoryAfter(staged'[id].flushed)
    <3>1. staged'[id] \in Stage
      BY <2>3 DEF TypeInv, TypeOK
    <3>2. staged'[id].origin \in 0..MaxHandle /\ staged'[id].flushed \in 0..MaxHandle
      BY <3>1 DEF Stage
    <3>3. NoDirectory(staged'[id].origin) /\ NoDirectory(staged'[id].flushed)
      BY <1>2, <2>3, StagesServe
    <3> QED BY <2>1, <2>2, <3>2, <3>3, NoDirectoryKept
  <2>4. ASSUME NEW d \in Connections, conn'[d].pc \in HoldsHandle
        PROVE  NoDirectoryAfter(conn'[d].h)
    <3>1. conn'[d].h \in 0..MaxHandle
      BY DEF TypeInv, TypeOK, Locals
    <3>2. NoDirectory(conn'[d].h) \/ NoDirectoryAfter(conn'[d].h)
      BY <1>2, <2>4, LocalsServe
    <3> QED BY <2>1, <2>2, <3>1, <3>2, NoDirectoryKept
  <2>5. \A h \in Handle : h > lastHandle' => dev'[h] = None
    BY <2>1 DEF KindsKept
  <2> QED BY <2>3, <2>4, <2>5 DEF KeepsFiles, HoldsHandle, NoDirectory, NoDirectoryAfter
<1>3. CASE Detach
  BY <1>3 DEF Detach, KeepsFiles, NoDirectory, phone, local
<1>4. CASE Attach
  BY <1>4 DEF Attach, KeepsFiles, NoDirectory, local
<1>5. CASE Restart
  BY <1>5, IdleType DEF Restart, KeepsFiles, NoDirectory, phone
<1> QED BY <1>1, <1>2, <1>3, <1>4, <1>5 DEF Next, Quiet

LEMMA KeepsFilesInit == Init => KeepsFiles
BY IdleType, ConstantsAssumption DEF Init, KeepsFiles

\* What takes an object off the phone: a flush, which by KeepsFiles goes for no
\* directory, or a REMOVE.
LEMMA DirectoryStep ==
  ASSUME TypeInv, KeepsFiles, [Next]_vars, "renumber" \notin Faults,
         NEW h \in Handle, sess, dev[h] # None, dev[h].isdir, dev'[h] = None
  PROVE  \E c \in Connections : conn[c].pc = "rmdelete" /\ conn[c].h = h
<1>1. ASSUME NEW c \in Connections, Serve(c)
      PROVE  \E d \in Connections : conn[d].pc = "rmdelete" /\ conn[d].h = h
  <2>1. h <= lastHandle
    BY ConstantsAssumption DEF KeepsFiles, Handle, TypeInv, TypeOK
  <2>2. Deleting(h)
    BY <1>1, <2>1, KindsServe DEF KindsKept
  <2>3. \A d \in Connections : conn[d].pc = "delete" => conn[d].h # h
    BY DEF KeepsFiles, NoDirectory, Handle
  <2> QED BY <2>2, <2>3 DEF Deleting
<1>2. CASE UNCHANGED dev
  BY <1>2
<1> QED BY <1>1, <1>2 DEF Next, Quiet, vars, Detach, Attach, Restart, phone

\* No write path takes a directory off the phone, whatever the number of
\* connections, as long as the phone does not renumber its objects between two
\* sessions: the kind check is made once, when a file is staged, and the handle
\* is deleted at every flush after that.
THEOREM DirectoriesHold ==
  ASSUME "renumber" \notin Faults
  PROVE  Spec => DirectoriesKept
<1>1. TypeInv /\ KeepsFiles /\ [Next]_vars => KeepsFiles'
  BY TypeStep, KeepsFilesStep
<1>2. TypeInv /\ KeepsFiles /\ [Next]_vars
        => [\A h \in Handle :
              (/\ sess /\ dev[h] # None /\ dev[h].isdir
               /\ dev'[h] = None)
              => \E c \in Connections : conn[c].pc = "rmdelete" /\ conn[c].h = h]_vars
  BY DirectoryStep
<1> QED BY <1>1, <1>2, TypeInit, TypeStep, KeepsFilesInit, PTL DEF Spec, DirectoriesKept

-----------------------------------------------------------------------------
(* COMMIT on one connection. *)

\* The points at which a handler relies on something it found out earlier.
Relying == {"read", "insert", "flushed"}

\* What a connection knows there while no other interferes: the file it pulls
\* is not staged, and what it uploaded is what is staged.
Alone ==
  \A c \in Connections :
    LET id == conn[c].id
        h  == conn[c].h IN
    /\ conn[c].pc \in {"read", "insert"} => staged[id] = None
    /\ conn[c].pc = "flushed" =>
         /\ dev[h] # None /\ tmp[id] # None
         /\ dev[h].data = tmp[id] /\ Len(tmp[id]) = conn[c].size

\* Where the helpers that change the program counter lead.
LEMMA PcAfter ==
  ASSUME TypeInv, NEW c \in Connections
  PROVE  /\ Return(c) => conn'[c].pc = "idle"
         /\ \A id : StageReady(c, id) => conn'[c].pc \in {"apply", "idle", "stage"}
         /\ \A p : Goto(c, p) => /\ conn'[c].pc = p /\ conn'[c].id = conn[c].id
                                 /\ conn'[c].h = conn[c].h /\ conn'[c].size = conn[c].size
<1> USE TypeFacts
<1>1. Return(c) => conn'[c].pc = "idle"
  BY IdleType DEF Return, ConnTypes
<1>2. ASSUME NEW p, Goto(c, p)
      PROVE  /\ conn'[c].pc = p /\ conn'[c].id = conn[c].id
             /\ conn'[c].h = conn[c].h /\ conn'[c].size = conn[c].size
  BY <1>2 DEF Goto, ConnTypes, Locals
<1>3. ASSUME NEW id, StageReady(c, id)
      PROVE  conn'[c].pc \in {"apply", "idle", "stage"}
  <2>1. CASE conn' = [conn EXCEPT ![c].pc = "stage", ![c].op = "setattr", ![c].id = id]
    BY <2>1 DEF ConnTypes, Locals
  <2> QED BY <1>1, <1>2, <1>3, <2>1 DEF StageReady
<1> QED BY <1>1, <1>2, <1>3

\* The points that few steps lead to.
Late == {"read", "insert", "upload", "flushed", "rmdrop"}

LEMMA LateFrom ==
  ASSUME TypeInv, NEW c \in Connections, Serve(c), conn'[c].pc \in Late
  PROVE  \/ PullOpen(c) \/ PullRead(c) \/ FlushDelete(c) \/ FlushUpload(c)
         \/ RemoveCall(c) \/ RemoveDelete(c)
<1> USE TypeFacts
<1>a. Return(c) => conn'[c].pc \notin Late
  BY PcAfter DEF Late
<1>b. \A p : Goto(c, p) /\ p \notin Late => conn'[c].pc \notin Late
  BY PcAfter
<1>c. \A id : StageReady(c, id) => conn'[c].pc \notin Late
  BY PcAfter DEF Late
<1>d. ASSUME NEW k, conn' = [conn EXCEPT ![c] = k], k.pc \notin Late
      PROVE  conn'[c].pc \notin Late
  BY Zenon, <1>d DEF ConnTypes
<1>1. CASE \/ ApplyWrite(c) \/ ApplySetattr(c) \/ FlushDone(c) \/ RemoveDrop(c)
           \/ RenameResync(c)
  BY Zenon, <1>1, <1>a DEF ApplyWrite, ApplySetattr, FlushDone, RemoveDrop, RenameResync
<1>2. CASE Probe(c) \/ StageNew(c) \/ PullInsert(c)
  <2>1. "stagenew" \notin Late /\ "lookup" \notin Late
    BY DEF Late
  <2> QED BY <1>2, <2>1, <1>a, <1>b, <1>c DEF Probe, StageNew, PullInsert
<1>3. CASE HRename(c)
  <2>1. "resync" \notin Late
    BY DEF Late
  <2> QED BY <1>3, <2>1, <1>a, <1>b DEF HRename
<1>4. CASE MkdirCall(c)
  BY <1>4 DEF MkdirCall, Request, Late
<1>5. CASE WriteCall(c) \/ SetattrCall(c)
  <2>1. PICK id \in ClientIds, o \in {"write", "setattr"} :
          conn' = [conn EXCEPT ![c] = [Idle EXCEPT !.pc = "stage", !.op = o, !.id = id]]
    BY Zenon, <1>5 DEF WriteCall, SetattrCall
  <2>2. [Idle EXCEPT !.pc = "stage", !.op = o, !.id = id].pc = "stage"
    BY IdleType DEF Locals
  <2> QED BY <1>d, <2>1, <2>2 DEF Late
<1>6. CASE CommitCall(c)
  <2>1. PICK id \in ClientIds :
          conn' = [conn EXCEPT ![c] = [Idle EXCEPT !.pc = "snapshot", !.id = id]]
    BY Zenon, <1>6 DEF CommitCall
  <2>2. [Idle EXCEPT !.pc = "snapshot", !.id = id].pc = "snapshot"
    BY IdleType DEF Locals
  <2> QED BY <1>d, <2>1, <2>2 DEF Late
<1>7. CASE CreateCall(c) \/ CreateExclusiveCall(c)
  <2>1. PICK p \in {"stagenew", "probe"}, d \in Dirs, n \in Names :
          conn' = [conn EXCEPT ![c] = [Idle EXCEPT !.pc = p, !.op = "create",
                                                   !.dir = d, !.name = n]]
    BY Zenon, <1>7 DEF CreateCall, CreateExclusiveCall
  <2>2. [Idle EXCEPT !.pc = p, !.op = "create", !.dir = d, !.name = n].pc = p
    BY IdleType DEF Locals
  <2> QED BY <1>d, <2>1, <2>2 DEF Late
<1>9. CASE RenameCall(c)
  <2>1. conn[c].pc = "idle"
    BY <1>9 DEF RenameCall, Request
  <2>2. CASE ~UNCHANGED conn
    <3>1. PICK d, n, td, tn :
            conn' = [conn EXCEPT ![c] = [Idle EXCEPT !.pc = "rnlookup", !.dir = d, !.name = n,
                                                     !.toDir = td, !.toName = tn]]
      BY Zenon, <1>9, <2>2 DEF RenameCall
    <3>2. [Idle EXCEPT !.pc = "rnlookup", !.dir = d, !.name = n,
                       !.toDir = td, !.toName = tn].pc = "rnlookup"
      BY IdleType DEF Locals
    <3> QED BY <1>d, <3>1, <3>2 DEF Late
  <2> QED BY <2>1, <2>2 DEF Late
<1>10. CASE StageForWrites(c)
  <2>1. CASE conn' = [conn EXCEPT ![c].pc = "info", ![c].h = conn[c].id]
    <3> DEFINE k == [conn[c] EXCEPT !.pc = "info", !.h = conn[c].id]
    <3>1. k.pc = "info"
      BY DEF Locals
    <3>2. conn' = [conn EXCEPT ![c] = k]
      BY <2>1
    <3> HIDE DEF k
    <3> QED BY <1>d, <3>1, <3>2 DEF Late
  <2>2. "apply" \notin Late
    BY DEF Late
  <2> QED BY <1>10, <2>1, <2>2, <1>a, <1>b DEF StageForWrites
<1>11. CASE ObjectInfo(c)
  <2>1. CASE ~Return(c)
    <3> DEFINE o == dev[conn[c].h]
               k == [conn[c] EXCEPT !.pc = "pull", !.name = o.name,
                                    !.dir = IF conn[c].op = "create" THEN @ ELSE o.dir,
                                    !.size = Len(o.data)]
    <3>1. conn' = [conn EXCEPT ![c] = k]
      BY <1>11, <2>1 DEF ObjectInfo
    <3>2. k.pc = "pull"
      BY DEF Locals
    <3> HIDE DEF k
    <3> QED BY <1>d, <3>1, <3>2 DEF Late
  <2> QED BY <2>1, <1>a
<1>12. CASE LookupOrNew(c)
  <2>1. CASE \E i, h : conn' = [conn EXCEPT ![c].pc = "info", ![c].id = i, ![c].h = h]
    <3>1. PICK i, h : conn' = [conn EXCEPT ![c].pc = "info", ![c].id = i, ![c].h = h]
      BY Zenon, <2>1
    <3> DEFINE k == [conn[c] EXCEPT !.pc = "info", !.id = i, !.h = h]
    <3>2. k.pc = "info"
      BY DEF Locals
    <3>3. conn' = [conn EXCEPT ![c] = k]
      BY <3>1
    <3> HIDE DEF k
    <3> QED BY <1>d, <3>2, <3>3 DEF Late
  <2> QED BY Zenon, <1>12, <2>1, <1>a, <1>c DEF LookupOrNew
<1>13. CASE FlushSnapshot(c)
  <2>1. CASE ~Return(c)
    <3> DEFINE s == staged[conn[c].id]
               k == [conn[c] EXCEPT !.pc = "delete", !.dir = s.dir, !.name = s.name,
                                    !.size = s.size, !.h = CurrentDev(s)]
    <3>1. conn' = [conn EXCEPT ![c] = k]
      BY <1>13, <2>1 DEF FlushSnapshot
    <3>2. k.pc = "delete"
      BY DEF Locals
    <3> HIDE DEF k
    <3> QED BY <1>d, <3>1, <3>2 DEF Late
  <2> QED BY <2>1, <1>a
<1>14. CASE RenameLookup(c)
  <2>1. CASE ~Return(c)
    <3>1. PICK id : conn' = [conn EXCEPT ![c].pc = "hrename", ![c].id = id]
      BY <1>14, <2>1 DEF RenameLookup
    <3> DEFINE k == [conn[c] EXCEPT !.pc = "hrename", !.id = id]
    <3>2. k.pc = "hrename"
      BY DEF Locals
    <3>3. conn' = [conn EXCEPT ![c] = k]
      BY <3>1
    <3> HIDE DEF k
    <3> QED BY <1>d, <3>2, <3>3 DEF Late
  <2> QED BY <2>1, <1>a
<1> QED BY <1>1, <1>2, <1>3, <1>4, <1>5, <1>6, <1>7, <1>9, <1>10, <1>11, <1>12, <1>13,
           <1>14 DEF Serve

\* REMOVE goes to the phone or to the stage.
LEMMA RemoveLeads ==
  ASSUME TypeInv, NEW c \in Connections, RemoveCall(c)
  PROVE  conn'[c].pc \in {"rmdrop", "rmdelete"}
<1>1. PICK id, h, o :
        conn' = [conn EXCEPT ![c] = [Idle EXCEPT !.id = id, !.h = h, !.op = o,
                   !.pc = IF h = 0 THEN "rmdrop" ELSE "rmdelete"]]
  BY Zenon DEF RemoveCall
<1>2. [Idle EXCEPT !.id = id, !.h = h, !.op = o,
                   !.pc = IF h = 0 THEN "rmdrop" ELSE "rmdelete"].pc \in {"rmdrop", "rmdelete"}
  BY IdleType DEF Locals
<1> QED BY <1>1, <1>2 DEF TypeInv, ConnTypes

\* Only three steps lead to a point of Relying.
LEMMA RelyingFrom ==
  ASSUME TypeInv, NEW c \in Connections, Serve(c), conn'[c].pc \in Relying
  PROVE  PullOpen(c) \/ PullRead(c) \/ FlushUpload(c)
<1> USE TypeFacts
<1>1. \/ PullOpen(c) \/ PullRead(c) \/ FlushDelete(c) \/ FlushUpload(c)
      \/ RemoveCall(c) \/ RemoveDelete(c)
  BY LateFrom DEF Late, Relying
<1>2. ~(FlushDelete(c) \/ RemoveDelete(c))
  BY PcAfter DEF FlushDelete, RemoveDelete, Relying
<1>3. ~RemoveCall(c)
  BY RemoveLeads DEF Relying
<1> QED BY <1>1, <1>2, <1>3

\* The three steps that lead there leave what Alone asks for.
LEMMA AloneServe ==
  ASSUME TypeInv, Alone, \A c, d \in Connections : c = d,
         NEW c \in Connections, Serve(c)
  PROVE  Alone'
<1> USE TypeFacts, PcAfter
<1>1. CASE conn'[c].pc \notin Relying
  BY <1>1 DEF Alone, Relying
<1>2. CASE conn'[c].pc \in Relying /\ (PullOpen(c) \/ PullRead(c))
  <2>1. staged[conn[c].id] = None /\ UNCHANGED staged
    BY <1>2 DEF PullOpen, PullRead, Alone, Relying
  <2>2. conn'[c].pc \in {"read", "insert"} /\ conn'[c].id = conn[c].id
    BY <1>2 DEF PullOpen, PullRead, Relying
  <2> QED BY <2>1, <2>2 DEF Alone
<1>3. CASE conn'[c].pc \in Relying /\ FlushUpload(c)
  <2> DEFINE h == lastHandle + 1
             id == conn[c].id
  <2>1. /\ conn' = [conn EXCEPT ![c].pc = "flushed", ![c].h = h]
        /\ h \in Handle /\ tmp[id] # None /\ Len(tmp[id]) = conn[c].size
        /\ dev' = [dev EXCEPT ![h] = UploadedObject(c, tmp[id])] /\ UNCHANGED tmp
    BY <1>3 DEF FlushUpload, Relying, local
  <2>2. /\ conn'[c].pc = "flushed" /\ conn'[c].h = h /\ conn'[c].id = id
        /\ conn'[c].size = conn[c].size
    BY <2>1 DEF Locals, ConnTypes
  <2>3. dev'[h] = UploadedObject(c, tmp[id])
    BY <2>1
  <2>4. id \in Id /\ conn[c] \in Locals
    BY <1>3 DEF FlushUpload, ConnOK, HasId
  <2>5. dev'[h] # None /\ dev'[h].data = tmp[id]
    <3>1. UploadedObject(c, tmp[id]) \in Object
      BY <2>1, <2>4 DEF UploadedObject, Object, Locals
    <3>2. UploadedObject(c, tmp[id]).data = tmp[id]
      BY DEF UploadedObject
    <3> QED BY <2>3, <3>1, <3>2, NoneAssumption
  <2>6. tmp'[id] = tmp[id] /\ tmp[id] # None /\ Len(tmp[id]) = conn[c].size
    BY <2>1
  <2> HIDE DEF h, id
  <2> QED BY <2>2, <2>5, <2>6 DEF Alone
<1> QED BY <1>1, <1>2, <1>3, RelyingFrom

LEMMA AloneStep ==
  ASSUME TypeInv, Alone, [Next]_vars, "renumber" \notin Faults,
         \A c, d \in Connections : c = d
  PROVE  Alone'
<1>1. CASE UNCHANGED vars
  BY <1>1 DEF vars, Alone
<1>2. ASSUME NEW c \in Connections, Serve(c) PROVE Alone'
  BY <1>2, AloneServe
<1>3. CASE Detach \/ Attach
  BY <1>3 DEF Detach, Attach, Alone, phone, local
<1>4. CASE Restart
  BY <1>4, IdleType DEF Restart, Alone
<1> QED BY <1>1, <1>2, <1>3, <1>4 DEF Next, Quiet

\* A step that makes a dirty stage clean is the end of a flush.
LEMMA CleanedBy ==
  ASSUME TypeInv, Alone, Next, NEW id \in Id,
         staged[id] # None, staged[id].dirty, staged'[id] # None, ~staged'[id].dirty
  PROVE  \E c \in Connections :
           FlushDone(c) /\ conn[c].id = id /\ staged'[id].flushed = conn[c].h
                        /\ staged'[id].size = conn[c].size
<1>1. staged[id] \in Stage /\ staged' # staged
  BY DEF TypeInv, TypeOK
<1>2. ASSUME NEW c \in Connections, Serve(c)
      PROVE  FlushDone(c) /\ conn[c].id = id /\ staged'[id].flushed = conn[c].h
                          /\ staged'[id].size = conn[c].size
  <2> USE TypeFacts
  \* A stage that is changed but stays dirty, or another one.
  <2>0. ASSUME NEW i \in Id, NEW s, staged' = [staged EXCEPT ![i] = s],
               i = id => s.dirty
        PROVE  FALSE
    BY <1>1, <2>0
  <2>11. ASSUME NEW i \in Id, NEW d, NEW n, staged' = [staged EXCEPT ![i].dir = d, ![i].name = n]
         PROVE  FALSE
    <3> DEFINE s == [staged[i] EXCEPT !.dir = d, !.name = n]
    <3>1. i = id => s.dirty
      BY <1>1 DEF Stage
    <3>2. staged' = [staged EXCEPT ![i] = s]
      BY <2>11
    <3> HIDE DEF s
    <3> QED BY <2>0, <3>1, <3>2
  <2>1. CASE FlushDone(c)
    <3>1. staged' = [staged EXCEPT ![conn[c].id].origin = 0, ![conn[c].id].flushed = conn[c].h,
                       ![conn[c].id].dirty = FALSE, ![conn[c].id].size = conn[c].size]
      BY Zenon, <1>1, <2>1 DEF FlushDone
    <3>2. conn[c].id = id
      BY <3>1
    <3> QED BY <1>1, <2>1, <3>1, <3>2 DEF Stage
  <2>2. CASE PullInsert(c)
    <3>1. staged[conn[c].id] = None
      BY <2>2 DEF PullInsert, Alone
    <3> QED BY <1>1, <2>2, <3>1 DEF PullInsert
  <2>3. CASE ApplyWrite(c)
    <3> DEFINE i == conn[c].id
    <3>1. i \in Id
      BY <2>3 DEF ApplyWrite, ConnOK, HasId
    <3>2. staged[i] # None
      BY Zenon, <1>1, <2>3 DEF ApplyWrite
    <3>3. PICK off \in 0..(MaxSize - 1) :
            staged' = [staged EXCEPT ![i].size = IF off + 1 > @ THEN off + 1 ELSE @, ![i].dirty = TRUE]
      BY <1>1, <2>3 DEF ApplyWrite
    <3> DEFINE s == [staged[i] EXCEPT !.size = IF off + 1 > @ THEN off + 1 ELSE @, !.dirty = TRUE]
    <3>4. s.dirty
      BY <3>1, <3>2 DEF Stage
    <3>5. staged' = [staged EXCEPT ![i] = s]
      BY <3>3
    <3> HIDE DEF s, i
    <3> QED BY <2>0, <3>1, <3>4, <3>5
  <2>4. CASE ApplySetattr(c)
    <3> DEFINE i == conn[c].id
    <3>1. i \in Id
      BY <2>4 DEF ApplySetattr, ConnOK, HasId
    <3>2. staged[i] # None
      BY <1>1, <2>4 DEF ApplySetattr
    <3>3. PICK n \in 0..MaxSize :
            staged' = [staged EXCEPT ![i].size = n, ![i].dirty = TRUE]
      BY <1>1, <2>4 DEF ApplySetattr
    <3> DEFINE s == [staged[i] EXCEPT !.size = n, !.dirty = TRUE]
    <3>4. s.dirty
      BY <3>1, <3>2 DEF Stage
    <3>5. staged' = [staged EXCEPT ![i] = s]
      BY <3>3
    <3> HIDE DEF s, i
    <3> QED BY <2>0, <3>1, <3>4, <3>5
  <2>5. CASE LookupOrNew(c)
    <3>0. virtSeq < MaxVirt
      BY Zenon, <1>1, <2>5 DEF LookupOrNew, local
    <3>1. virtSeq + 1 \in 1..MaxVirt
      BY <3>0
    <3>2. -(virtSeq + 1) \in Id
      BY <3>1 DEF Id
    <3>3. PICK d, n : staged' = [staged EXCEPT ![-(virtSeq + 1)] =
                        [dir |-> d, name |-> n, size |-> 0, origin |-> 0, flushed |-> 0, dirty |-> TRUE]]
      BY Zenon, <1>1, <2>5 DEF LookupOrNew, local
    <3> QED BY <2>0, <3>2, <3>3
  <2>6. CASE RemoveDrop(c)
    BY <1>1, <2>6 DEF RemoveDrop
  <2>7. CASE RenameCall(c)
    <3>1. PICK i \in Id : \E d, n : staged' = [staged EXCEPT ![i].dir = d, ![i].name = n]
      BY ZenonT(40), <1>1, <2>7 DEF RenameCall, StagedAs
    <3>2. PICK d, n : staged' = [staged EXCEPT ![i].dir = d, ![i].name = n]
      BY <3>1
    <3> QED BY <2>11, <3>2
  <2>8. CASE RenameResync(c)
    <3>1. conn[c].id \in Id
      BY <2>8 DEF RenameResync, ConnOK, HasId
    <3> QED BY <1>1, <2>8, <2>11, <3>1 DEF RenameResync
  <2>9. CASE \/ WriteCall(c) \/ SetattrCall(c) \/ StageForWrites(c) \/ ObjectInfo(c)
             \/ PullOpen(c) \/ PullRead(c) \/ CreateCall(c) \/ CreateExclusiveCall(c)
             \/ Probe(c) \/ StageNew(c)
    BY Zenon, <1>1, <2>9 DEF WriteCall, SetattrCall, StageForWrites, ObjectInfo, PullOpen, PullRead,
                      CreateCall, CreateExclusiveCall, Probe, StageNew, local
  <2>10. CASE \/ CommitCall(c) \/ FlushSnapshot(c) \/ FlushDelete(c) \/ FlushUpload(c)
              \/ RemoveCall(c) \/ RemoveDelete(c) \/ RenameLookup(c) \/ HRename(c) \/ MkdirCall(c)
    BY Zenon, <1>1, <2>10 DEF CommitCall, FlushSnapshot, FlushDelete, FlushUpload, RemoveCall,
                       RemoveDelete, RenameLookup, HRename, MkdirCall, local
  <2> QED BY <1>2, <2>1, <2>2, <2>3, <2>4, <2>5, <2>6, <2>7, <2>8, <2>9, <2>10 DEF Serve
<1>3. ~(Detach \/ Attach \/ Restart \/ Quiet)
  BY <1>1 DEF Detach, Attach, Restart, Quiet, vars, local
<1> QED BY <1>2, <1>3 DEF Next

\* With one connection a COMMIT that clears the dirty flag has put the staged
\* bytes on the phone, whatever calls to it fail and however often the session
\* is lost or the daemon restarted.  Two connections break it (the run
\* wb_flush_race).
THEOREM FlushHolds ==
  ASSUME \A c, d \in Connections : c = d, "renumber" \notin Faults
  PROVE  Spec => FlushPublishes
<1>1. Init => Alone
  BY IdleType DEF Init, Alone
<1>2. TypeInv /\ Alone /\ [Next]_vars => Alone'
  BY AloneStep
<1>3. TypeInv /\ Alone /\ [Next]_vars
        => [\A id \in Id :
              (/\ staged[id] # None /\ staged[id].dirty
               /\ staged'[id] # None /\ ~staged'[id].dirty)
              => LET h == staged'[id].flushed IN
                 /\ h \in Handle /\ dev'[h] # None /\ tmp'[id] # None
                 /\ dev'[h].data = tmp'[id] /\ Len(tmp'[id]) = staged'[id].size]_vars
  <2> SUFFICES ASSUME TypeInv, Alone, Next, NEW id \in Id,
                      staged[id] # None, staged[id].dirty, staged'[id] # None, ~staged'[id].dirty
               PROVE  /\ staged'[id].flushed \in Handle
                      /\ dev'[staged'[id].flushed] # None /\ tmp'[id] # None
                      /\ dev'[staged'[id].flushed].data = tmp'[id]
                      /\ Len(tmp'[id]) = staged'[id].size
    BY DEF vars
  <2>1. PICK c \in Connections :
          FlushDone(c) /\ conn[c].id = id /\ staged'[id].flushed = conn[c].h
                       /\ staged'[id].size = conn[c].size
    BY CleanedBy
  <2>2. conn[c].pc = "flushed" /\ UNCHANGED <<dev, tmp>>
    BY <2>1 DEF FlushDone, phone
  <2>3. conn[c].h \in Handle
    BY <2>2, TypeFacts DEF ConnOK, HasHandle
  <2> QED BY <2>1, <2>2, <2>3 DEF Alone
<1> QED BY <1>1, <1>2, <1>3, TypeInit, TypeStep, PTL DEF Spec, FlushPublishes


-----------------------------------------------------------------------------
(* One connection: stages and the objects they stand for. *)

\* One request at a time, on a phone that keeps its numbering.  The client
\* takes ids from LOOKUP only and renames onto names that are not staged; where
\* it renames at all, the phone refuses a second object of a name, a rename does
\* not cross directories, and its closing get_object_info does not fail.
OneByOne ==
  /\ \A c, d \in Connections : c = d
  /\ "renumber" \notin Faults /\ "readdir" \notin Calls /\ "replace" \notin Calls
  /\ "rename" \in Calls =>
       /\ "info" \notin Faults /\ ~AcceptsDuplicates
       /\ \A d, e \in Dirs : StorageOf[d] = StorageOf[e] => d = e
       /\ \A h1, h2 \in Handle :
            (/\ Phone0[h1] # None /\ Phone0[h2] # None
             /\ Phone0[h1].dir = Phone0[h2].dir /\ Phone0[h1].name = Phone0[h2].name) => h1 = h2

\* The objects that the stage s of the id i answers for.
Owns(i, s, h) == h = i \/ h = s.origin \/ h = s.flushed

\* The object, if it is there, has this name.
Bears(o, d, n) == o # None => o.dir = d /\ o.name = n

\* A stage in itself: its objects were given out, a stage of an object has one
\* to replace, a virtual id is one given out, and the recorded size is that of
\* the stage file.
Sound(i, s, last, file, seq) ==
  /\ \A h \in Handle : Owns(i, s, h) => h <= last
  /\ i \in Handle => CurrentDev(s) # 0
  /\ i \notin Handle => -i <= seq
  /\ file # None /\ Len(file) = s.size

\* Its objects have its name.
Placed(i, s, objects) ==
  \A h \in Handle : Owns(i, s, h) => Bears(objects[h], s.dir, s.name)

\* While it is clean, the object it stands for has its content.
Copied(s, objects, file) ==
  ~s.dirty => LET h == CurrentDev(s) IN
              h \in Handle /\ objects[h] # None /\ objects[h].data = file

\* Two stages are of different objects and have different names.
Apart(i, s, j, t) ==
  /\ \A h \in Handle : ~(Owns(i, s, h) /\ Owns(j, t, h))
  /\ ~(s.dir = t.dir /\ s.name = t.name)

Staged(id) == staged[id] # None

StageInv ==
  /\ \A id \in Id : Staged(id) => Sound(id, staged[id], lastHandle, tmp[id], virtSeq)
  /\ \A id \in Id : Staged(id) => Placed(id, staged[id], dev) \/ At("resync", id)
  /\ \A id \in Id : Staged(id) => Copied(staged[id], dev, tmp[id]) \/ At("rmdrop", id)
  /\ \A i, j \in Id : i # j /\ Staged(i) /\ Staged(j) => Apart(i, staged[i], j, staged[j])
  /\ \A h \in Handle : h > lastHandle => dev[h] = None
  /\ "rename" \in Calls => UniqueNames

\* No stage has the name.
NoStage(d, n) == \A id \in Id : ~(Staged(id) /\ staged[id].dir = d /\ staged[id].name = n)

\* The object is there and no stage has its name: LOOKUP answers with its id.
Openable(h) == h \in Handle /\ dev[h] # None /\ NoStage(dev[h].dir, dev[h].name)

\* The object being pulled is there as it was found.
Found(k) ==
  /\ k.id = k.h /\ Openable(k.h)
  /\ ~dev[k.h].isdir /\ dev[k.h].dir = k.dir /\ dev[k.h].name = k.name
  /\ Len(dev[k.h].data) = k.size

\* The stage being flushed is as it was copied.
Same(k) ==
  /\ Staged(k.id) /\ staged[k.id].dirty /\ staged[k.id].size = k.size
  /\ staged[k.id].dir = k.dir /\ staged[k.id].name = k.name

\* What a handler has found out and relies on, by how far it has come.
Opening(k) ==
  /\ k.pc = "stage" => k.op # "create" /\ (Staged(k.id) \/ Openable(k.id))
  /\ k.pc = "info" =>
       k.id = k.h /\ Openable(k.h) /\ (k.op = "create" => dev[k.h].dir = k.dir)
  /\ k.pc \in {"pull", "read", "insert"} => Found(k)
  /\ k.pc = "read" => tmp[k.id] = <<>>
  /\ k.pc = "insert" => tmp[k.id] # None /\ (Len(tmp[k.id]) = k.size => tmp[k.id] = dev[k.h].data)
  /\ k.pc = "lookup" => NoStage(k.dir, k.name)

Flushing(k) ==
  /\ k.pc \in {"delete", "upload", "flushed"} => Same(k)
  /\ k.pc = "delete" => k.h = CurrentDev(staged[k.id])
  /\ k.pc = "flushed" =>
       /\ k.h <= lastHandle /\ \A j \in Id : Staged(j) => ~Owns(j, staged[j], k.h)
       /\ dev[k.h] # None /\ ~dev[k.h].isdir /\ dev[k.h].data = tmp[k.id]
       /\ dev[k.h].dir = k.dir /\ dev[k.h].name = k.name

Removing(k) ==
  /\ k.pc = "rmdelete" =>
       \/ k.op = "unlink" /\ Staged(k.id) /\ k.h = CurrentDev(staged[k.id])
       \/ k.op = "none" /\ k.id = k.h /\ Openable(k.h)
  /\ k.pc = "rmdrop" =>
       \/ k.op = "none" /\ ~Staged(k.id)
       \/ /\ k.op = "unlink" /\ Staged(k.id)
          /\ LET h == CurrentDev(staged[k.id]) IN h = 0 \/ dev[h] = None

Renaming(k) ==
  /\ k.pc \in {"rnlookup", "hrename", "resync"} =>
       "rename" \in Calls /\ NoStage(k.toDir, k.toName)
  /\ k.pc = "hrename" =>
       /\ k.dir = k.toDir
       /\ Staged(k.id) => staged[k.id].dir = k.dir /\ staged[k.id].name = k.name
       /\ ~Staged(k.id) => NoStage(k.dir, k.name)
  /\ k.pc = "resync" /\ Staged(k.id) =>
       \A h \in Handle : Owns(k.id, staged[k.id], h) => Bears(dev[h], k.toDir, k.toName)

Knows(k) == Opening(k) /\ Flushing(k) /\ Removing(k) /\ Renaming(k)

Bound == StageInv /\ \A c \in Connections : Knows(conn[c])

LEMMA NoStageAs == \A d, n : StagedAs(d, n) = {} <=> NoStage(d, n)
BY DEF StagedAs, NoStage, Staged

\* With one connection, what some request is at is where that connection is.
LEMMA OnlyOne ==
  ASSUME OneByOne, NEW c \in Connections
  PROVE  /\ \A p, id : At(p, id) <=> conn[c].pc = p /\ conn[c].id = id
         /\ \A p, id : At(p, id)' <=> conn'[c].pc = p /\ conn'[c].id = id
BY DEF OneByOne, At

\* An object that LOOKUP answers with belongs to no stage.
LEMMA OpenableFree ==
  ASSUME TypeInv, StageInv, NEW h \in Handle, Openable(h), \A id \in Id : ~At("resync", id)
  PROVE  ~Staged(h) /\ \A j \in Id : Staged(j) => ~Owns(j, staged[j], h)
<1>1. h \in Id
  BY DEF Id
<1>2. ASSUME NEW j \in Id, Staged(j), Owns(j, staged[j], h)
      PROVE  FALSE
  <2>1. Placed(j, staged[j], dev)
    BY <1>2 DEF StageInv
  <2>2. dev[h] # None => dev[h].dir = staged[j].dir /\ dev[h].name = staged[j].name
    BY <1>2, <2>1 DEF Placed, Bears
  <2> QED BY <1>2, <2>2 DEF Openable, NoStage
<1>3. Staged(h) => Owns(h, staged[h], h)
  BY DEF Owns
<1> QED BY <1>1, <1>2, <1>3

\* A step that sets one stage, and its file with it.
LEMMA StageSet ==
  ASSUME TypeInv, StageInv, NEW i \in Id, NEW s, s # None,
         staged' = [staged EXCEPT ![i] = s], UNCHANGED phone,
         \A j \in Id : j # i => tmp'[j] = tmp[j], virtSeq' \in Int, virtSeq' >= virtSeq,
         Sound(i, s, lastHandle, tmp'[i], virtSeq'), Placed(i, s, dev), Copied(s, dev, tmp'[i]),
         \A j \in Id : j # i /\ Staged(j) => Apart(i, s, j, staged[j]),
         \A j \in Id : At("resync", j) \/ At("rmdrop", j) => j = i
  PROVE  StageInv'
<1>1. /\ staged'[i] = s /\ \A j \in Id : j # i => staged'[j] = staged[j]
      /\ dev' = dev /\ lastHandle' = lastHandle
  BY DEF TypeInv, TypeOK, phone
<1>2. ASSUME NEW id \in Id, staged'[id] # None
      PROVE  /\ Sound(id, staged'[id], lastHandle', tmp'[id], virtSeq')
             /\ Placed(id, staged'[id], dev') /\ Copied(staged'[id], dev', tmp'[id])
  <2>1. CASE id = i
    BY <1>1, <2>1
  <2>2. CASE id # i
    <3>1. Staged(id) /\ staged'[id] = staged[id] /\ tmp'[id] = tmp[id]
      BY <1>1, <1>2, <2>2 DEF Staged
    <3>2. Sound(id, staged[id], lastHandle, tmp[id], virtSeq)
      BY <3>1 DEF StageInv
    <3>3. Sound(id, staged[id], lastHandle, tmp[id], virtSeq')
      BY <3>2, ConstantsAssumption DEF Sound, TypeInv, TypeOK, Id, Handle
    <3> QED BY <1>1, <2>2, <3>1, <3>3 DEF StageInv
  <2> QED BY <2>1, <2>2
<1>3. ASSUME NEW j \in Id, NEW k \in Id, j # k, staged'[j] # None, staged'[k] # None
      PROVE  Apart(j, staged'[j], k, staged'[k])
  <2>1. CASE j # i /\ k # i
    BY <1>1, <1>3, <2>1 DEF StageInv, Staged
  <2>2. CASE j = i
    BY <1>1, <1>3, <2>2 DEF Staged
  <2>3. CASE k = i
    <3>1. Apart(i, s, j, staged[j])
      BY <1>1, <1>3, <2>3 DEF Staged
    <3> QED BY <1>1, <1>3, <2>3, <3>1 DEF Apart
  <2> QED BY <2>1, <2>2, <2>3
<1>4. \A h \in Handle : h > lastHandle' => dev'[h] = None
  BY <1>1 DEF StageInv
<1>5. "rename" \in Calls => UniqueNames'
  BY <1>1 DEF StageInv, UniqueNames
<1> QED BY <1>2, <1>3, <1>4, <1>5 DEF StageInv, Staged

\* A step that takes one stage away, or none, and touches no other file of a
\* stage.
LEMMA StageDrop ==
  ASSUME TypeInv, StageInv, NEW i \in Id, UNCHANGED <<phone, virtSeq>>,
         staged' = staged \/ staged' = [staged EXCEPT ![i] = None],
         \A j \in Id : staged'[j] # None => tmp'[j] = tmp[j],
         \A j \in Id : (At("resync", j) \/ At("rmdrop", j)) /\ staged'[j] # None => FALSE
  PROVE  StageInv'
<1>1. /\ \A j \in Id : staged'[j] # None => Staged(j) /\ staged'[j] = staged[j]
      /\ dev' = dev /\ lastHandle' = lastHandle /\ virtSeq' = virtSeq
  BY DEF TypeInv, TypeOK, phone, Staged
<1>2. ASSUME NEW id \in Id, staged'[id] # None
      PROVE  /\ Sound(id, staged'[id], lastHandle', tmp'[id], virtSeq')
             /\ Placed(id, staged'[id], dev') /\ Copied(staged'[id], dev', tmp'[id])
  BY <1>1, <1>2 DEF StageInv
<1>3. ASSUME NEW j \in Id, NEW k \in Id, j # k, staged'[j] # None, staged'[k] # None
      PROVE  Apart(j, staged'[j], k, staged'[k])
  BY <1>1, <1>3 DEF StageInv
<1>4. \A h \in Handle : h > lastHandle' => dev'[h] = None
  BY <1>1 DEF StageInv
<1>5. "rename" \in Calls => UniqueNames'
  BY <1>1 DEF StageInv, UniqueNames
<1> QED BY <1>2, <1>3, <1>4, <1>5 DEF StageInv, Staged

\* A step that takes an object off the phone; a stage of it is dirty, or is
\* about to be dropped.
LEMMA ObjectGone ==
  ASSUME TypeInv, StageInv, NEW h \in Handle, dev' = [dev EXCEPT ![h] = None],
         UNCHANGED <<lastHandle, local>>,
         \A j \in Id : ~At("resync", j) /\ ~At("rmdrop", j),
         \A j \in Id : Staged(j) /\ ~staged[j].dirty /\ CurrentDev(staged[j]) = h =>
            At("rmdrop", j)'
  PROVE  StageInv'
<1>1. /\ dev'[h] = None /\ \A g \in Handle : g # h => dev'[g] = dev[g]
      /\ staged' = staged /\ tmp' = tmp /\ virtSeq' = virtSeq /\ lastHandle' = lastHandle
  BY DEF TypeInv, TypeOK, local
<1>2. ASSUME NEW id \in Id, staged'[id] # None
      PROVE  /\ Sound(id, staged'[id], lastHandle', tmp'[id], virtSeq')
             /\ Placed(id, staged'[id], dev')
             /\ Copied(staged'[id], dev', tmp'[id]) \/ At("rmdrop", id)'
  <2>1. /\ Staged(id) /\ Sound(id, staged[id], lastHandle, tmp[id], virtSeq)
        /\ Placed(id, staged[id], dev) /\ Copied(staged[id], dev, tmp[id])
    BY <1>1, <1>2 DEF StageInv, Staged
  <2>2. Placed(id, staged[id], dev')
    BY <1>1, <2>1 DEF Placed, Bears
  <2>3. Copied(staged[id], dev', tmp[id]) \/ At("rmdrop", id)'
    BY <1>1, <2>1 DEF Copied
  <2> QED BY <1>1, <2>1, <2>2, <2>3
<1>3. \A i, j \in Id : i # j /\ staged'[i] # None /\ staged'[j] # None => Apart(i, staged'[i], j, staged'[j])
  BY <1>1 DEF StageInv, Staged
<1>4. \A g \in Handle : g > lastHandle' => dev'[g] = None
  BY <1>1 DEF StageInv
<1>5. "rename" \in Calls => UniqueNames'
  BY <1>1 DEF StageInv, UniqueNames
<1> QED BY <1>2, <1>3, <1>4, <1>5 DEF StageInv, Staged

\* A step that puts a new object on the phone.
LEMMA ObjectNew ==
  ASSUME TypeInv, StageInv, lastHandle + 1 \in Handle, lastHandle' = lastHandle + 1, UNCHANGED local,
         NEW o, o # None, dev' = [dev EXCEPT ![lastHandle + 1] = o],
         \A j \in Id : ~At("resync", j) /\ ~At("rmdrop", j),
         "rename" \in Calls => Listed(o.dir, o.name) = {}
  PROVE  StageInv'
<1> DEFINE new == lastHandle + 1
<1>0. lastHandle \in Int /\ new > lastHandle /\ new \in Handle /\ \A h \in Handle : h \in Int
  BY ConstantsAssumption DEF TypeInv, TypeOK, Handle
<1>1. /\ dev'[new] = o /\ \A g \in Handle : g # new => dev'[g] = dev[g]
      /\ staged' = staged /\ tmp' = tmp /\ virtSeq' = virtSeq /\ lastHandle' = new
  BY DEF TypeInv, TypeOK, local
<1> HIDE DEF new
<1>2. ASSUME NEW id \in Id, staged'[id] # None
      PROVE  /\ Sound(id, staged'[id], lastHandle', tmp'[id], virtSeq')
             /\ Placed(id, staged'[id], dev')
             /\ Copied(staged'[id], dev', tmp'[id])
  <2>1. /\ Staged(id) /\ Sound(id, staged[id], lastHandle, tmp[id], virtSeq)
        /\ Placed(id, staged[id], dev) /\ Copied(staged[id], dev, tmp[id])
    BY <1>1, <1>2 DEF StageInv, Staged
  <2>2. \A h \in Handle : Owns(id, staged[id], h) => h <= lastHandle /\ h # new
    BY <1>0, <2>1 DEF Sound
  <2>3. Sound(id, staged[id], new, tmp[id], virtSeq)
    BY <1>0, <2>1, <2>2 DEF Sound
  <2>4. Placed(id, staged[id], dev')
    BY <1>1, <2>1, <2>2 DEF Placed
  <2>5. CurrentDev(staged[id]) \in Handle => Owns(id, staged[id], CurrentDev(staged[id]))
    BY DEF CurrentDev, Owns
  <2>6. Copied(staged[id], dev', tmp[id])
    BY <1>1, <2>1, <2>2, <2>5 DEF Copied
  <2> QED BY <1>1, <2>3, <2>4, <2>6
<1>3. \A i, j \in Id : i # j /\ staged'[i] # None /\ staged'[j] # None => Apart(i, staged'[i], j, staged'[j])
  BY <1>1 DEF StageInv, Staged
<1>4. \A g \in Handle : g > lastHandle' => dev'[g] = None
  BY <1>0, <1>1 DEF StageInv
<1>5. "rename" \in Calls => UniqueNames'
  BY <1>1 DEF StageInv, UniqueNames, Listed
<1> QED BY <1>2, <1>3, <1>4, <1>5 DEF StageInv, Staged

\* A step that leaves the stages, their files and the phone alone.
LEMMA StageSame ==
  ASSUME TypeInv, StageInv, UNCHANGED <<phone, staged, virtSeq>>,
         \A j \in Id : Staged(j) => tmp'[j] = tmp[j] /\ ~At("resync", j) /\ ~At("rmdrop", j)
  PROVE  StageInv'
<1>1. /\ dev' = dev /\ lastHandle' = lastHandle /\ virtSeq' = virtSeq /\ staged' = staged
      /\ \A j \in Id : staged[j] # None => tmp'[j] = tmp[j]
  BY DEF phone, Staged
<1>2. "rename" \in Calls => UniqueNames'
  BY <1>1 DEF StageInv, UniqueNames
<1> QED BY <1>1, <1>2 DEF StageInv, Staged

\* What is to be shown of a handler after a step, by the point it has reached.
LEMMA KnowsLittle ==
  ASSUME NEW c \in Connections, conn'[c].pc \in {"idle", "apply", "snapshot", "probe", "stagenew"}
  PROVE  Knows(conn[c])'
BY DEF Knows, Opening, Flushing, Removing, Renaming

LEMMA KnowsStage ==
  ASSUME NEW c \in Connections, conn'[c].pc = "stage", conn'[c].op # "create",
         Staged(conn[c].id)' \/ Openable(conn[c].id)'
  PROVE  Knows(conn[c])'
BY DEF Knows, Opening, Flushing, Removing, Renaming

LEMMA KnowsInfo ==
  ASSUME NEW c \in Connections, conn'[c].pc = "info", conn'[c].id = conn'[c].h,
         Openable(conn[c].h)', conn'[c].op = "create" => dev'[conn'[c].h].dir = conn'[c].dir
  PROVE  Knows(conn[c])'
BY DEF Knows, Opening, Flushing, Removing, Renaming

LEMMA KnowsPull ==
  ASSUME NEW c \in Connections, Found(conn[c])',
         \/ conn'[c].pc = "pull"
         \/ conn'[c].pc = "read" /\ tmp'[conn'[c].id] = <<>>
         \/ /\ conn'[c].pc = "insert" /\ tmp'[conn'[c].id] # None
            /\ Len(tmp'[conn'[c].id]) = conn'[c].size => tmp'[conn'[c].id] = dev'[conn'[c].h].data
  PROVE  Knows(conn[c])'
<1>1. CASE conn'[c].pc = "pull"
  BY <1>1 DEF Knows, Opening, Flushing, Removing, Renaming
<1>2. CASE conn'[c].pc = "read" /\ tmp'[conn'[c].id] = <<>>
  BY <1>2 DEF Knows, Opening, Flushing, Removing, Renaming
<1>3. CASE /\ conn'[c].pc = "insert" /\ tmp'[conn'[c].id] # None
           /\ Len(tmp'[conn'[c].id]) = conn'[c].size => tmp'[conn'[c].id] = dev'[conn'[c].h].data
  BY <1>3 DEF Knows, Opening, Flushing, Removing, Renaming
<1> QED BY <1>1, <1>2, <1>3

LEMMA KnowsLookup ==
  ASSUME NEW c \in Connections, conn'[c].pc = "lookup", NoStage(conn[c].dir, conn[c].name)'
  PROVE  Knows(conn[c])'
BY DEF Knows, Opening, Flushing, Removing, Renaming

LEMMA KnowsFlush ==
  ASSUME NEW c \in Connections, Same(conn[c])',
         \/ conn'[c].pc = "delete" /\ conn'[c].h = CurrentDev(staged[conn[c].id])'
         \/ conn'[c].pc = "upload"
         \/ /\ conn'[c].pc = "flushed" /\ conn'[c].h <= lastHandle'
            /\ \A j \in Id : Staged(j)' => ~Owns(j, staged[j], conn[c].h)'
            /\ dev'[conn'[c].h] # None /\ ~dev'[conn'[c].h].isdir
            /\ dev'[conn'[c].h].data = tmp'[conn'[c].id]
            /\ dev'[conn'[c].h].dir = conn'[c].dir /\ dev'[conn'[c].h].name = conn'[c].name
  PROVE  Knows(conn[c])'
<1>1. CASE conn'[c].pc = "delete" /\ conn'[c].h = CurrentDev(staged[conn[c].id])'
  BY <1>1 DEF Knows, Opening, Flushing, Removing, Renaming
<1>2. CASE conn'[c].pc = "upload"
  BY <1>2 DEF Knows, Opening, Flushing, Removing, Renaming
<1>3. CASE conn'[c].pc = "flushed"
  BY <1>3 DEF Knows, Opening, Flushing, Removing, Renaming
<1> QED BY <1>1, <1>2, <1>3

LEMMA KnowsRemove ==
  ASSUME NEW c \in Connections,
         \/ /\ conn'[c].pc = "rmdelete"
            /\ \/ /\ conn'[c].op = "unlink" /\ Staged(conn[c].id)'
                  /\ conn'[c].h = CurrentDev(staged[conn[c].id])'
               \/ conn'[c].op = "none" /\ conn'[c].id = conn'[c].h /\ Openable(conn[c].h)'
         \/ /\ conn'[c].pc = "rmdrop"
            /\ \/ conn'[c].op = "none" /\ ~Staged(conn[c].id)'
               \/ /\ conn'[c].op = "unlink" /\ Staged(conn[c].id)'
                  /\ \/ CurrentDev(staged[conn[c].id])' = 0
                     \/ dev'[CurrentDev(staged[conn[c].id])'] = None
  PROVE  Knows(conn[c])'
<1>1. CASE conn'[c].pc = "rmdelete"
  BY <1>1 DEF Knows, Opening, Flushing, Removing, Renaming
<1>2. CASE conn'[c].pc = "rmdrop"
  BY <1>2 DEF Knows, Opening, Flushing, Removing, Renaming
<1> QED BY <1>1, <1>2

LEMMA KnowsRename ==
  ASSUME NEW c \in Connections, "rename" \in Calls, NoStage(conn[c].toDir, conn[c].toName)',
         \/ conn'[c].pc = "rnlookup"
         \/ /\ conn'[c].pc = "hrename" /\ conn'[c].dir = conn'[c].toDir
            /\ \/ /\ Staged(conn[c].id)' /\ staged'[conn'[c].id].dir = conn'[c].dir
                  /\ staged'[conn'[c].id].name = conn'[c].name
               \/ ~Staged(conn[c].id)' /\ NoStage(conn[c].dir, conn[c].name)'
         \/ /\ conn'[c].pc = "resync"
            /\ Staged(conn[c].id)' => \A h \in Handle : Owns(conn[c].id, staged[conn[c].id], h)'
                                       => Bears(dev[h], conn[c].toDir, conn[c].toName)'
  PROVE  Knows(conn[c])'
<1>1. CASE conn'[c].pc = "rnlookup"
  BY <1>1 DEF Knows, Opening, Flushing, Removing, Renaming
<1>2. CASE conn'[c].pc = "hrename"
  BY <1>2 DEF Knows, Opening, Flushing, Removing, Renaming
<1>3. CASE conn'[c].pc = "resync"
  BY <1>3 DEF Knows, Opening, Flushing, Removing, Renaming
<1> QED BY <1>1, <1>2, <1>3

\* WRITE and SETATTR, up to the read of the object.
LEMMA BoundOpening ==
  ASSUME TypeInv, OneByOne, Bound, NEW c \in Connections,
         WriteCall(c) \/ SetattrCall(c) \/ StageForWrites(c) \/ ObjectInfo(c)
  PROVE  StageInv' /\ Knows(conn[c])'
<1> USE TypeFacts, PcAfter
<1> DEFINE k == conn[c]
<1>0. StageInv /\ Knows(k) /\ k \in Locals
  BY Zenon DEF Bound
<1>1. StageInv'
  <2>1. \A j : ~At("resync", j) /\ ~At("rmdrop", j)
    BY ZenonT(40), OnlyOne DEF WriteCall, SetattrCall, StageForWrites, ObjectInfo, Request
  <2> QED BY Zenon, <1>0, <2>1, StageSame DEF WriteCall, SetattrCall, StageForWrites, ObjectInfo, local
<1> SUFFICES Knows(conn[c])'
  BY <1>1
<1>2. CASE WriteCall(c) \/ SetattrCall(c)
  <2>1. PICK id \in ClientIds, o \in {"write", "setattr"} :
          conn' = [conn EXCEPT ![c] = [Idle EXCEPT !.pc = "stage", !.op = o, !.id = id]]
    BY Zenon, <1>2 DEF WriteCall, SetattrCall
  <2>2. conn'[c].pc = "stage" /\ conn'[c].id = id /\ conn'[c].op # "create"
    BY <2>1, IdleType DEF ConnTypes, Locals
  <2>3. Staged(id) \/ Openable(id)
    BY NoStageAs DEF ClientIds, OneByOne, Openable, Staged
  <2>4. dev' = dev /\ staged' = staged
    BY Zenon, <1>2 DEF WriteCall, SetattrCall, phone, local
  <2>5. Staged(conn[c].id)' \/ Openable(conn[c].id)'
    BY <2>2, <2>3, <2>4 DEF Openable, NoStage, Staged
  <2> QED BY <2>2, <2>5, KnowsStage
<1>3. CASE StageForWrites(c)
  <2>1. dev' = dev /\ staged' = staged /\ (Staged(k.id) \/ Openable(k.id)) /\ k.op # "create"
    BY <1>0, <1>3 DEF StageForWrites, phone, local, Knows, Opening
  <2>2. CASE conn'[c].pc \in {"idle", "apply"}
    BY <2>2, KnowsLittle
  <2>3. CASE staged[k.id] = None /\ conn' = [conn EXCEPT ![c].pc = "info", ![c].h = k.id]
    <3>1. conn'[c].pc = "info" /\ conn'[c].id = k.id /\ conn'[c].h = k.id /\ conn'[c].op = k.op
      BY <1>0, <2>3 DEF ConnTypes, Locals
    <3>2. Openable(conn[c].h)'
      BY ZenonT(40), <2>1, <2>3, <3>1 DEF Openable, NoStage, Staged
    <3> QED BY <2>1, <3>1, <3>2, KnowsInfo
  <2> QED BY <1>3, <2>2, <2>3 DEF StageForWrites
<1>4. CASE ObjectInfo(c)
  <2> DEFINE o == dev[k.h]
  <2>1. dev' = dev /\ staged' = staged /\ k.id = k.h /\ Openable(k.h) /\ (k.op = "create" => o.dir = k.dir)
    BY <1>0, <1>4 DEF ObjectInfo, phone, local, Knows, Opening
  <2>2. CASE conn'[c].pc = "idle"
    BY <2>2, KnowsLittle
  <2>3. CASE /\ ~o.isdir
             /\ conn' = [conn EXCEPT ![c].pc = "pull", ![c].name = o.name,
                                ![c].dir = IF conn[c].op = "create" THEN @ ELSE o.dir,
                                ![c].size = Len(o.data)]
    <3>1. /\ conn'[c].pc = "pull" /\ conn'[c].id = k.id /\ conn'[c].h = k.h /\ conn'[c].op = k.op
          /\ conn'[c].name = o.name /\ conn'[c].size = Len(o.data)
          /\ conn'[c].dir = IF k.op = "create" THEN k.dir ELSE o.dir
      BY <1>0, <2>3 DEF ConnTypes, Locals
    <3>2. Openable(conn[c].h)'
      BY <2>1, <3>1 DEF Openable, NoStage, Staged
    <3>3. conn'[c].dir = o.dir /\ ~o.isdir /\ dev'[conn'[c].h] = o
      BY Zenon, <2>1, <2>3, <3>1
    <3>4. Found(conn[c])'
      BY <2>1, <3>1, <3>2, <3>3 DEF Found
    <3> QED BY <3>1, <3>4, KnowsPull
  <2> QED BY <1>4, <2>2, <2>3 DEF ObjectInfo
<1> QED BY <1>2, <1>3, <1>4

\* A step to another point that leaves the other locals as they are.
LEMMA GotoKeeps ==
  ASSUME TypeInv, NEW c \in Connections, NEW p, Goto(c, p)
  PROVE  /\ conn'[c].pc = p /\ conn'[c].op = conn[c].op
         /\ conn'[c].id = conn[c].id /\ conn'[c].h = conn[c].h /\ conn'[c].size = conn[c].size
         /\ conn'[c].dir = conn[c].dir /\ conn'[c].name = conn[c].name
         /\ conn'[c].toDir = conn[c].toDir /\ conn'[c].toName = conn[c].toName
<1>1. conn[c] \in Locals /\ conn \in [Connections -> Locals]
  BY Zenon, TypeFacts DEF ConnTypes
<1> QED BY <1>1 DEF Goto, Locals

\* Once a file is staged, the request goes on with no more to know.
LEMMA ReadyKnows ==
  ASSUME TypeInv, NEW c \in Connections, NEW id \in Id, StageReady(c, id), staged'[id] # None
  PROVE  Knows(conn[c])'
<1> USE TypeFacts
<1>1. CASE conn'[c].pc \in {"idle", "apply"}
  BY <1>1, KnowsLittle
<1>2. CASE conn' = [conn EXCEPT ![c].pc = "stage", ![c].op = "setattr", ![c].id = id]
  <2>1. conn'[c].pc = "stage" /\ conn'[c].op = "setattr" /\ conn'[c].id = id
    BY <1>2 DEF ConnTypes, Locals
  <2>2. Staged(conn[c].id)'
    BY <2>1 DEF Staged
  <2> QED BY <2>1, <2>2, KnowsStage
<1> QED BY Zenon, <1>1, <1>2, PcAfter DEF StageReady

\* What was read of an object: the first n blocks, hence all of it when their
\* number is right.
LEMMA WholeRead ==
  ASSUME NEW data \in Content, NEW n \in 0..Len(data)
  PROVE  /\ Overlay(<<>>, Prefix(data, n)) \in Content
         /\ Len(Overlay(<<>>, Prefix(data, n))) = Len(data)
              => Overlay(<<>>, Prefix(data, n)) = data
<1>1. Len(data) \in 0..MaxSize /\ data \in [1..Len(data) -> Byte]
  BY ContentSeq
<1>2. n \in 0..MaxSize
  BY <1>1, ConstantsAssumption
<1>3. Prefix(data, n) \in [1..n -> Byte]
  BY <1>1, <1>2 DEF Prefix
<1>4. Prefix(data, n) \in Content /\ Len(Prefix(data, n)) = n
  BY <1>2, <1>3, ContentIntro
<1>5. Len(<<>>) = 0
  OBVIOUS
<1>6. Overlay(<<>>, Prefix(data, n)) = [i \in 1..n |-> data[i]]
  BY <1>1, <1>2, <1>3, <1>4, <1>5 DEF Overlay, Prefix
<1>7. [i \in 1..n |-> data[i]] \in [1..n -> Byte]
  BY <1>1, <1>2
<1>8. [i \in 1..n |-> data[i]] \in Content /\ Len([i \in 1..n |-> data[i]]) = n
  BY <1>2, <1>7, ContentIntro
<1>9. n = Len(data) => [i \in 1..n |-> data[i]] = data
  BY <1>1
<1> QED BY <1>6, <1>8, <1>9

\* ensure_staged_existing.
LEMMA BoundPulling ==
  ASSUME TypeInv, OneByOne, Bound, NEW c \in Connections,
         PullOpen(c) \/ PullRead(c) \/ PullInsert(c)
  PROVE  StageInv' /\ Knows(conn[c])'
<1> USE TypeFacts, PcAfter
<1> DEFINE k == conn[c]
           id == k.id
<1>0. StageInv /\ Knows(k) /\ k \in Locals
  BY DEF Bound
<1>1. k.pc \in {"pull", "read", "insert"}
  BY DEF PullOpen, PullRead, PullInsert
<1>2. \A j : ~At("resync", j) /\ ~At("rmdrop", j)
  BY <1>1, OnlyOne
<1>3. Found(k) /\ id \in Id /\ id \in Handle
  BY <1>0, <1>1 DEF Knows, Opening, Found, ConnOK, HasId, Openable
<1>4. ~Staged(id) /\ \A j \in Id : Staged(j) => ~Owns(j, staged[j], id)
  BY <1>0, <1>2, <1>3, OpenableFree DEF Found
<1>5. dev' = dev /\ lastHandle' = lastHandle /\ virtSeq' = virtSeq
  BY DEF PullOpen, PullRead, PullInsert, phone
<1>6. ASSUME UNCHANGED staged, NEW t, tmp' = tmp \/ tmp' = [tmp EXCEPT ![id] = t]
      PROVE  StageInv'
  <2>1. \A j \in Id : Staged(j) => tmp'[j] = tmp[j]
    BY <1>4, <1>6
  <2> QED BY <1>0, <1>2, <1>5, <1>6, <2>1, StageSame DEF phone
<1>7. ASSUME UNCHANGED staged, NEW p, Goto(c, p)
      PROVE  Found(conn[c])'
  <2>1. Openable(conn[c].h)'
    BY <1>3, <1>5, <1>7, GotoKeeps DEF Found, Openable, NoStage, Staged
  <2> QED BY <1>3, <1>5, <1>7, <2>1, GotoKeeps DEF Found
<1>8. CASE PullOpen(c)
  <2>1. tmp' = [tmp EXCEPT ![id] = <<>>] /\ Goto(c, "read") /\ UNCHANGED staged
    BY <1>4, <1>8 DEF PullOpen, Staged
  <2>2. tmp'[conn'[c].id] = <<>>
    BY <1>3, <2>1
  <2> QED BY <1>6, <1>7, <2>1, <2>2, KnowsPull
<1>9. CASE PullRead(c)
  <2>0. UNCHANGED staged
    BY <1>9 DEF PullRead
  <2>1. CASE Return(c) /\ UNCHANGED tmp
    BY <1>6, <2>0, <2>1, KnowsLittle
  <2>2. CASE /\ Goto(c, "insert")
             /\ \E n \in 0..k.size :
                  /\ n <= Len(dev[k.h].data)
                  /\ tmp' = [tmp EXCEPT ![id] = IF @ = None THEN None
                                                ELSE Overlay(@, Prefix(dev[k.h].data, n))]
    <3>1. PICK n \in 0..k.size :
                  tmp' = [tmp EXCEPT ![id] = IF @ = None THEN None
                                             ELSE Overlay(@, Prefix(dev[k.h].data, n))]
      BY <2>2
    <3>2. tmp[id] = <<>>
      BY <1>0, <1>9 DEF PullRead, Knows, Opening
    <3>3. dev[k.h].data \in Content /\ n \in 0..Len(dev[k.h].data)
      BY <1>3, <3>1 DEF Found, Openable, Object
    <3>4. tmp'[id] = Overlay(<<>>, Prefix(dev[k.h].data, n))
      BY <1>3, <3>1, <3>2, EmptyType, NoneAssumption
    <3>5. tmp'[id] # None /\ (Len(tmp'[id]) = k.size => tmp'[id] = dev[k.h].data)
      BY <1>3, <3>3, <3>4, WholeRead, NoneAssumption DEF Found
    <3>6. StageInv'
      BY <1>6, <2>0, <3>1
    <3>7. Found(conn[c])'
      BY <1>7, <2>0, <2>2
    <3>8. /\ conn'[c].pc = "insert" /\ conn'[c].id = k.id /\ conn'[c].h = k.h
          /\ conn'[c].size = k.size
      BY <2>2, GotoKeeps
    <3> QED BY <1>5, <3>5, <3>6, <3>7, <3>8, KnowsPull
  <2> QED BY <1>9, <2>1, <2>2 DEF PullRead
<1>10. CASE PullInsert(c)
  <2>1. CASE Return(c) /\ UNCHANGED staged /\ tmp' = [tmp EXCEPT ![id] = None]
    BY <1>6, <2>1, KnowsLittle
  <2>2. CASE /\ tmp[id] # None /\ Len(tmp[id]) = k.size
             /\ staged' = [staged EXCEPT ![id] =
                  [dir |-> k.dir, name |-> k.name, size |-> k.size,
                   origin |-> k.h, flushed |-> 0, dirty |-> FALSE]]
             /\ StageReady(c, id) /\ UNCHANGED tmp
    <3>1. PICK s : s = [dir |-> k.dir, name |-> k.name, size |-> k.size,
                        origin |-> k.h, flushed |-> 0, dirty |-> FALSE]
      OBVIOUS
    <3>2. s # None
      <4>1. s \in Stage
        BY <3>1, <1>3, <1>0, ConstantsAssumption DEF Stage, Locals
      <4> QED BY <4>1, NoneAssumption
    <3>3. \A h \in Handle : Owns(id, s, h) <=> h = id
      BY <1>3, <3>1, ConstantsAssumption DEF Owns, Found, Handle
    <3>4. CurrentDev(s) = id /\ id # 0
      BY <1>3, <3>1, ConstantsAssumption DEF CurrentDev, Found, Handle
    <3>5. id <= lastHandle
      BY <1>0, <1>3, ConstantsAssumption DEF StageInv, Found, Openable, Handle
    <3>6. Sound(id, s, lastHandle, tmp'[id], virtSeq')
      BY <1>3, <2>2, <3>1, <3>3, <3>4, <3>5 DEF Sound
    <3>7. Placed(id, s, dev)
      BY <1>3, <3>1, <3>3 DEF Placed, Bears, Found
    <3>8. Copied(s, dev, tmp'[id])
      BY <1>0, <1>3, <1>10, <2>2, <3>1, <3>4 DEF Copied, Found, Openable, PullInsert, Knows, Opening
    <3>9. \A j \in Id : j # id /\ Staged(j) => Apart(id, s, j, staged[j])
      BY ZenonT(40), <1>3, <1>4, <3>1, <3>3 DEF Apart, Found, Openable, NoStage
    <3>10. StageInv'
      <4>1. virtSeq' \in Int /\ virtSeq' >= virtSeq /\ UNCHANGED phone
        BY <1>5 DEF phone
      <4>2. staged' = [staged EXCEPT ![id] = s] /\ \A j \in Id : j # id => tmp'[j] = tmp[j]
        BY <2>2, <3>1
      <4> HIDE DEF k, id
      <4> QED BY <1>0, <1>2, <1>3, <3>2, <3>6, <3>7, <3>8, <3>9, <4>1, <4>2, StageSet
    <3>11. staged'[id] # None
      BY <1>3, <2>2, <3>1, <3>2
    <3> QED BY <1>3, <2>2, <3>10, <3>11, ReadyKnows
  <2> QED BY <1>10, <2>1, <2>2 DEF PullInsert
<1> QED BY <1>8, <1>9, <1>10

\* A stage is changed: it keeps its name and its objects, and is dirty.
LEMMA StageEdited ==
  ASSUME TypeInv, StageInv, NEW i \in Id, Staged(i), NEW s \in Stage,
         staged' = [staged EXCEPT ![i] = s], UNCHANGED <<phone, virtSeq>>,
         s.dirty, s.dir = staged[i].dir, s.name = staged[i].name,
         s.origin = staged[i].origin, s.flushed = staged[i].flushed,
         \A j \in Id : j # i => tmp'[j] = tmp[j], tmp'[i] # None, Len(tmp'[i]) = s.size,
         \A j \in Id : ~At("resync", j) /\ ~At("rmdrop", j)
  PROVE  StageInv'
<1>1. /\ Sound(i, staged[i], lastHandle, tmp[i], virtSeq) /\ Placed(i, staged[i], dev)
      /\ \A j \in Id : j # i /\ Staged(j) => Apart(i, staged[i], j, staged[j])
  BY DEF StageInv
<1>2. \A h : Owns(i, s, h) <=> Owns(i, staged[i], h)
  BY DEF Owns
<1>3. CurrentDev(s) = CurrentDev(staged[i])
  BY DEF CurrentDev
<1>4. Sound(i, s, lastHandle, tmp'[i], virtSeq')
  BY <1>1, <1>2, <1>3 DEF Sound
<1>5. Placed(i, s, dev) /\ Copied(s, dev, tmp'[i])
  BY <1>1, <1>2 DEF Placed, Copied
<1>6. \A j \in Id : j # i /\ Staged(j) => Apart(i, s, j, staged[j])
  BY <1>1, <1>2 DEF Apart
<1>7. virtSeq' \in Int /\ virtSeq' >= virtSeq
  BY ConstantsAssumption DEF TypeInv, TypeOK
<1>8. s # None
  BY NoneAssumption
<1> QED BY <1>4, <1>5, <1>6, <1>7, <1>8, StageSet

\* The lengths that pwrite and ftruncate leave.
LEMMA EditedLength ==
  ASSUME NEW data \in Content
  PROVE  /\ \A off \in 0..(MaxSize - 1), b \in Byte :
              Len(PWrite(data, off, b)) = IF off + 1 > Len(data) THEN off + 1 ELSE Len(data)
         /\ \A n \in 0..MaxSize : Len(SetLen(data, n)) = n
<1>1. Len(data) \in 0..MaxSize /\ data \in [1..Len(data) -> Byte]
  BY ContentSeq
<1>2. ASSUME NEW off \in 0..(MaxSize - 1), NEW b \in Byte
      PROVE  Len(PWrite(data, off, b)) = IF off + 1 > Len(data) THEN off + 1 ELSE Len(data)
  <2> DEFINE n == IF off + 1 > Len(data) THEN off + 1 ELSE Len(data)
  <2>1. n \in 0..MaxSize
    BY <1>1, ConstantsAssumption
  <2>2. PWrite(data, off, b) \in [1..n -> Byte]
    BY <1>1, <2>1, ConstantsAssumption DEF PWrite
  <2> QED BY <2>1, <2>2, ContentIntro
<1>3. ASSUME NEW n \in 0..MaxSize
      PROVE  Len(SetLen(data, n)) = n
  <2>1. SetLen(data, n) \in [1..n -> Byte]
    BY <1>1, ConstantsAssumption DEF SetLen
  <2> QED BY <2>1, ContentIntro
<1> QED BY <1>2, <1>3

\* WRITE and SETATTR on the stage.
LEMMA BoundApply ==
  ASSUME TypeInv, OneByOne, Bound, NEW c \in Connections, ApplyWrite(c) \/ ApplySetattr(c)
  PROVE  StageInv' /\ Knows(conn[c])'
<1> USE TypeFacts, PcAfter
<1> DEFINE id == conn[c].id
           s == staged[id]
<1>0. StageInv /\ id \in Id /\ \A j : ~At("resync", j) /\ ~At("rmdrop", j)
  BY OnlyOne DEF Bound, ApplyWrite, ApplySetattr, ConnOK, HasId
<1>1. Knows(conn[c])'
  BY Zenon, KnowsLittle DEF ApplyWrite, ApplySetattr
<1>2. CASE UNCHANGED <<tmp, staged>>
  BY <1>0, <1>1, <1>2, StageSame DEF ApplyWrite, ApplySetattr
<1>3. ASSUME Staged(id), tmp[id] # None
      PROVE  s \in Stage /\ tmp[id] \in Content /\ Len(tmp[id]) = s.size
  BY <1>0, <1>3 DEF StageInv, Sound, Staged
<1>4. Staged(id) => tmp[id] # None
  BY <1>0 DEF StageInv, Sound
<1>5. ASSUME Staged(id), UNCHANGED <<phone, virtSeq>>, NEW n \in 0..MaxSize, NEW t \in Content, Len(t) = n,
             tmp' = [tmp EXCEPT ![id] = t],
             staged' = [staged EXCEPT ![id].size = n, ![id].dirty = TRUE]
      PROVE  StageInv'
  <2>1. PICK e : e = [s EXCEPT !.size = n, !.dirty = TRUE]
    OBVIOUS
  <2>2. /\ e \in Stage /\ e.dirty /\ e.size = n /\ e.dir = s.dir /\ e.name = s.name
        /\ e.origin = s.origin /\ e.flushed = s.flushed
    BY <1>3, <1>4, <1>5, <2>1 DEF Stage
  <2>3. staged' = [staged EXCEPT ![id] = e]
    BY <1>5, <2>1
  <2>4. tmp'[id] = t /\ \A j \in Id : j # id => tmp'[j] = tmp[j]
    BY <1>0, <1>5
  <2>5. t # None
    BY NoneAssumption
  <2> HIDE DEF id
  <2> HIDE TypeFacts, PcAfter
  <2> QED BY <1>0, <1>5, <2>2, <2>3, <2>4, <2>5, StageEdited
<1>6. CASE ApplyWrite(c) /\ Staged(id)
  <2>1. PICK off \in 0..(MaxSize - 1), b \in Byte :
          /\ tmp' = [tmp EXCEPT ![id] = PWrite(IF tmp[id] = None THEN <<>> ELSE tmp[id], off, b)]
          /\ staged' = [staged EXCEPT
               ![id].size = IF off + 1 > @ THEN off + 1 ELSE @, ![id].dirty = TRUE]
    BY Zenon, <1>6 DEF ApplyWrite, Staged
  <2> DEFINE n == IF off + 1 > s.size THEN off + 1 ELSE s.size
             t == PWrite(tmp[id], off, b)
  <2>a. tmp[id] \in Content /\ Len(tmp[id]) = s.size
    BY <1>3, <1>4, <1>6
  <2>b. t \in Content
    BY <2>a, PWriteType
  <2>c. Len(t) = n
    <3> HIDE TypeFacts, PcAfter
    <3> QED BY <2>a, EditedLength
  <2>2. t \in Content /\ Len(t) = n
    BY <2>b, <2>c
  <2>3. n \in 0..MaxSize
    BY <2>2, ContentSeq
  <2>4. tmp' = [tmp EXCEPT ![id] = t] /\ staged' = [staged EXCEPT ![id].size = n, ![id].dirty = TRUE]
    BY <1>4, <1>6, <2>1
  <2>5. UNCHANGED <<phone, virtSeq>>
    BY Zenon, <1>6 DEF ApplyWrite
  <2> HIDE DEF n, t
  <2> QED BY Zenon, <1>1, <1>5, <1>6, <2>2, <2>3, <2>4, <2>5
<1>7. CASE ApplySetattr(c) /\ Staged(id)
  <2>1. PICK n \in 0..MaxSize :
          /\ tmp' = [tmp EXCEPT ![id] = SetLen(tmp[id], n)]
          /\ staged' = [staged EXCEPT ![id].size = n, ![id].dirty = TRUE]
    BY Zenon, <1>4, <1>7 DEF ApplySetattr, Staged
  <2>2. SetLen(tmp[id], n) \in Content /\ Len(SetLen(tmp[id], n)) = n
    BY Zenon, <1>3, <1>4, <1>7, SetLenType, EditedLength
  <2>3. UNCHANGED <<phone, virtSeq>>
    BY <1>7 DEF ApplySetattr
  <2> QED BY <1>1, <1>5, <1>7, <2>1, <2>2, <2>3
<1> QED BY Zenon, <1>2, <1>6, <1>7 DEF ApplyWrite, ApplySetattr, Staged

\* CREATE.
LEMMA BoundCreate ==
  ASSUME TypeInv, OneByOne, Bound, NEW c \in Connections,
         CreateCall(c) \/ CreateExclusiveCall(c) \/ Probe(c) \/ StageNew(c) \/ LookupOrNew(c)
  PROVE  StageInv' /\ Knows(conn[c])'
<1> USE TypeFacts, PcAfter
<1> DEFINE k == conn[c]
<1>a. k.pc \notin {"resync", "rmdrop"}
  BY Zenon DEF CreateCall, CreateExclusiveCall, Probe, StageNew, LookupOrNew, Request
<1>0. StageInv /\ Knows(k) /\ k \in Locals /\ \A j : ~At("resync", j) /\ ~At("rmdrop", j)
  BY <1>a, OnlyOne DEF Bound
<1>1. ASSUME UNCHANGED <<local, phone>> PROVE StageInv'
  BY Zenon, <1>0, <1>1, StageSame DEF local
<1>2. CASE CreateCall(c) \/ CreateExclusiveCall(c)
  <2>1. PICK d \in Dirs, n \in Names, p \in {"stagenew", "probe"} :
          conn' = [conn EXCEPT ![c] = [Idle EXCEPT !.pc = p, !.op = "create", !.dir = d, !.name = n]]
    BY Zenon, <1>2 DEF CreateCall, CreateExclusiveCall
  <2>2. conn'[c].pc = p
    BY <2>1, IdleType DEF ConnTypes, Locals
  <2> QED BY Zenon, <1>1, <1>2, <2>2, KnowsLittle DEF CreateCall, CreateExclusiveCall
<1>3. CASE Probe(c)
  BY <1>1, <1>3, KnowsLittle DEF Probe
<1>4. CASE StageNew(c)
  <2>1. StageInv' /\ UNCHANGED staged
    BY <1>1, <1>4 DEF StageNew, local
  <2>2. CASE \E id \in StagedAs(k.dir, k.name) : StageReady(c, id)
    BY <2>1, <2>2, ReadyKnows DEF StagedAs
  <2>3. CASE StagedAs(k.dir, k.name) = {} /\ Goto(c, "lookup")
    <3>1. NoStage(k.dir, k.name)
      BY <2>3, NoStageAs
    <3>2. conn'[c].pc = "lookup" /\ conn'[c].dir = k.dir /\ conn'[c].name = k.name
      BY <2>3, GotoKeeps
    <3>3. NoStage(conn[c].dir, conn[c].name)'
      BY <2>1, <3>1, <3>2 DEF NoStage, Staged
    <3> QED BY <2>1, <3>2, <3>3, KnowsLookup
  <2>4. CASE Return(c)
    BY <1>1, <2>1, <2>4, KnowsLittle
  <2> QED BY <1>4, <2>2, <2>3, <2>4 DEF StageNew
<1>5. CASE LookupOrNew(c)
  <2> DEFINE d == k.dir
             n == k.name
             id == -(virtSeq + 1)
  <2>0. NoStage(d, n) /\ StagedAs(d, n) = {} /\ k.op = "create"
    BY Zenon, <1>0, <1>5, NoStageAs DEF LookupOrNew, Knows, Opening, ConnOK, Creating
  <2>1. CASE virtSeq = MaxVirt /\ Return(c) /\ UNCHANGED <<local>>
    BY <1>1, <1>5, <2>1, KnowsLittle DEF LookupOrNew
  <2>2. ASSUME NEW i \in LookupIds(d, n), DeviceHandleOf(i) # 0,
               conn' = [conn EXCEPT ![c].pc = "info", ![c].id = i, ![c].h = DeviceHandleOf(i)],
               UNCHANGED local
        PROVE  StageInv' /\ Knows(conn[c])'
    <3>1. i \in Handle /\ dev[i] # None /\ dev[i].dir = d /\ dev[i].name = n
      BY <2>0 DEF LookupIds, Listed
    <3>2. Openable(i)
      BY <2>0, <3>1 DEF Openable
    <3>3. ~Staged(i)
      BY <1>0, <3>1, <3>2, OpenableFree
    <3>4. DeviceHandleOf(i) = i
      BY <3>1, <3>3, ConstantsAssumption DEF DeviceHandleOf, Staged, Handle
    <3>5. conn'[c].pc = "info" /\ conn'[c].id = i /\ conn'[c].h = i /\ conn'[c].dir = d
      BY Zenon, <1>0, <2>2, <3>4 DEF ConnTypes, Locals
    <3>6. StageInv' /\ dev' = dev /\ staged' = staged
      BY Zenon, <1>1, <1>5, <2>2 DEF LookupOrNew, phone, local
    <3>7. Openable(conn[c].h)'
      BY <3>2, <3>5, <3>6 DEF Openable, NoStage, Staged
    <3> QED BY <3>1, <3>5, <3>6, <3>7, KnowsInfo
  <2>3. CASE /\ virtSeq < MaxVirt
             /\ virtSeq' = virtSeq + 1
             /\ tmp' = [tmp EXCEPT ![id] = <<>>]
             /\ staged' = [staged EXCEPT ![id] =
                  [dir |-> d, name |-> n, size |-> 0, origin |-> 0, flushed |-> 0, dirty |-> TRUE]]
             /\ StageReady(c, id)
    <3>1. virtSeq + 1 \in 1..MaxVirt /\ virtSeq' \in Int /\ virtSeq' >= virtSeq
      BY <2>3
    <3>a. id \notin Handle /\ -id = virtSeq'
      BY <2>3, <3>1 DEF Handle
    <3>2. id \in Id /\ id \notin Handle /\ -id = virtSeq'
      BY <3>1, <3>a DEF Id
    <3>3. PICK s : s = [dir |-> d, name |-> n, size |-> 0, origin |-> 0, flushed |-> 0, dirty |-> TRUE]
      OBVIOUS
    <3>4. s \in Stage
      BY <1>0, <3>3 DEF Stage, Locals
    <3>5. \A h \in Handle : ~Owns(id, s, h)
      BY <3>2, <3>3 DEF Owns, Handle
    <3>6. tmp'[id] = <<>> /\ \A j \in Id : j # id => tmp'[j] = tmp[j]
      BY <2>3, <3>2
    <3>b. tmp'[id] # None /\ Len(tmp'[id]) = 0
      BY <3>6, EmptyType, NoneAssumption
    <3>c. s.size = 0 /\ -id <= virtSeq'
      BY <3>1, <3>2, <3>3
    <3>7. Sound(id, s, lastHandle, tmp'[id], virtSeq')
      <4> HIDE DEF id
      <4> HIDE TypeFacts, PcAfter
      <4> QED BY <3>2, <3>5, <3>b, <3>c DEF Sound
    <3>8. Placed(id, s, dev) /\ Copied(s, dev, tmp'[id])
      BY <3>3, <3>5 DEF Placed, Copied
    <3>9. \A j \in Id : j # id /\ Staged(j) => Apart(id, s, j, staged[j])
      BY <2>0, <3>3, <3>5 DEF Apart, NoStage
    <3>10. staged' = [staged EXCEPT ![id] = s] /\ UNCHANGED phone
      BY Zenon, <1>5, <2>3, <3>3 DEF LookupOrNew
    <3>11. s # None
      BY <3>4, NoneAssumption
    <3> HIDE DEF id
    <3>12. StageInv'
      BY <1>0, <3>1, <3>2, <3>6, <3>7, <3>8, <3>9, <3>10, <3>11, StageSet
    <3>13. staged'[id] # None
      BY <3>2, <3>10, <3>11
    <3> QED BY <2>3, <3>2, <3>12, <3>13, ReadyKnows
  <2> QED BY Zenon, <1>5, <2>1, <2>2, <2>3 DEF LookupOrNew
<1> QED BY <1>2, <1>3, <1>4, <1>5

\* A stage owns the object it stands for; no other stage does.
LEMMA CurrentOwned ==
  ASSUME StageInv, NEW i \in Id, Staged(i), CurrentDev(staged[i]) \in Handle
  PROVE  /\ Owns(i, staged[i], CurrentDev(staged[i]))
         /\ \A j \in Id : Staged(j) /\ j # i => CurrentDev(staged[j]) # CurrentDev(staged[i])
<1>2. \A j : Owns(j, staged[j], CurrentDev(staged[j]))
  BY DEF Owns, CurrentDev
<1> QED BY <1>2 DEF StageInv, Apart

\* COMMIT.
LEMMA BoundCommit ==
  ASSUME TypeInv, OneByOne, Bound, NEW c \in Connections,
         CommitCall(c) \/ FlushSnapshot(c) \/ FlushDelete(c) \/ FlushUpload(c) \/ FlushDone(c)
  PROVE  StageInv' /\ Knows(conn[c])'
<1> USE TypeFacts, PcAfter
<1> DEFINE k == conn[c]
           id == k.id
           s == staged[id]
<1>a. k.pc \notin {"resync", "rmdrop"}
  BY Zenon DEF CommitCall, FlushSnapshot, FlushDelete, FlushUpload, FlushDone, Request
<1>0. StageInv /\ Knows(k) /\ k \in Locals /\ \A j : ~At("resync", j) /\ ~At("rmdrop", j)
  BY <1>a, OnlyOne DEF Bound
<1>1. ASSUME UNCHANGED <<local, phone>> PROVE StageInv'
  BY <1>0, <1>1, StageSame DEF local
<1>2. CASE CommitCall(c)
  <2>1. PICK i : conn' = [conn EXCEPT ![c] = [Idle EXCEPT !.pc = "snapshot", !.id = i]]
    BY Zenon, <1>2 DEF CommitCall
  <2>2. conn'[c].pc = "snapshot"
    BY Zenon, <2>1, IdleType DEF ConnTypes, Locals
  <2> QED BY Zenon, <1>1, <1>2, <2>2, KnowsLittle DEF CommitCall
<1>3. CASE FlushSnapshot(c)
  <2>0. StageInv' /\ staged' = staged
    BY Zenon, <1>1, <1>3 DEF FlushSnapshot, local
  <2>1. CASE Return(c)
    BY <2>0, <2>1, KnowsLittle
  <2>2. CASE /\ s # None /\ s.dirty
             /\ conn' = [conn EXCEPT ![c].pc = "delete", ![c].dir = s.dir, ![c].name = s.name,
                                     ![c].size = s.size, ![c].h = CurrentDev(s)]
    <3>1. /\ conn'[c].pc = "delete" /\ conn'[c].id = id /\ conn'[c].dir = s.dir
          /\ conn'[c].name = s.name /\ conn'[c].size = s.size /\ conn'[c].h = CurrentDev(s)
      BY Zenon, <1>0, <2>2 DEF ConnTypes, Locals
    <3>2. s # None /\ s.dirty
      BY Zenon, <2>2
    <3>3. Same(conn[c])'
      BY <2>0, <3>1, <3>2 DEF Same, Staged
    <3>4. conn'[c].h = CurrentDev(staged[conn[c].id])'
      BY <2>0, <3>1 DEF CurrentDev
    <3> QED BY Zenon, <2>0, <3>1, <3>3, <3>4, KnowsFlush
  <2> QED BY Zenon, <1>3, <2>1, <2>2 DEF FlushSnapshot
<1>4. ASSUME k.pc \in {"delete", "upload", "flushed"}
      PROVE  Same(k) /\ id \in Id
  BY <1>0, <1>4 DEF Knows, Flushing, ConnOK, HasId
<1>5. ASSUME k.pc \in {"delete", "upload", "flushed"}, staged' = staged,
             conn'[c].id = k.id, conn'[c].size = k.size, conn'[c].dir = k.dir, conn'[c].name = k.name
      PROVE  Same(conn[c])'
  BY <1>4, <1>5 DEF Same, Staged
<1>6. CASE FlushDelete(c)
  <2>0. Same(k) /\ id \in Id /\ k.h = CurrentDev(s) /\ k.h \in 0..MaxHandle
    BY <1>0, <1>4, <1>6 DEF FlushDelete, Knows, Flushing, Locals
  <2>1. UNCHANGED <<local, lastHandle>>
    BY <1>6 DEF FlushDelete
  <2>2. Goto(c, "upload") => Knows(conn[c])'
    BY <1>5, <1>6, <2>1, GotoKeeps, KnowsFlush DEF FlushDelete, local
  <2>3. CASE UNCHANGED dev
    <3>1. StageInv'
      BY <1>1, <2>1, <2>3 DEF phone
    <3>2. Knows(conn[c])'
      BY <1>6, <2>2, KnowsLittle DEF FlushDelete
    <3> QED BY <3>1, <3>2
  <2>4. CASE k.h # 0 /\ dev' = [dev EXCEPT ![k.h] = None] /\ Goto(c, "upload")
    <3>1. k.h \in Handle
      BY <2>0, <2>4 DEF Handle
    <3>2. \A j \in Id : Staged(j) /\ ~staged[j].dirty => CurrentDev(staged[j]) # k.h
      BY <1>0, <2>0, <3>1, CurrentOwned DEF Same
    <3>3. StageInv'
      <4> HIDE DEF k
      <4> QED BY <1>0, <2>1, <2>4, <3>1, <3>2, ObjectGone
    <3> QED BY <2>2, <2>4, <3>3
  <2> QED BY <1>6, <2>3, <2>4 DEF FlushDelete
<1>7. CASE FlushUpload(c)
  <2> DEFINE new == lastHandle + 1
  <2>0. Same(k) /\ id \in Id /\ staged' = staged /\ UNCHANGED local
    BY <1>4, <1>7 DEF FlushUpload, local
  <2>1. CASE Return(c) /\ UNCHANGED phone
    BY <1>1, <2>0, <2>1, KnowsLittle
  <2>2. ASSUME new \in Handle, lastHandle' = new, NameFree(k.dir, k.name),
               NEW t \in Content, dev' = [dev EXCEPT ![new] = UploadedObject(c, t)]
        PROVE  StageInv'
    <3>1. PICK o : o = UploadedObject(c, t)
      OBVIOUS
    <3>2. o \in Object /\ o.dir = k.dir /\ o.name = k.name
      BY <1>0, <3>1 DEF UploadedObject, Object, Locals
    <3>3. "rename" \in Calls => Listed(o.dir, o.name) = {}
      BY <2>2, <3>2 DEF NameFree, OneByOne
    <3>4. o # None
      BY <3>2, NoneAssumption
    <3> QED BY <1>0, <2>0, <2>2, <3>1, <3>3, <3>4, ObjectNew
  <2>3. CASE /\ tmp[id] # None /\ Len(tmp[id]) = k.size /\ new \in Handle /\ NameFree(k.dir, k.name)
             /\ lastHandle' = new /\ dev' = [dev EXCEPT ![new] = UploadedObject(c, tmp[id])]
             /\ \/ conn' = [conn EXCEPT ![c].pc = "flushed", ![c].h = new]
                \/ Return(c)
    <3>0. tmp[id] \in Content
      BY <2>0, <2>3
    <3>1. StageInv'
      BY <2>2, <2>3, <3>0
    <3>2. CASE Return(c)
      BY <3>1, <3>2, KnowsLittle
    <3>3. CASE conn' = [conn EXCEPT ![c].pc = "flushed", ![c].h = new]
      <4>1. /\ conn'[c].pc = "flushed" /\ conn'[c].h = new /\ conn'[c].id = k.id
            /\ conn'[c].size = k.size /\ conn'[c].dir = k.dir /\ conn'[c].name = k.name
        BY <1>0, <3>3 DEF ConnTypes, Locals
      <4>2. Same(conn[c])'
        BY <1>5, <1>7, <2>0, <4>1 DEF FlushUpload
      <4>3. dev'[new] = UploadedObject(c, tmp[id]) /\ UploadedObject(c, tmp[id]) \in Object
        BY <1>0, <2>3, <3>0 DEF UploadedObject, Object, Locals
      <4>a. PICK o : o = UploadedObject(c, tmp[id])
        OBVIOUS
      <4>b. ~o.isdir /\ o.data = tmp[id] /\ o.dir = k.dir /\ o.name = k.name
        BY <4>a DEF UploadedObject
      <4>4. /\ dev'[new] # None /\ ~dev'[new].isdir /\ dev'[new].data = tmp[id]
            /\ dev'[new].dir = k.dir /\ dev'[new].name = k.name
        <5> HIDE DEF new, k
        <5> HIDE TypeFacts, PcAfter
        <5> QED BY <4>3, <4>a, <4>b, NoneAssumption
      <4>5. \A j \in Id : Staged(j) => ~Owns(j, staged[j], new)
        <5>1. \A j \in Id : Staged(j) => Sound(j, staged[j], lastHandle, tmp[j], virtSeq)
          BY <1>0 DEF StageInv
        <5>2. lastHandle \in Int /\ ~(new <= lastHandle)
          OBVIOUS
        <5> QED BY <2>3, <5>1, <5>2 DEF Sound
      <4>6. \A j \in Id : Staged(j)' => ~Owns(j, staged[j], conn[c].h)'
        BY <2>0, <4>1, <4>5 DEF Staged, Owns
      <4>7. conn'[c].h <= lastHandle' /\ tmp' = tmp
        BY <2>0, <2>3, <4>1 DEF local
      <4> HIDE DEF new
      <4> QED BY <3>1, <4>1, <4>2, <4>4, <4>6, <4>7, KnowsFlush
    <3> QED BY <2>3, <3>2, <3>3
  <2>4. CASE /\ tmp[id] # None /\ new \in Handle /\ NameFree(k.dir, k.name) /\ lastHandle' = new
             /\ \E n \in 0..Len(tmp[id]) :
                  dev' = [dev EXCEPT ![new] = UploadedObject(c, Prefix(tmp[id], n))]
             /\ Return(c)
    <3>1. PICK n \in 0..Len(tmp[id]) :
                  dev' = [dev EXCEPT ![new] = UploadedObject(c, Prefix(tmp[id], n))]
      BY <2>4
    <3>2. tmp[id] \in Content
      BY <2>0, <2>4
    <3>3. Prefix(tmp[id], n) \in Content
      BY <3>2, PrefixType
    <3>4. StageInv'
      BY <2>2, <2>4, <3>1, <3>3
    <3> QED BY <2>4, <3>4, KnowsLittle
  <2> QED BY <1>7, <2>1, <2>3, <2>4 DEF FlushUpload
<1>8. CASE FlushDone(c)
  <2>0. /\ Same(k) /\ id \in Id /\ k.h \in Handle /\ s \in Stage /\ Staged(id)
        /\ UNCHANGED <<phone, tmp, virtSeq>>
        /\ k.h <= lastHandle /\ \A j \in Id : Staged(j) => ~Owns(j, staged[j], k.h)
        /\ dev[k.h] # None /\ dev[k.h].data = tmp[id] /\ dev[k.h].dir = k.dir /\ dev[k.h].name = k.name
    <3>1. k.pc = "flushed" /\ UNCHANGED <<phone, tmp, virtSeq>>
      BY <1>8 DEF FlushDone
    <3>2. Same(k) /\ id \in Id /\ k.h \in Handle
      BY <1>4, <3>1 DEF ConnOK, HasHandle
    <3>3. s \in Stage /\ Staged(id)
      BY <3>2 DEF Same, Staged
    <3>4. Flushing(k)
      BY <1>0 DEF Knows
    <3>5. /\ k.h <= lastHandle /\ \A j \in Id : Staged(j) => ~Owns(j, staged[j], k.h)
          /\ dev[k.h] # None /\ dev[k.h].data = tmp[id] /\ dev[k.h].dir = k.dir
          /\ dev[k.h].name = k.name
      BY <3>1, <3>4 DEF Flushing
    <3> QED BY <3>1, <3>2, <3>3, <3>5
  <2>1. PICK e : e = [s EXCEPT !.origin = 0, !.flushed = k.h, !.dirty = FALSE, !.size = k.size]
    BY Zenon
  <2>2. staged' = [staged EXCEPT ![id] = e] /\ Return(c)
    BY <1>8, <2>0, <2>1 DEF FlushDone, Staged
  <2>3. /\ e \in Stage /\ e.origin = 0 /\ e.flushed = k.h /\ ~e.dirty /\ e.size = s.size
        /\ e.dir = s.dir /\ e.name = s.name
    <3>1. k.size = s.size /\ k.size \in 0..MaxSize
      BY Zenon, <1>0, <2>0 DEF Same, Locals
    <3>2. e \in Stage
      BY Zenon, <2>0, <2>1, <3>1, FlushedStage
    <3> HIDE TypeFacts, PcAfter
    <3> QED BY <2>0, <2>1, <3>1, <3>2 DEF Stage
  <2>4. CurrentDev(e) = k.h /\ k.h # 0 /\ \A h \in Handle : Owns(id, e, h) => h = id \/ h = k.h
    BY <2>0, <2>3 DEF CurrentDev, Owns, Handle
  <2>5. /\ Sound(id, s, lastHandle, tmp[id], virtSeq) /\ Placed(id, s, dev) /\ Owns(id, s, id)
        /\ \A j \in Id : j # id /\ Staged(j) => Apart(id, s, j, staged[j])
    BY <1>0, <2>0 DEF StageInv, Owns
  <2>6. Sound(id, e, lastHandle, tmp'[id], virtSeq')
    BY <2>0, <2>3, <2>4, <2>5 DEF Sound
  <2>7. Placed(id, e, dev)
    BY <2>0, <2>3, <2>4, <2>5 DEF Placed, Bears, Same
  <2>8. Copied(e, dev, tmp'[id])
    BY <2>0, <2>4 DEF Copied
  <2>9. \A j \in Id : j # id /\ Staged(j) => Apart(id, e, j, staged[j])
    BY <2>0, <2>3, <2>4, <2>5 DEF Apart
  <2>10. e # None /\ virtSeq' \in Int /\ virtSeq' >= virtSeq
    BY <2>0, <2>3, NoneAssumption
  <2>11. StageInv'
    <3> HIDE DEF id
    <3> HIDE TypeFacts, PcAfter
    <3> QED BY <1>0, <2>0, <2>2, <2>6, <2>7, <2>8, <2>9, <2>10, StageSet
  <2> QED BY <2>2, <2>11, KnowsLittle
<1> QED BY Zenon, <1>2, <1>3, <1>6, <1>7, <1>8

\* REMOVE.
LEMMA BoundRemove ==
  ASSUME TypeInv, OneByOne, Bound, NEW c \in Connections,
         RemoveCall(c) \/ RemoveDelete(c) \/ RemoveDrop(c)
  PROVE  StageInv' /\ Knows(conn[c])'
<1> USE TypeFacts, PcAfter
<1> DEFINE k == conn[c]
<1>a. k.pc \in {"idle", "rmdelete", "rmdrop"}
  BY Zenon DEF RemoveCall, RemoveDelete, RemoveDrop, Request
<1>0. StageInv /\ Knows(k) /\ k \in Locals /\ \A j : ~At("resync", j)
  BY <1>a, OnlyOne DEF Bound
<1>1. CASE RemoveCall(c)
  <2>0. /\ StageInv' /\ staged' = staged /\ dev' = dev
        /\ \A j : ~At("resync", j) /\ ~At("rmdrop", j)
    <3>1. \A j : ~At("rmdrop", j)
      BY Zenon, <1>1, OnlyOne DEF RemoveCall, Request
    <3> QED BY Zenon, <1>0, <1>1, <3>1, StageSame DEF RemoveCall, local, phone
  <2>1. PICK d \in Dirs, n \in Names : \E id \in LookupIds(d, n) :
          LET viaStage == id \in StagedAs(d, n)
              h == IF viaStage THEN CurrentDev(staged[id]) ELSE DeviceHandleOf(id) IN
          /\ viaStage \/ h # 0
          /\ conn' = [conn EXCEPT ![c] = [Idle EXCEPT
               !.id = id, !.h = h, !.op = IF viaStage THEN "unlink" ELSE "none",
               !.pc = IF h = 0 THEN "rmdrop" ELSE "rmdelete"]]
    BY Zenon, <1>1 DEF RemoveCall
  <2>2. PICK id \in LookupIds(d, n) :
          LET viaStage == id \in StagedAs(d, n)
              h == IF viaStage THEN CurrentDev(staged[id]) ELSE DeviceHandleOf(id) IN
          /\ viaStage \/ h # 0
          /\ conn' = [conn EXCEPT ![c] = [Idle EXCEPT
               !.id = id, !.h = h, !.op = IF viaStage THEN "unlink" ELSE "none",
               !.pc = IF h = 0 THEN "rmdrop" ELSE "rmdelete"]]
    BY Zenon, <2>1
  <2>3. CASE id \in StagedAs(d, n)
    <3>1. /\ conn'[c].id = id /\ conn'[c].h = CurrentDev(staged[id]) /\ conn'[c].op = "unlink"
          /\ conn'[c].pc = IF conn'[c].h = 0 THEN "rmdrop" ELSE "rmdelete"
      BY <2>2, <2>3, IdleType DEF ConnTypes, Locals
    <3>2. Staged(conn[c].id)' /\ conn'[c].h = CurrentDev(staged[conn[c].id])'
      BY <2>0, <2>3, <3>1 DEF StagedAs, Staged, CurrentDev
    <3> QED BY <2>0, <3>1, <3>2, KnowsRemove
  <2>4. CASE id \notin StagedAs(d, n)
    <3>1. id \in Handle /\ dev[id] # None /\ dev[id].dir = d /\ dev[id].name = n /\ StagedAs(d, n) = {}
      BY <2>4 DEF LookupIds, Listed
    <3>2. Openable(id)
      BY <3>1, NoStageAs DEF Openable
    <3>3. DeviceHandleOf(id) = id /\ id # 0
      BY <1>0, <3>1, <3>2, OpenableFree, ConstantsAssumption DEF DeviceHandleOf, Staged, Handle
    <3>4. conn'[c].id = id /\ conn'[c].h = id /\ conn'[c].op = "none" /\ conn'[c].pc = "rmdelete"
      BY <2>2, <2>4, <3>3, IdleType DEF ConnTypes, Locals
    <3>5. Openable(conn[c].h)'
      BY <2>0, <3>2, <3>4 DEF Openable, NoStage, Staged
    <3> QED BY <2>0, <3>4, <3>5, KnowsRemove
  <2> QED BY <2>3, <2>4
<1>2. CASE RemoveDelete(c)
  <2>0. k.pc = "rmdelete" /\ k.h \in Handle /\ k.id \in Id /\ UNCHANGED <<lastHandle, local>> /\ Removing(k)
    BY <1>0, <1>2 DEF RemoveDelete, ConnOK, HasHandle, HasId, Knows
  <2>1. \A j : ~At("rmdrop", j)
    BY <2>0, OnlyOne
  <2>2. CASE Return(c) /\ UNCHANGED dev
    <3>1. StageInv'
      BY <1>0, <2>0, <2>1, <2>2, StageSame DEF local, phone
    <3> QED BY <2>2, <3>1, KnowsLittle
  <2>3. CASE dev' = [dev EXCEPT ![k.h] = None] /\ Goto(c, "rmdrop")
    <3>1. /\ conn'[c].pc = "rmdrop" /\ conn'[c].id = k.id /\ conn'[c].h = k.h /\ conn'[c].op = k.op
          /\ staged' = staged /\ dev'[k.h] = None
      BY <2>0, <2>3, GotoKeeps DEF local
    <3>2. CASE k.op = "unlink" /\ Staged(k.id) /\ k.h = CurrentDev(staged[k.id])
      <4>1. Staged(conn[c].id)' /\ dev'[CurrentDev(staged[conn[c].id])'] = None
        BY <3>1, <3>2 DEF Staged, CurrentDev
      <4>2. Knows(conn[c])'
        BY <3>1, <3>2, <4>1, KnowsRemove
      <4>3. \A j \in Id : Staged(j) /\ CurrentDev(staged[j]) = k.h => At("rmdrop", j)'
        BY <1>0, <2>0, <3>1, <3>2, CurrentOwned, OnlyOne
      <4> HIDE DEF k
      <4> QED BY <1>0, <2>0, <2>1, <2>3, <4>2, <4>3, ObjectGone
    <3>3. CASE k.op = "none" /\ k.id = k.h /\ Openable(k.h)
      <4>1. ~Staged(k.h) /\ \A j \in Id : Staged(j) => ~Owns(j, staged[j], k.h)
        BY <1>0, <2>0, <3>3, OpenableFree
      <4>2. ~Staged(conn[c].id)'
        BY <3>1, <3>3, <4>1 DEF Staged
      <4>3. Knows(conn[c])'
        BY <3>1, <3>3, <4>2, KnowsRemove
      <4>4. \A j \in Id : Staged(j) => CurrentDev(staged[j]) # k.h
        BY <4>1 DEF Owns, CurrentDev
      <4> HIDE DEF k
      <4> QED BY <1>0, <2>0, <2>1, <2>3, <4>3, <4>4, ObjectGone
    <3> QED BY <2>0, <3>2, <3>3 DEF Removing
  <2> QED BY <1>2, <2>2, <2>3 DEF RemoveDelete
<1>3. CASE RemoveDrop(c)
  <2> DEFINE id == k.id
  <2>1. /\ id \in Id /\ k.pc = "rmdrop" /\ Return(c) /\ UNCHANGED <<phone, virtSeq>>
        /\ staged' = [staged EXCEPT ![id] = None]
        /\ \A j \in Id : j # id => tmp'[j] = tmp[j]
    BY <1>3 DEF RemoveDrop, ConnOK, HasId
  <2>2. \A j \in Id : At("rmdrop", j) => j = id
    BY OnlyOne
  <2>3. \A j \in Id : staged'[j] # None => j # id
    BY <2>1
  <2>4. StageInv'
    <3> HIDE DEF id
    <3> QED BY <1>0, <2>1, <2>2, <2>3, StageDrop
  <2> QED BY <2>1, <2>4, KnowsLittle
<1> QED BY <1>1, <1>2, <1>3

\* A stage is renamed: the names of its objects agree with the new name, and no
\* other stage has that.
LEMMA StageRenamed ==
  ASSUME TypeInv, StageInv, NEW i \in Id, Staged(i), NEW d \in Dirs, NEW n \in Names, NoStage(d, n),
         staged' = [staged EXCEPT ![i].dir = d, ![i].name = n], UNCHANGED <<phone, tmp, virtSeq>>,
         \A h \in Handle : Owns(i, staged[i], h) => Bears(dev[h], d, n),
         \A j \in Id : ~At("rmdrop", j) /\ (At("resync", j) => j = i)
  PROVE  StageInv'
<1>1. PICK e : e = [staged[i] EXCEPT !.dir = d, !.name = n]
  OBVIOUS
<1>2. /\ e \in Stage /\ e.dir = d /\ e.name = n /\ e.origin = staged[i].origin
      /\ e.flushed = staged[i].flushed /\ e.dirty = staged[i].dirty /\ e.size = staged[i].size
  BY <1>1 DEF Stage, TypeInv, TypeOK, Staged
<1>3. staged' = [staged EXCEPT ![i] = e] /\ tmp' = tmp /\ virtSeq' = virtSeq
  BY <1>1
<1>4. \A h : Owns(i, e, h) <=> Owns(i, staged[i], h)
  BY <1>2 DEF Owns
<1>5. CurrentDev(e) = CurrentDev(staged[i])
  BY <1>2 DEF CurrentDev
<1>6. /\ Sound(i, staged[i], lastHandle, tmp[i], virtSeq) /\ Copied(staged[i], dev, tmp[i])
      /\ \A j \in Id : j # i /\ Staged(j) => Apart(i, staged[i], j, staged[j])
  BY DEF StageInv
<1>7. Sound(i, e, lastHandle, tmp'[i], virtSeq')
  BY <1>2, <1>3, <1>4, <1>5, <1>6 DEF Sound
<1>8. Placed(i, e, dev)
  BY <1>2, <1>4 DEF Placed
<1>9. Copied(e, dev, tmp'[i])
  BY <1>2, <1>3, <1>5, <1>6 DEF Copied
<1>10. \A j \in Id : j # i /\ Staged(j) => Apart(i, e, j, staged[j])
  BY <1>2, <1>4, <1>6 DEF Apart, NoStage
<1>11. e # None /\ virtSeq' \in Int /\ virtSeq' >= virtSeq
  BY <1>2, <1>3, NoneAssumption, ConstantsAssumption DEF TypeInv, TypeOK
<1> QED BY <1>3, <1>7, <1>8, <1>9, <1>10, <1>11, StageSet

\* RENAME, but for the call to the phone.
LEMMA BoundRename ==
  ASSUME TypeInv, OneByOne, Bound, NEW c \in Connections,
         RenameCall(c) \/ RenameLookup(c) \/ RenameResync(c)
  PROVE  StageInv' /\ Knows(conn[c])'
<1> USE TypeFacts, PcAfter
<1> DEFINE k == conn[c]
<1>a. k.pc \in {"idle", "rnlookup", "resync"}
  BY Zenon DEF RenameCall, RenameLookup, RenameResync, Request
<1>0. StageInv /\ Knows(k) /\ k \in Locals /\ \A j : ~At("rmdrop", j)
  BY <1>a, OnlyOne DEF Bound
<1>1. CASE RenameCall(c)
  <2>0. "rename" \in Calls /\ k.pc = "idle" /\ \A j : ~At("resync", j)
    BY Zenon, <1>1, OnlyOne DEF RenameCall, Request
  <2>1. PICK d \in Dirs, n \in Names, td \in Dirs, tn \in Names :
     /\ "replace" \in Calls \/ StagedAs(td, tn) = {}
     /\ \/ \E id \in StagedAs(d, n) :
            /\ CurrentDev(staged[id]) = 0
            /\ staged' = [staged EXCEPT ![id].dir = td, ![id].name = tn]
            /\ UNCHANGED conn
        \/ /\ conn' = [conn EXCEPT ![c] = [Idle EXCEPT !.pc = "rnlookup", !.dir = d, !.name = n,
                                                      !.toDir = td, !.toName = tn]]
           /\ UNCHANGED staged
    BY Zenon, <1>1 DEF RenameCall
  <2>2. NoStage(td, tn)
    BY <2>1, NoStageAs DEF OneByOne
  <2>3. ASSUME NEW id \in StagedAs(d, n), CurrentDev(staged[id]) = 0,
               staged' = [staged EXCEPT ![id].dir = td, ![id].name = tn], UNCHANGED conn
        PROVE  StageInv' /\ Knows(conn[c])'
    <3>1. id \in Id /\ Staged(id)
      BY DEF StagedAs, Staged
    <3>2. id \notin Handle
      BY <1>0, <2>3, <3>1 DEF StageInv, Sound
    <3>3. \A h \in Handle : ~Owns(id, staged[id], h)
      BY <2>3, <3>2, ConstantsAssumption DEF Owns, CurrentDev, Handle
    <3>4. StageInv'
      BY Zenon, <1>0, <1>1, <2>0, <2>2, <2>3, <3>1, <3>3, StageRenamed DEF RenameCall
    <3> QED BY <2>0, <2>3, <3>4, KnowsLittle
  <2>4. CASE /\ conn' = [conn EXCEPT ![c] = [Idle EXCEPT !.pc = "rnlookup", !.dir = d, !.name = n,
                                                         !.toDir = td, !.toName = tn]]
             /\ UNCHANGED staged
    <3>1. StageInv'
      BY Zenon, <1>0, <1>1, <2>0, <2>4, StageSame DEF RenameCall
    <3>2. conn'[c].pc = "rnlookup" /\ conn'[c].toDir = td /\ conn'[c].toName = tn
      BY <2>4, IdleType DEF ConnTypes, Locals
    <3>3. NoStage(conn[c].toDir, conn[c].toName)'
      BY <2>2, <2>4, <3>2 DEF NoStage, Staged
    <3> QED BY <2>0, <3>1, <3>2, <3>3, KnowsRename
  <2> QED BY <2>1, <2>3, <2>4
<1>2. CASE RenameLookup(c)
  <2>0. /\ k.pc = "rnlookup" /\ staged' = staged /\ StageInv'
        /\ "rename" \in Calls /\ NoStage(k.toDir, k.toName) /\ \A j : ~At("resync", j)
    <3>1. k.pc = "rnlookup" /\ \A j : ~At("resync", j)
      BY <1>2, OnlyOne DEF RenameLookup
    <3>2. StageInv'
      BY <1>0, <1>2, <3>1, StageSame DEF RenameLookup, local
    <3> QED BY <1>0, <1>2, <3>1, <3>2 DEF RenameLookup, local, Knows, Renaming
  <2>1. CASE Return(c)
    BY <2>0, <2>1, KnowsLittle
  <2>2. ASSUME NEW id \in LookupIds(k.dir, k.name), StorageOf[k.dir] = StorageOf[k.toDir],
               conn' = [conn EXCEPT ![c].pc = "hrename", ![c].id = id]
        PROVE  StageInv' /\ Knows(conn[c])'
    <3>1. k.dir = k.toDir
      BY <1>0, <2>0, <2>2 DEF OneByOne, Locals
    <3>2. /\ conn'[c].pc = "hrename" /\ conn'[c].id = id /\ conn'[c].dir = k.dir
          /\ conn'[c].name = k.name /\ conn'[c].toDir = k.toDir /\ conn'[c].toName = k.toName
      BY <1>0, <2>2 DEF ConnTypes, Locals
    <3>3. NoStage(conn[c].toDir, conn[c].toName)'
      BY <2>0, <3>2 DEF NoStage, Staged
    <3>4. CASE StagedAs(k.dir, k.name) # {}
      <4>1. staged[id] # None /\ staged[id].dir = k.dir /\ staged[id].name = k.name
        BY <2>2, <3>4 DEF LookupIds, StagedAs
      <4>2. /\ Staged(conn[c].id)' /\ staged'[conn'[c].id].dir = conn'[c].dir
            /\ staged'[conn'[c].id].name = conn'[c].name
        BY <2>0, <3>2, <4>1 DEF Staged
      <4> QED BY <2>0, <3>1, <3>2, <3>3, <4>2, KnowsRename
    <3>5. CASE StagedAs(k.dir, k.name) = {}
      <4>1. id \in Handle /\ dev[id] # None /\ dev[id].dir = k.dir /\ dev[id].name = k.name
        BY <2>2, <3>5 DEF LookupIds, Listed
      <4>2. NoStage(k.dir, k.name)
        BY <3>5, NoStageAs
      <4>3. ~Staged(id)
        BY <1>0, <2>0, <4>1, <4>2, OpenableFree DEF Openable
      <4>4. ~Staged(conn[c].id)' /\ NoStage(conn[c].dir, conn[c].name)'
        BY <2>0, <3>2, <4>2, <4>3 DEF Staged, NoStage
      <4> QED BY <2>0, <3>1, <3>2, <3>3, <4>4, KnowsRename
    <3> QED BY <3>4, <3>5
  <2> QED BY <1>2, <2>1, <2>2 DEF RenameLookup
<1>3. CASE RenameResync(c)
  <2> DEFINE id == k.id
  <2>1. /\ k.pc = "resync" /\ id \in Id /\ Return(c) /\ UNCHANGED <<phone, tmp, virtSeq>>
        /\ k.toDir \in Dirs /\ k.toName \in Names /\ Renaming(k)
    BY <1>0, <1>3 DEF RenameResync, ConnOK, HasId, Locals, Knows
  <2>2. \A j : At("resync", j) => j = id
    BY OnlyOne
  <2>3. CASE ~Staged(id)
    <3>1. UNCHANGED staged
      BY <1>3, <2>3 DEF RenameResync, Staged
    <3>2. StageInv'
      BY <1>0, <2>1, <2>2, <2>3, <3>1, StageSame
    <3> QED BY <2>1, <3>2, KnowsLittle
  <2>4. CASE Staged(id)
    <3>1. staged' = [staged EXCEPT ![id].dir = k.toDir, ![id].name = k.toName]
      BY <1>3, <2>4 DEF RenameResync, Staged
    <3>2. NoStage(k.toDir, k.toName) /\ \A h \in Handle : Owns(id, staged[id], h) => Bears(dev[h], k.toDir, k.toName)
      BY <2>1, <2>4 DEF Renaming
    <3>3. StageInv'
      <4> HIDE DEF k, id
      <4> HIDE TypeFacts, PcAfter
      <4> QED BY <1>0, <2>1, <2>2, <2>4, <3>1, <3>2, StageRenamed
    <3> QED BY <2>1, <3>3, KnowsLittle
  <2> QED BY <2>3, <2>4
<1> QED BY <1>1, <1>2, <1>3

\* The call to the phone that renames: the one object of the name, which no
\* stage but that of the request answers for.
LEMMA BoundHRename ==
  ASSUME TypeInv, OneByOne, Bound, NEW c \in Connections, HRename(c)
  PROVE  StageInv' /\ Knows(conn[c])'
<1> USE TypeFacts, PcAfter
<1> DEFINE k == conn[c]
<1>0. k.pc = "hrename" /\ UNCHANGED <<lastHandle, local>>
  BY DEF HRename
<1>1. /\ StageInv /\ Renaming(k) /\ k \in Locals
      /\ \A j : ~At("resync", j) /\ ~At("rmdrop", j)
  BY <1>0, OnlyOne DEF Bound, Knows
<1>2. /\ "rename" \in Calls /\ k.dir = k.toDir /\ NoStage(k.toDir, k.toName) /\ k.id \in Id
      /\ Staged(k.id) => staged[k.id].dir = k.dir /\ staged[k.id].name = k.name
      /\ ~Staged(k.id) => NoStage(k.dir, k.name)
  BY <1>0, <1>1 DEF Renaming, ConnOK, HasId
<1>3. "info" \notin Faults /\ ~AcceptsDuplicates /\ UniqueNames
  BY <1>1, <1>2 DEF OneByOne, StageInv
<1>4. CASE Return(c) /\ UNCHANGED dev
  <2>1. StageInv'
    BY <1>0, <1>1, <1>4, StageSame DEF local, phone
  <2> QED BY <1>4, <2>1, KnowsLittle
<1>5. ASSUME NEW h \in Listed(k.dir, k.name),
             k.toName # k.name => Listed(k.toDir, k.toName) = {},
             dev' = [dev EXCEPT ![h].dir = k.toDir, ![h].name = k.toName],
             Goto(c, "resync")
      PROVE  StageInv' /\ Knows(conn[c])'
  <2>1. /\ h \in Handle /\ dev[h] \in Object /\ dev[h].dir = k.dir /\ dev[h].name = k.name
        /\ dev[h] # None
    BY DEF Listed
  <2>2. PICK e : e = [dev[h] EXCEPT !.dir = k.toDir, !.name = k.toName]
    OBVIOUS
  <2>3. e \in Object /\ e.dir = k.toDir /\ e.name = k.toName /\ e.data = dev[h].data /\ e # None
    BY ZenonT(40), <1>1, <2>1, <2>2, NoneAssumption DEF Object, Locals
  <2>4. /\ dev'[h] = e /\ \A g \in Handle : g # h => dev'[g] = dev[g]
        /\ staged' = staged /\ tmp' = tmp /\ virtSeq' = virtSeq /\ lastHandle' = lastHandle
    BY <1>0, <1>5, <2>1, <2>2 DEF local
  <2>5. /\ conn'[c].pc = "resync" /\ conn'[c].id = k.id /\ conn'[c].toDir = k.toDir
        /\ conn'[c].toName = k.toName
    BY <1>5, GotoKeeps
  <2>6. \A j : j = k.id => At("resync", j)'
    BY <2>5, OnlyOne
  <2> HIDE TypeFacts, PcAfter
  <2>7. ASSUME NEW j \in Id, Staged(j), j # k.id
        PROVE  ~Owns(j, staged[j], h)
    <3>1. Placed(j, staged[j], dev)
      BY <1>1, <2>7 DEF StageInv
    <3>2. Owns(j, staged[j], h) => staged[j].dir = k.dir /\ staged[j].name = k.name
      BY <2>1, <3>1 DEF Placed, Bears
    <3>3. Staged(k.id) => Apart(j, staged[j], k.id, staged[k.id])
      BY <1>1, <1>2, <2>7 DEF StageInv
    <3> QED BY <1>2, <2>7, <3>2, <3>3 DEF Apart, NoStage
  <2>8. UniqueNames'
    <3>1. ASSUME NEW g \in Handle, g # h, dev[g] # None
          PROVE  ~(dev[g].dir = k.toDir /\ dev[g].name = k.toName)
      <4>1. CASE k.toName # k.name
        BY <1>5, <3>1, <4>1 DEF Listed
      <4>2. CASE k.toName = k.name
        BY <1>2, <1>3, <2>1, <3>1, <4>2 DEF UniqueNames
      <4> QED BY <4>1, <4>2
    <3> HIDE DEF k
    <3> QED BY <1>3, <2>3, <2>4, <3>1 DEF UniqueNames
  <2>9. ASSUME NEW j \in Id, Staged(j)
        PROVE  /\ Sound(j, staged[j], lastHandle, tmp[j], virtSeq)
               /\ j # k.id => Placed(j, staged[j], dev')
               /\ Copied(staged[j], dev', tmp[j])
    <3>1. /\ Sound(j, staged[j], lastHandle, tmp[j], virtSeq)
          /\ Placed(j, staged[j], dev) /\ Copied(staged[j], dev, tmp[j])
      BY <1>1, <2>9 DEF StageInv
    <3>2. Copied(staged[j], dev', tmp[j])
      BY <2>3, <2>4, <3>1 DEF Copied
    <3>3. j # k.id => Placed(j, staged[j], dev')
      BY <2>4, <2>7, <2>9, <3>1 DEF Placed
    <3> QED BY <3>1, <3>2, <3>3
  <2>10. \A g \in Handle : g > lastHandle => dev'[g] = None
    <3>1. \A g \in Handle : g > lastHandle => dev[g] = None
      BY <1>1 DEF StageInv
    <3> QED BY <2>1, <2>4, <3>1
  <2>11. \A i, j \in Id : i # j /\ Staged(i) /\ Staged(j) => Apart(i, staged[i], j, staged[j])
    BY <1>1 DEF StageInv
  <2>12. StageInv'
    <3> HIDE DEF k
    <3> QED BY <2>4, <2>6, <2>8, <2>9, <2>10, <2>11 DEF StageInv, Staged
  <2>13. ASSUME Staged(k.id), NEW g \in Handle, Owns(k.id, staged[k.id], g)
         PROVE  Bears(dev'[g], k.toDir, k.toName)
    <3>1. Placed(k.id, staged[k.id], dev)
      BY <1>1, <1>2, <2>13 DEF StageInv
    <3>2. dev[g] # None => g = h
      BY <1>2, <1>3, <2>1, <2>13, <3>1 DEF Placed, Bears, UniqueNames
    <3> QED BY <2>3, <2>4, <3>2 DEF Bears
  <2>14. NoStage(conn[c].toDir, conn[c].toName)'
    BY <1>2, <2>4, <2>5 DEF NoStage, Staged
  <2>15. Staged(conn[c].id)' => \A g \in Handle : Owns(conn[c].id, staged[conn[c].id], g)'
                                       => Bears(dev[g], conn[c].toDir, conn[c].toName)'
    BY <2>4, <2>5, <2>13 DEF Staged, Owns
  <2> QED BY <1>2, <2>5, <2>12, <2>14, <2>15, KnowsRename
<1> QED
  <2>1. CASE \E h \in Listed(k.dir, k.name) :
               /\ k.toName # k.name => Listed(k.toDir, k.toName) = {}
               /\ dev' = [dev EXCEPT ![h].dir = k.toDir, ![h].name = k.toName]
               /\ Goto(c, "resync")
    BY <1>5, <2>1
  <2> QED BY <1>2, <1>3, <1>4, <2>1 DEF HRename, NameFree

\* MKDIR.
LEMMA BoundMkdir ==
  ASSUME TypeInv, OneByOne, Bound, NEW c \in Connections, MkdirCall(c)
  PROVE  StageInv' /\ Knows(conn[c])'
<1>1. /\ conn[c].pc = "idle" /\ conn' = conn /\ UNCHANGED local /\ lastHandle + 1 \in Handle
      /\ lastHandle' = lastHandle + 1
  BY DEF MkdirCall, Request
<1>2. PICK d \in Dirs, n \in Names :
        /\ NameFree(d, n)
        /\ dev' = [dev EXCEPT ![lastHandle + 1] = [dir |-> d, name |-> n, isdir |-> TRUE, data |-> <<>>]]
  BY DEF MkdirCall
<1>3. PICK o : o = [dir |-> d, name |-> n, isdir |-> TRUE, data |-> <<>>]
  OBVIOUS
<1>4. o \in Object /\ o.dir = d /\ o.name = n
  BY <1>3, EmptyType DEF Object
<1>5. o # None /\ ("rename" \in Calls => Listed(o.dir, o.name) = {})
  BY <1>2, <1>4, NoneAssumption DEF NameFree, OneByOne
<1>6. \A j : ~At("resync", j) /\ ~At("rmdrop", j)
  BY <1>1, OnlyOne
<1>7. dev' = [dev EXCEPT ![lastHandle + 1] = o]
  BY <1>2, <1>3
<1>8. StageInv'
  BY <1>1, <1>5, <1>6, <1>7, ObjectNew DEF Bound
<1> QED BY <1>1, <1>8, KnowsLittle

\* The session comes and goes, the daemon starts again.
LEMMA BoundSession ==
  ASSUME TypeInv, OneByOne, Bound, Detach \/ Attach \/ Restart \/ UNCHANGED vars
  PROVE  Bound'
<1>1. CASE Detach \/ Attach \/ UNCHANGED vars
  <2>1. UNCHANGED <<phone, local, conn>>
    BY <1>1 DEF Detach, Attach, OneByOne, vars, phone, local
  <2>2. UNCHANGED <<dev, lastHandle, staged, tmp, virtSeq, conn>>
    BY <2>1 DEF phone, local
  <2>3. StageInv'
    BY <2>2 DEF Bound, StageInv, Staged, At, UniqueNames
  <2>4. \A c \in Connections : Knows(conn[c])'
    BY <2>2 DEF Bound, Knows, Opening, Flushing, Removing, Renaming, Found, Same, Openable,
       NoStage, Staged, CurrentDev
  <2> QED BY <2>3, <2>4 DEF Bound
<1>2. CASE Restart
  <2>1. /\ \A id \in Id : staged'[id] = None
        /\ conn' = [c \in Connections |-> Idle] /\ dev' = dev /\ lastHandle' = lastHandle
    BY <1>2 DEF Restart, phone
  <2>2. StageInv'
    BY <2>1 DEF Bound, StageInv, Staged, UniqueNames
  <2>3. \A c \in Connections : Knows(conn[c])'
    BY <2>1, IdleType, KnowsLittle
  <2> QED BY <2>2, <2>3 DEF Bound
<1> QED BY <1>1, <1>2

LEMMA BoundInit == OneByOne /\ Init => Bound
<1> SUFFICES ASSUME OneByOne, Init PROVE Bound
  OBVIOUS
<1>1. StageInv
  BY ConstantsAssumption DEF Init, OneByOne, StageInv, Staged, UniqueNames
<1>2. \A c \in Connections : conn[c].pc = "idle"
  BY IdleType DEF Init
<1>3. \A c \in Connections : Knows(conn[c])
  BY <1>2 DEF Knows, Opening, Flushing, Removing, Renaming
<1> QED BY <1>1, <1>3 DEF Bound

LEMMA BoundStep == OneByOne /\ TypeInv /\ Bound /\ [Next]_vars => Bound'
<1> SUFFICES ASSUME OneByOne, TypeInv, Bound, [Next]_vars PROVE Bound'
  OBVIOUS
<1>1. ASSUME NEW c \in Connections, Serve(c)
      PROVE  Bound'
  <2>1. StageInv' /\ Knows(conn[c])'
    BY <1>1, BoundOpening, BoundPulling, BoundApply, BoundCreate, BoundCommit, BoundRemove,
       BoundRename, BoundHRename, BoundMkdir DEF Serve
  <2>2. \A d \in Connections : d = c
    BY DEF OneByOne
  <2> QED BY <2>1, <2>2 DEF Bound
<1> QED BY <1>1, BoundSession DEF Next, Quiet

\* Under OneByOne (one connection, stable numbering, no ids from READDIR, no
\* renames onto staged names, and where there are renames none that moves and
\* no failing object info) a stage that is not dirty is a copy of the file on
\* the phone, the one commit after the other, so the COMMIT that skips it loses
\* nothing (flush_stage returns at once on a clean stage).
THEOREM CleanHolds ==
  ASSUME OneByOne
  PROVE  Spec => []CleanMeansDurable
<1>1. TypeInv /\ Bound => CleanMeansDurable
  <2> SUFFICES ASSUME TypeInv, Bound, NEW id \in Id, staged[id] # None, ~staged[id].dirty,
                      ~At("rmdrop", id)
               PROVE  LET h == CurrentDev(staged[id]) IN
                      /\ h \in Handle /\ dev[h] # None /\ tmp[id] # None
                      /\ dev[h].data = tmp[id] /\ Len(tmp[id]) = staged[id].size
    BY DEF CleanMeansDurable, At
  <2>1. Sound(id, staged[id], lastHandle, tmp[id], virtSeq) /\ Copied(staged[id], dev, tmp[id])
    BY DEF Bound, StageInv, Staged
  <2> QED BY <2>1 DEF Sound, Copied
<1>2. TypeInv /\ Bound /\ [Next]_vars => Bound'
  BY BoundStep
<1>3. Init => Bound
  BY BoundInit
<1> QED BY <1>1, <1>2, <1>3, TypeInit, TypeStep, PTL DEF Spec

\* Under OneByOne a stage answers to the name its object has on the phone,
\* except while a rename is between the two (rename, flush_stage): a flush never
\* puts a file back under a name it no longer has.  With renames onto staged
\* names it may ("replace").
THEOREM NamesAgreeHold ==
  ASSUME OneByOne
  PROVE  Spec => []StageNamesAgree
<1>1. TypeInv /\ Bound => StageNamesAgree
  <2> SUFFICES ASSUME TypeInv, Bound, NEW id \in Id, staged[id] # None, ~At("resync", id),
                      CurrentDev(staged[id]) # 0, dev[CurrentDev(staged[id])] # None
               PROVE  LET h == CurrentDev(staged[id]) IN
                      dev[h].dir = staged[id].dir /\ dev[h].name = staged[id].name
    BY DEF StageNamesAgree, At
  <2>1. Placed(id, staged[id], dev)
    BY DEF Bound, StageInv, Staged
  <2>2. staged[id] \in Stage
    BY DEF TypeInv, TypeOK
  <2>3. CurrentDev(staged[id]) \in Handle /\ Owns(id, staged[id], CurrentDev(staged[id]))
    BY <2>2, ConstantsAssumption DEF CurrentDev, Owns, Stage, Handle
  <2> QED BY <2>1, <2>3 DEF Placed, Bears
<1>2. TypeInv /\ Bound /\ [Next]_vars => Bound'
  BY BoundStep
<1>3. Init => Bound
  BY BoundInit
<1> QED BY <1>1, <1>2, <1>3, TypeInit, TypeStep, PTL DEF Spec

\* Under OneByOne what a flush takes off the phone has the name of the file
\* being flushed: it never deletes another file (the comment in flush_stage).
THEOREM FlushDeletesOwnHolds ==
  ASSUME OneByOne
  PROVE  Spec => FlushDeletesOwn
<1>1. TypeInv /\ Bound /\ [Next]_vars
        => [\A c \in Connections, h \in Handle :
              (conn[c].pc = "delete" /\ conn'[c].pc = "upload" /\ dev[h] # None /\ dev'[h] = None)
              => dev[h].dir = conn[c].dir /\ dev[h].name = conn[c].name]_vars
  <2> SUFFICES ASSUME TypeInv, Bound, [Next]_vars, NEW c \in Connections, NEW h \in Handle,
                      conn[c].pc = "delete", conn'[c].pc = "upload", dev[h] # None, dev'[h] = None
               PROVE  dev[h].dir = conn[c].dir /\ dev[h].name = conn[c].name
    OBVIOUS
  <2>1. FlushDelete(c)
    <3>1. ~(Detach \/ Attach \/ Restart \/ UNCHANGED vars)
      BY IdleType DEF Detach, Attach, Restart, vars, local
    <3>2. Serve(c)
      BY <3>1 DEF Next, Quiet, OneByOne
    <3> QED
      BY <3>2 DEF Serve, Request, WriteCall, SetattrCall, StageForWrites, ObjectInfo, PullOpen,
         PullRead, PullInsert, ApplyWrite, ApplySetattr, CreateCall, CreateExclusiveCall, Probe,
         StageNew, LookupOrNew, CommitCall, FlushSnapshot, FlushUpload, FlushDone, RemoveCall,
         RemoveDelete, RemoveDrop, RenameCall, RenameLookup, HRename, RenameResync, MkdirCall
  <2> DEFINE id == conn[c].id
  <2>2. conn[c].id \in Id /\ Same(conn[c]) /\ conn[c].h = CurrentDev(staged[id])
    BY TypeFacts DEF ConnOK, HasId, Bound, Knows, Flushing
  <2>3. h = conn[c].h
    BY <2>1, TypeFacts DEF FlushDelete
  <2>4. Owns(id, staged[id], h) /\ Staged(id)
    BY <2>2, <2>3 DEF Owns, CurrentDev, Same
  <2>5. Placed(id, staged[id], dev)
    <3>1. ~At("resync", id)
      BY OnlyOne
    <3> QED BY <2>2, <2>4, <3>1 DEF Bound, StageInv
  <2> QED BY <2>2, <2>4, <2>5 DEF Placed, Bears, Same
<1>2. TypeInv /\ Bound /\ [Next]_vars => Bound'
  BY BoundStep
<1>3. Init => Bound
  BY BoundInit
<1> QED BY <1>1, <1>2, <1>3, TypeInit, TypeStep, PTL DEF Spec, FlushDeletesOwn

-----------------------------------------------------------------------------
(* The phone never holds two objects of one name. *)

\* There is one of each name at the start.
UniquePhone ==
  \A h1, h2 \in Handle :
    (/\ Phone0[h1] # None /\ Phone0[h2] # None
     /\ Phone0[h1].dir = Phone0[h2].dir /\ Phone0[h1].name = Phone0[h2].name) => h1 = h2

\* On a phone that takes a second object of a name it is the adapter that sees
\* to it: the client neither renames nor makes directories, and the calls by
\* which the adapter finds and deletes the old object do not fail.
Minded ==
  /\ OneByOne /\ "rename" \notin Calls /\ "mkdir" \notin Calls
  /\ {"list", "info", "delete", "partial", "detach"} \cap Faults = {}

\* The objects of a stage's name are the one it stands for, or, between the
\* upload and the second lock, the one just uploaded; before the upload there
\* is none.
Single ==
  /\ sess /\ UniqueNames
  /\ \A id \in Id : Staged(id) =>
       \A h \in Listed(staged[id].dir, staged[id].name) :
          h = CurrentDev(staged[id]) \/ \E c \in Connections : conn[c].pc = "flushed" /\ conn[c].id = id
  /\ \A c \in Connections :
       /\ conn[c].pc = "upload" => Listed(conn[c].dir, conn[c].name) = {}
       /\ conn[c].pc = "flushed" => Listed(conn[c].dir, conn[c].name) \subseteq {conn[c].h}

\* A step that puts no object on the phone and starts no stage, but may change
\* or drop those that are there.
LEMMA SingleKept ==
  ASSUME Single, sess', NEW c \in Connections, \A d \in Connections : d = c,
         \A h \in Handle : dev'[h] = None \/ dev'[h] = dev[h],
         \A id \in Id : staged'[id] # None =>
            /\ staged[id] # None
            /\ staged'[id].dir = staged[id].dir /\ staged'[id].name = staged[id].name
            /\ CurrentDev(staged'[id]) = CurrentDev(staged[id]),
         conn[c].pc # "flushed", conn'[c].pc \notin {"upload", "flushed"}
  PROVE  Single'
<1>1. UniqueNames'
  BY DEF Single, UniqueNames
<1>2. ASSUME NEW id \in Id, staged'[id] # None,
             NEW h \in Handle, dev'[h] # None,
             dev'[h].dir = staged'[id].dir, dev'[h].name = staged'[id].name
      PROVE  h = CurrentDev(staged'[id])
  <2>1. Staged(id) /\ h \in Listed(staged[id].dir, staged[id].name)
    BY <1>2 DEF Staged, Listed
  <2> QED BY <1>2, <2>1 DEF Single
<1> QED BY <1>1, <1>2 DEF Single, Staged, Listed

\* A step that starts a stage, of the one object of its name or of none.
LEMMA SingleStaged ==
  ASSUME TypeInv, Single, sess', NEW c \in Connections, \A d \in Connections : d = c,
         dev' = dev, NEW i \in Id, NEW s, staged' = [staged EXCEPT ![i] = s],
         Listed(s.dir, s.name) \subseteq {CurrentDev(s)},
         conn[c].pc # "flushed", conn'[c].pc \notin {"upload", "flushed"}
  PROVE  Single'
<1>1. UniqueNames'
  BY DEF Single, UniqueNames
<1>2. staged'[i] = s /\ \A id \in Id : id # i => staged'[id] = staged[id]
  BY DEF TypeInv, TypeOK
<1>3. ASSUME NEW id \in Id, staged'[id] # None,
             NEW h \in Handle, dev'[h] # None,
             dev'[h].dir = staged'[id].dir, dev'[h].name = staged'[id].name
      PROVE  h = CurrentDev(staged'[id])
  <2>1. CASE id = i
    BY <1>2, <1>3, <2>1 DEF Listed
  <2>2. CASE id # i
    BY <1>2, <1>3, <2>2 DEF Single, Staged, Listed
  <2> QED BY <2>1, <2>2
<1> QED BY <1>1, <1>3 DEF Single, Staged, Listed

\* The staging requests.
LEMMA SingleStaging ==
  ASSUME TypeInv, Minded, Bound, Single, NEW c \in Connections,
         \/ WriteCall(c) \/ SetattrCall(c) \/ StageForWrites(c) \/ ObjectInfo(c) \/ PullOpen(c)
         \/ PullRead(c) \/ PullInsert(c) \/ ApplyWrite(c) \/ ApplySetattr(c) \/ CreateCall(c)
         \/ CreateExclusiveCall(c) \/ Probe(c) \/ StageNew(c) \/ LookupOrNew(c)
  PROVE  Single'
<1> USE TypeFacts, PcAfter
<1> DEFINE k == conn[c]
           id == k.id
<1>1. \A d \in Connections : d = c
  BY Zenon DEF Minded, OneByOne
<1>2. sess' /\ sess /\ dev' = dev
  BY Zenon DEF Single, WriteCall, SetattrCall, StageForWrites, ObjectInfo, PullOpen, PullRead,
     PullInsert, ApplyWrite, ApplySetattr, CreateCall, CreateExclusiveCall, Probe, StageNew,
     LookupOrNew, phone
<1>3. k.pc # "flushed" /\ conn'[c].pc \notin {"upload", "flushed"}
  <2>1. k.pc \notin {"flushed", "delete", "upload", "rmdelete"} /\ Serve(c)
    BY ZenonT(40) DEF WriteCall, SetattrCall, StageForWrites, ObjectInfo, PullOpen, PullRead, PullInsert,
       ApplyWrite, ApplySetattr, CreateCall, CreateExclusiveCall, Probe, StageNew, LookupOrNew,
       Request, Serve
  <2>2. ASSUME conn'[c].pc \in {"upload", "flushed"} PROVE FALSE
    <3>1. \/ PullOpen(c) \/ PullRead(c) \/ FlushDelete(c) \/ FlushUpload(c)
          \/ RemoveCall(c) \/ RemoveDelete(c)
      BY <2>1, <2>2, LateFrom DEF Late
    <3>2. RemoveCall(c)
      BY <2>1, <2>2, <3>1 DEF PullOpen, PullRead, FlushDelete, FlushUpload, RemoveDelete
    <3> QED BY <2>2, <3>2, RemoveLeads
  <2> QED BY Zenon, <2>1, <2>2
<1>4. CASE staged' = staged
  BY <1>1, <1>2, <1>3, <1>4, SingleKept
<1>5. CASE ApplyWrite(c) \/ ApplySetattr(c)
  <2>1. PICK n : staged' = staged \/ staged' = [staged EXCEPT ![id].size = n, ![id].dirty = TRUE]
    <3>1. CASE ApplySetattr(c)
      BY Zenon, <3>1 DEF ApplySetattr
    <3>2. CASE ApplyWrite(c) /\ ~UNCHANGED staged
      <4>1. PICK off : staged' = [staged EXCEPT ![id].size = IF off + 1 > @ THEN off + 1 ELSE @,
                                              ![id].dirty = TRUE]
        BY Zenon, <3>2 DEF ApplyWrite
      <4> QED BY Zenon, <4>1
    <3> QED BY Zenon, <1>5, <3>1, <3>2
  <2>2. staged' = staged \/ Staged(id)
    BY Zenon, <1>5 DEF ApplyWrite, ApplySetattr, Staged
  <2>3. CASE staged' = [staged EXCEPT ![id].size = n, ![id].dirty = TRUE] /\ Staged(id)
    <3>1. id \in Id
      BY Zenon, <1>5 DEF ConnOK, HasId, ApplyWrite, ApplySetattr
    <3>2. PICK e : e = [staged[id] EXCEPT !.size = n, !.dirty = TRUE]
      OBVIOUS
    <3>3. /\ e.dir = staged[id].dir /\ e.name = staged[id].name
          /\ e.origin = staged[id].origin /\ e.flushed = staged[id].flushed
      BY <2>3, <3>1, <3>2 DEF Stage, Staged
    <3>4. staged' = [staged EXCEPT ![id] = e]
      BY <2>3, <3>2
    <3>5. \A i \in Id : staged'[i] # None =>
            /\ staged[i] # None
            /\ staged'[i].dir = staged[i].dir /\ staged'[i].name = staged[i].name
            /\ CurrentDev(staged'[i]) = CurrentDev(staged[i])
      BY <2>3, <3>1, <3>3, <3>4 DEF CurrentDev, Staged
    <3> QED BY Zenon, <1>1, <1>2, <1>3, <3>5, SingleKept
  <2> QED BY <1>4, <2>1, <2>2, <2>3
<1>6. CASE PullInsert(c)
  <2>1. Found(k) /\ id \in Id /\ k.h \in Handle
    BY <1>6 DEF PullInsert, Bound, Knows, Opening, ConnOK, HasId, HasHandle
  <2>2. PICK s : s = [dir |-> k.dir, name |-> k.name, size |-> k.size,
                      origin |-> k.h, flushed |-> 0, dirty |-> FALSE]
    OBVIOUS
  <2>3. staged' = staged \/ staged' = [staged EXCEPT ![id] = s]
    BY <1>6, <2>2 DEF PullInsert
  <2>4. s.dir = k.dir /\ s.name = k.name /\ CurrentDev(s) = k.h
    BY <2>2 DEF CurrentDev
  <2>5. Listed(s.dir, s.name) \subseteq {CurrentDev(s)}
    BY <2>1, <2>4 DEF Listed, Found, Openable, Single, UniqueNames
  <2> QED BY <1>1, <1>2, <1>3, <1>4, <2>1, <2>3, <2>5, SingleStaged
<1>7. CASE LookupOrNew(c)
  <2>1. NoStage(k.dir, k.name) /\ StagedAs(k.dir, k.name) = {}
    BY Zenon, <1>7, NoStageAs DEF LookupOrNew, Bound, Knows, Opening
  <2>2. PICK s, i : /\ i = -(virtSeq + 1)
                    /\ s = [dir |-> k.dir, name |-> k.name, size |-> 0, origin |-> 0,
                            flushed |-> 0, dirty |-> TRUE]
    OBVIOUS
  <2>3. CASE staged' = [staged EXCEPT ![i] = s] /\ Listed(k.dir, k.name) = {} /\ virtSeq < MaxVirt
    <3>1. i \in Id
      <4>1. virtSeq + 1 \in 1..MaxVirt
        BY <2>3
      <4> QED BY <2>2, <4>1 DEF Id
    <3>2. s.dir = k.dir /\ s.name = k.name
      BY <2>2
    <3> QED BY <1>1, <1>2, <1>3, <2>3, <3>1, <3>2, SingleStaged
  <2>4. ASSUME NEW j \in LookupIds(k.dir, k.name) PROVE DeviceHandleOf(j) # 0
    <3>1. j \in Handle /\ Openable(j)
      BY <2>1, <2>4 DEF LookupIds, Listed, Openable
    <3>2. \A m \in Id : ~At("resync", m)
      BY Zenon, <1>7, OnlyOne DEF LookupOrNew, Minded
    <3>3. ~Staged(j)
      BY <3>1, <3>2, OpenableFree DEF Bound
    <3> QED BY <3>1, <3>3 DEF DeviceHandleOf, Staged, Handle
  <2>5. LookupMayFail(k.dir, k.name) => Listed(k.dir, k.name) = {}
    BY <1>2 DEF LookupMayFail, Minded
  <2>6. CASE UNCHANGED local
    BY <1>4, <2>6 DEF local
  <2> QED BY Zenon, <1>7, <2>2, <2>3, <2>4, <2>5, <2>6 DEF LookupOrNew
<1>8. CASE ~(ApplyWrite(c) \/ ApplySetattr(c) \/ PullInsert(c) \/ LookupOrNew(c))
  BY Zenon, <1>4, <1>8 DEF WriteCall, SetattrCall, StageForWrites, ObjectInfo, PullOpen, PullRead,
     CreateCall, CreateExclusiveCall, Probe, StageNew, local
<1> QED BY <1>5, <1>6, <1>7, <1>8

\* COMMIT.
LEMMA SingleCommit ==
  ASSUME TypeInv, Minded, Bound, Single, NEW c \in Connections,
         CommitCall(c) \/ FlushSnapshot(c) \/ FlushDelete(c) \/ FlushUpload(c) \/ FlushDone(c)
  PROVE  Single'
<1> USE TypeFacts, PcAfter
<1> DEFINE k == conn[c]
           id == k.id
<1>1. \A d \in Connections : d = c
  BY Zenon DEF Minded, OneByOne
<1>2. sess' /\ sess
  BY Zenon DEF Single, CommitCall, FlushSnapshot, FlushDelete, FlushUpload, FlushDone
<1>3. ASSUME UNCHANGED <<dev, staged>>, k.pc # "flushed", conn'[c].pc \notin {"upload", "flushed"}
      PROVE  Single'
  BY Zenon, <1>1, <1>2, <1>3, SingleKept
<1>4. CASE CommitCall(c) \/ FlushSnapshot(c)
  <2>1. conn'[c].pc \notin {"upload", "flushed"}
    BY Zenon, <1>4, LateFrom, RemoveLeads DEF CommitCall, FlushSnapshot, PullOpen, PullRead, FlushDelete,
       FlushUpload, RemoveDelete, Request, Serve, Late
  <2> QED BY Zenon, <1>3, <1>4, <2>1 DEF CommitCall, FlushSnapshot, Request, phone, local
<1>5. ASSUME k.pc \in {"delete", "upload", "flushed"}
      PROVE  Same(k) /\ id \in Id
  BY <1>5 DEF Bound, Knows, Flushing, ConnOK, HasId
<1>6. CASE FlushDelete(c)
  <2>1. Same(k) /\ id \in Id /\ k.h = CurrentDev(staged[id]) /\ staged' = staged /\ k.pc = "delete"
    BY <1>5, <1>6 DEF FlushDelete, Bound, Knows, Flushing, local
  <2>2. Listed(k.dir, k.name) \subseteq {k.h}
    BY <1>1, <2>1 DEF Single, Same
  <2>4. 0 \notin Handle
    BY DEF Handle
  <2>a. /\ Goto(c, "upload")
        /\ \/ k.h # 0 /\ dev' = [dev EXCEPT ![k.h] = None]
           \/ k.h = 0 /\ dev' = dev
    BY <1>2, <1>6 DEF FlushDelete, Minded
  <2>b. k.h # 0 => k.h \in Handle
    BY DEF Locals, Handle
  <2>3. /\ conn'[c].pc = "upload" /\ conn'[c].dir = k.dir /\ conn'[c].name = k.name
        /\ \A h \in Handle : h # k.h => dev'[h] = dev[h]
        /\ k.h # 0 => dev'[k.h] = None
    BY <2>a, <2>b, <2>4, GotoKeeps
  <2>5. \A h \in Handle : dev'[h] = None \/ dev'[h] = dev[h]
    BY <2>3, <2>4
  <2>6. UniqueNames'
    BY <2>5 DEF Single, UniqueNames
  <2>7. Listed(conn[c].dir, conn[c].name)' = {}
    BY <2>2, <2>3, <2>4, <2>5 DEF Listed
  <2>8. ASSUME NEW i \in Id, Staged(i), NEW h \in Handle, dev'[h] # None,
               dev'[h].dir = staged[i].dir, dev'[h].name = staged[i].name
        PROVE  h = CurrentDev(staged[i])
    BY <1>1, <2>1, <2>5, <2>8 DEF Single, Listed
  <2> QED BY <1>1, <1>2, <2>1, <2>3, <2>6, <2>7, <2>8 DEF Single, Staged, Listed
<1>7. CASE FlushUpload(c)
  <2> DEFINE new == lastHandle + 1
  <2>1. Same(k) /\ id \in Id /\ k.pc = "upload" /\ Listed(k.dir, k.name) = {} /\ staged' = staged
    BY <1>5, <1>7 DEF FlushUpload, Single, local
  <2>2. CASE Return(c) /\ UNCHANGED phone
    BY <1>3, <2>1, <2>2 DEF phone
  <2>3. CASE /\ tmp[id] # None /\ new \in Handle /\ dev' = [dev EXCEPT ![new] = UploadedObject(c, tmp[id])]
             /\ conn' = [conn EXCEPT ![c].pc = "flushed", ![c].h = new]
    <3>1. PICK o : o = UploadedObject(c, tmp[id])
      OBVIOUS
    <3>2. o.dir = k.dir /\ o.name = k.name
      BY <3>1 DEF UploadedObject
    <3>3. dev'[new] = o /\ \A h \in Handle : h # new => dev'[h] = dev[h]
      BY <2>3, <3>1
    <3>4. /\ conn'[c].pc = "flushed" /\ conn'[c].h = new /\ conn'[c].id = id
          /\ conn'[c].dir = k.dir /\ conn'[c].name = k.name
      BY <2>3 DEF ConnTypes, Locals
    <3> HIDE DEF new, k, id
    <3> HIDE TypeFacts, PcAfter
    <3>5. \A h \in Handle : dev'[h] # None /\ dev'[h].dir = k.dir /\ dev'[h].name = k.name => h = new
      BY <2>1, <3>3 DEF Listed
    <3>6. UniqueNames'
      BY <3>2, <3>3, <3>5 DEF Single, UniqueNames
    <3>7. ASSUME NEW i \in Id, Staged(i), NEW h \in Handle, dev'[h] # None,
                 dev'[h].dir = staged[i].dir, dev'[h].name = staged[i].name
          PROVE  h = CurrentDev(staged[i]) \/ conn'[c].id = i
      <4>1. CASE h = new
        <5>1. staged[i].dir = staged[id].dir /\ staged[i].name = staged[id].name /\ Staged(id)
          BY <2>1, <3>2, <3>3, <3>7, <4>1 DEF Same, k, id
        <5>2. i # id => Apart(i, staged[i], id, staged[id])
          BY <2>1, <3>7, <5>1 DEF Bound, StageInv
        <5> QED BY <3>4, <5>1, <5>2 DEF Apart
      <4>2. CASE h # new
        <5>1. \A d \in Connections : conn[d].pc # "flushed"
          BY <1>1, <2>1 DEF k
        <5> QED BY <3>3, <3>7, <4>2, <5>1 DEF Single, Listed
      <4> QED BY <4>1, <4>2
    <3> QED BY <1>1, <1>2, <2>1, <3>4, <3>5, <3>6, <3>7 DEF Single, Staged, Listed
  <2> QED BY <1>7, <2>2, <2>3 DEF FlushUpload, Minded
<1>8. CASE FlushDone(c)
  <2>1. Same(k) /\ Staged(id) /\ id \in Id /\ k.pc = "flushed" /\ dev' = dev /\ k.h \in Handle
    BY <1>5, <1>8 DEF FlushDone, Same, phone, ConnOK, HasHandle
  <2>2. Listed(k.dir, k.name) \subseteq {k.h}
    BY Zenon, <2>1 DEF Single
  <2>3. PICK e : e = [staged[id] EXCEPT !.origin = 0, !.flushed = k.h, !.dirty = FALSE, !.size = k.size]
    OBVIOUS
  <2>4. staged' = [staged EXCEPT ![id] = e] /\ conn'[c].pc = "idle"
    BY <1>8, <2>1, <2>3 DEF FlushDone, Staged
  <2>5. e.dir = k.dir /\ e.name = k.name /\ CurrentDev(e) = k.h
    <3>1. staged[id] \in Stage
      BY <2>1 DEF Staged
    <3> QED BY <2>1, <2>3, <3>1 DEF Stage, Same, CurrentDev, Handle
  <2>6. UniqueNames'
    BY <2>1 DEF Single, UniqueNames
  <2>7. ASSUME NEW i \in Id, staged'[i] # None, NEW h \in Handle, dev'[h] # None,
               dev'[h].dir = staged'[i].dir, dev'[h].name = staged'[i].name
        PROVE  h = CurrentDev(staged'[i])
    <3>1. CASE i = id
      BY <2>1, <2>2, <2>4, <2>5, <2>7, <3>1 DEF Listed
    <3>2. CASE i # id
      <4>1. staged'[i] = staged[i] /\ dev'[h] = dev[h]
        BY <2>1, <2>4, <3>2
      <4> QED BY <1>1, <2>7, <3>2, <4>1 DEF Single, Staged, Listed
    <3> QED BY <3>1, <3>2
  <2> QED BY <1>1, <1>2, <2>4, <2>6, <2>7 DEF Single, Staged, Listed
<1> QED BY <1>4, <1>6, <1>7, <1>8

\* REMOVE.
LEMMA SingleRemove ==
  ASSUME TypeInv, Minded, Bound, Single, NEW c \in Connections,
         RemoveCall(c) \/ RemoveDelete(c) \/ RemoveDrop(c)
  PROVE  Single'
<1> USE TypeFacts, PcAfter
<1>1. \A d \in Connections : d = c
  BY DEF Minded, OneByOne
<1>2. sess' /\ conn[c].pc # "flushed" /\ conn'[c].pc \notin {"upload", "flushed"}
  <2>1. CASE RemoveCall(c)
    BY Zenon, <2>1, RemoveLeads DEF Single, RemoveCall, Request
  <2>2. CASE RemoveDelete(c)
    BY <2>2 DEF Single, RemoveDelete
  <2>3. CASE RemoveDrop(c)
    BY <2>3 DEF Single, RemoveDrop
  <2> QED BY <2>1, <2>2, <2>3
<1>3. \A h \in Handle : dev'[h] = None \/ dev'[h] = dev[h]
  BY Zenon DEF RemoveCall, RemoveDelete, RemoveDrop, phone, ConnOK, HasHandle
<1>4. \A id \in Id : staged'[id] # None => staged'[id] = staged[id]
  BY Zenon DEF RemoveCall, RemoveDelete, RemoveDrop, local, ConnOK, HasId
<1>5. \A id \in Id : staged'[id] # None =>
         /\ staged[id] # None
         /\ staged'[id].dir = staged[id].dir /\ staged'[id].name = staged[id].name
         /\ CurrentDev(staged'[id]) = CurrentDev(staged[id])
  BY <1>4
<1> QED BY <1>1, <1>2, <1>3, <1>5, SingleKept

LEMMA SingleStep == Minded /\ TypeInv /\ Bound /\ Single /\ [Next]_vars => Single'
<1> SUFFICES ASSUME Minded, TypeInv, Bound, Single, [Next]_vars PROVE Single'
  OBVIOUS
<1>1. ASSUME NEW c \in Connections, Serve(c)
      PROVE  Single'
  <2>1. ~(RenameCall(c) \/ RenameLookup(c) \/ HRename(c) \/ RenameResync(c) \/ MkdirCall(c))
    BY Zenon DEF RenameCall, RenameLookup, HRename, RenameResync, MkdirCall, Request, Minded, Bound,
       Knows, Renaming
  <2> QED BY Zenon, <1>1, <2>1, SingleStaging, SingleCommit, SingleRemove DEF Serve
<1>2. ~Detach /\ ~Attach
  BY DEF Detach, Attach, Minded, Single
<1>3. CASE Restart
  BY <1>3, IdleType DEF Restart, Single, UniqueNames, Staged, phone
<1>4. CASE UNCHANGED vars
  BY <1>4 DEF vars, Single, UniqueNames, Staged, Listed, CurrentDev
<1> QED BY <1>1, <1>2, <1>3, <1>4 DEF Next, Quiet

\* On a phone that refuses a second object of a name no step makes one, whatever
\* the number of connections.
LEMMA RefusingStep ==
  ASSUME TypeInv, UniqueNames, [Next]_vars, ~AcceptsDuplicates
  PROVE  UniqueNames'
<1> USE TypeFacts
<1>1. ASSUME \A h \in Handle : dev'[h] = None \/ dev'[h] = dev[h]
      PROVE  UniqueNames'
  BY <1>1 DEF UniqueNames
<1>2. ASSUME NEW h \in Handle, NEW o, dev' = [dev EXCEPT ![h] = o],
             Listed(o.dir, o.name) \subseteq {h}
      PROVE  UniqueNames'
  BY <1>2 DEF UniqueNames, Listed, TypeInv, TypeOK
<1>3. ASSUME NEW c \in Connections, Serve(c)
      PROVE  UniqueNames'
  <2> USE <1>3
  <2>1. CASE FlushUpload(c)
    <3>1. CASE UNCHANGED phone
      BY <1>1, <3>1 DEF phone
    <3>2. CASE ~UNCHANGED phone
      <4>1. PICK t : /\ dev' = [dev EXCEPT ![lastHandle + 1] = UploadedObject(c, t)]
                     /\ lastHandle + 1 \in Handle /\ NameFree(conn[c].dir, conn[c].name)
        BY <2>1, <3>2 DEF FlushUpload
      <4>2. PICK o : o = UploadedObject(c, t)
        OBVIOUS
      <4>3. o.dir = conn[c].dir /\ o.name = conn[c].name
        BY <4>2 DEF UploadedObject
      <4> QED BY <1>2, <4>1, <4>2, <4>3 DEF NameFree
    <3> QED BY <3>1, <3>2
  <2>2. CASE MkdirCall(c)
    <3>1. PICK d \in Dirs, n \in Names :
            /\ NameFree(d, n)
            /\ dev' = [dev EXCEPT ![lastHandle + 1] =
                         [dir |-> d, name |-> n, isdir |-> TRUE, data |-> <<>>]]
      BY <2>2 DEF MkdirCall
    <3>2. PICK o : o = [dir |-> d, name |-> n, isdir |-> TRUE, data |-> <<>>]
      OBVIOUS
    <3>3. o.dir = d /\ o.name = n /\ lastHandle + 1 \in Handle
      BY <2>2, <3>2 DEF MkdirCall
    <3> QED BY <1>2, <3>1, <3>2, <3>3 DEF NameFree
  <2>3. CASE HRename(c)
    <3> DEFINE k == conn[c]
    <3>1. CASE UNCHANGED dev
      BY <1>1, <3>1
    <3>2. CASE ~UNCHANGED dev
      <4>a. PICK h \in Listed(k.dir, k.name) : \E d, n :
              /\ dev' = [dev EXCEPT ![h].dir = d, ![h].name = n]
              /\ \/ /\ d = k.toDir /\ n = k.toName
                    /\ k.toDir # k.dir => NameFree(k.toDir, k.name)
                    /\ k.toName # k.name => NameFree(k.toDir, k.toName)
                 \/ d = k.toDir /\ n = k.name /\ NameFree(k.toDir, k.name)
        <5>1. ASSUME NEW h \in Listed(k.dir, k.name), dev' = [dev EXCEPT ![h].dir = k.toDir]
              PROVE  dev' = [dev EXCEPT ![h].dir = k.toDir, ![h].name = k.name]
          <6>1. h \in Handle /\ dev[h] \in Object /\ dev[h].name = k.name
            BY DEF Listed
          <6>2. [dev[h] EXCEPT !.dir = k.toDir] = [dev[h] EXCEPT !.dir = k.toDir, !.name = k.name]
            BY <6>1 DEF Object
          <6> QED BY <5>1, <6>1, <6>2
        <5> QED BY <2>3, <3>2, <5>1 DEF HRename
      <4>1. PICK d, n :
              /\ dev' = [dev EXCEPT ![h].dir = d, ![h].name = n]
              /\ \/ /\ d = k.toDir /\ n = k.toName
                    /\ k.toDir # k.dir => NameFree(k.toDir, k.name)
                    /\ k.toName # k.name => NameFree(k.toDir, k.toName)
                 \/ d = k.toDir /\ n = k.name /\ NameFree(k.toDir, k.name)
        BY <4>a
      <4>2. h \in Handle /\ dev[h] \in Object /\ dev[h].dir = k.dir /\ dev[h].name = k.name
        BY DEF Listed
      <4>3. PICK o : o = [dev[h] EXCEPT !.dir = d, !.name = n]
        OBVIOUS
      <4>4. o.dir = d /\ o.name = n
        BY <4>2, <4>3 DEF Object
      <4>5. dev' = [dev EXCEPT ![h] = o]
        BY <4>1, <4>3
      <4>6. Listed(d, n) \subseteq {h}
        BY <4>1, <4>2 DEF NameFree, Listed, UniqueNames
      <4> QED BY <1>2, <4>2, <4>4, <4>5, <4>6
    <3> QED BY <3>1, <3>2
  <2>4. CASE FlushDelete(c) \/ RemoveDelete(c)
    BY Zenon, <1>1, <2>4 DEF FlushDelete, RemoveDelete
  <2>5. CASE ~(FlushDelete(c) \/ RemoveDelete(c) \/ FlushUpload(c) \/ MkdirCall(c) \/ HRename(c))
    BY Zenon, <1>1, <2>5 DEF Serve, WriteCall, SetattrCall, StageForWrites, ObjectInfo, PullOpen, PullRead,
       PullInsert, ApplyWrite, ApplySetattr, CreateCall, CreateExclusiveCall, Probe, StageNew,
       LookupOrNew, CommitCall, FlushSnapshot, FlushDone, RemoveCall, RemoveDrop, RenameCall,
       RenameLookup, RenameResync, phone
  <2> QED BY <2>1, <2>2, <2>3, <2>4, <2>5
<1>4. CASE Attach
  <2>1. CASE UNCHANGED dev
    BY <1>1, <2>1
  <2>2. CASE ~UNCHANGED dev
    <3>1. PICK h1 \in 1..lastHandle, h2 \in 1..lastHandle :
            h1 < h2 /\ dev' = [dev EXCEPT ![h1] = dev[h2], ![h2] = dev[h1]]
      BY <1>4, <2>2 DEF Attach
    <3>2. h1 \in Handle /\ h2 \in Handle /\ h1 # h2
      BY <3>1, ConstantsAssumption DEF Handle, TypeInv, TypeOK
    <3>3. /\ dev'[h1] = dev[h2] /\ dev'[h2] = dev[h1]
          /\ \A h \in Handle : h # h1 /\ h # h2 => dev'[h] = dev[h]
      BY <3>1, <3>2 DEF TypeInv, TypeOK
    <3> HIDE TypeFacts
    <3> QED BY <3>2, <3>3 DEF UniqueNames
  <2> QED BY <2>1, <2>2
<1>5. CASE Detach \/ Restart \/ UNCHANGED vars
  BY <1>1, <1>5 DEF Detach, Restart, vars, phone
<1> QED BY <1>3, <1>4, <1>5 DEF Next, Quiet

\* The phone never holds two objects of one name: where it refuses a second
\* one, on any number of connections and whatever fails; where it takes it,
\* under Minded (one connection, no renames or MKDIR, and no failing listing,
\* object info, delete or clean-up and no lost session), because a flush deletes
\* the old object before it uploads the new one and a name is looked up before
\* a file is begun (flush_stage, stage_new).
THEOREM UniqueNamesHold ==
  ASSUME UniquePhone, ~AcceptsDuplicates \/ Minded
  PROVE  Spec => []UniqueNames
<1>1. CASE ~AcceptsDuplicates
  <2>1. Init => UniqueNames
    BY DEF Init, UniquePhone, UniqueNames
  <2>2. TypeInv /\ UniqueNames /\ [Next]_vars => UniqueNames'
    BY <1>1, RefusingStep
  <2> QED BY <2>1, <2>2, TypeInit, TypeStep, PTL DEF Spec
<1>2. CASE Minded
  <2>1. Init => Bound
    BY <1>2, BoundInit DEF Minded
  <2>2. TypeInv /\ Bound /\ [Next]_vars => Bound'
    BY <1>2, BoundStep DEF Minded
  <2>3. Init => Single
    BY IdleType DEF Init, UniquePhone, Single, UniqueNames, Staged
  <2>4. TypeInv /\ Bound /\ Single /\ [Next]_vars => Single'
    BY <1>2, SingleStep
  <2>5. Single => UniqueNames
    BY DEF Single
  <2> QED BY <2>1, <2>2, <2>3, <2>4, <2>5, TypeInit, TypeStep, PTL DEF Spec
<1> QED BY <1>1, <1>2


-----------------------------------------------------------------------------
(* WriteBack implements DurableFile: each step as one of the abstract       *)
(* layer, seen file by file and draft by draft.                             *)

\* The files, the drafts stay as they are.
SameFiles == \A h \in Handle : FileOf(h)' = FileOf(h)
SameDrafts == \A i \in Id : DraftOf(i)' = DraftOf(i)
OtherFiles(h) == \A g \in Handle : g # h => FileOf(g)' = FileOf(g)
OtherDrafts(id) == \A i \in Id : i # id => DraftOf(i)' = DraftOf(i)

\* A step of the abstract layer, or none.
Mapped == [Durable!FileNext]_(Durable!fvars)

LEMMA MapStutter ==
  ASSUME SameFiles, SameDrafts
  PROVE  Mapped
BY DEF Mapped, SameFiles, SameDrafts, Durable!fvars

LEMMA MapStep ==
  ASSUME \/ \E id \in Id : Durable!Begin(id) \/ Durable!Edit(id) \/ Durable!Withdraw(id) \/ Durable!Remove(id)
         \/ \E id \in Id, h \in Handle :
              Durable!Open(id, h) \/ Durable!Litter(id, h) \/ Durable!Publish(id, h)
         \/ \E h \in Handle : Durable!Delete(h)
         \/ Durable!Crash
  PROVE  Mapped
BY DEF Mapped, Durable!fvars, Durable!FileNext

LEMMA MapBegin ==
  ASSUME NEW id \in Id, DraftOf(id) = None, SameFiles, OtherDrafts(id),
         DraftOf(id)' = [data |-> <<>>, dirty |-> TRUE, of |-> 0]
  PROVE  Mapped
<1>1. Durable!Begin(id)
  BY DEF Durable!Begin, SameFiles, OtherDrafts
<1> QED BY <1>1, MapStep

LEMMA MapOpen ==
  ASSUME NEW id \in Id, NEW h \in Handle, DraftOf(id) = None, FileOf(h) # None,
         \A i \in Id : i # id /\ DraftOf(i) # None => DraftOf(i).of # h,
         SameFiles, OtherDrafts(id),
         DraftOf(id)' = [data |-> FileOf(h), dirty |-> FALSE, of |-> h]
  PROVE  Mapped
<1>1. Durable!Open(id, h)
  BY DEF Durable!Open, Durable!Unshared, SameFiles, OtherDrafts
<1> QED BY <1>1, MapStep

LEMMA MapEdit ==
  ASSUME NEW id \in Id, DraftOf(id) # None, SameFiles, OtherDrafts(id), NEW data \in Content,
         DraftOf(id)' = [data |-> data, dirty |-> TRUE, of |-> DraftOf(id).of]
  PROVE  Mapped
<1>1. Durable!Edit(id)
  BY DEF Durable!Edit, SameFiles, OtherDrafts
<1> QED BY <1>1, MapStep

LEMMA MapWithdraw ==
  ASSUME NEW id \in Id, DraftOf(id) # None, DraftOf(id).dirty, NEW h \in Handle, DraftOf(id).of = h,
         h # 0, FileOf(h)' = None, OtherFiles(h), SameDrafts
  PROVE  Mapped
<1>1. Durable!Withdraw(id)
  BY DEF Durable!Withdraw, SameDrafts, OtherFiles
<1> QED BY <1>1, MapStep

LEMMA MapLitter ==
  ASSUME NEW id \in Id, DraftOf(id) # None, DraftOf(id).dirty, NEW h \in Handle, FileOf(h) = None,
         \A i \in Id : i # id /\ DraftOf(i) # None => DraftOf(i).of # h,
         NEW n \in 0..Len(DraftOf(id).data),
         FileOf(h)' = [i \in 1..n |-> DraftOf(id).data[i]], OtherFiles(h), SameDrafts
  PROVE  Mapped
<1>1. Durable!Litter(id, h)
  BY DEF Durable!Litter, Durable!Unshared, SameDrafts, OtherFiles
<1> QED BY <1>1, MapStep

LEMMA MapPublish ==
  ASSUME NEW id \in Id, DraftOf(id) # None, DraftOf(id).dirty, NEW h \in Handle, FileOf(h) = None,
         \A i \in Id : i # id /\ DraftOf(i) # None => DraftOf(i).of # h,
         FileOf(h)' = DraftOf(id).data, OtherFiles(h), OtherDrafts(id),
         DraftOf(id)' = [data |-> DraftOf(id).data, dirty |-> FALSE, of |-> h]
  PROVE  Mapped
<1>1. Durable!Publish(id, h)
  BY DEF Durable!Publish, Durable!Unshared, OtherDrafts, OtherFiles
<1> QED BY <1>1, MapStep

LEMMA MapRemove ==
  ASSUME NEW id \in Id, DraftOf(id) # None, NEW h, DraftOf(id).of = h,
         h # 0 => h \in Handle /\ FileOf(h) # None,
         \A g \in Handle : FileOf(g)' = IF g = h THEN None ELSE FileOf(g),
         OtherDrafts(id), DraftOf(id)' = None
  PROVE  Mapped
<1>1. Durable!Remove(id)
  BY DEF Durable!Remove, OtherDrafts
<1> QED BY <1>1, MapStep

LEMMA MapDelete ==
  ASSUME NEW h \in Handle, FileOf(h) # None, \A i \in Id : DraftOf(i) # None => DraftOf(i).of # h,
         FileOf(h)' = None, OtherFiles(h), SameDrafts
  PROVE  Mapped
<1>1. Durable!Delete(h)
  BY DEF Durable!Delete, SameDrafts, OtherFiles
<1> QED BY <1>1, MapStep

LEMMA MapCrash ==
  ASSUME SameFiles, \A i \in Id : DraftOf(i)' = None
  PROVE  Mapped
<1>1. Durable!Crash
  BY DEF Durable!Crash, SameFiles
<1> QED BY <1>1, MapStep

\* What the draft of a file id is, by where the one connection is.
Plain(s, data) == [data |-> data, dirty |-> s.dirty, of |-> CurrentDev(s)]

LEMMA PlainType ==
  ASSUME TypeInv, NEW id \in Id, staged[id] # None, tmp[id] # None
  PROVE  Plain(staged[id], tmp[id]) # None
<1>1. staged[id] \in Stage /\ tmp[id] \in Content
  BY DEF TypeInv, TypeOK
<1>2. CurrentDev(staged[id]) \in Handle \cup {0} /\ staged[id].dirty \in BOOLEAN
  BY <1>1, ConstantsAssumption DEF Stage, CurrentDev, Handle
<1>3. Plain(staged[id], tmp[id]) \in Durable!Draft
  BY <1>1, <1>2 DEF Plain, Durable!Draft
<1> QED BY <1>3, DraftAssumption

LEMMA DraftIs ==
  ASSUME OneByOne, NEW c \in Connections, NEW id \in Id
  PROVE  LET k == conn[c] IN
         /\ staged[id] = None \/ (k.pc = "rmdrop" /\ k.id = id) => DraftOf(id) = None
         /\ staged[id] # None /\ k.pc = "flushed" /\ k.id = id =>
              DraftOf(id) = [data |-> tmp[id], dirty |-> FALSE, of |-> k.h]
         /\ staged[id] # None /\ (k.pc \notin {"rmdrop", "flushed"} \/ k.id # id) =>
              DraftOf(id) = Plain(staged[id], tmp[id])
<1>1. At("rmdrop", id) <=> conn[c].pc = "rmdrop" /\ conn[c].id = id
  BY OnlyOne
<1>2. At("flushed", id) <=> conn[c].pc = "flushed" /\ conn[c].id = id
  BY OnlyOne
<1>3. ASSUME At("flushed", id) PROVE Uploaded(id) = conn[c].h
  <2> DEFINE d == CHOOSE d \in Connections : conn[d].pc = "flushed" /\ conn[d].id = id
  <2>1. d \in Connections
    BY <1>3 DEF At
  <2> QED BY <2>1 DEF Uploaded, OneByOne
<1>4. staged[id] = None \/ At("rmdrop", id) => DraftOf(id) = None
  BY DEF DraftOf
<1>5. staged[id] # None /\ ~At("rmdrop", id) /\ At("flushed", id) =>
        DraftOf(id) = [data |-> tmp[id], dirty |-> FALSE, of |-> conn[c].h]
  BY <1>3 DEF DraftOf
<1>6. staged[id] # None /\ ~At("rmdrop", id) /\ ~At("flushed", id) =>
        DraftOf(id) = Plain(staged[id], tmp[id])
  BY DEF DraftOf, Plain
<1>7. "rmdrop" # "flushed"
  OBVIOUS
<1> QED BY <1>1, <1>2, <1>4, <1>5, <1>6, <1>7

LEMMA DraftIsNext ==
  ASSUME OneByOne, NEW c \in Connections, NEW id \in Id
  PROVE  LET k == conn'[c] IN
         /\ staged'[id] = None \/ (k.pc = "rmdrop" /\ k.id = id) => DraftOf(id)' = None
         /\ staged'[id] # None /\ k.pc = "flushed" /\ k.id = id =>
              DraftOf(id)' = [data |-> tmp'[id], dirty |-> FALSE, of |-> k.h]
         /\ staged'[id] # None /\ (k.pc \notin {"rmdrop", "flushed"} \/ k.id # id) =>
              DraftOf(id)' = Plain(staged'[id], tmp'[id])
<1>1. At("rmdrop", id)' <=> conn'[c].pc = "rmdrop" /\ conn'[c].id = id
  BY OnlyOne
<1>2. At("flushed", id)' <=> conn'[c].pc = "flushed" /\ conn'[c].id = id
  BY OnlyOne
<1>3. ASSUME At("flushed", id)' PROVE Uploaded(id)' = conn'[c].h
  <2> DEFINE d == CHOOSE d \in Connections : conn'[d].pc = "flushed" /\ conn'[d].id = id
  <2>1. d \in Connections
    BY <1>3 DEF At
  <2> QED BY <2>1 DEF Uploaded, OneByOne
<1>4. staged'[id] = None \/ At("rmdrop", id)' => DraftOf(id)' = None
  BY DEF DraftOf
<1>5. staged'[id] # None /\ ~At("rmdrop", id)' /\ At("flushed", id)' =>
        DraftOf(id)' = [data |-> tmp'[id], dirty |-> FALSE, of |-> conn'[c].h]
  BY <1>3 DEF DraftOf
<1>6. staged'[id] # None /\ ~At("rmdrop", id)' /\ ~At("flushed", id)' =>
        DraftOf(id)' = Plain(staged'[id], tmp'[id])
  BY DEF DraftOf, Plain, CurrentDev
<1>7. "rmdrop" # "flushed"
  OBVIOUS
<1> QED BY <1>1, <1>2, <1>4, <1>5, <1>6, <1>7

\* The points at which a draft is not just the stage.
Between == {"rmdrop", "flushed"}

LEMMA DraftKept ==
  ASSUME OneByOne, NEW c \in Connections, NEW i \in Id,
         staged'[i] = staged[i], staged[i] # None => tmp'[i] = tmp[i],
         conn[c].pc \notin Between \/ conn[c].id # i,
         conn'[c].pc \notin Between \/ conn'[c].id # i
  PROVE  DraftOf(i)' = DraftOf(i)
<1>1. CASE staged[i] = None
  BY <1>1, DraftIs, DraftIsNext
<1>2. CASE staged[i] # None
  <2>1. DraftOf(i) = Plain(staged[i], tmp[i])
    BY <1>2, DraftIs DEF Between
  <2>2. DraftOf(i)' = Plain(staged'[i], tmp'[i])
    BY <1>2, DraftIsNext DEF Between
  <2> QED BY <1>2, <2>1, <2>2
<1> QED BY <1>1, <1>2

LEMMA DraftsKept ==
  ASSUME OneByOne, NEW c \in Connections, conn[c].pc \notin Between, conn'[c].pc \notin Between,
         NEW S \in SUBSET Id, \A i \in S : staged'[i] = staged[i] /\ (staged[i] # None => tmp'[i] = tmp[i])
  PROVE  \A i \in S : DraftOf(i)' = DraftOf(i)
BY DraftKept

\* Steps that leave the stages, their files and the phone as they are, or that
\* change only what no file and no draft shows.
LEMMA QuietStep ==
  ASSUME OneByOne, NEW c \in Connections, conn[c].pc \notin Between, conn'[c].pc \notin Between,
         \A i \in Id : staged'[i] = staged[i] /\ (staged[i] # None => tmp'[i] = tmp[i]),
         UNCHANGED dev
  PROVE  Mapped
<1>1. SameFiles
  BY DEF SameFiles, FileOf
<1>2. SameDrafts
  BY DraftsKept DEF SameDrafts
<1> QED BY <1>1, <1>2, MapStutter

\* No stage but that of the object answers for it.
LEMMA NoneElse ==
  ASSUME OneByOne, NEW c \in Connections, conn[c].pc \notin Between, NEW h \in Handle, NEW id,
         \A j \in Id : j # id /\ Staged(j) => ~Owns(j, staged[j], h)
  PROVE  \A i \in Id : i # id /\ DraftOf(i) # None => DraftOf(i).of # h
<1> SUFFICES ASSUME NEW i \in Id, i # id, DraftOf(i) # None PROVE DraftOf(i).of # h
  OBVIOUS
<1>1. Staged(i) /\ DraftOf(i) = Plain(staged[i], tmp[i])
  BY DraftIs DEF Between, Staged
<1> QED BY <1>1 DEF Plain, Owns, CurrentDev

\* WRITE, SETATTR and CREATE.
LEMMA MapStaging ==
  ASSUME TypeInv, OneByOne, Bound, NEW c \in Connections,
         \/ WriteCall(c) \/ SetattrCall(c) \/ StageForWrites(c) \/ ObjectInfo(c) \/ PullOpen(c)
         \/ PullRead(c) \/ PullInsert(c) \/ ApplyWrite(c) \/ ApplySetattr(c) \/ CreateCall(c)
         \/ CreateExclusiveCall(c) \/ Probe(c) \/ StageNew(c) \/ LookupOrNew(c)
  PROVE  Mapped
<1> USE TypeFacts, PcAfter
<1> DEFINE k == conn[c]
           id == k.id
<1>1. k.pc \notin {"flushed", "delete", "upload", "rmdelete", "rmdrop", "resync"} /\ Serve(c)
  BY Zenon DEF WriteCall, SetattrCall, StageForWrites, ObjectInfo, PullOpen, PullRead, PullInsert,
     ApplyWrite, ApplySetattr, CreateCall, CreateExclusiveCall, Probe, StageNew, LookupOrNew,
     Request, Serve
<1>2. conn'[c].pc \notin Between
  <2>1. SUFFICES ASSUME conn'[c].pc \in Between PROVE FALSE
    OBVIOUS
  <2>2. \/ PullOpen(c) \/ PullRead(c) \/ FlushDelete(c) \/ FlushUpload(c)
        \/ RemoveCall(c) \/ RemoveDelete(c)
    BY <1>1, <2>1, LateFrom DEF Late, Between
  <2>3. ~PullOpen(c) /\ ~PullRead(c)
    BY <2>1 DEF PullOpen, PullRead, Between
  <2>4. RemoveCall(c)
    BY <1>1, <2>2, <2>3 DEF FlushDelete, FlushUpload, RemoveDelete
  <2>5. WriteCall(c) \/ SetattrCall(c) \/ CreateCall(c) \/ CreateExclusiveCall(c)
    BY <2>4 DEF RemoveCall, StageForWrites, ObjectInfo, PullOpen, PullRead, PullInsert,
     ApplyWrite, ApplySetattr, Probe, StageNew, LookupOrNew, Request
  <2>6. ASSUME NEW i, NEW p \in {"stage"}, NEW o,
               conn' = [conn EXCEPT ![c] = [Idle EXCEPT !.pc = p, !.op = o, !.id = i]]
        PROVE  FALSE
    BY <2>1, <2>6, IdleType DEF ConnTypes, Locals, Between
  <2>7. ASSUME NEW d, NEW n, NEW p \in {"stagenew", "probe"},
               conn' = [conn EXCEPT ![c] = [Idle EXCEPT !.pc = p, !.op = "create", !.dir = d, !.name = n]]
        PROVE  FALSE
    BY Zenon, <2>1, <2>7, IdleType DEF ConnTypes, Locals, Between
  <2>8. ~WriteCall(c) /\ ~SetattrCall(c)
    BY Zenon, <2>6 DEF WriteCall, SetattrCall
  <2>9. ~CreateCall(c) /\ ~CreateExclusiveCall(c)
    BY Zenon, <2>7 DEF CreateCall, CreateExclusiveCall
  <2> QED BY <2>5, <2>8, <2>9
<1>3. StageInv /\ Knows(k) /\ ~At("rmdrop", id) /\ \A j : ~At("resync", j)
  BY <1>1, OnlyOne DEF Bound
<1>4. k.pc \notin Between /\ dev' = dev /\ SameFiles
  <2>1. dev' = dev
    BY Zenon DEF WriteCall, SetattrCall, StageForWrites, ObjectInfo, PullOpen, PullRead, PullInsert,
       ApplyWrite, ApplySetattr, CreateCall, CreateExclusiveCall, Probe, StageNew, LookupOrNew, phone
  <2> QED BY Zenon, <1>1, <2>1 DEF Between, SameFiles, FileOf
<1>5. ASSUME NEW i \in Id,
             \A j \in Id : j # i => staged'[j] = staged[j] /\ tmp'[j] = tmp[j]
      PROVE  OtherDrafts(i)
  <2>1. \A j \in Id \ {i} : DraftOf(j)' = DraftOf(j)
    BY <1>2, <1>4, <1>5, DraftsKept
  <2> QED BY <2>1 DEF OtherDrafts
<1>6. CASE \A i \in Id : staged'[i] = staged[i] /\ (staged[i] # None => tmp'[i] = tmp[i])
  BY <1>2, <1>4, <1>6, QuietStep
<1>7. CASE UNCHANGED <<staged, tmp>>
  BY <1>6, <1>7
<1>8. CASE PullOpen(c) \/ PullRead(c)
  <2>1. Found(k) /\ id \in Id /\ id = k.h /\ k.h \in Handle
    BY <1>3, <1>8 DEF PullOpen, PullRead, Knows, Opening, Found, ConnOK, HasId, Openable
  <2>2. staged[id] = None
    BY <1>3, <2>1, OpenableFree DEF Found, Staged
  <2> QED BY Zenon, <1>6, <1>8, <2>2 DEF PullOpen, PullRead
<1>9. CASE PullInsert(c)
  <2>1. Found(k) /\ id \in Id /\ id = k.h /\ k.h \in Handle
    BY <1>3, <1>9 DEF PullInsert, Knows, Opening, Found, ConnOK, HasId, Openable
  <2>2. ~Staged(id) /\ \A j \in Id : Staged(j) => ~Owns(j, staged[j], k.h)
    BY <1>3, <2>1, OpenableFree DEF Found
  <2>3. CASE UNCHANGED staged
    BY <1>6, <1>9, <2>2, <2>3 DEF PullInsert, Staged
  <2>4. CASE ~UNCHANGED staged
    <3>a. PICK g \in Handle : g = id /\ g = k.h /\ g \in Id
      BY <2>1
    <3>1. PICK s : s = [dir |-> k.dir, name |-> k.name, size |-> k.size,
                        origin |-> k.h, flushed |-> 0, dirty |-> FALSE]
      OBVIOUS
    <3>2. /\ staged' = [staged EXCEPT ![id] = s] /\ tmp' = tmp
          /\ tmp[id] # None /\ Len(tmp[id]) = k.size
      BY <1>9, <2>4, <3>1 DEF PullInsert
    <3>3. s # None
      <4>1. s \in Stage
        BY <2>1, <3>1 DEF Stage, Locals
      <4> QED BY <4>1, NoneAssumption
    <3>4. tmp[id] = dev[k.h].data /\ dev[k.h] # None /\ ~dev[k.h].isdir
      BY <1>3, <1>9, <2>1, <3>2 DEF PullInsert, Knows, Opening, Found, Openable
    <3>5. FileOf(g) = tmp[id] /\ FileOf(g) # None
      BY <3>a, <3>2, <3>4 DEF FileOf
    <3>6. DraftOf(g) = None
      BY <2>2, <3>a, DraftIs DEF Staged
    <3>7. /\ staged'[g] = s /\ tmp'[g] = tmp[id]
          /\ \A j \in Id : j # g => staged'[j] = staged[j] /\ tmp'[j] = tmp[j]
      BY <2>1, <3>a, <3>2
    <3>8. DraftOf(g)' = Plain(s, tmp[id])
      BY <1>2, <3>a, <3>3, <3>7, DraftIsNext DEF Between
    <3>b. s.dirty = FALSE /\ CurrentDev(s) = g
      BY <3>1, <3>a DEF CurrentDev
    <3>9. Plain(s, tmp[id]) = [data |-> FileOf(g), dirty |-> FALSE, of |-> g]
      BY <3>b, <3>5 DEF Plain
    <3>10. \A i \in Id : i # g /\ DraftOf(i) # None => DraftOf(i).of # g
      <4>1. \A j \in Id : j # g /\ Staged(j) => ~Owns(j, staged[j], g)
        BY <2>2, <3>a
      <4> HIDE TypeFacts, PcAfter
      <4> QED BY <1>4, <4>1, NoneElse
    <3>11. OtherDrafts(g)
      BY <1>5, <3>a, <3>7
    <3> HIDE DEF k, id
    <3> QED BY <1>4, <3>a, <3>5, <3>6, <3>8, <3>9, <3>10, <3>11, MapOpen
  <2> QED BY <2>3, <2>4
<1>10. CASE LookupOrNew(c) /\ ~UNCHANGED local
  <2>c. PICK new : new = -(virtSeq + 1)
    OBVIOUS
  <2>1. PICK s : s = [dir |-> k.dir, name |-> k.name, size |-> 0, origin |-> 0,
                      flushed |-> 0, dirty |-> TRUE]
    OBVIOUS
  <2>2. /\ virtSeq < MaxVirt /\ tmp' = [tmp EXCEPT ![new] = <<>>]
        /\ staged' = [staged EXCEPT ![new] = s]
    BY Zenon, <1>10, <2>1, <2>c DEF LookupOrNew, local
  <2>3. virtSeq + 1 \in 1..MaxVirt
    BY <2>2
  <2>a. new \notin Handle /\ ~(-new <= virtSeq)
    BY <2>3, <2>c DEF Handle
  <2>b. new \in Id
    BY <2>3, <2>c DEF Id
  <2>4. staged[new] = None
    BY <1>3, <2>a, <2>b DEF StageInv, Sound, Staged
  <2>5. s # None
    <3>1. s \in Stage
      BY <2>1 DEF Stage, Locals
    <3> QED BY <3>1, NoneAssumption
  <2>6. /\ staged'[new] = s /\ tmp'[new] = <<>>
        /\ \A j \in Id : j # new => staged'[j] = staged[j] /\ tmp'[j] = tmp[j]
    BY <2>2, <2>b
  <2>7. DraftOf(new) = None
    BY <2>b, <2>4, DraftIs
  <2>8. DraftOf(new)' = Plain(s, <<>>)
    BY <1>2, <2>b, <2>5, <2>6, DraftIsNext DEF Between
  <2>9. Plain(s, <<>>) = [data |-> <<>>, dirty |-> TRUE, of |-> 0]
    BY <2>1 DEF Plain, CurrentDev
  <2>10. OtherDrafts(new)
    BY <1>5, <2>b, <2>6
  <2> QED BY <1>4, <2>b, <2>7, <2>8, <2>9, <2>10, MapBegin
<1>11. CASE (ApplyWrite(c) \/ ApplySetattr(c)) /\ ~UNCHANGED <<staged, tmp>>
  <2>1. id \in Id /\ staged[id] # None /\ tmp[id] # None
    <3>1. id \in Id /\ staged[id] # None
      BY Zenon, <1>11 DEF ApplyWrite, ApplySetattr, ConnOK, HasId
    <3> QED BY Zenon, <1>3, <3>1 DEF StageInv, Sound, Staged
  <2>a. PICK i \in Id : i = id
    BY <2>1
  <2>2. PICK t \in Content, n \in 0..MaxSize :
          /\ tmp' = [tmp EXCEPT ![id] = t]
          /\ staged' = [staged EXCEPT ![id].size = n, ![id].dirty = TRUE]
    <3>1. CASE ApplySetattr(c)
      <4>1. PICK n \in 0..MaxSize :
              /\ tmp' = [tmp EXCEPT ![id] = SetLen(tmp[id], n)]
              /\ staged' = [staged EXCEPT ![id].size = n, ![id].dirty = TRUE]
        BY Zenon, <1>11, <3>1 DEF ApplySetattr
      <4>2. SetLen(tmp[id], n) \in Content
        BY Zenon, <2>1, SetLenType
      <4> QED BY Zenon, <4>1, <4>2
    <3>2. CASE ApplyWrite(c)
      <4>1. PICK off \in 0..(MaxSize - 1), b \in Byte :
              /\ tmp' = [tmp EXCEPT ![id] = PWrite(tmp[id], off, b)]
              /\ staged' = [staged EXCEPT
                   ![id].size = IF off + 1 > @ THEN off + 1 ELSE @, ![id].dirty = TRUE]
        BY Zenon, <1>11, <2>1, <3>2 DEF ApplyWrite
      <4>2. PWrite(tmp[id], off, b) \in Content
        BY <2>1, PWriteType
      <4>3. PICK n : n = IF off + 1 > staged[id].size THEN off + 1 ELSE staged[id].size
        OBVIOUS
      <4>4. n \in 0..MaxSize
        BY <2>1, <4>3 DEF Stage
      <4>5. staged' = [staged EXCEPT ![id].size = n, ![id].dirty = TRUE]
        BY <4>1, <4>3
      <4> QED BY Zenon, <4>1, <4>2, <4>4, <4>5
    <3> QED BY <1>11, <3>1, <3>2
  <2>3. PICK e : e = [staged[id] EXCEPT !.size = n, !.dirty = TRUE]
    OBVIOUS
  <2>4. /\ e.dirty = TRUE /\ e.origin = staged[i].origin /\ e.flushed = staged[i].flushed
        /\ e \in Stage
    <3>1. staged[i] \in Stage
      BY <2>1, <2>a
    <3>2. e = [staged[i] EXCEPT !.size = n, !.dirty = TRUE]
      BY <2>a, <2>3
    <3> HIDE DEF k, id
    <3> HIDE TypeFacts, PcAfter
    <3> QED BY <3>1, <3>2 DEF Stage
  <2>c. tmp' = [tmp EXCEPT ![i] = t] /\ staged' = [staged EXCEPT ![i] = e]
    <3>1. staged' = [staged EXCEPT ![id] = e]
      BY <2>2, <2>3
    <3> HIDE TypeFacts, PcAfter
    <3> QED BY <2>a, <2>2, <3>1
  <2>5. /\ staged'[i] = e /\ tmp'[i] = t
        /\ \A j \in Id : j # i => staged'[j] = staged[j] /\ tmp'[j] = tmp[j]
    BY <2>c
  <2>6. e # None
    BY <2>4, NoneAssumption
  <2>7. DraftOf(i) = Plain(staged[i], tmp[i])
    BY <1>4, <2>1, <2>a, DraftIs DEF Between
  <2>8. DraftOf(i)' = Plain(e, t)
    BY <1>2, <2>5, <2>6, DraftIsNext DEF Between
  <2>b. CurrentDev(e) = DraftOf(i).of
    <3> HIDE TypeFacts, PcAfter
    <3>1. CurrentDev(e) = CurrentDev(staged[i])
      BY <2>4 DEF CurrentDev
    <3>2. Plain(staged[i], tmp[i]).of = CurrentDev(staged[i])
      BY DEF Plain
    <3> QED BY <2>7, <3>1, <3>2
  <2>9. Plain(e, t) = [data |-> t, dirty |-> TRUE, of |-> DraftOf(i).of]
    BY <2>4, <2>b DEF Plain
  <2>10. OtherDrafts(i)
    BY <1>5, <2>5
  <2>11. DraftOf(i) # None
    BY <2>1, <2>7, <2>a, PlainType
  <2> QED BY <1>4, <2>8, <2>9, <2>10, <2>11, MapEdit
<1>12. CASE /\ ~(PullOpen(c) \/ PullRead(c) \/ PullInsert(c) \/ ApplyWrite(c) \/ ApplySetattr(c))
            /\ LookupOrNew(c) => UNCHANGED local
  BY Zenon, <1>7, <1>12 DEF WriteCall, SetattrCall, StageForWrites, ObjectInfo, CreateCall,
     CreateExclusiveCall, Probe, StageNew, LookupOrNew, local
<1> QED BY Zenon, <1>7, <1>8, <1>9, <1>10, <1>11, <1>12

\* COMMIT.
LEMMA MapCommit ==
  ASSUME TypeInv, OneByOne, Bound, NEW c \in Connections,
         CommitCall(c) \/ FlushSnapshot(c) \/ FlushDelete(c) \/ FlushUpload(c) \/ FlushDone(c)
  PROVE  Mapped
<1> USE TypeFacts, PcAfter
<1> DEFINE k == conn[c]
<1>1. StageInv /\ Knows(k) /\ \A j : ~At("resync", j) /\ ~At("rmdrop", j)
  <2>1. k.pc \notin {"resync", "rmdrop"}
    BY Zenon DEF CommitCall, FlushSnapshot, FlushDelete, FlushUpload, FlushDone, Request
  <2> QED BY Zenon, <2>1, OnlyOne DEF Bound
<1>2. CASE CommitCall(c) \/ FlushSnapshot(c)
  <2>1. conn'[c].pc \notin Between /\ k.pc \notin Between
    <3>1. CASE CommitCall(c)
      <4>1. PICK i : conn' = [conn EXCEPT ![c] = [Idle EXCEPT !.pc = "snapshot", !.id = i]]
        BY Zenon, <3>1 DEF CommitCall
      <4> QED BY Zenon, <3>1, <4>1, IdleType DEF CommitCall, Request, ConnTypes, Locals, Between
    <3>2. CASE FlushSnapshot(c)
      BY Zenon, <3>2, LateFrom DEF FlushSnapshot, PullOpen, PullRead, FlushDelete, FlushUpload, RemoveCall,
         RemoveDelete, Request, Serve, Late, Between
    <3> QED BY <1>2, <3>1, <3>2
  <2> QED BY Zenon, <1>2, <2>1, QuietStep DEF CommitCall, FlushSnapshot, phone, local
<1>3. ASSUME k.pc \in {"delete", "upload", "flushed"}
      PROVE  Same(k) /\ k.id \in Id /\ staged[k.id] # None /\ tmp[k.id] # None /\ tmp[k.id] \in Content
  <2>1. Same(k) /\ k.id \in Id
    BY <1>1, <1>3 DEF Knows, Flushing, ConnOK, HasId
  <2> QED BY <1>1, <2>1 DEF Same, StageInv, Staged, Sound
<1>4. ASSUME UNCHANGED <<dev, staged, tmp>>, k.pc \notin Between, conn'[c].pc \notin Between
      PROVE  Mapped
  BY <1>4, QuietStep
<1>5. ASSUME UNCHANGED <<staged, tmp>>, k.pc \notin Between, conn'[c].pc \notin Between
      PROVE  SameDrafts
  BY <1>5, DraftsKept DEF SameDrafts
<1>6. ASSUME k.pc \in {"delete", "upload"}, NEW i \in Id, i = k.id
      PROVE  /\ DraftOf(i) = Plain(staged[i], tmp[i]) /\ DraftOf(i) # None
             /\ DraftOf(i).dirty /\ DraftOf(i).data = tmp[i] /\ DraftOf(i).of = CurrentDev(staged[i])
  <2>1. DraftOf(i) = Plain(staged[i], tmp[i])
    BY <1>3, <1>6, DraftIs
  <2>2. Plain(staged[i], tmp[i]) # None
    BY <1>3, <1>6, PlainType
  <2>3. staged[i].dirty
    BY <1>3, <1>6 DEF Same
  <2> HIDE DEF k
  <2> HIDE TypeFacts, PcAfter
  <2> QED BY <2>1, <2>2, <2>3 DEF Plain
<1>7. CASE FlushDelete(c)
  <2>1. k.pc = "delete" /\ k.h = CurrentDev(staged[k.id]) /\ UNCHANGED <<staged, tmp>>
    BY <1>1, <1>7 DEF FlushDelete, Knows, Flushing, local
  <2>2. k.pc \notin Between /\ conn'[c].pc \notin Between
    BY <1>7 DEF FlushDelete, Between
  <2>3. CASE UNCHANGED dev
    BY <1>4, <2>1, <2>2, <2>3
  <2>4. CASE k.h # 0 /\ dev' = [dev EXCEPT ![k.h] = None]
    <3>1. PICK h \in Handle, i \in Id : h = k.h /\ i = k.id /\ h # 0
      BY <1>3, <2>1, <2>4 DEF Handle, Locals
    <3>2. dev'[h] = None /\ \A g \in Handle : g # h => dev'[g] = dev[g]
      BY <2>4, <3>1
    <3>3. FileOf(h)' = None /\ OtherFiles(h)
      BY <3>2 DEF FileOf, OtherFiles
    <3>4. SameDrafts
      BY <1>5, <2>1, <2>2
    <3> HIDE TypeFacts, PcAfter
    <3> QED BY <1>6, <2>1, <3>1, <3>3, <3>4, MapWithdraw
  <2> QED BY <1>7, <2>3, <2>4 DEF FlushDelete
<1>8. CASE FlushUpload(c)
  <2>1. k.pc = "upload" /\ UNCHANGED <<staged, tmp>> /\ k.pc \notin Between
    BY <1>8 DEF FlushUpload, local, Between
  <2>a. PICK i \in Id : i = k.id
    BY <1>3, <2>1
  <2>b. PICK new : new = lastHandle + 1
    OBVIOUS
  <2>2. i = k.id /\ new = lastHandle + 1
    BY <2>a, <2>b
  <2>3. CASE Return(c) /\ UNCHANGED phone
    BY <1>4, <2>1, <2>3 DEF phone, Between
  <2>4. ASSUME new \in Handle
        PROVE  /\ dev[new] = None /\ FileOf(new) = None
               /\ \A j \in Id : j # i /\ DraftOf(j) # None => DraftOf(j).of # new
    <3>1. new > lastHandle /\ ~(new <= lastHandle)
      BY <2>2
    <3>2. dev[new] = None
      BY <1>1, <2>4, <3>1 DEF StageInv
    <3>3. \A j \in Id : j # i /\ Staged(j) => ~Owns(j, staged[j], new)
      BY <1>1, <2>4, <3>1 DEF StageInv, Sound
    <3> HIDE TypeFacts, PcAfter
    <3> QED BY <2>1, <2>4, <3>2, <3>3, NoneElse DEF FileOf
  <2>5. ASSUME new \in Handle, NEW t \in Content, dev' = [dev EXCEPT ![new] = UploadedObject(c, t)]
        PROVE  FileOf(new)' = t /\ OtherFiles(new)
    <3>1. PICK o : o = UploadedObject(c, t)
      OBVIOUS
    <3>2. o \in Object /\ o.data = t /\ ~o.isdir
      BY <3>1 DEF UploadedObject, Object, Locals
    <3>3. dev'[new] = o /\ \A g \in Handle : g # new => dev'[g] = dev[g]
      BY <2>5, <3>1
    <3> QED BY <3>2, <3>3, NoneAssumption DEF FileOf, OtherFiles
  <2>6. CASE Return(c) /\ ~UNCHANGED phone
    <3>1. PICK n \in 0..Len(tmp[i]) :
            new \in Handle /\ dev' = [dev EXCEPT ![new] = UploadedObject(c, Prefix(tmp[i], n))]
      <4>1. CASE \E n \in 0..Len(tmp[i]) :
                   new \in Handle /\ dev' = [dev EXCEPT ![new] = UploadedObject(c, Prefix(tmp[i], n))]
        BY <4>1
      <4>2. CASE new \in Handle /\ dev' = [dev EXCEPT ![new] = UploadedObject(c, tmp[i])]
        <5>1. Len(tmp[i]) \in 0..Len(tmp[i]) /\ Prefix(tmp[i], Len(tmp[i])) = tmp[i]
          BY <1>3, <2>1, <2>2, ContentSeq DEF Prefix
        <5> QED BY <4>2, <5>1
      <4> QED BY <1>8, <2>2, <2>6, <4>1, <4>2 DEF FlushUpload
    <3>2. Prefix(tmp[i], n) \in Content
      BY <1>3, <2>1, <2>2, PrefixType
    <3>3. FileOf(new)' = Prefix(tmp[i], n) /\ OtherFiles(new)
      BY <2>5, <3>1, <3>2
    <3>4. SameDrafts
      BY <1>5, <2>1, <2>6 DEF Between
    <3>5. DraftOf(i) # None /\ DraftOf(i).dirty /\ DraftOf(i).data = tmp[i]
      BY <1>6, <2>1, <2>2
    <3>6. FileOf(new)' = [j \in 1..n |-> DraftOf(i).data[j]]
      BY <3>3, <3>5 DEF Prefix
    <3> HIDE TypeFacts, PcAfter
    <3> QED BY <2>4, <3>1, <3>3, <3>4, <3>5, <3>6, MapLitter
  <2>7. CASE /\ new \in Handle /\ dev' = [dev EXCEPT ![new] = UploadedObject(c, tmp[i])]
             /\ conn' = [conn EXCEPT ![c].pc = "flushed", ![c].h = new]
    <3>1. conn'[c].pc = "flushed" /\ conn'[c].id = i /\ conn'[c].h = new
      BY <2>2, <2>7 DEF ConnTypes, Locals
    <3>2. staged' = staged /\ tmp' = tmp /\ staged[i] # None
      BY <1>3, <2>1, <2>2
    <3>3. FileOf(new)' = tmp[i] /\ OtherFiles(new)
      BY <1>3, <2>1, <2>2, <2>5, <2>7
    <3>4. DraftOf(i) # None /\ DraftOf(i).dirty /\ DraftOf(i).data = tmp[i]
      BY <1>6, <2>1, <2>2
    <3> HIDE TypeFacts, PcAfter
    <3>5. DraftOf(i)' = [data |-> tmp[i], dirty |-> FALSE, of |-> new]
      BY <3>1, <3>2, DraftIsNext
    <3>6. OtherDrafts(i)
      BY <2>1, <3>1, <3>2, DraftKept DEF OtherDrafts
    <3> QED BY <2>4, <2>7, <3>3, <3>4, <3>5, <3>6, MapPublish
  <2> QED BY <1>8, <2>2, <2>3, <2>6, <2>7 DEF FlushUpload
<1>9. CASE FlushDone(c)
  <2>1. k.pc = "flushed" /\ dev' = dev /\ tmp' = tmp /\ conn'[c].pc = "idle" /\ k.h \in Handle
    BY <1>9 DEF FlushDone, phone, ConnOK, HasHandle
  <2>2. PICK i \in Id : i = k.id /\ staged[i] # None
    BY <1>3, <2>1
  <2>3. PICK e : e = [staged[i] EXCEPT !.origin = 0, !.flushed = k.h, !.dirty = FALSE, !.size = k.size]
    BY Zenon
  <2>4. staged' = [staged EXCEPT ![i] = e]
    BY <1>9, <2>2, <2>3 DEF FlushDone
  <2>5. e \in Stage /\ e.dirty = FALSE /\ e.flushed = k.h
    <3>1. staged[i] \in Stage /\ k.size \in 0..MaxSize
      BY <2>2 DEF Locals
    <3>2. e \in Stage
      BY Zenon, <2>1, <2>3, <3>1, FlushedStage
    <3> HIDE TypeFacts, PcAfter
    <3> QED BY <2>3, <3>1, <3>2 DEF Stage
  <2>6. e # None /\ CurrentDev(e) = k.h
    BY <2>1, <2>5, NoneAssumption DEF CurrentDev, Handle
  <2>7. staged'[i] = e /\ \A j \in Id : j # i => staged'[j] = staged[j]
    BY <2>4
  <2> HIDE TypeFacts, PcAfter
  <2>8. DraftOf(i) = [data |-> tmp[i], dirty |-> FALSE, of |-> k.h]
    BY <2>1, <2>2, DraftIs
  <2>9. DraftOf(i)' = Plain(e, tmp[i])
    BY <2>1, <2>6, <2>7, DraftIsNext
  <2>10. Plain(e, tmp[i]) = [data |-> tmp[i], dirty |-> FALSE, of |-> k.h]
    BY <2>5, <2>6 DEF Plain
  <2>11. ASSUME NEW j \in Id, j # i PROVE DraftOf(j)' = DraftOf(j)
    BY <2>1, <2>2, <2>7, <2>11, DraftKept DEF Between
  <2>12. SameFiles /\ SameDrafts
    BY <2>1, <2>8, <2>9, <2>10, <2>11 DEF SameFiles, SameDrafts, FileOf
  <2> QED BY Zenon, <2>12, MapStutter
<1> QED BY <1>2, <1>7, <1>8, <1>9

\* REMOVE.
LEMMA MapRemoval ==
  ASSUME TypeInv, OneByOne, Bound, KeepsFiles, NEW c \in Connections,
         RemoveCall(c) \/ RemoveDelete(c) \/ RemoveDrop(c)
  PROVE  Mapped
<1> USE TypeFacts, PcAfter
<1> DEFINE k == conn[c]
<1>1. StageInv /\ Knows(k) /\ \A j : ~At("resync", j)
  <2>1. k.pc # "resync"
    BY Zenon DEF RemoveCall, RemoveDelete, RemoveDrop, Request
  <2> QED BY <2>1, OnlyOne DEF Bound
<1>2. ASSUME NEW i \in Id, Staged(i)
      PROVE  /\ Plain(staged[i], tmp[i]) # None
             /\ Plain(staged[i], tmp[i]).of = CurrentDev(staged[i])
  <2>1. Plain(staged[i], tmp[i]) # None
    BY <1>1, <1>2, PlainType DEF StageInv, Sound, Staged
  <2> QED BY <2>1 DEF Plain
<1>3. CASE RemoveCall(c)
  <2>1. k.pc = "idle" /\ UNCHANGED <<dev, staged, tmp>>
    BY Zenon, <1>3 DEF RemoveCall, Request, phone, local
  <2>2. CASE conn'[c].pc \notin Between
    BY <2>1, <2>2, QuietStep DEF Between
  <2>3. CASE conn'[c].pc \in Between
    <3>1. conn'[c].pc = "rmdrop"
      BY <1>3, <2>3, RemoveLeads DEF Between
    <3>2. PICK d \in Dirs, n \in Names : \E id \in LookupIds(d, n) :
            LET viaStage == id \in StagedAs(d, n)
                h == IF viaStage THEN CurrentDev(staged[id]) ELSE DeviceHandleOf(id) IN
            /\ viaStage \/ h # 0
            /\ conn' = [conn EXCEPT ![c] = [Idle EXCEPT
                 !.id = id, !.h = h, !.op = IF viaStage THEN "unlink" ELSE "none",
                 !.pc = IF h = 0 THEN "rmdrop" ELSE "rmdelete"]]
      BY Zenon, <1>3 DEF RemoveCall
    <3>a. PICK id \in LookupIds(d, n) :
            LET viaStage == id \in StagedAs(d, n)
                h == IF viaStage THEN CurrentDev(staged[id]) ELSE DeviceHandleOf(id) IN
            /\ viaStage \/ h # 0
            /\ conn' = [conn EXCEPT ![c] = [Idle EXCEPT
                 !.id = id, !.h = h, !.op = IF viaStage THEN "unlink" ELSE "none",
                 !.pc = IF h = 0 THEN "rmdrop" ELSE "rmdelete"]]
      BY Zenon, <3>2
    <3>3. PICK h : h = IF id \in StagedAs(d, n) THEN CurrentDev(staged[id]) ELSE DeviceHandleOf(id)
      OBVIOUS
    <3>4. conn'[c].id = id /\ conn'[c].pc = IF h = 0 THEN "rmdrop" ELSE "rmdelete"
      BY <3>a, <3>3, IdleType DEF ConnTypes, Locals
    <3>5. h = 0 /\ id \in StagedAs(d, n)
      BY <3>1, <3>a, <3>3, <3>4
    <3>6. id \in Id /\ Staged(id) /\ CurrentDev(staged[id]) = 0
      BY <3>3, <3>5 DEF StagedAs, Staged
    <3>7. DraftOf(id) = Plain(staged[id], tmp[id])
      BY <2>1, <3>6, DraftIs DEF Staged
    <3>8. DraftOf(id)' = None
      BY <3>1, <3>4, <3>6, DraftIsNext
    <3>9. OtherDrafts(id)
      BY <2>1, <3>4, DraftKept DEF OtherDrafts, Between
    <3>10. \A g \in Handle : FileOf(g)' = IF g = 0 THEN None ELSE FileOf(g)
      BY <2>1, ConstantsAssumption DEF FileOf, Handle
    <3> HIDE TypeFacts, PcAfter
    <3> QED BY <1>2, <3>6, <3>7, <3>8, <3>9, <3>10, MapRemove
  <2> QED BY <2>2, <2>3
<1>4. CASE RemoveDelete(c)
  <2>1. k.pc = "rmdelete" /\ UNCHANGED <<staged, tmp>> /\ Removing(k) /\ k.h \in Handle /\ k.id \in Id
    BY <1>1, <1>4 DEF RemoveDelete, local, Knows, ConnOK, HasHandle, HasId
  <2>2. CASE Return(c) /\ UNCHANGED dev
    BY <2>1, <2>2, QuietStep DEF Between
  <2>3. CASE dev[k.h] # None /\ dev' = [dev EXCEPT ![k.h] = None] /\ Goto(c, "rmdrop")
    <3>1. PICK h \in Handle, i \in Id : h = k.h /\ i = k.id
      BY <2>1
    <3>2. conn'[c].pc = "rmdrop" /\ conn'[c].id = i
      BY <2>3, <3>1, GotoKeeps
    <3>3. dev[h] # None /\ dev'[h] = None /\ \A g \in Handle : g # h => dev'[g] = dev[g]
      BY <2>3, <3>1
    <3>4. DraftOf(i)' = None
      BY <3>2, DraftIsNext
    <3>5. OtherDrafts(i)
      BY <2>1, <3>2, DraftKept DEF OtherDrafts, Between
    <3>6. FileOf(h)' = None /\ OtherFiles(h)
      BY <3>3 DEF FileOf, OtherFiles
    <3>7. ~dev[h].isdir => FileOf(h) # None
      <4>1. dev[h].data \in Content
        BY <3>3 DEF Object
      <4> QED BY <3>3, <4>1, NoneAssumption DEF FileOf
    <3>8. CASE k.op = "unlink" /\ Staged(k.id) /\ k.h = CurrentDev(staged[k.id])
      <4>1. NoDirectory(h) /\ h # 0
        BY <3>1, <3>8, ConstantsAssumption DEF KeepsFiles, CurrentDev, Staged, Handle
      <4>2. FileOf(h) # None
        BY <3>3, <3>7, <4>1 DEF NoDirectory
      <4>3. DraftOf(i) = Plain(staged[i], tmp[i])
        BY <2>1, <3>1, <3>8, DraftIs DEF Staged
      <4>4. DraftOf(i) # None /\ DraftOf(i).of = h
        BY <1>2, <3>1, <3>8, <4>3
      <4>5. \A g \in Handle : FileOf(g)' = IF g = h THEN None ELSE FileOf(g)
        BY <3>6 DEF OtherFiles
      <4> HIDE TypeFacts, PcAfter
      <4> QED BY <3>4, <3>5, <4>2, <4>4, <4>5, MapRemove
    <3>9. CASE k.op = "none" /\ k.id = k.h /\ Openable(k.h)
      <4>1. ~Staged(h) /\ \A j \in Id : Staged(j) => ~Owns(j, staged[j], h)
        BY <1>1, <3>1, <3>9, OpenableFree
      <4>2. DraftOf(i) = None
        BY <3>1, <3>9, <4>1, DraftIs DEF Staged
      <4>3. SameDrafts
        BY <3>4, <3>5, <4>2 DEF SameDrafts, OtherDrafts
      <4>4. CASE FileOf(h) = None
        <5>1. SameFiles
          BY <3>6, <4>4 DEF SameFiles, OtherFiles
        <5> QED BY <4>3, <5>1, MapStutter
      <4>5. CASE FileOf(h) # None
        <5>1. \A j \in Id : j # i /\ DraftOf(j) # None => DraftOf(j).of # h
          <6> HIDE TypeFacts, PcAfter
          <6>1. k.pc \notin Between
            BY <2>1 DEF Between
          <6> QED BY <4>1, <6>1, NoneElse
        <5>2. \A j \in Id : DraftOf(j) # None => DraftOf(j).of # h
          BY <4>2, <5>1
        <5> QED BY <3>6, <4>3, <4>5, <5>2, MapDelete
      <4> QED BY <4>4, <4>5
    <3> QED BY <2>1, <3>8, <3>9 DEF Removing
  <2> QED BY <1>4, <2>2, <2>3 DEF RemoveDelete
<1>5. CASE RemoveDrop(c)
  <2>1. PICK i \in Id : i = k.id
    BY <1>5 DEF RemoveDrop, ConnOK, HasId
  <2>2. /\ k.pc = "rmdrop" /\ conn'[c].pc = "idle" /\ dev' = dev /\ staged'[i] = None
        /\ \A j \in Id : j # i => staged'[j] = staged[j] /\ tmp'[j] = tmp[j]
    BY <1>5, <2>1 DEF RemoveDrop, phone
  <2>3. DraftOf(i) = None /\ DraftOf(i)' = None
    BY <2>1, <2>2, DraftIs, DraftIsNext
  <2>4. OtherDrafts(i)
    BY <2>1, <2>2, DraftKept DEF OtherDrafts, Between
  <2>5. SameFiles /\ SameDrafts
    BY <2>2, <2>3, <2>4 DEF SameFiles, SameDrafts, OtherDrafts, FileOf
  <2> QED BY <2>5, MapStutter
<1> QED BY <1>3, <1>4, <1>5

\* A stage gets another name: its draft shows none.
LEMMA MapRelabel ==
  ASSUME TypeInv, OneByOne, NEW c \in Connections, conn[c].pc \notin Between, conn'[c].pc \notin Between,
         NEW i \in Id, staged[i] # None, NEW d \in Dirs, NEW n \in Names,
         staged' = [staged EXCEPT ![i].dir = d, ![i].name = n], UNCHANGED <<dev, tmp>>
  PROVE  Mapped
<1>1. PICK e : e = [staged[i] EXCEPT !.dir = d, !.name = n]
  OBVIOUS
<1>2. e \in Stage /\ e.dirty = staged[i].dirty /\ CurrentDev(e) = CurrentDev(staged[i])
  BY <1>1 DEF Stage, CurrentDev, TypeInv, TypeOK
<1>3. staged' = [staged EXCEPT ![i] = e] /\ e # None
  BY <1>1, <1>2, NoneAssumption
<1>4. staged'[i] = e /\ \A j \in Id : j # i => staged'[j] = staged[j]
  BY <1>3 DEF TypeInv, TypeOK
<1>5. DraftOf(i) = Plain(staged[i], tmp[i])
  BY DraftIs DEF Between
<1>6. DraftOf(i)' = Plain(e, tmp[i])
  BY <1>3, <1>4, DraftIsNext DEF Between
<1>7. DraftOf(i)' = DraftOf(i)
  BY <1>2, <1>5, <1>6 DEF Plain
<1>8. OtherDrafts(i)
  BY Zenon, <1>4, DraftKept DEF OtherDrafts
<1>9. SameFiles /\ SameDrafts
  BY <1>7, <1>8 DEF SameFiles, SameDrafts, OtherDrafts, FileOf
<1> QED BY <1>9, MapStutter

\* RENAME and MKDIR.
LEMMA MapRename ==
  ASSUME TypeInv, OneByOne, Bound, NEW c \in Connections,
         RenameCall(c) \/ RenameLookup(c) \/ HRename(c) \/ RenameResync(c) \/ MkdirCall(c)
  PROVE  Mapped
<1> USE TypeFacts, PcAfter
<1> DEFINE k == conn[c]
<1>1. conn[c].pc \notin Between
  BY Zenon DEF RenameCall, RenameLookup, HRename, RenameResync, MkdirCall, Request, Between
<1>2. conn'[c].pc \notin Between
  <2>1. ~(PullOpen(c) \/ PullRead(c) \/ FlushDelete(c) \/ FlushUpload(c) \/ RemoveDelete(c))
    BY Zenon DEF RenameCall, RenameLookup, HRename, RenameResync, MkdirCall, Request, PullOpen,
       PullRead, FlushDelete, FlushUpload, RemoveDelete
  <2>2. CASE RenameCall(c)
    <3>1. ASSUME NEW d \in Dirs, NEW n \in Names, NEW td \in Dirs, NEW tn \in Names,
                 conn' = [conn EXCEPT ![c] = [Idle EXCEPT !.pc = "rnlookup", !.dir = d, !.name = n,
                                                      !.toDir = td, !.toName = tn]]
          PROVE  conn'[c].pc \notin Between
      BY <3>1, IdleType DEF ConnTypes, Locals, Between
    <3>2. UNCHANGED conn => conn'[c].pc \notin Between
      BY <1>1
    <3> QED BY ZenonT(40), <2>2, <3>1, <3>2 DEF RenameCall
  <2>3. CASE RenameLookup(c)
    <3>1. ASSUME NEW i, conn' = [conn EXCEPT ![c].pc = "hrename", ![c].id = i]
          PROVE  conn'[c].pc \notin Between
      BY <3>1 DEF ConnTypes, Locals, Between
    <3>2. Return(c) => conn'[c].pc \notin Between
      BY DEF Between
    <3> QED BY <2>3, <3>1, <3>2 DEF RenameLookup
  <2>4. CASE HRename(c) \/ RenameResync(c) \/ MkdirCall(c)
    BY <1>1, <2>4 DEF HRename, RenameResync, MkdirCall, Between
  <2> QED BY Zenon, <2>2, <2>3, <2>4
<1>3. ASSUME UNCHANGED <<staged, tmp>> PROVE SameDrafts
  BY <1>1, <1>2, <1>3, DraftsKept DEF SameDrafts
<1>4. CASE UNCHANGED <<dev, staged, tmp>>
  BY <1>1, <1>2, <1>4, QuietStep
<1>5. CASE RenameCall(c) /\ ~UNCHANGED staged
  <2>1. PICK d \in Dirs, n \in Names, td \in Dirs, tn \in Names :
          \/ \E id \in StagedAs(d, n) :
               /\ CurrentDev(staged[id]) = 0
               /\ staged' = [staged EXCEPT ![id].dir = td, ![id].name = tn]
               /\ UNCHANGED conn
          \/ UNCHANGED staged
    <3> HIDE TypeFacts, PcAfter
    <3> QED BY Zenon, <1>5 DEF RenameCall
  <2>2. PICK i \in Id : /\ staged[i] # None
                        /\ staged' = [staged EXCEPT ![i].dir = td, ![i].name = tn]
    BY <1>5, <2>1 DEF StagedAs
  <2>3. UNCHANGED <<dev, tmp>>
    BY Zenon, <1>5 DEF RenameCall, phone
  <2> HIDE TypeFacts, PcAfter
  <2> QED BY <1>1, <1>2, <2>2, <2>3, MapRelabel
<1>6. CASE RenameResync(c) /\ ~UNCHANGED staged
  <2>1. PICK i \in Id, d \in Dirs, n \in Names : i = k.id /\ d = k.toDir /\ n = k.toName
    BY <1>6 DEF RenameResync, ConnOK, HasId, Locals
  <2>2. /\ staged[i] # None /\ UNCHANGED <<dev, tmp>>
        /\ staged' = [staged EXCEPT ![i].dir = d, ![i].name = n]
    BY <1>6, <2>1 DEF RenameResync, phone
  <2> HIDE TypeFacts, PcAfter
  <2> QED BY <1>1, <1>2, <2>2, MapRelabel
<1>7. CASE HRename(c) /\ ~UNCHANGED dev
  <2>a. PICK h \in Handle : \E e :
          /\ dev[h] # None /\ dev' = [dev EXCEPT ![h] = e]
          /\ \/ e = [dev[h] EXCEPT !.dir = k.toDir, !.name = k.toName]
             \/ e = [dev[h] EXCEPT !.dir = k.toDir]
    <3>1. CASE \E h \in Listed(k.dir, k.name) :
                 dev' = [dev EXCEPT ![h].dir = k.toDir, ![h].name = k.toName]
      BY ZenonT(40), <3>1 DEF Listed
    <3>2. CASE \E h \in Listed(k.dir, k.name) : dev' = [dev EXCEPT ![h].dir = k.toDir]
      BY Zenon, <3>2 DEF Listed
    <3> QED BY Zenon, <1>7, <3>1, <3>2 DEF HRename
  <2>1. PICK e :
          /\ dev[h] # None /\ dev' = [dev EXCEPT ![h] = e]
          /\ \/ e = [dev[h] EXCEPT !.dir = k.toDir, !.name = k.toName]
             \/ e = [dev[h] EXCEPT !.dir = k.toDir]
    BY Zenon, <2>a
  <2>2. e \in Object /\ e.isdir = dev[h].isdir /\ e.data = dev[h].data
    <3>1. dev[h] \in Object /\ k.toDir \in Dirs /\ k.toName \in Names
      BY <2>1 DEF Locals
    <3> HIDE TypeFacts, PcAfter
    <3> QED BY <2>1, <3>1 DEF Object
  <2>3. dev'[h] = e /\ e # None /\ \A g \in Handle : g # h => dev'[g] = dev[g]
    BY <2>1, <2>2, NoneAssumption
  <2>4. SameFiles
    BY <2>1, <2>2, <2>3 DEF SameFiles, FileOf
  <2>5. SameDrafts
    BY <1>3, <1>7 DEF HRename, local
  <2> QED BY Zenon, <2>4, <2>5, MapStutter
<1>8. CASE MkdirCall(c)
  <2>a. PICK new \in Handle : \E o :
          /\ new = lastHandle + 1 /\ dev' = [dev EXCEPT ![new] = o] /\ o.isdir
    <3>1. PICK d \in Dirs, n \in Names :
            dev' = [dev EXCEPT ![lastHandle + 1] = [dir |-> d, name |-> n, isdir |-> TRUE, data |-> <<>>]]
      BY <1>8 DEF MkdirCall
    <3>2. lastHandle + 1 \in Handle
      BY <1>8 DEF MkdirCall
    <3>3. PICK o : o = [dir |-> d, name |-> n, isdir |-> TRUE, data |-> <<>>]
      OBVIOUS
    <3>4. dev' = [dev EXCEPT ![lastHandle + 1] = o] /\ o.isdir
      BY <3>1, <3>3
    <3> HIDE TypeFacts, PcAfter
    <3> QED BY <3>2, <3>4
  <2>1. PICK o :
          /\ new = lastHandle + 1 /\ dev' = [dev EXCEPT ![new] = o] /\ o.isdir
    BY Zenon, <2>a
  <2>2. new > lastHandle
    BY <2>1
  <2>3. dev[new] = None
    BY <2>2 DEF Bound, StageInv
  <2>4. dev'[new] = o /\ \A g \in Handle : g # new => dev'[g] = dev[g]
    BY <2>1
  <2>5. SameFiles
    BY <2>1, <2>3, <2>4 DEF SameFiles, FileOf
  <2>6. SameDrafts
    BY <1>3, <1>8 DEF MkdirCall, local
  <2> QED BY <2>5, <2>6, MapStutter
<1> QED BY Zenon, <1>4, <1>5, <1>6, <1>7, <1>8
        DEF RenameCall, RenameLookup, HRename, RenameResync, phone, local

\* The session comes and goes; a restart is a crash.
LEMMA MapSession ==
  ASSUME TypeInv, OneByOne, Detach \/ Attach \/ Restart \/ UNCHANGED vars
  PROVE  Mapped
<1>1. CASE Detach \/ Attach \/ UNCHANGED vars
  <2>1. dev' = dev /\ staged' = staged /\ tmp' = tmp /\ conn' = conn
    BY <1>1 DEF Detach, Attach, OneByOne, vars, phone, local
  <2>2. SameFiles
    BY <2>1 DEF SameFiles, FileOf
  <2>3. SameDrafts
    BY <2>1 DEF SameDrafts, DraftOf, At, Uploaded, CurrentDev
  <2> QED BY <2>2, <2>3, MapStutter
<1>2. CASE Restart
  <2>1. SameFiles
    BY <1>2 DEF Restart, phone, SameFiles, FileOf
  <2>2. \A i \in Id : DraftOf(i)' = None
    BY <1>2 DEF Restart, DraftOf
  <2> QED BY <2>1, <2>2, MapCrash
<1> QED BY <1>1, <1>2

LEMMA MapInit == Init => Durable!FileInit
<1> SUFFICES ASSUME Init PROVE Durable!FileInit
  OBVIOUS
<1>1. ASSUME NEW h \in Handle PROVE FileOf(h) \in Content \cup {None}
  <2>1. dev[h] \in Object \cup {None}
    BY ConstantsAssumption DEF Init
  <2> QED BY <2>1 DEF FileOf, Object
<1>2. \A i \in Id : DraftOf(i) = None
  BY DEF Init, DraftOf
<1> QED BY <1>1, <1>2 DEF Durable!FileInit

LEMMA MapNext == OneByOne /\ TypeInv /\ Bound /\ KeepsFiles /\ [Next]_vars => Mapped
<1> SUFFICES ASSUME OneByOne, TypeInv, Bound, KeepsFiles, [Next]_vars PROVE Mapped
  OBVIOUS
<1>1. ASSUME NEW c \in Connections, Serve(c) PROVE Mapped
  BY <1>1, MapStaging, MapCommit, MapRemoval, MapRename DEF Serve
<1>2. CASE Detach \/ Attach \/ Restart \/ UNCHANGED vars
  BY <1>2, MapSession
<1> QED BY <1>1, <1>2 DEF Next, Quiet

\* Under OneByOne the write-back layer implements the abstract one: the client's
\* files are opened whole, published in one step and forgotten only when they
\* are removed or the daemon dies, though listings, reads, deletes, uploads and
\* their clean-up fail, object infos too if nothing is renamed, and the session
\* is lost at any time (flush_stage, ensure_staged_existing, remove).
THEOREM DurableImplemented ==
  ASSUME OneByOne
  PROVE  Spec => ImplementsDurable
<1>1. Init => TypeInv /\ Bound /\ KeepsFiles /\ Durable!FileInit
  BY TypeInit, BoundInit, KeepsFilesInit, MapInit
<1>2. TypeInv /\ Bound /\ KeepsFiles /\ [Next]_vars => TypeInv' /\ Bound' /\ KeepsFiles'
  BY TypeStep, BoundStep, KeepsFilesStep DEF OneByOne
<1>3. TypeInv /\ Bound /\ KeepsFiles /\ [Next]_vars => [Durable!FileNext]_(Durable!fvars)
  BY MapNext DEF Mapped
<1> QED BY <1>1, <1>2, <1>3, PTL DEF Spec, ImplementsDurable, Durable!FileSpec

=============================================================================
