----------------------------- MODULE WriteBack -----------------------------
(***************************************************************************)
(* The write-back core of the NFS adapter (crates/nfs-mount/adapter.rs).   *)
(*                                                                         *)
(* MTP objects cannot be changed in place, so the adapter keeps a local    *)
(* stage for every file opened for writing, applies WRITE and SETATTR to   *)
(* it, and replays it on COMMIT as "delete the old object, upload the new  *)
(* one".  Every NFS connection is served by its own worker, one request at *)
(* a time; the requests of different connections interleave at every await *)
(* and at every acquisition of the stage map's lock.  One action below is  *)
(* the code between two such points.                                       *)
(*                                                                         *)
(* A request that is refused without changing anything (a read-only        *)
(* export, an unknown name, an error reply) leaves the state as it is; it  *)
(* has an action of its own only where the request was already under way.  *)
(***************************************************************************)
EXTENDS Integers, Sequences, FiniteSets

CONSTANTS
  Connections,   \* NFS TCP connections, each with its own worker task
  Dirs,          \* directories of the phone that the client works in
  Names,         \* leaf names, taken up to names_eq_ci
  StorageOf,     \* the storage a directory lies on
  Byte,          \* a block's content; 0 is what a hole reads as
  MaxSize,       \* bound on a file's length, in blocks
  MaxHandle,     \* bound on the object handles the phone gives out
  MaxVirt,       \* bound on virt_seq
  Calls,         \* the NFS procedures the client uses
  Faults,        \* the calls to the phone that may fail
  AcceptsDuplicates, \* whether the phone takes a second object of one name
  Phone0, Last0, \* what is on the phone at the start, and its last handle
  None

Handle  == 1..MaxHandle
Content == UNION {[1..n -> Byte] : n \in 0..MaxSize}

\* An object of the phone.
Object == [dir : Dirs, name : Names, isdir : BOOLEAN, data : Content]

\* NFS file ids: REAL_FLAG | handle is the handle, VIRT_FLAG | seq is -seq.
Id == Handle \cup {-n : n \in 1..MaxVirt}

\* struct Stage; 0 stands for an absent origin_dev or flushed_dev.
Stage == [dir : Dirs, name : Names, size : 0..MaxSize,
          origin : 0..MaxHandle, flushed : 0..MaxHandle, dirty : BOOLEAN]

ASSUME ConstantsAssumption ==
  /\ Dirs # {} /\ Names # {} /\ Connections # {}
  /\ 0 \in Byte
  /\ MaxSize \in Nat /\ MaxHandle \in Nat /\ MaxVirt \in Nat
  /\ AcceptsDuplicates \in BOOLEAN
  /\ Phone0 \in [Handle -> Object \cup {None}]
  /\ Last0 \in 0..MaxHandle
  /\ \A h \in Handle : h > Last0 => Phone0[h] = None

ASSUME NoneAssumption ==
  /\ None \notin Content
  /\ None \notin Object
  /\ None \notin Stage

VARIABLES
  writable,    \* Inner::writable, fixed when the export starts
  sess,        \* whether a device session is installed
  dev,         \* the phone: handle -> object
  lastHandle,  \* the last handle the phone gave out
  staged,      \* Inner::staged: id -> Stage
  tmp,         \* the staging directory: id -> content of stage-<id>.bin
  virtSeq,     \* Inner::virt_seq
  conn         \* per connection: the request being served and its locals

vars == <<writable, sess, dev, lastHandle, staged, tmp, virtSeq, conn>>

phone == <<dev, lastHandle>>
local == <<staged, tmp, virtSeq>>

Pc == {"idle", "stage", "info", "pull", "read", "insert", "apply",
       "probe", "stagenew", "lookup", "snapshot", "delete", "upload", "flushed",
       "rmdelete", "rmdrop", "rnlookup", "hrename", "resync"}

\* The locals of a handler: which request it serves (op), the file id, the
\* names it was given or read, and a size and a handle it took a copy of.
Locals == [pc : Pc, op : {"none", "write", "setattr", "create", "unlink"},
           id : Id \cup {0}, dir : Dirs, name : Names,
           toDir : Dirs, toName : Names, size : 0..MaxSize, h : 0..MaxHandle]

Idle == [pc |-> "idle", op |-> "none", id |-> 0,
         dir |-> CHOOSE d \in Dirs : TRUE, name |-> CHOOSE n \in Names : TRUE,
         toDir |-> CHOOSE d \in Dirs : TRUE, toName |-> CHOOSE n \in Names : TRUE,
         size |-> 0, h |-> 0]

TypeOK ==
  /\ writable \in BOOLEAN
  /\ sess \in BOOLEAN
  /\ dev \in [Handle -> Object \cup {None}]
  /\ lastHandle \in 0..MaxHandle
  /\ staged \in [Id -> Stage \cup {None}]
  /\ tmp \in [Id -> Content \cup {None}]
  /\ virtSeq \in 0..MaxVirt
  /\ conn \in [Connections -> Locals]

-----------------------------------------------------------------------------
(* Operators the handlers share. *)

\* Mutant: only the original object is remembered.
CurrentDev_OriginOnly(s) == s.origin

\* s.flushed_dev.or(s.origin_dev): the object the stage replaces.
CurrentDev(s) == IF s.flushed # 0 THEN s.flushed ELSE s.origin

\* device_handle_of: the object an id stands for, 0 when there is none.  A
\* staged id has one only once it was flushed.
DeviceHandleOf(id) ==
  IF staged[id] # None THEN staged[id].flushed
  ELSE IF id > 0 THEN id ELSE 0

\* staged_lookup: the ids it may return (the map has no order).
StagedAs(d, n) ==
  {id \in Id : staged[id] # None /\ staged[id].dir = d /\ staged[id].name = n}

\* The objects a device listing of d shows under the name n.
Listed(d, n) ==
  {h \in Handle : dev[h] # None /\ dev[h].dir = d /\ dev[h].name = n}

\* What lookup(dirid, name) may return: staged names first, then the listing.
\* Without a session the listing is an error and nothing is found.
LookupIds(d, n) ==
  IF StagedAs(d, n) # {} THEN StagedAs(d, n)
  ELSE IF sess THEN Listed(d, n) ELSE {}

\* A lookup that may miss a name: nothing is there, or the listing failed.
LookupMayFail(d, n) ==
  StagedAs(d, n) = {} /\ (~sess \/ Listed(d, n) = {} \/ "list" \in Faults)

\* The file ids a client can use: those of stages, which it was given when it
\* created or opened the file, and those of objects.  LOOKUP answers with an
\* object's id only while no stage has the name; READDIR(PLUS) shows a flushed
\* file under its object's id, whatever stages there are.  An id whose object
\* and stage are both gone is answered with an error and is left out.
ClientIds ==
  {id \in Id : staged[id] # None} \cup
  {h \in Handle : /\ dev[h] # None
                  /\ "readdir" \in Calls \/ StagedAs(dev[h].dir, dev[h].name) = {}}

\* Whether the phone would take a new object of this name.
NameFree(d, n) == AcceptsDuplicates \/ Listed(d, n) = {}

\* pwrite of one block at offset off (0-based), holes reading as 0.
PWrite(data, off, b) ==
  [i \in 1..(IF off + 1 > Len(data) THEN off + 1 ELSE Len(data)) |->
     IF i = off + 1 THEN b ELSE IF i <= Len(data) THEN data[i] ELSE 0]

\* ftruncate to n blocks.
SetLen(data, n) == [i \in 1..n |-> IF i <= Len(data) THEN data[i] ELSE 0]

\* The first n blocks.
Prefix(data, n) == [i \in 1..n |-> data[i]]

\* data written at the start of a file that holds old.
Overlay(old, data) ==
  [i \in 1..(IF Len(data) > Len(old) THEN Len(data) ELSE Len(old)) |->
     IF i <= Len(data) THEN data[i] ELSE old[i]]

Goto(c, pc) == conn' = [conn EXCEPT ![c].pc = pc]

\* The handler returns, with a result or with an error.
Return(c) == conn' = [conn EXCEPT ![c] = Idle]

\* The bound on the phone's handles: a request that may need one arrives only
\* while one is left for it.
HandlesLeft ==
  lastHandle + Cardinality({c \in Connections : conn[c].pc \in {"snapshot", "delete", "upload"}})
    < MaxHandle

\* The server calls the adapter for a request of an idle connection.  Every
\* procedure checks for itself whether the export is writable; that the server
\* asks capabilities() before all of them but COMMIT is left out.
Request(c, call) == call \in Calls /\ conn[c].pc = "idle"

-----------------------------------------------------------------------------
Init ==
  /\ writable \in BOOLEAN
  /\ sess = TRUE
  /\ dev = Phone0
  /\ lastHandle = Last0
  /\ staged = [id \in Id |-> None]
  /\ tmp = [id \in Id |-> None]
  /\ virtSeq = 0
  /\ conn = [c \in Connections |-> Idle]

-----------------------------------------------------------------------------
(* WRITE and SETATTR(size): stage the file, then change the stage. *)

WriteCall(c) ==
  /\ Request(c, "write") /\ writable
  /\ \E id \in ClientIds :
       conn' = [conn EXCEPT ![c] = [Idle EXCEPT !.pc = "stage", !.op = "write", !.id = id]]
  /\ UNCHANGED <<writable, sess, phone, local>>

SetattrCall(c) ==
  /\ Request(c, "setattr") /\ writable
  /\ \E id \in ClientIds :
       conn' = [conn EXCEPT ![c] = [Idle EXCEPT !.pc = "stage", !.op = "setattr", !.id = id]]
  /\ UNCHANGED <<writable, sess, phone, local>>

\* stage_for_writes: the id is staged already, or is a real object to be
\* pulled, or is unknown.  It checks once more whether the export is writable.
StageForWrites(c) ==
  LET id == conn[c].id IN
  /\ conn[c].pc = "stage"
  /\ \/ writable /\ staged[id] # None /\ Goto(c, "apply")
     \/ /\ writable /\ staged[id] = None /\ id > 0
        /\ conn' = [conn EXCEPT ![c].pc = "info", ![c].h = id]
     \/ (~writable \/ (staged[id] = None /\ id < 0)) /\ Return(c)
  /\ UNCHANGED <<writable, sess, phone, local>>

\* Mutant: a directory is staged like a file.
ObjectInfo_NoKindCheck(c) ==
  LET o == dev[conn[c].h] IN
  /\ conn[c].pc = "info"
  /\ IF sess /\ o # None
     THEN conn' = [conn EXCEPT ![c].pc = "pull", ![c].name = o.name, ![c].dir = o.dir,
                               ![c].size = Len(o.data)]
     ELSE Return(c)
  /\ UNCHANGED <<writable, sess, phone, local>>

\* hinfo of the object to be staged; a directory is refused.
ObjectInfo(c) ==
  LET h == conn[c].h
      o == dev[h] IN
  /\ conn[c].pc = "info"
  /\ \/ /\ sess /\ o # None /\ ~o.isdir
        /\ conn' = [conn EXCEPT ![c].pc = "pull", ![c].name = o.name,
                                ![c].dir = IF conn[c].op = "create" THEN @ ELSE o.dir,
                                ![c].size = Len(o.data)]
     \/ (sess /\ o # None => o.isdir \/ "info" \in Faults) /\ Return(c)
  /\ UNCHANGED <<writable, sess, phone, local>>

\* Staging is complete: WRITE and SETATTR go on to change the stage, CREATE
\* returns the id, or applies an explicit size (O_TRUNC) as a SETATTR first.
StageReady(c, id) ==
  \/ conn[c].op # "create" /\ Goto(c, "apply") 
  \/ conn[c].op = "create" /\ Return(c)
  \/ /\ conn[c].op = "create"
     /\ conn' = [conn EXCEPT ![c].pc = "stage", ![c].op = "setattr", ![c].id = id]
     

\* ensure_staged_existing, first part: someone staged it meanwhile, or the
\* stage file is created, which empties one that is already there.
PullOpen(c) ==
  LET id == conn[c].id IN
  /\ conn[c].pc = "pull"
  /\ \/ staged[id] # None /\ StageReady(c, id) /\ UNCHANGED tmp
     \/ /\ staged[id] = None
        /\ tmp' = [tmp EXCEPT ![id] = <<>>]
        /\ Goto(c, "read") 
  /\ UNCHANGED <<writable, sess, phone, staged, virtSeq>>

\* The ranged reads that copy the object into the stage file, unless a REMOVE
\* on another connection has unlinked it.  The device may end early, or fail
\* and leave what was written so far.
PullRead(c) ==
  LET id == conn[c].id
      o  == dev[conn[c].h] IN
  /\ conn[c].pc = "read"
  /\ \/ /\ sess /\ o # None
        /\ \E n \in 0..conn[c].size :
             /\ n <= Len(o.data)
             /\ n = conn[c].size \/ n = Len(o.data) \/ "short" \in Faults
             /\ tmp' = [tmp EXCEPT ![id] = IF @ = None THEN None
                                           ELSE Overlay(@, Prefix(o.data, n))]
        /\ Goto(c, "insert")
     \/ /\ ~sess \/ o = None \/ "read" \in Faults
        /\ Return(c) /\ UNCHANGED tmp
  /\ UNCHANGED <<writable, sess, phone, staged, virtSeq>>

\* Mutant: a short read is recorded with the size the device announced.
PullInsert_NoLengthCheck(c) ==
  LET id == conn[c].id IN
  /\ conn[c].pc = "insert"
  /\ staged' = [staged EXCEPT ![id] =
       [dir |-> conn[c].dir, name |-> conn[c].name, size |-> conn[c].size,
        origin |-> conn[c].h, flushed |-> 0, dirty |-> FALSE]]
  /\ StageReady(c, id)
  /\ UNCHANGED <<writable, sess, phone, tmp, virtSeq>>

\* The length check, and the insertion that makes the file staged.
PullInsert(c) ==
  LET id == conn[c].id IN
  /\ conn[c].pc = "insert"
  /\ \/ /\ tmp[id] # None /\ Len(tmp[id]) = conn[c].size
        /\ staged' = [staged EXCEPT ![id] =
             [dir |-> conn[c].dir, name |-> conn[c].name, size |-> conn[c].size,
              origin |-> conn[c].h, flushed |-> 0, dirty |-> FALSE]]
        /\ StageReady(c, id) /\ UNCHANGED tmp
     \/ /\ tmp[id] # None => Len(tmp[id]) # conn[c].size
        /\ tmp' = [tmp EXCEPT ![id] = None]
        /\ Return(c) /\ UNCHANGED <<staged>>
  /\ UNCHANGED <<writable, sess, phone, virtSeq>>

\* The effect of WRITE: the block is written, the size grows to cover it.
ApplyWrite(c) ==
  LET id == conn[c].id IN
  /\ conn[c].pc = "apply" /\ conn[c].op = "write"
  /\ \/ /\ staged[id] # None
        /\ \E off \in 0..(MaxSize - 1), b \in Byte :
             /\ tmp' = [tmp EXCEPT ![id] =
                          PWrite(IF tmp[id] = None THEN <<>> ELSE tmp[id], off, b)]
             /\ staged' = [staged EXCEPT
                  ![id].size = IF off + 1 > @ THEN off + 1 ELSE @, ![id].dirty = TRUE]
     \/ staged[id] = None /\ UNCHANGED <<tmp, staged>>
  /\ Return(c)
  /\ UNCHANGED <<writable, sess, phone, virtSeq>>

\* Mutant: the recorded size is one block too long.
ApplySetattr_OffByOne(c) ==
  LET id == conn[c].id IN
  /\ conn[c].pc = "apply" /\ conn[c].op = "setattr"
  /\ staged[id] # None /\ tmp[id] # None
  /\ \E n \in 0..MaxSize :
       /\ tmp' = [tmp EXCEPT ![id] = SetLen(tmp[id], n)]
       /\ staged' = [staged EXCEPT ![id].size = n + 1, ![id].dirty = TRUE]
  /\ Return(c)
  /\ UNCHANGED <<writable, sess, phone, virtSeq>>

\* The effect of SETATTR(size).
ApplySetattr(c) ==
  LET id == conn[c].id IN
  /\ conn[c].pc = "apply" /\ conn[c].op = "setattr"
  /\ \/ /\ staged[id] # None /\ tmp[id] # None
        /\ \E n \in 0..MaxSize :
             /\ tmp' = [tmp EXCEPT ![id] = SetLen(tmp[id], n)]
             /\ staged' = [staged EXCEPT ![id].size = n, ![id].dirty = TRUE]
        /\ Return(c)
     \/ (staged[id] = None \/ tmp[id] = None) /\ Return(c) /\ UNCHANGED <<tmp, staged>>
  /\ UNCHANGED <<writable, sess, phone, virtSeq>>

-----------------------------------------------------------------------------
(* CREATE. *)

CreateCall(c) ==
  /\ Request(c, "create")
  /\ \E d \in Dirs, n \in Names :
       conn' = [conn EXCEPT ![c] = [Idle EXCEPT !.pc = "stagenew", !.op = "create",
                                                !.dir = d, !.name = n]]
  /\ UNCHANGED <<writable, sess, phone, local>>

CreateExclusiveCall(c) ==
  /\ Request(c, "create_exclusive")
  /\ \E d \in Dirs, n \in Names :
       conn' = [conn EXCEPT ![c] = [Idle EXCEPT !.pc = "probe", !.op = "create",
                                                !.dir = d, !.name = n]]
  /\ UNCHANGED <<writable, sess, phone, local>>

\* create_exclusive: any name that lookup finds is NFS3ERR_EXIST; a lookup
\* that fails counts as "not there".
Probe(c) ==
  LET d == conn[c].dir
      n == conn[c].name IN
  /\ conn[c].pc = "probe"
  /\ \/ LookupIds(d, n) # {} /\ Return(c)
     \/ LookupMayFail(d, n) /\ Goto(c, "stagenew")
  /\ UNCHANGED <<writable, sess, phone, local>>

\* Mutant: stage_new does not look at writable.
StageNew_NoRofs(c) ==
  LET ids == StagedAs(conn[c].dir, conn[c].name) IN
  /\ conn[c].pc = "stagenew"
  /\ \/ \E id \in ids : StageReady(c, id)
     \/ ids = {} /\ Goto(c, "lookup")
  /\ UNCHANGED <<writable, sess, phone, local>>

\* stage_new, which both CREATEs call: reuse a stage of that name, otherwise
\* ask the device.
StageNew(c) ==
  LET ids == StagedAs(conn[c].dir, conn[c].name) IN
  /\ conn[c].pc = "stagenew"
  /\ \/ writable /\ \E id \in ids : StageReady(c, id)
     \/ writable /\ ids = {} /\ Goto(c, "lookup")
     \/ ~writable /\ Return(c)
  /\ UNCHANGED <<writable, sess, phone, local>>

\* stage_new, second part.  A name the lookup resolves to an object is staged
\* with the object's content; in every other case, a failed lookup included,
\* the file counts as brand-new and gets an empty stage and a virtual id.
LookupOrNew(c) ==
  LET d  == conn[c].dir
      n  == conn[c].name
      id == -(virtSeq + 1) IN
  /\ conn[c].pc = "lookup"
  /\ \/ /\ \E i \in LookupIds(d, n) :
             /\ DeviceHandleOf(i) # 0
             /\ conn' = [conn EXCEPT ![c].pc = "info", ![c].id = i, ![c].h = DeviceHandleOf(i)]
        /\ UNCHANGED <<local>>
     \/ /\ \/ LookupMayFail(d, n)
           \/ \E i \in LookupIds(d, n) : DeviceHandleOf(i) = 0
        /\ virtSeq < MaxVirt
        /\ virtSeq' = virtSeq + 1
        /\ tmp' = [tmp EXCEPT ![id] = <<>>]
        /\ staged' = [staged EXCEPT ![id] =
             [dir |-> d, name |-> n, size |-> 0, origin |-> 0, flushed |-> 0, dirty |-> TRUE]]
        /\ StageReady(c, id)
     \* The bound on virt_seq: the request is refused.
     \/ virtSeq = MaxVirt /\ Return(c) /\ UNCHANGED <<local>>
  /\ UNCHANGED <<writable, sess, phone>>

-----------------------------------------------------------------------------
(* COMMIT: flush_stage. *)

\* Mutant: COMMIT succeeds on a read-only export, where nothing is staged.
CommitCall_NoRofs(c) ==
  /\ Request(c, "commit") /\ HandlesLeft
  /\ \E id \in ClientIds :
       conn' = [conn EXCEPT ![c] = [Idle EXCEPT !.pc = "snapshot", !.id = id]]
  /\ UNCHANGED <<writable, sess, phone, local>>

CommitCall(c) ==
  /\ Request(c, "commit") /\ writable /\ HandlesLeft
  /\ \E id \in ClientIds :
       conn' = [conn EXCEPT ![c] = [Idle EXCEPT !.pc = "snapshot", !.id = id]]
  /\ UNCHANGED <<writable, sess, phone, local>>

\* The copy taken under the lock; a file that is not staged, or is clean, is
\* done.
FlushSnapshot(c) ==
  LET s == staged[conn[c].id] IN
  /\ conn[c].pc = "snapshot"
  /\ \/ /\ s # None /\ s.dirty
        /\ conn' = [conn EXCEPT ![c].pc = "delete", ![c].dir = s.dir, ![c].name = s.name,
                                ![c].size = s.size, ![c].h = CurrentDev(s)]
     \/ (s # None => ~s.dirty) /\ Return(c)
  /\ UNCHANGED <<writable, sess, phone, local>>

\* hdelete of the previous object; its result is ignored.
FlushDelete(c) ==
  LET h == conn[c].h IN
  /\ conn[c].pc = "delete"
  /\ \/ /\ sess /\ h # 0
        /\ dev' = [dev EXCEPT ![h] = None]
        /\ Goto(c, "upload")
     \/ /\ sess /\ (h = 0 \/ "delete" \in Faults)
        /\ Goto(c, "upload") /\ UNCHANGED dev
     \/ ~sess /\ Return(c) /\ UNCHANGED dev
  /\ UNCHANGED <<writable, sess, lastHandle, local>>

\* The object an upload creates.
UploadedObject(c, data) ==
  [dir |-> conn[c].dir, name |-> conn[c].name, isdir |-> FALSE, data |-> data]

\* Mutant: the result of the upload is not looked at.
FlushUpload_IgnoreError(c) ==
  LET h == lastHandle + 1 IN
  /\ conn[c].pc = "upload"
  /\ \/ /\ sess /\ h \in Handle /\ tmp[conn[c].id] # None
        /\ lastHandle' = h
        /\ dev' = [dev EXCEPT ![h] = UploadedObject(c, tmp[conn[c].id])]
        /\ conn' = [conn EXCEPT ![c].pc = "flushed", ![c].h = h]
     \/ /\ ~sess \/ "upload" \in Faults
        /\ Goto(c, "flushed") /\ UNCHANGED phone
  /\ UNCHANGED <<writable, sess, local>>

\* What hupload may leave on the phone: the whole object, nothing (an upload
\* that fails, or delivers another length than declared, has its object
\* deleted), or a part of it when that deletion fails as well.
FlushUpload(c) ==
  LET id == conn[c].id
      h  == lastHandle + 1
      complete == tmp[id] # None /\ Len(tmp[id]) = conn[c].size IN
  /\ conn[c].pc = "upload"
  /\ \/ /\ sess /\ complete /\ h \in Handle /\ NameFree(conn[c].dir, conn[c].name)
        /\ lastHandle' = h
        /\ dev' = [dev EXCEPT ![h] = UploadedObject(c, tmp[id])]
        /\ \/ conn' = [conn EXCEPT ![c].pc = "flushed", ![c].h = h]
           \* get_object_info after the upload fails: an error for the caller.
           \/ "info" \in Faults /\ Return(c)
     \/ /\ sess /\ "partial" \in Faults /\ h \in Handle /\ tmp[id] # None
        /\ NameFree(conn[c].dir, conn[c].name)
        /\ lastHandle' = h
        /\ \E n \in 0..Len(tmp[id]) : dev' = [dev EXCEPT ![h] = UploadedObject(c, Prefix(tmp[id], n))]
        /\ Return(c)
     \/ /\ \/ ~sess \/ ~complete \/ h \notin Handle \/ "upload" \in Faults
           \/ ~NameFree(conn[c].dir, conn[c].name)
        /\ Return(c) /\ UNCHANGED phone
  /\ UNCHANGED <<writable, sess, local>>

\* The second lock of flush_stage: the stage is bound to the new object and
\* clean, whatever happened to it since the snapshot.
FlushDone(c) ==
  LET id == conn[c].id IN
  /\ conn[c].pc = "flushed"
  /\ \/ /\ staged[id] # None
        /\ staged' = [staged EXCEPT ![id].origin = 0, ![id].flushed = conn[c].h,
                                    ![id].dirty = FALSE, ![id].size = conn[c].size]
     \/ staged[id] = None /\ UNCHANGED staged
  /\ Return(c)
  /\ UNCHANGED <<writable, sess, phone, tmp, virtSeq>>

-----------------------------------------------------------------------------
(* REMOVE: the device object first, then the stage. *)

\* A staged name is removed through its stage, any other one through the
\* listing.  A staged file the phone does not have yet only loses its stage.
RemoveCall(c) ==
  /\ Request(c, "remove") /\ writable
  /\ \E d \in Dirs, n \in Names : \E id \in LookupIds(d, n) :
       LET viaStage == id \in StagedAs(d, n)
           h == IF viaStage THEN CurrentDev(staged[id]) ELSE DeviceHandleOf(id) IN
       /\ viaStage \/ h # 0
       /\ conn' = [conn EXCEPT ![c] = [Idle EXCEPT
            !.id = id, !.h = h, !.op = IF viaStage THEN "unlink" ELSE "none",
            !.pc = IF h = 0 THEN "rmdrop" ELSE "rmdelete"]]
  /\ UNCHANGED <<writable, sess, phone, local>>

\* Mutant: a failed delete still lets go of the stage.
RemoveDelete_IgnoreError(c) ==
  LET h == conn[c].h IN
  /\ conn[c].pc = "rmdelete"
  /\ \/ sess /\ dev' = [dev EXCEPT ![h] = None]
     \/ (~sess \/ "delete" \in Faults) /\ UNCHANGED dev
  /\ Goto(c, "rmdrop")
  /\ UNCHANGED <<writable, sess, lastHandle, local>>

RemoveDelete(c) ==
  LET h == conn[c].h IN
  /\ conn[c].pc = "rmdelete"
  /\ \/ /\ sess /\ dev[h] # None
        /\ dev' = [dev EXCEPT ![h] = None]
        /\ Goto(c, "rmdrop")
     \/ /\ ~sess \/ dev[h] = None \/ "delete" \in Faults
        /\ Return(c) /\ UNCHANGED dev
  /\ UNCHANGED <<writable, sess, lastHandle, local>>

\* The stage bound to the id goes, and its file with it; removal through the
\* stage deletes the file even if another request already took the stage out.
RemoveDrop(c) ==
  LET id == conn[c].id IN
  /\ conn[c].pc = "rmdrop"
  /\ staged' = [staged EXCEPT ![id] = None]
  /\ tmp' = [tmp EXCEPT ![id] =
                IF conn[c].op = "unlink" \/ staged[id] # None THEN None ELSE @]
  /\ Return(c)
  /\ UNCHANGED <<writable, sess, phone, virtSeq>>

-----------------------------------------------------------------------------
(* RENAME. *)

\* A staged file with no object on the phone is renamed in the stage map.  With
\* "replace" in Calls the client also renames onto the names of staged files.
RenameCall(c) ==
  /\ Request(c, "rename") /\ writable
  /\ \E d \in Dirs, n \in Names, td \in Dirs, tn \in Names :
     /\ "replace" \in Calls \/ StagedAs(td, tn) = {}
     /\ \/ \E id \in StagedAs(d, n) :
            /\ CurrentDev(staged[id]) = 0
            /\ staged' = [staged EXCEPT ![id].dir = td, ![id].name = tn]
            /\ UNCHANGED conn
        \/ /\ \/ StagedAs(d, n) = {}
              \/ \E id \in StagedAs(d, n) : CurrentDev(staged[id]) # 0
           /\ conn' = [conn EXCEPT ![c] = [Idle EXCEPT !.pc = "rnlookup", !.dir = d, !.name = n,
                                                      !.toDir = td, !.toName = tn]]
           /\ UNCHANGED staged
  /\ UNCHANGED <<writable, sess, phone, tmp, virtSeq>>

\* The lookup, the handle of what it found, and the two parents.
RenameLookup(c) ==
  LET ids == LookupIds(conn[c].dir, conn[c].name) IN
  /\ conn[c].pc = "rnlookup"
  /\ \/ \E id \in ids :
          IF DeviceHandleOf(id) # 0 /\ StorageOf[conn[c].dir] = StorageOf[conn[c].toDir]
          THEN conn' = [conn EXCEPT ![c].pc = "hrename", ![c].id = id]
          ELSE Return(c)
     \/ LookupMayFail(conn[c].dir, conn[c].name) /\ Return(c)
  /\ UNCHANGED <<writable, sess, phone, local>>

\* rename_handle on the phone: found by name in the source directory, moved,
\* then renamed.  Either call may be refused, the second one after the first
\* happened, and the closing get_object_info may fail after both.
HRename(c) ==
  LET from == [dir |-> conn[c].dir, name |-> conn[c].name]
      to == [dir |-> conn[c].toDir, name |-> conn[c].toName]
      moves == to.dir # from.dir
      renames == to.name # from.name
      mayMove == moves => NameFree(to.dir, from.name)
      mayRename == renames => NameFree(to.dir, to.name) IN
  /\ conn[c].pc = "hrename"
  /\ \/ /\ sess /\ mayMove /\ mayRename
        /\ \E h \in Listed(from.dir, from.name) :
             dev' = [dev EXCEPT ![h].dir = to.dir, ![h].name = to.name]
        /\ Goto(c, "resync") \/ ("info" \in Faults /\ Return(c))
     \/ /\ sess /\ moves /\ renames /\ mayMove
        /\ ~mayRename \/ "rename" \in Faults
        /\ \E h \in Listed(from.dir, from.name) : dev' = [dev EXCEPT ![h].dir = to.dir]
        /\ Return(c)
     \/ /\ \/ ~sess \/ "rename" \in Faults \/ Listed(from.dir, from.name) = {}
           \/ ~mayMove \/ (~moves /\ ~mayRename)
        /\ Return(c) /\ UNCHANGED dev
  /\ UNCHANGED <<writable, sess, lastHandle, local>>

\* Mutant: the stage keeps the old name.
RenameResync_Skip(c) ==
  /\ conn[c].pc = "resync"
  /\ Return(c)
  /\ UNCHANGED <<writable, sess, phone, local>>

\* The stage of a renamed file follows it.
RenameResync(c) ==
  LET id == conn[c].id IN
  /\ conn[c].pc = "resync"
  /\ \/ /\ staged[id] # None
        /\ staged' = [staged EXCEPT ![id].dir = conn[c].toDir, ![id].name = conn[c].toName]
     \/ staged[id] = None /\ UNCHANGED staged
  /\ Return(c)
  /\ UNCHANGED <<writable, sess, phone, tmp, virtSeq>>

-----------------------------------------------------------------------------
(* MKDIR. *)

MkdirCall(c) ==
  LET h == lastHandle + 1 IN
  /\ Request(c, "mkdir") /\ writable /\ sess /\ HandlesLeft /\ h \in Handle
  /\ \E d \in Dirs, n \in Names :
       /\ NameFree(d, n)
       /\ dev' = [dev EXCEPT ![h] = [dir |-> d, name |-> n, isdir |-> TRUE, data |-> <<>>]]
  /\ lastHandle' = h
  /\ UNCHANGED <<writable, sess, local, conn>>

-----------------------------------------------------------------------------
(* The session and the daemon. *)

\* MtpNfs::detach: the session is taken out; stages are kept.
Detach ==
  /\ "detach" \in Faults /\ sess
  /\ sess' = FALSE
  /\ UNCHANGED <<writable, phone, local, conn>>

\* MtpNfs::attach: a new session.  The phone may have numbered its objects
\* anew; stages and ids given out keep the old numbers.
Attach ==
  /\ ~sess
  /\ sess' = TRUE
  /\ \/ UNCHANGED dev
     \/ /\ "renumber" \in Faults
        /\ \E h1, h2 \in 1..lastHandle :
             /\ h1 < h2
             /\ dev' = [dev EXCEPT ![h1] = dev[h2], ![h2] = dev[h1]]
  /\ UNCHANGED <<writable, lastHandle, local, conn>>

\* The daemon dies and is started again: the stage map and the file ids live
\* in memory, the staging directory is named after the process.
Restart ==
  /\ "restart" \in Faults
  /\ sess' = TRUE
  /\ staged' = [id \in Id |-> None]
  /\ tmp' = [id \in Id |-> None]
  /\ virtSeq' = 0
  /\ conn' = [c \in Connections |-> Idle]
  /\ UNCHANGED <<writable, phone>>

-----------------------------------------------------------------------------
Serve(c) ==
  \/ WriteCall(c) \/ SetattrCall(c) \/ StageForWrites(c) \/ ObjectInfo(c)
  \/ PullOpen(c) \/ PullRead(c) \/ PullInsert(c) \/ ApplyWrite(c) \/ ApplySetattr(c)
  \/ CreateCall(c) \/ CreateExclusiveCall(c) \/ Probe(c) \/ StageNew(c) \/ LookupOrNew(c)
  \/ CommitCall(c) \/ FlushSnapshot(c) \/ FlushDelete(c) \/ FlushUpload(c) \/ FlushDone(c)
  \/ RemoveCall(c) \/ RemoveDelete(c) \/ RemoveDrop(c)
  \/ RenameCall(c) \/ RenameLookup(c) \/ HRename(c) \/ RenameResync(c)
  \/ MkdirCall(c)

\* No request is being served and none arrives; a handler that could not go on
\* would be a deadlock.
Quiet == (\A c \in Connections : conn[c].pc = "idle") /\ UNCHANGED vars

Next == (\E c \in Connections : Serve(c)) \/ Detach \/ Attach \/ Restart \/ Quiet

Spec == Init /\ [][Next]_vars

-----------------------------------------------------------------------------
(* Properties. *)

\* COMMIT clears a stage's dirty flag only when the phone holds, under the
\* handle the stage remembers, exactly the bytes that are staged: what the
\* client takes a successful COMMIT to mean (flush_stage, commit).
FlushPublishes ==
  [][\A id \in Id :
       (/\ staged[id] # None /\ staged[id].dirty
        /\ staged'[id] # None /\ ~staged'[id].dirty)
       => LET h == staged'[id].flushed IN
          /\ h \in Handle /\ dev'[h] # None /\ tmp'[id] # None
          /\ dev'[h].data = tmp'[id] /\ Len(tmp'[id]) = staged'[id].size]_vars

\* A clean stage is a faithful copy: the object it stands for is on the phone
\* with the staged content, which is why flush_stage may skip it.  A stage
\* that is being removed is excepted once its object is deleted.
CleanMeansDurable ==
  \A id \in Id :
    (/\ staged[id] # None /\ ~staged[id].dirty
     /\ ~\E c \in Connections : conn[c].pc = "rmdrop" /\ conn[c].id = id)
    => LET h == CurrentDev(staged[id]) IN
       /\ h \in Handle /\ dev[h] # None /\ tmp[id] # None
       /\ dev[h].data = tmp[id] /\ Len(tmp[id]) = staged[id].size

\* No write path deletes a directory: only REMOVE takes one off the phone
\* (stage_for_writes and stage_new refuse to stage a directory, because the
\* flush would delete it and upload a regular file).
DirectoriesKept ==
  [][\A h \in Handle :
       (/\ sess /\ dev[h] # None /\ dev[h].isdir
        /\ dev'[h] = None)
       => \E c \in Connections : conn[c].pc = "rmdelete" /\ conn[c].h = h]_vars

\* The phone never holds two objects of one name: repeated commits neither
\* duplicate nor orphan copies (flush_stage).
UniqueNames ==
  \A h1, h2 \in Handle :
    (/\ dev[h1] # None /\ dev[h2] # None
     /\ dev[h1].dir = dev[h2].dir /\ dev[h1].name = dev[h2].name) => h1 = h2

\* The name a stage answers to is the name its object has on the phone, except
\* while a rename is between the phone and the stage map, so a flush puts the
\* file back where it is (rename, flush_stage).
StageNamesAgree ==
  \A id \in Id :
    (staged[id] # None /\ ~\E c \in Connections : conn[c].pc = "resync")
    => LET h == CurrentDev(staged[id]) IN
       (h # 0 /\ dev[h] # None)
       => dev[h].dir = staged[id].dir /\ dev[h].name = staged[id].name

\* What a flush deletes is the file being flushed: an object of the staged
\* name (the comment in flush_stage on deleting the wrong object).
FlushDeletesOwn ==
  [][\A c \in Connections, h \in Handle :
       (conn[c].pc = "delete" /\ conn'[c].pc = "upload" /\ dev[h] # None /\ dev'[h] = None)
       => dev[h].dir = conn[c].dir /\ dev[h].name = conn[c].name]_vars

\* A read-only export changes nothing on the phone and stages nothing, whichever
\* procedure is called, and a COMMIT is refused there before it looks for a
\* stage ("must refuse COMMIT, not silently succeed"): a request gets no further
\* than the lookup of an exclusive CREATE and the checks of stage_new and
\* stage_for_writes.
ReadOnlyExport ==
  [][~writable =>
       /\ sess => UNCHANGED <<dev, staged, tmp>>
       /\ \A c \in Connections : conn'[c].pc \in {"idle", "probe", "stagenew", "stage"}]_vars

=============================================================================
