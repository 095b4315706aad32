---------------------------- MODULE DeviceActor ----------------------------
(***************************************************************************)
(* The request handlers of the device actor (crates/core/src/actor.rs) and *)
(* the listing cache they keep (cache.rs), for one storage of the phone.   *)
(*                                                                         *)
(* The actor serves one request at a time, but a request makes several     *)
(* calls to the phone and any of them may fail and end it.  One action     *)
(* below is one call to the phone with the bookkeeping that follows it.    *)
(* Requests that only read an object by its handle (HInfo, HRead,          *)
(* Download) change nothing here and are left out.                         *)
(***************************************************************************)
EXTENDS Integers, Sequences, FiniteSets

CONSTANTS
  Names,        \* leaf names, taken up to names_eq_ci
  MaxHandle,    \* bound on the object handles the phone gives out
  MaxDepth,     \* bound on the segments of a path
  MaxListings,  \* MAX_LISTINGS
  Requests,     \* the requests clients send
  Faults,       \* the calls to the phone that may fail
  Phone0, Last0, \* what is on the phone at the start, and its last handle
  None

Handle == 1..MaxHandle
Root   == 0
Dir    == Handle \cup {Root}
Path   == UNION {[1..n -> Names] : n \in 0..MaxDepth}

\* An object of the phone, and what a listing tells of it.
Object == [parent : Dir, name : Names, isdir : BOOLEAN]
Entry  == [handle : Handle, name : Names, isdir : BOOLEAN]

ASSUME ActorConstants ==
  /\ Names # {}
  /\ MaxHandle \in Nat /\ MaxDepth \in Nat
  /\ MaxListings \in Nat \ {0}
  /\ Phone0 \in [Handle -> Object \cup {None}]
  /\ Last0 \in 0..MaxHandle
  /\ \A h \in Handle : h > Last0 => Phone0[h] = None

\* What is on the phone lies in folders that are there.
ASSUME PhoneTree ==
  \A h \in Handle : Phone0[h] # None =>
    LET d == Phone0[h].parent IN d = Root \/ (Phone0[d] # None /\ Phone0[d].isdir)

ASSUME ActorNone == None \notin Object /\ None \notin Dir

VARIABLES
  obj,         \* the phone: handle -> object
  lastHandle,  \* the last handle the phone gave out
  listing,     \* StorageCache::listings: the directories cached -> their entries
  parents,     \* StorageCache::parents: handle -> the directory it was listed from
  req,         \* the request being served and its locals
  stack        \* the frames of delete_tree: a directory and its entries to go

vars == <<obj, lastHandle, listing, parents, req, stack>>

cache == <<listing, parents>>
phone == <<obj, lastHandle>>

\* The locals of a handler: the segments left to walk and the directory
\* reached (path, cur), the leaf, the object found with the directory it was
\* found in (h, isdir, from), and the destination of a move (toPath, to).
Locals == [pc : {"idle", "walk", "act", "hrename", "tree", "mkdirs", "create"},
           op : {"none", "list", "resolve", "remove", "rename", "move", "movedst", "hrename",
                 "mkdir_all"},
           flag : BOOLEAN, path : Path, toPath : Path, name : Names, toName : Names,
           cur : Dir, h : Dir, isdir : BOOLEAN, from : Dir, to : Dir]

Idle == [pc |-> "idle", op |-> "none", flag |-> FALSE, path |-> <<>>, toPath |-> <<>>,
         name |-> CHOOSE n \in Names : TRUE, toName |-> CHOOSE n \in Names : TRUE,
         cur |-> Root, h |-> Root, isdir |-> FALSE, from |-> Root, to |-> Root]

\* A frame of delete_tree: a directory, whether it was listed yet, and the
\* entries that are left.
Frame == [dir : Dir, listed : BOOLEAN, todo : SUBSET Entry]
NewFrame(h) == [dir |-> h, listed |-> FALSE, todo |-> {}]

TypeOK ==
  /\ obj \in [Handle -> Object \cup {None}]
  /\ lastHandle \in 0..MaxHandle
  /\ DOMAIN listing \subseteq Dir
  /\ \A d \in DOMAIN listing : listing[d] \subseteq Entry
  /\ parents \in [Handle -> Dir \cup {None}]
  /\ req \in Locals
  /\ stack \in Seq(Frame)

-----------------------------------------------------------------------------
(* The phone. *)

IsDir(d) == d = Root \/ (d \in Handle /\ obj[d] # None /\ obj[d].isdir)

\* list_objects(d).
Children(d) ==
  {[handle |-> h, name |-> obj[h].name, isdir |-> obj[h].isdir] :
     h \in {x \in Handle : obj[x] # None /\ obj[x].parent = d}}

\* h and everything below it: the least set with h that holds, with a
\* directory, the objects in it.
Subtree(h) ==
  {x \in Handle : \A S \in SUBSET Handle :
     (h \in S /\ \A y \in Handle : (obj[y] # None /\ obj[y].parent \in S) => y \in S)
     => x \in S}

\* delete(h): a directory goes with what is in it.
Deleted(h) == [x \in Handle |-> IF x \in Subtree(h) THEN None ELSE obj[x]]

\* A call on an object fails when it is gone, or by a fault.
OnPhone(h) == h \in Handle /\ obj[h] # None
MayFail(call, h) == call \in Faults \/ ~OnPhone(h)

-----------------------------------------------------------------------------
(* The cache. *)

\* children_of: the cached listing unless it is absent or a refresh is asked.
Fresh(d, refresh) == refresh \/ d \notin DOMAIN listing
Seen(d, refresh) == IF Fresh(d, refresh) THEN Children(d) ELSE listing[d]

\* Mutant: no listing is evicted.
Evicted_Never(d) == {{}}

\* store_listing makes room when the cache is full: another listing goes (the
\* oldest; ages are not modelled, so it may be any).
Evicted(d) ==
  IF Cardinality(DOMAIN listing) >= MaxListings /\ d \notin DOMAIN listing
  THEN {{x} : x \in DOMAIN listing}
  ELSE {{}}

\* children_of with what it leaves in the cache.
Remember(d, refresh) ==
  IF Fresh(d, refresh)
  THEN /\ IsDir(d)
       /\ \E gone \in Evicted(d) :
            listing' = [x \in (DOMAIN listing \ gone) \cup {d} |->
                          IF x = d THEN Children(d) ELSE listing[x]]
       /\ parents' = [h \in Handle |-> IF \E e \in Children(d) : e.handle = h THEN d
                                       ELSE parents[h]]
  ELSE UNCHANGED cache

\* children_of that fails.
ListFails(d, refresh) ==
  Fresh(d, refresh) /\ (~IsDir(d) \/ "list" \in Faults) /\ UNCHANGED cache

\* invalidate, for the directories in ds.
Invalidate(ds) ==
  /\ listing' = [d \in DOMAIN listing \ ds |-> listing[d]]
  /\ UNCHANGED parents

\* Mutant: the storage root is invalidated.
InvalidateHandle_Root(h) == Invalidate({Root})

\* invalidate_handle: the directory that held h, or the whole storage, with
\* its parents, when no listing ever showed h.
InvalidateHandle(h) ==
  IF parents[h] # None THEN Invalidate({parents[h]})
  ELSE /\ listing' = <<>>
       /\ parents' = [x \in Handle |-> None]

-----------------------------------------------------------------------------
Goto(pc) == req' = [req EXCEPT !.pc = pc]

\* The handler replies, with a result or with an error.
Return == req' = Idle /\ stack' = <<>>

\* A request arrives at the idle actor.
Arrives(name) == name \in Requests /\ req.pc = "idle"

Init ==
  /\ obj = Phone0 /\ lastHandle = Last0
  /\ listing = <<>>
  /\ parents = [h \in Handle |-> None]
  /\ req = Idle /\ stack = <<>>

-----------------------------------------------------------------------------
(* Requests that start by walking a path. *)

ListCall ==
  /\ Arrives("list")
  /\ \E p \in Path, refresh \in BOOLEAN :
       req' = [Idle EXCEPT !.pc = "walk", !.op = "list", !.path = p, !.flag = refresh]
  /\ UNCHANGED <<phone, cache, stack>>

ResolveCall ==
  /\ Arrives("resolve")
  /\ \E p \in Path, refresh \in BOOLEAN :
       req' = [Idle EXCEPT !.pc = "walk", !.op = "resolve", !.path = p, !.flag = refresh]
  /\ UNCHANGED <<phone, cache, stack>>

\* walk_to_parent walks all segments but the last, which is the name.
RemoveCall ==
  /\ Arrives("remove")
  /\ \E p \in Path, n \in Names, recursive \in BOOLEAN :
       /\ Len(p) < MaxDepth
       /\ req' = [Idle EXCEPT !.pc = "walk", !.op = "remove", !.path = p, !.name = n, !.flag = recursive]
  /\ UNCHANGED <<phone, cache, stack>>

RenameCall ==
  /\ Arrives("rename")
  /\ \E p \in Path, n, m \in Names :
       /\ Len(p) < MaxDepth
       /\ req' = [Idle EXCEPT !.pc = "walk", !.op = "rename", !.path = p, !.name = n, !.toName = m]
  /\ UNCHANGED <<phone, cache, stack>>

MoveCall ==
  /\ Arrives("move")
  /\ \E p, q \in Path, n \in Names :
       /\ Len(p) < MaxDepth /\ q # <<>>
       /\ req' = [Idle EXCEPT !.pc = "walk", !.op = "move", !.path = p, !.name = n, !.toPath = q]
  /\ UNCHANGED <<phone, cache, stack>>

\* The walks of list and resolve refresh what they read when asked to.
Refresh == req.op \in {"list", "resolve"} /\ req.flag

\* One segment: the directory is listed and the name looked up in it.  List
\* insists on a directory; the others find out at the next segment.
WalkStep ==
  LET found == {e \in Seen(req.cur, Refresh) : e.name = Head(req.path)} IN
  /\ req.pc = "walk" /\ req.path # <<>>
  /\ \/ /\ Remember(req.cur, Refresh)
        /\ \/ \E e \in found :
                /\ req.op = "list" => e.isdir
                /\ req' = [req EXCEPT !.path = Tail(@), !.cur = e.handle]
                /\ UNCHANGED stack
           \/ (found = {} \/ (req.op = "list" /\ \E e \in found : ~e.isdir)) /\ Return
     \/ ListFails(req.cur, Refresh) /\ Return
  /\ UNCHANGED phone

\* list: the entries of the directory reached.
ListEnd ==
  /\ req.pc = "walk" /\ req.path = <<>> /\ req.op = "list"
  /\ Remember(req.cur, Refresh) \/ ListFails(req.cur, Refresh)
  /\ Return
  /\ UNCHANGED phone

\* resolve: get_object_info of the object reached, of no consequence here.
ResolveEnd ==
  /\ req.pc = "walk" /\ req.path = <<>> /\ req.op = "resolve"
  /\ Return
  /\ UNCHANGED <<phone, cache>>

\* remove, rename and move look the leaf up in the parent they walked to; a
\* move then resolves its destination.
Find ==
  LET found == {e \in Seen(req.cur, FALSE) : e.name = req.name} IN
  /\ req.pc = "walk" /\ req.path = <<>> /\ req.op \in {"remove", "rename", "move"}
  /\ \/ /\ Remember(req.cur, FALSE)
        /\ \/ \E e \in found :
                LET r == [req EXCEPT !.h = e.handle, !.isdir = e.isdir, !.from = req.cur] IN
                /\ req' = IF req.op = "move"
                          THEN [r EXCEPT !.op = "movedst", !.path = req.toPath, !.cur = Root]
                          ELSE [r EXCEPT !.pc = "act"]
                /\ UNCHANGED stack
           \/ found = {} /\ Return
     \/ ListFails(req.cur, FALSE) /\ Return
  /\ UNCHANGED phone

\* The destination of a move has to be a directory.
FindDst ==
  /\ req.pc = "walk" /\ req.path = <<>> /\ req.op = "movedst"
  /\ \/ /\ OnPhone(req.cur) /\ IsDir(req.cur)
        /\ req' = [req EXCEPT !.pc = "act", !.to = req.cur]
        /\ UNCHANGED stack
     \/ (OnPhone(req.cur) => ~IsDir(req.cur) \/ "info" \in Faults) /\ Return
  /\ UNCHANGED <<phone, cache>>

-----------------------------------------------------------------------------
(* What those requests then do. *)

\* remove of a file.
RemoveFile ==
  /\ req.pc = "act" /\ req.op = "remove" /\ ~req.isdir
  /\ \/ OnPhone(req.h) /\ obj' = Deleted(req.h) /\ Invalidate({req.from})
     \/ MayFail("delete", req.h) /\ UNCHANGED <<obj, cache>>
  /\ Return
  /\ UNCHANGED lastHandle

\* remove of a directory: refused, or delete_tree.
RemoveDir ==
  /\ req.pc = "act" /\ req.op = "remove" /\ req.isdir
  /\ \/ req.flag /\ stack' = <<NewFrame(req.h)>> /\ Goto("tree")
     \/ ~req.flag /\ Return
  /\ UNCHANGED <<phone, cache>>

\* delete_tree: the directory is listed, from the cache if possible.
TreeList ==
  LET top == stack[Len(stack)] IN
  /\ req.pc = "tree" /\ ~top.listed
  /\ \/ /\ Remember(top.dir, FALSE)
        /\ stack' = [stack EXCEPT ![Len(stack)] =
             [dir |-> top.dir, listed |-> TRUE, todo |-> Seen(top.dir, FALSE)]]
        /\ UNCHANGED req
     \/ ListFails(top.dir, FALSE) /\ Return
  /\ UNCHANGED phone

\* An entry of the directory: a subdirectory first gets a frame of its own, a
\* file is deleted.  A failure ends the whole request.
TreeEntry ==
  LET top == stack[Len(stack)] IN
  /\ req.pc = "tree" /\ top.listed
  /\ \E e \in top.todo :
       LET rest == [stack EXCEPT ![Len(stack)].todo = @ \ {e}] IN
       \/ /\ e.isdir
          /\ stack' = Append(rest, NewFrame(e.handle))
          /\ UNCHANGED <<obj, req>>
       \/ /\ ~e.isdir /\ OnPhone(e.handle)
          /\ obj' = Deleted(e.handle)
          /\ stack' = rest /\ UNCHANGED req
       \/ /\ ~e.isdir /\ MayFail("delete", e.handle)
          /\ Return /\ UNCHANGED obj
  /\ UNCHANGED <<lastHandle, cache>>

\* The emptied directory goes and its listing is invalidated; after the
\* outermost one the listing it was found in is.
TreeDir ==
  LET top == stack[Len(stack)]
      outermost == Len(stack) = 1 IN
  /\ req.pc = "tree" /\ top.listed /\ top.todo = {}
  /\ \/ /\ OnPhone(top.dir)
        /\ obj' = Deleted(top.dir)
        /\ Invalidate({top.dir} \cup IF outermost THEN {req.from} ELSE {})
        /\ IF outermost THEN Return
           ELSE stack' = SubSeq(stack, 1, Len(stack) - 1) /\ UNCHANGED req
     \/ MayFail("delete", top.dir) /\ Return /\ UNCHANGED <<obj, cache>>
  /\ UNCHANGED lastHandle

\* rename.
RenameAct ==
  /\ req.pc = "act" /\ req.op = "rename"
  /\ \/ /\ OnPhone(req.h)
        /\ obj' = [obj EXCEPT ![req.h].name = req.toName]
        /\ Invalidate({req.from})
     \/ MayFail("rename", req.h) /\ UNCHANGED <<obj, cache>>
  /\ Return
  /\ UNCHANGED lastHandle

\* move_object(h, to): the phone takes no move of a directory below itself.
Movable(h, to) == OnPhone(h) /\ IsDir(to) /\ (to = Root \/ to \notin Subtree(h))

\* Mutant: only the destination's listing is invalidated.
MoveAct_KeepSource ==
  /\ req.pc = "act" /\ req.op = "movedst" /\ Movable(req.h, req.to)
  /\ obj' = [obj EXCEPT ![req.h].parent = req.to]
  /\ Invalidate({req.to})
  /\ Return
  /\ UNCHANGED lastHandle

\* move_into.
MoveAct ==
  /\ req.pc = "act" /\ req.op = "movedst"
  /\ \/ /\ Movable(req.h, req.to)
        /\ obj' = [obj EXCEPT ![req.h].parent = req.to]
        /\ Invalidate({req.from, req.to})
     \/ (Movable(req.h, req.to) => "move" \in Faults) /\ UNCHANGED <<obj, cache>>
  /\ Return
  /\ UNCHANGED lastHandle

-----------------------------------------------------------------------------
(* mkdir_all. *)

MkdirAllCall ==
  /\ Arrives("mkdir_all")
  /\ \E p \in Path \ {<<>>} : req' = [Idle EXCEPT !.pc = "mkdirs", !.op = "mkdir_all", !.path = p]
  /\ UNCHANGED <<phone, cache, stack>>

\* The directories that are there already.
MkdirWalk ==
  LET found == {e \in Seen(req.cur, FALSE) : e.name = Head(req.path)} IN
  /\ req.pc = "mkdirs" /\ req.path # <<>>
  /\ \/ /\ Remember(req.cur, FALSE)
        /\ \/ \E e \in found : /\ e.isdir
                               /\ req' = [req EXCEPT !.path = Tail(@), !.cur = e.handle]
                               /\ UNCHANGED stack
           \/ (\E e \in found : ~e.isdir) /\ Return
           \/ found = {} /\ Goto("create") /\ UNCHANGED stack
     \/ ListFails(req.cur, FALSE) /\ Return
  /\ UNCHANGED phone

\* Mutant: a folder that was not created is walked into.
MkdirCreate_IgnoreError ==
  LET h == lastHandle + 1 IN
  /\ req.pc = "create" /\ req.path # <<>>
  /\ IF IsDir(req.cur) /\ h \in Handle
     THEN /\ obj' = [obj EXCEPT ![h] = [parent |-> req.cur, name |-> Head(req.path), isdir |-> TRUE]]
          /\ lastHandle' = h
     ELSE UNCHANGED phone
  /\ Invalidate({req.cur})
  /\ req' = [req EXCEPT !.path = Tail(@), !.cur = h]
  /\ UNCHANGED stack

\* A folder below cur, which becomes cur.
MkdirCreate ==
  LET h == lastHandle + 1 IN
  /\ req.pc = "create" /\ req.path # <<>>
  /\ \/ /\ IsDir(req.cur) /\ h \in Handle
        /\ obj' = [obj EXCEPT ![h] = [parent |-> req.cur, name |-> Head(req.path), isdir |-> TRUE]]
        /\ lastHandle' = h
        /\ Invalidate({req.cur})
        /\ req' = [req EXCEPT !.path = Tail(@), !.cur = h]
        /\ UNCHANGED stack
     \/ /\ ~IsDir(req.cur) \/ h \notin Handle \/ "create" \in Faults
        /\ Return /\ UNCHANGED <<phone, cache>>

MkdirEnd ==
  /\ req.pc \in {"mkdirs", "create"} /\ req.path = <<>>
  /\ Return
  /\ UNCHANGED <<phone, cache>>

-----------------------------------------------------------------------------
(* Requests by handle, of the NFS adapter. *)

\* The handles a client has for directories: of some that are there, and of
\* some that are gone.
ClientDirs == {d \in Dir : IsDir(d) \/ (d <= lastHandle /\ obj[d] = None)}

HList ==
  /\ Arrives("hlist")
  /\ \E d \in ClientDirs : Remember(d, FALSE)
  /\ UNCHANGED <<phone, req, stack>>

HDelete ==
  /\ Arrives("hdelete")
  /\ \E h \in Handle : OnPhone(h) /\ obj' = Deleted(h) /\ InvalidateHandle(h)
  /\ UNCHANGED <<lastHandle, req, stack>>

\* HMkdir and HUpload.  An upload that fails, or delivers another length than
\* declared, has its object deleted; when that fails too, the object stays.
HCreate ==
  LET h == lastHandle + 1 IN
  /\ req.pc = "idle" /\ h \in Handle
  /\ \E d \in Dir, n \in Names, isdir \in BOOLEAN :
       /\ IF isdir THEN "hmkdir" \in Requests ELSE "upload" \in Requests
       /\ IsDir(d)
       /\ obj' = [obj EXCEPT ![h] = [parent |-> d, name |-> n, isdir |-> isdir]]
       /\ \/ Invalidate({d})
          \/ ~isdir /\ "partial" \in Faults /\ UNCHANGED cache
  /\ lastHandle' = h
  /\ UNCHANGED <<req, stack>>

\* rename_handle: the object is found by name, then moved, then renamed.
HRenameFind ==
  /\ Arrives("hrename")
  /\ \E d, t \in ClientDirs, n, m \in Names :
       LET found == {e \in Seen(d, FALSE) : e.name = n} IN
       \/ /\ Remember(d, FALSE)
          /\ \/ \E e \in found :
                  req' = [Idle EXCEPT !.pc = "act", !.op = "hrename", !.h = e.handle, !.from = d,
                                      !.name = n, !.to = t, !.toName = m]
             \/ found = {} /\ UNCHANGED req
       \/ ListFails(d, FALSE) /\ UNCHANGED req
  /\ UNCHANGED <<phone, stack>>

\* Mutant: the directory the object left keeps its listing.
HRenameMove_KeepSource ==
  /\ req.pc = "act" /\ req.op = "hrename"
  /\ \/ req.from = req.to /\ UNCHANGED <<obj, cache>>
     \/ /\ req.from # req.to /\ Movable(req.h, req.to)
        /\ obj' = [obj EXCEPT ![req.h].parent = req.to]
        /\ Invalidate({req.to})
  /\ Goto("hrename") /\ UNCHANGED <<lastHandle, stack>>

\* The first half, when the directories differ.
HRenameMove ==
  /\ req.pc = "act" /\ req.op = "hrename"
  /\ \/ req.from = req.to /\ Goto("hrename") /\ UNCHANGED <<obj, cache, stack>>
     \/ /\ req.from # req.to /\ Movable(req.h, req.to)
        /\ obj' = [obj EXCEPT ![req.h].parent = req.to]
        /\ Invalidate({req.from, req.to})
        /\ Goto("hrename") /\ UNCHANGED stack
     \/ /\ req.from # req.to /\ (Movable(req.h, req.to) => "move" \in Faults)
        /\ Return /\ UNCHANGED <<obj, cache>>
  /\ UNCHANGED lastHandle

\* Mutant: the listing is invalidated by the move alone.
HRenameName_NoInvalidate ==
  /\ req.pc = "hrename"
  /\ \/ OnPhone(req.h) /\ obj' = [obj EXCEPT ![req.h].name = req.toName]
     \/ MayFail("rename", req.h) /\ UNCHANGED obj
  /\ Return
  /\ UNCHANGED <<lastHandle, cache>>

\* The second half, when the names differ.
HRenameName ==
  /\ req.pc = "hrename"
  /\ \/ req.name = req.toName /\ UNCHANGED <<obj, cache>>
     \/ /\ req.name # req.toName /\ OnPhone(req.h)
        /\ obj' = [obj EXCEPT ![req.h].name = req.toName]
        /\ Invalidate({req.to})
     \/ req.name # req.toName /\ MayFail("rename", req.h) /\ UNCHANGED <<obj, cache>>
  /\ Return
  /\ UNCHANGED lastHandle

-----------------------------------------------------------------------------
\* A listing outlives LIST_TTL: it is not used any more.
Expire ==
  /\ \E d \in DOMAIN listing : Invalidate({d})
  /\ UNCHANGED <<phone, req, stack>>

\* The actor is aborted, wherever it is, and a new session starts with an
\* empty cache.
Reconnect ==
  /\ "abort" \in Faults
  /\ listing' = <<>> /\ parents' = [h \in Handle |-> None]
  /\ Return
  /\ UNCHANGED phone

ByPath ==
  \/ ListCall \/ ResolveCall \/ RemoveCall \/ RenameCall \/ MoveCall
  \/ WalkStep \/ ListEnd \/ ResolveEnd \/ Find \/ FindDst
  \/ RemoveFile \/ RemoveDir \/ TreeList \/ TreeEntry \/ TreeDir \/ RenameAct \/ MoveAct
  \/ MkdirAllCall \/ MkdirWalk \/ MkdirCreate \/ MkdirEnd

ByHandle ==
  \/ HList \/ HDelete \/ HCreate
  \/ HRenameFind \/ HRenameMove \/ HRenameName

\* The actor waits for a request.
Quiet == req.pc = "idle" /\ UNCHANGED vars

Next == ByPath \/ ByHandle \/ Expire \/ Reconnect \/ Quiet

Spec == Init /\ [][Next]_vars

-----------------------------------------------------------------------------
(* Properties. *)

\* A cached listing misses no object of its directory and shows none that is
\* elsewhere or has another name: at worst it still shows one that is gone.
\* That is so at every moment, a recursive remove included, unless an upload
\* fails and its object cannot be deleted ("partial").
ListingsSound ==
  \A d \in Dir :
    (IsDir(d) /\ d \in DOMAIN listing)
    => {e \in listing[d] : OnPhone(e.handle)} = Children(d)

\* The parent invalidate_handle finds for an object is the directory whose
\* cached listing shows it, so a delete by handle drops the right listing.
ParentsRight ==
  \A d \in DOMAIN listing : \A e \in listing[d] : parents[e.handle] = d

\* An object deleted by its handle is in no cached listing afterwards, so `ls`
\* right after a delete does not report it (HDelete).
DeletedUnlisted ==
  [][\A h \in Handle :
       (req.pc = "idle" /\ obj[h] # None /\ obj'[h] = None)
       => \A d \in DOMAIN listing' : IsDir(d)' => \A e \in listing'[d] : e.handle # h]_vars

\* A recursive remove deletes nothing outside the directory it was asked to
\* remove, although it works from cached listings (delete_tree).
RemoveStaysInside ==
  [][(req.pc = "tree" /\ stack # <<>>)
     => \A h \in Handle : (obj[h] # None /\ obj'[h] = None) => h \in Subtree(stack[1].dir)]_vars

\* A long walk keeps at most MAX_LISTINGS listings (store_listing).
CacheBounded == Cardinality(DOMAIN listing) <= MaxListings

=============================================================================
