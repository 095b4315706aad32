------------------------- MODULE DeviceActorProofs -------------------------
(***************************************************************************)
(* Proofs about DeviceActor: the listing cache and what a recursive remove *)
(* deletes, for every phone, any names and handles, any size of the cache  *)
(* and any set of faults.                                                  *)
(***************************************************************************)
EXTENDS DeviceActor, FiniteSetTheorems, TLAPS

USE DEF cache, phone

-----------------------------------------------------------------------------
(* The inductive invariant: what the cache holds, and what the request     *)
(* being served knows.                                                     *)

\* The types of the phone and of the cache, and of the request.
CacheTypes ==
  /\ obj \in [Handle -> Object \cup {None}]
  /\ lastHandle \in 0..MaxHandle
  /\ DOMAIN listing \subseteq Dir
  /\ \A d \in DOMAIN listing : listing[d] \subseteq Entry
  /\ parents \in [Handle -> Dir \cup {None}]

RequestTypes == req \in Locals /\ stack \in Seq(Frame)

\* The phone gives out a handle once: neither it nor the cache knows one that
\* is still to come.
Known ==
  /\ \A h \in Handle : obj[h] # None => h <= lastHandle
  /\ \A d \in DOMAIN listing : d <= lastHandle /\ \A e \in listing[d] : e.handle <= lastHandle

\* What a cached listing shows is gone or is as shown.
Shown ==
  \A d \in DOMAIN listing : \A e \in listing[d] :
    obj[e.handle] # None => obj[e.handle] = [parent |-> d, name |-> e.name, isdir |-> e.isdir]

\* A cached listing shows every object of the directory, unless an upload can
\* fail and leave an object behind.
Complete ==
  "partial" \notin Faults
  => \A d \in DOMAIN listing : IsDir(d) =>
       \A h \in Handle : (obj[h] # None /\ obj[h].parent = d) => \E e \in listing[d] : e.handle = h

\* The object a rename or a move has looked up is where it was found, and
\* after the first half of rename_handle where it was moved to.
InPlace(d) == OnPhone(req.h) => obj[req.h].parent = d
Found ==
  /\ (\/ req.pc = "act" /\ req.op \in {"rename", "movedst", "hrename"}
      \/ req.pc = "walk" /\ req.op = "movedst")
     => InPlace(req.from)
  /\ req.pc = "hrename" => InPlace(req.to)

CacheInv == CacheTypes /\ Known /\ Shown /\ Complete /\ ParentsRight /\ CacheBounded
RequestInv == RequestTypes /\ Found /\ (req.pc = "tree" => stack # <<>>)

-----------------------------------------------------------------------------
(* The two ways a step changes the cache. *)

\* Listings are dropped, those of ds among them.
Dropped(ds) ==
  /\ DOMAIN listing' \subseteq DOMAIN listing \ ds
  /\ \A d \in DOMAIN listing' : listing'[d] = listing[d]
  /\ parents' = parents \/ (DOMAIN listing' = {} /\ parents' \in [Handle -> Dir \cup {None}])

\* Objects go, change in or between the directories ds, or are created there.
Changed(ds) ==
  /\ obj' \in [Handle -> Object \cup {None}]
  /\ lastHandle' \in 0..MaxHandle /\ lastHandle <= lastHandle'
  /\ \A h \in Handle :
       \/ obj'[h] = obj[h]
       \/ obj'[h] = None
       \/ /\ obj[h] # None /\ obj'[h] # None
          /\ obj[h].parent \in ds /\ obj'[h].parent \in ds /\ obj'[h].isdir = obj[h].isdir
       \/ /\ lastHandle < h /\ h <= lastHandle'
          /\ obj'[h].parent \in ds \/ "partial" \in Faults

LEMMA FiniteDir == IsFiniteSet(Dir)
<1>1. IsFiniteSet(1..MaxHandle)
  BY FS_Interval, ActorConstants
<1> QED BY <1>1, FS_AddElement DEF Dir, Handle

\* A change of the phone is harmless when the listings of the directories it
\* touches are dropped.
LEMMA ChangeKeeps ==
  ASSUME CacheInv, NEW ds, Dropped(ds), Changed(ds)
  PROVE  CacheInv'
<1> USE DEF CacheInv
<1>1. CacheTypes'
  BY DEF CacheTypes, Dropped, Changed
<1>2. lastHandle \in Int /\ lastHandle' \in Int /\ Handle \subseteq Int /\ Dir \subseteq Int
  BY ActorConstants DEF CacheTypes, Changed, Handle, Dir, Root
<1>3. Known'
  <2>1. \A h \in Handle : obj'[h] # None => h <= lastHandle'
    BY <1>2 DEF Known, Changed
  <2>2. \A d \in DOMAIN listing' : /\ d \in Dir /\ d <= lastHandle /\ listing'[d] = listing[d]
                                   /\ \A e \in listing[d] : e.handle \in Handle /\ e.handle <= lastHandle
    BY DEF Known, Dropped, CacheTypes, Entry
  <2>3. \A x \in Int : x <= lastHandle => x <= lastHandle'
    BY <1>2 DEF Changed
  <2> QED BY <1>2, <2>1, <2>2, <2>3 DEF Known
<1>9. \A x \in Int : x <= lastHandle => ~(lastHandle < x)
  BY <1>2
<1>4. Shown'
  <2> SUFFICES ASSUME NEW d \in DOMAIN listing', NEW e \in listing'[d], obj'[e.handle] # None
               PROVE  obj'[e.handle] = [parent |-> d, name |-> e.name, isdir |-> e.isdir]
    BY DEF Shown
  <2>1. d \in DOMAIN listing /\ d \notin ds /\ e \in listing[d] /\ e.handle \in Handle
    BY DEF Dropped, CacheTypes, Entry
  <2>2. e.handle <= lastHandle
    BY <2>1 DEF Known
  <2>3. ASSUME obj[e.handle] # None PROVE obj[e.handle].parent \notin ds
    <3>1. obj[e.handle] = [parent |-> d, name |-> e.name, isdir |-> e.isdir]
      BY <2>1, <2>3 DEF Shown
    <3>2. obj[e.handle].parent = d
      BY <3>1
    <3> QED BY <2>1, <3>2
  <2>4. obj'[e.handle] = obj[e.handle]
    <3>1. ~(lastHandle < e.handle)
      BY <1>2, <1>9, <2>1, <2>2
    <3> QED BY <2>1, <2>3, <3>1 DEF Changed
  <2> QED BY <2>1, <2>4 DEF Shown
<1>5. Complete'
  <2> SUFFICES ASSUME "partial" \notin Faults, NEW d \in DOMAIN listing', IsDir(d)',
                      NEW h \in Handle, obj'[h] # None, obj'[h].parent = d
               PROVE  \E e \in listing'[d] : e.handle = h
    BY DEF Complete
  <2>1. d \in DOMAIN listing /\ d \notin ds /\ listing'[d] = listing[d] /\ d \in Dir
    BY DEF Dropped, CacheTypes
  <2>2. IsDir(d)
    <3>1. CASE d = Root
      BY <3>1 DEF IsDir
    <3>2. CASE d # Root
      <4>1. d \in Handle /\ obj'[d] # None /\ obj'[d].isdir
        BY <3>2 DEF IsDir
      <4>2. d <= lastHandle
        BY <2>1 DEF Known
      <4>3. obj[d] # None /\ obj'[d].isdir = obj[d].isdir
        <5>1. ~(lastHandle < d)
          BY <1>2, <1>9, <4>1, <4>2
        <5> QED BY <4>1, <5>1 DEF Changed
      <4> QED BY <4>1, <4>3 DEF IsDir
    <3> QED BY <3>1, <3>2
  <2>3. obj'[h] = obj[h]
    BY <2>1 DEF Changed
  <2> QED BY <2>1, <2>2, <2>3 DEF Complete
<1>6. ParentsRight'
  BY DEF ParentsRight, Dropped
<1>7. CacheBounded'
  <2>1. IsFiniteSet(DOMAIN listing)
    BY FiniteDir, FS_Subset DEF CacheTypes
  <2>2. Cardinality(DOMAIN listing') <= Cardinality(DOMAIN listing)
        /\ Cardinality(DOMAIN listing) \in Nat /\ Cardinality(DOMAIN listing') \in Nat
    BY <2>1, FS_Subset, FS_CardinalityType DEF Dropped
  <2> QED BY <2>2, ActorConstants DEF CacheBounded
<1> QED BY <1>1, <1>3, <1>4, <1>5, <1>6, <1>7

\* Reading a directory, through the cache or from the phone, is harmless: what
\* the phone lists in it no other listing shows.
LEMMA RememberKeeps ==
  ASSUME CacheInv, NEW d \in Dir, NEW refresh \in BOOLEAN, Remember(d, refresh), UNCHANGED phone
  PROVE  CacheInv'
<1>1. CASE ~Fresh(d, refresh)
  BY <1>1 DEF Remember, CacheInv, CacheTypes, Known, Shown, Complete, ParentsRight, CacheBounded, IsDir
<1>2. CASE Fresh(d, refresh)
  <2> USE DEF CacheInv
  <2>1. PICK gone \in Evicted(d) :
          listing' = [x \in (DOMAIN listing \ gone) \cup {d} |->
                        IF x = d THEN Children(d) ELSE listing[x]]
    BY <1>2 DEF Remember
  <2>2. /\ IsDir(d)
        /\ parents' = [h \in Handle |-> IF \E e \in Children(d) : e.handle = h THEN d ELSE parents[h]]
    BY <1>2 DEF Remember
  <2>3. DOMAIN listing' = (DOMAIN listing \ gone) \cup {d} /\ listing'[d] = Children(d)
    BY <2>1
  <2>4. \A x \in DOMAIN listing' : x # d => x \in DOMAIN listing /\ listing'[x] = listing[x]
    BY <2>1
  <2>5. \A e \in Children(d) :
          /\ e \in Entry /\ obj[e.handle] # None
          /\ obj[e.handle] = [parent |-> d, name |-> e.name, isdir |-> e.isdir]
    <3> SUFFICES ASSUME NEW h \in Handle, obj[h] # None, obj[h].parent = d
                 PROVE  LET e == [handle |-> h, name |-> obj[h].name, isdir |-> obj[h].isdir]
                        IN  /\ e \in Entry
                            /\ obj[e.handle] = [parent |-> d, name |-> e.name, isdir |-> e.isdir]
      BY DEF Children
    <3>1. obj[h] \in Object
      BY DEF CacheTypes
    <3> QED BY <3>1 DEF Object, Entry
  <2>6. CacheTypes'
    <3>1. DOMAIN listing' \subseteq Dir
      BY <2>3 DEF CacheTypes
    <3>2. \A x \in DOMAIN listing' : listing'[x] \subseteq Entry
      <4>1. Children(d) \subseteq Entry
        BY <2>5
      <4>2. \A x \in DOMAIN listing' : x # d => listing'[x] \subseteq Entry
        BY <2>4 DEF CacheTypes
      <4> QED BY <2>3, <4>1, <4>2
    <3>3. parents' \in [Handle -> Dir \cup {None}]
      BY <2>2 DEF CacheTypes
    <3> QED BY <3>1, <3>2, <3>3 DEF CacheTypes
  <2>7. Known'
    <3>1. d <= lastHandle
      BY <2>2, ActorConstants DEF IsDir, Known, CacheTypes, Root
    <3>2. \A e \in Children(d) : e.handle <= lastHandle
      BY <2>5 DEF Known, Entry
    <3> QED BY <2>3, <2>4, <3>1, <3>2 DEF Known
  <2>8. Shown'
    BY <2>3, <2>4, <2>5 DEF Shown
  <2>9. Complete'
    <3> SUFFICES ASSUME "partial" \notin Faults, NEW x \in DOMAIN listing', IsDir(x),
                        NEW h \in Handle, obj[h] # None, obj[h].parent = x
                 PROVE  \E e \in listing'[x] : e.handle = h
      BY DEF Complete, IsDir
    <3>1. CASE x = d
      <4>1. [handle |-> h, name |-> obj[h].name, isdir |-> obj[h].isdir] \in Children(d)
        BY <3>1 DEF Children
      <4> QED BY <2>3, <3>1, <4>1
    <3>2. CASE x # d
      BY <2>4, <3>2 DEF Complete
    <3> QED BY <3>1, <3>2
  <2>10. ParentsRight'
    <3> SUFFICES ASSUME NEW x \in DOMAIN listing', NEW e \in listing'[x] PROVE parents'[e.handle] = x
      BY DEF ParentsRight
    <3>1. CASE x = d
      BY <2>2, <2>3, <2>5, <3>1 DEF Entry
    <3>2. CASE x # d
      <4>1. x \in DOMAIN listing /\ e \in listing[x] /\ e.handle \in Handle
        BY <2>4, <3>2 DEF CacheTypes, Entry
      <4>2. ~\E f \in Children(d) : f.handle = e.handle
        <5> SUFFICES ASSUME NEW f \in Children(d), f.handle = e.handle PROVE FALSE
          OBVIOUS
        <5>1. obj[e.handle] # None /\ obj[e.handle] = [parent |-> d, name |-> f.name, isdir |-> f.isdir]
          BY <2>5
        <5>2. obj[e.handle] = [parent |-> x, name |-> e.name, isdir |-> e.isdir]
          BY <4>1, <5>1 DEF Shown
        <5>3. obj[e.handle].parent = d
          BY <5>1
        <5>4. obj[e.handle].parent = x
          BY <5>2
        <5> QED BY <3>2, <5>3, <5>4
      <4> QED BY <2>2, <4>1, <4>2 DEF ParentsRight
    <3> QED BY <3>1, <3>2
  <2>11. CacheBounded'
    <3>1. IsFiniteSet(DOMAIN listing) /\ Cardinality(DOMAIN listing) \in Nat
      BY FiniteDir, FS_Subset, FS_CardinalityType DEF CacheTypes
    <3>2. MaxListings \in Nat
      BY ActorConstants
    <3>3. CASE d \in DOMAIN listing
      <4>1. gone = {}
        BY <3>3 DEF Evicted
      <4>2. DOMAIN listing' = DOMAIN listing
        BY <2>3, <3>3, <4>1
      <4> QED BY <4>2 DEF CacheBounded
    <3>4. CASE d \notin DOMAIN listing /\ Cardinality(DOMAIN listing) >= MaxListings
      <4>1. PICK x \in DOMAIN listing : gone = {x}
        BY <3>4 DEF Evicted
      <4>2. /\ IsFiniteSet(DOMAIN listing \ {x})
            /\ Cardinality(DOMAIN listing \ {x}) = Cardinality(DOMAIN listing) - 1
        BY <3>1, FS_RemoveElement
      <4>3. Cardinality(DOMAIN listing') = Cardinality(DOMAIN listing \ {x}) + 1
        BY <2>3, <3>4, <4>1, <4>2, FS_AddElement
      <4> QED BY <3>1, <3>2, <4>2, <4>3 DEF CacheBounded
    <3>5. CASE d \notin DOMAIN listing /\ ~(Cardinality(DOMAIN listing) >= MaxListings)
      <4>1. gone = {}
        BY <3>5 DEF Evicted
      <4>2. Cardinality(DOMAIN listing') = Cardinality(DOMAIN listing) + 1
        BY <2>3, <3>1, <3>5, <4>1, FS_AddElement
      <4> QED BY <3>1, <3>2, <3>5, <4>2 DEF CacheBounded
    <3> QED BY <3>3, <3>4, <3>5
  <2> QED BY <2>6, <2>7, <2>8, <2>9, <2>10, <2>11
<1> QED BY <1>1, <1>2

-----------------------------------------------------------------------------
(* Each change of the phone in the model is one of those. *)

LEMMA InvalidateDrops ==
  ASSUME NEW ds, Invalidate(ds) PROVE Dropped(ds)
BY DEF Invalidate, Dropped

LEMMA NothingDropped ==
  ASSUME UNCHANGED cache PROVE Dropped({})
BY DEF Dropped

LEMMA HandleInvalidateDrops ==
  ASSUME CacheInv, NEW h \in Handle, InvalidateHandle(h) PROVE \E ds : Dropped(ds)
<1>1. CASE parents[h] # None
  BY <1>1, InvalidateDrops DEF InvalidateHandle
<1>2. CASE parents[h] = None
  <2>1. DOMAIN listing' = {}
    BY <1>2 DEF InvalidateHandle
  <2>2. parents' \in [Handle -> Dir \cup {None}]
    BY <1>2 DEF InvalidateHandle
  <2> QED BY <2>1, <2>2 DEF Dropped
<1> QED BY <1>1, <1>2

\* Objects that go change nothing a listing could get wrong.
LEMMA DeletedChanges ==
  ASSUME CacheInv, NEW h, obj' = Deleted(h), UNCHANGED lastHandle, NEW ds
  PROVE  /\ Changed(ds)
         /\ \A x \in Handle : obj'[x] = obj[x] \/ obj'[x] = None
<1>1. \A x \in Handle : obj'[x] = obj[x] \/ obj'[x] = None
  BY DEF Deleted
<1>2. obj' \in [Handle -> Object \cup {None}]
  BY DEF Deleted, CacheInv, CacheTypes
<1>3. lastHandle' \in 0..MaxHandle /\ lastHandle <= lastHandle'
  BY ActorConstants DEF CacheInv, CacheTypes
<1> QED BY <1>1, <1>2, <1>3 DEF Changed

LEMMA RenamedChanges ==
  ASSUME CacheInv, NEW h \in Handle, obj[h] # None, NEW n \in Names,
         obj' = [obj EXCEPT ![h].name = n], UNCHANGED lastHandle, NEW ds, obj[h].parent \in ds
  PROVE  Changed(ds) /\ obj'[h].parent = obj[h].parent
<1>1. obj[h] \in Object
  BY DEF CacheInv, CacheTypes
<1>2. obj'[h] = [obj[h] EXCEPT !.name = n] /\ \A x \in Handle : x # h => obj'[x] = obj[x]
  BY DEF CacheInv, CacheTypes
<1>3. obj'[h] \in Object /\ obj'[h].parent = obj[h].parent /\ obj'[h].isdir = obj[h].isdir
  BY <1>1, <1>2 DEF Object
<1>4. obj' \in [Handle -> Object \cup {None}]
  BY <1>2, <1>3 DEF CacheInv, CacheTypes
<1>5. obj'[h] # None
  BY <1>3, ActorNone
<1>6. lastHandle' \in 0..MaxHandle /\ lastHandle <= lastHandle'
  BY ActorConstants DEF CacheInv, CacheTypes
<1> QED BY <1>2, <1>3, <1>4, <1>5, <1>6 DEF Changed

LEMMA MovedChanges ==
  ASSUME CacheInv, NEW h \in Handle, obj[h] # None, NEW d \in Dir,
         obj' = [obj EXCEPT ![h].parent = d], UNCHANGED lastHandle
  PROVE  Changed({obj[h].parent, d}) /\ obj'[h].parent = d
<1>1. obj[h] \in Object
  BY DEF CacheInv, CacheTypes
<1>2. obj'[h] = [obj[h] EXCEPT !.parent = d] /\ \A x \in Handle : x # h => obj'[x] = obj[x]
  BY DEF CacheInv, CacheTypes
<1>3. obj'[h] \in Object /\ obj'[h].parent = d /\ obj'[h].isdir = obj[h].isdir
  BY <1>1, <1>2 DEF Object
<1>4. obj' \in [Handle -> Object \cup {None}]
  BY <1>2, <1>3 DEF CacheInv, CacheTypes
<1>5. obj'[h] # None
  BY <1>3, ActorNone
<1>6. lastHandle' \in 0..MaxHandle /\ lastHandle <= lastHandle'
  BY ActorConstants DEF CacheInv, CacheTypes
<1> QED BY <1>2, <1>3, <1>4, <1>5, <1>6 DEF Changed

LEMMA CreatedChanges ==
  ASSUME CacheInv, NEW d \in Dir, NEW n \in Names, NEW isdir \in BOOLEAN, NEW ds,
         lastHandle + 1 \in Handle, lastHandle' = lastHandle + 1,
         obj' = [obj EXCEPT ![lastHandle + 1] = [parent |-> d, name |-> n, isdir |-> isdir]],
         d \in ds \/ "partial" \in Faults
  PROVE  Changed(ds)
<1> DEFINE h == lastHandle + 1
           o == [parent |-> d, name |-> n, isdir |-> isdir]
<1>1. o \in Object /\ o.parent = d
  BY DEF Object
<1>2. obj'[h] = o /\ \A x \in Handle : x # h => obj'[x] = obj[x]
  BY DEF CacheInv, CacheTypes
<1>3. obj' \in [Handle -> Object \cup {None}]
  BY <1>1, <1>2 DEF CacheInv, CacheTypes
<1>4. /\ lastHandle' \in 0..MaxHandle /\ lastHandle <= lastHandle'
      /\ lastHandle < h /\ h <= lastHandle'
  BY ActorConstants DEF CacheInv, CacheTypes, Handle
<1> HIDE DEF h, o
<1>5. \A x \in Handle : obj'[x] = obj[x]
                        \/ (lastHandle < x /\ x <= lastHandle' /\ (obj'[x].parent \in ds \/ "partial" \in Faults))
  BY <1>1, <1>2, <1>4
<1> QED BY <1>3, <1>4, <1>5 DEF Changed

-----------------------------------------------------------------------------
(* The request being served. *)

ActorInv == CacheInv /\ RequestInv

LEMMA Paths ==
  /\ <<>> \in Path
  /\ \A p \in Path : p # <<>> => Tail(p) \in Path /\ Head(p) \in Names
<1>1. <<>> \in Path
  <2>1. 0 \in 0..MaxDepth
    BY ActorConstants
  <2>2. <<>> \in [1..0 -> Names]
    OBVIOUS
  <2> QED BY <2>1, <2>2 DEF Path
<1>2. ASSUME NEW p \in Path, p # <<>> PROVE Tail(p) \in Path /\ Head(p) \in Names
  <2>1. PICK n \in 0..MaxDepth : p \in [1..n -> Names]
    BY DEF Path
  <2>2. n \in Nat /\ p \in Seq(Names) /\ Len(p) = n
    BY <2>1, ActorConstants
  <2>3. n # 0
    BY <1>2, <2>2
  <2>4. n - 1 \in 0..MaxDepth
    BY <2>2, <2>3, ActorConstants
  <2>5. Tail(p) \in Seq(Names) /\ Len(Tail(p)) = n - 1 /\ Head(p) \in Names
    BY <1>2, <2>2
  <2>6. Tail(p) \in [1..(n - 1) -> Names]
    <3>1. \A q \in Seq(Names) : q \in [1..Len(q) -> Names]
      OBVIOUS
    <3>2. Tail(p) \in [1..Len(Tail(p)) -> Names]
      BY <2>5, <3>1
    <3> QED BY <2>5, <3>2
  <2> QED BY <2>4, <2>5, <2>6 DEF Path
<1> QED BY <1>1, <1>2

LEMMA IdleTyped == Idle \in Locals /\ Idle.pc = "idle"
<1>1. (CHOOSE n \in Names : TRUE) \in Names
  BY ActorConstants
<1>2. Root \in Dir
  BY DEF Dir
<1> HIDE DEF Root
<1> QED BY <1>1, <1>2, Paths DEF Idle, Locals

LEMMA Returned == ASSUME Return PROVE RequestInv'
<1>1. req' = Idle /\ stack' = <<>>
  BY DEF Return
<1>2. req' \in Locals /\ req'.pc = "idle" /\ stack' \in Seq(Frame)
  BY <1>1, IdleTyped
<1> QED BY <1>2 DEF RequestInv, RequestTypes, Found

LEMMA SameCache == ASSUME CacheInv, UNCHANGED <<phone, cache>> PROVE CacheInv'
BY DEF CacheInv, CacheTypes, Known, Shown, Complete, ParentsRight, CacheBounded, IsDir

\* What a handler sees in a directory, cached or not, is typed, and is in that
\* directory if it is still on the phone.
LEMMA SeenFacts ==
  ASSUME CacheInv, NEW d \in Dir, NEW refresh
  PROVE  \A e \in Seen(d, refresh) : /\ e \in Entry
                                     /\ OnPhone(e.handle) => obj[e.handle].parent = d
<1>1. ASSUME NEW e \in Children(d) PROVE e \in Entry /\ obj[e.handle].parent = d
  <2>1. PICK h \in Handle : /\ obj[h] # None /\ obj[h].parent = d
                            /\ e = [handle |-> h, name |-> obj[h].name, isdir |-> obj[h].isdir]
    BY <1>1 DEF Children
  <2>2. obj[h] \in Object
    BY <2>1 DEF CacheInv, CacheTypes
  <2> QED BY <2>1, <2>2 DEF Object, Entry
<1>2. ASSUME NEW e, d \in DOMAIN listing, e \in listing[d]
      PROVE  e \in Entry /\ (OnPhone(e.handle) => obj[e.handle].parent = d)
  <2>1. e \in Entry
    BY <1>2 DEF CacheInv, CacheTypes
  <2>2. ASSUME OnPhone(e.handle) PROVE obj[e.handle].parent = d
    <3>1. obj[e.handle] = [parent |-> d, name |-> e.name, isdir |-> e.isdir]
      BY <1>2, <2>2 DEF CacheInv, Shown, OnPhone
    <3> QED BY <3>1
  <2> QED BY <2>1, <2>2
<1> QED BY <1>1, <1>2 DEF Seen, Fresh

LEMMA CachedFacts ==
  ASSUME CacheInv, NEW d \in Dir
  PROVE  \A e \in Seen(d, FALSE) : /\ e \in Entry /\ e.handle \in Dir /\ e.isdir \in BOOLEAN
                                   /\ OnPhone(e.handle) => obj[e.handle].parent = d
<1>1. \A e \in Seen(d, FALSE) : e \in Entry /\ (OnPhone(e.handle) => obj[e.handle].parent = d)
  BY SeenFacts, Zenon
<1>2. \A e \in Entry : e.handle \in Dir /\ e.isdir \in BOOLEAN
  BY DEF Entry, Dir
<1> QED BY <1>1, <1>2

LEMMA TopFrame ==
  ASSUME NEW s \in Seq(Frame), s # <<>>
  PROVE  /\ s[Len(s)] \in Frame
         /\ \A f \in Frame : /\ [s EXCEPT ![Len(s)] = f] \in Seq(Frame)
                             /\ [s EXCEPT ![Len(s)] = f] # <<>>
                             /\ Len([s EXCEPT ![Len(s)] = f]) = Len(s)
<1>1. Len(s) \in Nat /\ Len(s) # 0 /\ s \in [1..Len(s) -> Frame]
  OBVIOUS
<1>2. Len(s) \in 1..Len(s)
  BY <1>1
<1>3. ASSUME NEW f \in Frame
      PROVE  [s EXCEPT ![Len(s)] = f] \in Seq(Frame) /\ Len([s EXCEPT ![Len(s)] = f]) = Len(s)
  <2>1. [s EXCEPT ![Len(s)] = f] \in [1..Len(s) -> Frame]
    BY <1>1
  <2> QED BY <1>1, <2>1
<1>4. ASSUME NEW f \in Frame PROVE [s EXCEPT ![Len(s)] = f] # <<>>
  BY <1>1, <1>3
<1> QED BY <1>1, <1>2, <1>3, <1>4

-----------------------------------------------------------------------------
(* One lemma per group of actions. *)

\* The first state: nothing is cached and nothing asked for.
LEMMA ActorInit == Init => ActorInv
<1> SUFFICES ASSUME Init PROVE ActorInv
  OBVIOUS
<1>1. DOMAIN listing = {}
  BY DEF Init
<1>2. CacheTypes
  BY <1>1, ActorConstants DEF Init, CacheTypes
<1>3. Known
  <2>1. \A h \in Handle : obj[h] # None => h <= lastHandle
    BY ActorConstants DEF Init, Handle
  <2> QED BY <1>1, <2>1 DEF Known
<1>4. Shown /\ Complete /\ ParentsRight
  BY <1>1 DEF Shown, Complete, ParentsRight
<1>5. CacheBounded
  BY <1>1, FS_EmptySet, ActorConstants DEF CacheBounded
<1>6. RequestInv
  BY IdleTyped DEF Init, RequestInv, RequestTypes, Found
<1> QED BY <1>2, <1>3, <1>4, <1>5, <1>6 DEF ActorInv, CacheInv

\* A request arrives.
LEMMA CallsKeep ==
  ASSUME ActorInv,
         ListCall \/ ResolveCall \/ RemoveCall \/ RenameCall \/ MoveCall \/ MkdirAllCall
  PROVE  ActorInv'
<1>1. UNCHANGED <<phone, cache, stack>>
  BY DEF ListCall, ResolveCall, RemoveCall, RenameCall, MoveCall, MkdirAllCall
<1>2. req' \in Locals /\ req'.pc \in {"walk", "mkdirs"} /\ req'.op # "movedst"
  <2>1. ASSUME NEW f \in {"list", "resolve"}, NEW p \in Path, NEW r \in BOOLEAN,
               req' = [Idle EXCEPT !.pc = "walk", !.op = f, !.path = p, !.flag = r]
        PROVE  <1>2!:
    BY <2>1, IdleTyped DEF Locals
  <2>2. ASSUME NEW p \in Path, NEW n \in Names, NEW r \in BOOLEAN,
               req' = [Idle EXCEPT !.pc = "walk", !.op = "remove", !.path = p, !.name = n, !.flag = r]
        PROVE  <1>2!:
    BY <2>2, IdleTyped DEF Locals
  <2>3. ASSUME NEW p \in Path, NEW n \in Names, NEW m \in Names,
               req' = [Idle EXCEPT !.pc = "walk", !.op = "rename", !.path = p, !.name = n, !.toName = m]
        PROVE  <1>2!:
    BY <2>3, IdleTyped DEF Locals
  <2>4. ASSUME NEW p \in Path, NEW q \in Path, NEW n \in Names,
               req' = [Idle EXCEPT !.pc = "walk", !.op = "move", !.path = p, !.name = n, !.toPath = q]
        PROVE  <1>2!:
    BY <2>4, IdleTyped DEF Locals
  <2>5. ASSUME NEW p \in Path,
               req' = [Idle EXCEPT !.pc = "mkdirs", !.op = "mkdir_all", !.path = p]
        PROVE  <1>2!:
    BY <2>5, IdleTyped DEF Locals
  <2>6. CASE ListCall \/ ResolveCall
    BY <2>1, <2>6 DEF ListCall, ResolveCall
  <2>7. CASE RemoveCall
    BY <2>2, <2>7 DEF RemoveCall
  <2>8. CASE RenameCall
    BY <2>3, <2>8 DEF RenameCall
  <2>9. CASE MoveCall
    BY <2>4, <2>9 DEF MoveCall
  <2>10. CASE MkdirAllCall
    BY <2>5, <2>10 DEF MkdirAllCall
  <2> QED BY <2>6, <2>7, <2>8, <2>9, <2>10
<1>3. RequestInv'
  BY <1>1, <1>2 DEF ActorInv, RequestInv, RequestTypes, Found
<1> QED BY <1>1, <1>3, SameCache DEF ActorInv

\* A handler looks something up: the cache may take in a listing, the phone
\* stays as it is.
LEMMA LookupsKeep ==
  ASSUME ActorInv, WalkStep \/ Find \/ MkdirWalk \/ ListEnd
  PROVE  ActorInv'
<1>1. req \in Locals /\ req.cur \in Dir /\ UNCHANGED phone /\ FALSE \in BOOLEAN
  BY DEF ActorInv, RequestInv, RequestTypes, Locals, WalkStep, Find, MkdirWalk, ListEnd
<1>2. Refresh \in BOOLEAN
  BY <1>1 DEF Refresh, Locals
<1>3. CacheInv'
  <2>1. \/ \E r \in BOOLEAN : Remember(req.cur, r)
        \/ UNCHANGED cache
    BY <1>1, <1>2 DEF WalkStep, Find, MkdirWalk, ListEnd, ListFails
  <2> QED BY <1>1, <2>1, RememberKeeps, SameCache DEF ActorInv
<1>4. RequestInv'
  <2>1. CASE Return
    BY <2>1, Returned
  <2>2. CASE UNCHANGED stack /\ req' \in Locals /\ req'.pc \in {"mkdirs", "create"}
    BY <2>2 DEF ActorInv, RequestInv, RequestTypes, Found
  <2>3. CASE WalkStep /\ ~Return
    <3>1. PICK e \in Seen(req.cur, Refresh) :
            req.pc = "walk" /\ req.path # <<>> /\ UNCHANGED stack
            /\ req' = [req EXCEPT !.path = Tail(@), !.cur = e.handle]
      BY <2>3 DEF WalkStep
    <3>2. e.handle \in Dir
      BY <1>1, SeenFacts DEF ActorInv, Entry, Dir
    <3>3. req' \in Locals /\ req'.pc = "walk" /\ req'.op = req.op /\ req'.h = req.h /\ req'.from = req.from
      BY <1>1, <3>1, <3>2, Paths DEF Locals
    <3>4. Found'
      BY <1>1, <3>1, <3>3 DEF Found, InPlace, OnPhone, ActorInv, RequestInv
    <3> QED BY <3>1, <3>3, <3>4 DEF ActorInv, RequestInv, RequestTypes
  <2>4. CASE Find /\ ~Return
    <3>1. PICK e \in Seen(req.cur, FALSE) :
            UNCHANGED stack
            /\ LET r == [req EXCEPT !.h = e.handle, !.isdir = e.isdir, !.from = req.cur] IN
               req' = IF req.op = "move"
                      THEN [r EXCEPT !.op = "movedst", !.path = req.toPath, !.cur = Root]
                      ELSE [r EXCEPT !.pc = "act"]
      BY <2>4 DEF Find
    <3>2. /\ e.handle \in Dir /\ e.isdir \in BOOLEAN /\ Root \in Dir
          /\ OnPhone(e.handle) => obj[e.handle].parent = req.cur
      BY <1>1, CachedFacts DEF ActorInv, Dir
    <3>3. req.pc = "walk"
      BY <2>4 DEF Find
    <3> HIDE DEF Root
    <3>4. /\ req' \in Locals /\ req'.pc \in {"walk", "act"}
          /\ req'.h = e.handle /\ req'.from = req.cur
      BY <1>1, <3>1, <3>2, <3>3 DEF Locals
    <3>5. Found'
      BY <1>1, <3>2, <3>4 DEF Found, InPlace, OnPhone
    <3> QED BY <3>1, <3>4, <3>5 DEF ActorInv, RequestInv, RequestTypes
  <2>5. CASE MkdirWalk /\ ~Return
    <3>1. UNCHANGED stack /\ req.pc = "mkdirs" /\ req.path # <<>>
      BY <2>5 DEF MkdirWalk
    <3>2. CASE \E e \in Seen(req.cur, FALSE) : req' = [req EXCEPT !.path = Tail(@), !.cur = e.handle]
      <4>1. PICK e \in Seen(req.cur, FALSE) : req' = [req EXCEPT !.path = Tail(@), !.cur = e.handle]
        BY <3>2
      <4>2. e.handle \in Dir
        BY <1>1, CachedFacts DEF ActorInv
      <4>3. req' \in Locals /\ req'.pc = "mkdirs"
        BY <1>1, <3>1, <4>1, <4>2, Paths DEF Locals
      <4> QED BY <2>2, <3>1, <4>3
    <3>3. CASE Goto("create")
      <4>1. req' \in Locals /\ req'.pc = "create"
        BY <1>1, <3>3 DEF Goto, Locals
      <4> QED BY <2>2, <3>1, <4>1
    <3> QED BY <2>5, <3>2, <3>3 DEF MkdirWalk
  <2>6. CASE ListEnd
    BY <2>1, <2>6 DEF ListEnd
  <2> QED BY <2>1, <2>3, <2>4, <2>5, <2>6
<1> QED BY <1>3, <1>4 DEF ActorInv

\* rename_handle finds its object.
LEMMA HRenameFindKeeps ==
  ASSUME ActorInv, HRenameFind
  PROVE  ActorInv'
<1>1. PICK d \in ClientDirs, t \in ClientDirs, n \in Names, m \in Names :
        \/ /\ Remember(d, FALSE)
           /\ \/ \E e \in Seen(d, FALSE) :
                   req' = [Idle EXCEPT !.pc = "act", !.op = "hrename", !.h = e.handle,
                                       !.from = d, !.name = n, !.to = t, !.toName = m]
              \/ UNCHANGED req
        \/ UNCHANGED <<cache, req>>
  BY DEF HRenameFind, ListFails
<1>2. d \in Dir /\ t \in Dir /\ UNCHANGED <<phone, stack>> /\ req.pc = "idle" /\ FALSE \in BOOLEAN
  BY DEF ClientDirs, HRenameFind, Arrives
<1>3. CacheInv'
  <2>1. CASE Remember(d, FALSE)
    BY <1>2, <2>1, RememberKeeps DEF ActorInv
  <2>2. CASE UNCHANGED cache
    BY <1>2, <2>2, SameCache DEF ActorInv
  <2> QED BY <1>1, <2>1, <2>2
<1>4. CASE UNCHANGED req
  BY <1>2, <1>3, <1>4 DEF ActorInv, RequestInv, RequestTypes, Found
<1>5. CASE \E e \in Seen(d, FALSE) :
             req' = [Idle EXCEPT !.pc = "act", !.op = "hrename", !.h = e.handle,
                                 !.from = d, !.name = n, !.to = t, !.toName = m]
  <2>1. PICK e \in Seen(d, FALSE) :
          req' = [Idle EXCEPT !.pc = "act", !.op = "hrename", !.h = e.handle,
                              !.from = d, !.name = n, !.to = t, !.toName = m]
    BY <1>5
  <2>2. e.handle \in Dir /\ (OnPhone(e.handle) => obj[e.handle].parent = d)
    BY <1>2, CachedFacts DEF ActorInv
  <2>3. req' \in Locals /\ req'.pc = "act" /\ req'.h = e.handle /\ req'.from = d
    BY <1>2, <2>1, <2>2, IdleTyped DEF Locals
  <2>4. Found'
    BY <1>2, <2>2, <2>3 DEF Found, InPlace, OnPhone
  <2> QED BY <1>2, <1>3, <2>3, <2>4 DEF ActorInv, RequestInv, RequestTypes
<1> QED BY <1>1, <1>4, <1>5

\* A request ends, or goes on, without a call to the phone that changes it.
LEMMA QuietStepsKeep ==
  ASSUME ActorInv, ResolveEnd \/ FindDst \/ RemoveDir \/ MkdirEnd
  PROVE  ActorInv'
<1>1. req \in Locals /\ UNCHANGED <<phone, cache>>
  BY DEF ActorInv, RequestInv, RequestTypes, ResolveEnd, FindDst, RemoveDir, MkdirEnd
<1>2. RequestInv'
  <2>1. CASE Return
    BY <2>1, Returned
  <2>2. CASE FindDst /\ ~Return
    <3>1. /\ req.pc = "walk" /\ req.op = "movedst" /\ UNCHANGED stack
          /\ req' = [req EXCEPT !.pc = "act", !.to = req.cur]
      BY <2>2 DEF FindDst
    <3>2. /\ req' \in Locals /\ req'.pc = "act" /\ req'.op = "movedst"
          /\ req'.h = req.h /\ req'.from = req.from
      BY <1>1, <3>1 DEF Locals
    <3>3. Found'
      BY <1>1, <3>1, <3>2 DEF Found, InPlace, OnPhone, ActorInv, RequestInv
    <3> QED BY <3>1, <3>2, <3>3 DEF ActorInv, RequestInv, RequestTypes
  <2>3. CASE RemoveDir /\ ~Return
    <3>1. stack' = <<NewFrame(req.h)>> /\ req' = [req EXCEPT !.pc = "tree"]
      BY <2>3 DEF RemoveDir, Goto
    <3>2. NewFrame(req.h) \in Frame
      BY <1>1 DEF NewFrame, Frame, Locals
    <3>3. stack' \in Seq(Frame) /\ stack' # <<>>
      BY <3>1, <3>2
    <3>4. req' \in Locals /\ req'.pc = "tree"
      BY <1>1, <3>1 DEF Locals
    <3> QED BY <3>3, <3>4 DEF RequestInv, RequestTypes, Found
  <2> QED BY <2>1, <2>2, <2>3 DEF ResolveEnd, MkdirEnd
<1> QED BY <1>1, <1>2, SameCache DEF ActorInv

\* delete_tree lists a directory.
LEMMA TreeListKeeps ==
  ASSUME ActorInv, TreeList
  PROVE  ActorInv'
<1> DEFINE top == stack[Len(stack)]
<1>1. /\ req \in Locals /\ stack \in Seq(Frame) /\ stack # <<>> /\ req.pc = "tree" /\ UNCHANGED phone
  BY DEF ActorInv, RequestInv, RequestTypes, TreeList
<1>2. top \in Frame
  BY <1>1, TopFrame
<1>3. top.dir \in Dir
  BY <1>2 DEF Frame
<1>4. \/ Remember(top.dir, FALSE) /\ UNCHANGED req
         /\ stack' = [stack EXCEPT ![Len(stack)] =
              [dir |-> top.dir, listed |-> TRUE, todo |-> Seen(top.dir, FALSE)]]
      \/ UNCHANGED cache /\ Return
  BY DEF TreeList, ListFails
<1> HIDE DEF top
<1>5. CASE Return /\ UNCHANGED cache
  BY <1>1, <1>5, Returned, SameCache DEF ActorInv
<1>6. CASE /\ Remember(top.dir, FALSE) /\ UNCHANGED req
           /\ stack' = [stack EXCEPT ![Len(stack)] =
                [dir |-> top.dir, listed |-> TRUE, todo |-> Seen(top.dir, FALSE)]]
  <2>1. CacheInv'
    <3>1. FALSE \in BOOLEAN
      OBVIOUS
    <3> QED BY <1>1, <1>3, <1>6, <3>1, RememberKeeps DEF ActorInv
  <2>2. [dir |-> top.dir, listed |-> TRUE, todo |-> Seen(top.dir, FALSE)] \in Frame
    BY <1>3, CachedFacts DEF ActorInv, Frame
  <2>3. stack' \in Seq(Frame) /\ stack' # <<>>
    BY <1>1, <1>6, <2>2, TopFrame
  <2>4. RequestInv'
    BY <1>1, <1>6, <2>3 DEF RequestInv, RequestTypes, Found
  <2> QED BY <2>1, <2>4 DEF ActorInv
<1> QED BY <1>4, <1>5, <1>6

\* delete_tree deletes an entry, or goes down into it.
LEMMA TreeEntryKeeps ==
  ASSUME ActorInv, TreeEntry
  PROVE  ActorInv'
<1> DEFINE top == stack[Len(stack)]
<1>1. /\ req \in Locals /\ stack \in Seq(Frame) /\ stack # <<>> /\ req.pc = "tree"
      /\ UNCHANGED <<lastHandle, cache>>
  BY DEF ActorInv, RequestInv, RequestTypes, TreeEntry
<1>2. PICK e \in top.todo :
        LET rest == [stack EXCEPT ![Len(stack)].todo = @ \ {e}] IN
        \/ stack' = Append(rest, NewFrame(e.handle)) /\ UNCHANGED <<obj, req>>
        \/ stack' = rest /\ UNCHANGED req /\ obj' = Deleted(e.handle)
        \/ Return /\ UNCHANGED obj
  BY DEF TreeEntry
<1>3. top \in Frame
  BY <1>1, TopFrame
<1>4. e \in Entry
  BY <1>3 DEF Frame
<1>5. CacheInv'
  <2>1. CASE UNCHANGED obj
    BY <1>1, <2>1, SameCache DEF ActorInv
  <2>2. CASE obj' = Deleted(e.handle)
    BY <1>1, <2>2, NothingDropped, DeletedChanges, ChangeKeeps DEF ActorInv
  <2> QED BY <1>2, <2>1, <2>2
<1>6. RequestInv'
  <2> DEFINE f == [top EXCEPT !.todo = @ \ {e}]
             rest == [stack EXCEPT ![Len(stack)] = f]
  <2>1. f \in Frame
    BY <1>3 DEF Frame
  <2> HIDE DEF f
  <2>2. rest \in Seq(Frame) /\ rest # <<>>
    BY <1>1, <2>1, TopFrame
  <2>3. rest = [stack EXCEPT ![Len(stack)].todo = @ \ {e}]
    BY DEF f
  <2>4. NewFrame(e.handle) \in Frame
    BY <1>4 DEF NewFrame, Frame, Entry, Dir
  <2> HIDE DEF rest
  <2>5. Append(rest, NewFrame(e.handle)) \in Seq(Frame) /\ Append(rest, NewFrame(e.handle)) # <<>>
    BY <2>2, <2>4
  <2>6. CASE Return
    BY <2>6, Returned
  <2>7. CASE UNCHANGED req /\ stack' \in {rest, Append(rest, NewFrame(e.handle))}
    <3>1. stack' \in Seq(Frame) /\ stack' # <<>>
      BY <2>2, <2>5, <2>7
    <3> QED BY <1>1, <2>7, <3>1 DEF RequestInv, RequestTypes, Found
  <2> QED BY <1>2, <2>3, <2>6, <2>7
<1> QED BY <1>5, <1>6 DEF ActorInv

\* delete_tree deletes an emptied directory.
LEMMA TreeDirKeeps ==
  ASSUME ActorInv, TreeDir
  PROVE  ActorInv'
<1> DEFINE top == stack[Len(stack)]
<1>1. req \in Locals /\ stack \in Seq(Frame) /\ stack # <<>> /\ req.pc = "tree" /\ UNCHANGED lastHandle
  BY DEF ActorInv, RequestInv, RequestTypes, TreeDir
<1>2. CacheInv'
  <2>1. CASE UNCHANGED <<obj, cache>>
    BY <1>1, <2>1, SameCache DEF ActorInv
  <2>2. CASE obj' = Deleted(top.dir) /\ \E ds : Invalidate(ds)
    BY <1>1, <2>2, InvalidateDrops, DeletedChanges, ChangeKeeps DEF ActorInv
  <2> QED BY <2>1, <2>2 DEF TreeDir
<1>3. RequestInv'
  <2>1. CASE Return
    BY <2>1, Returned
  <2>2. CASE ~Return
    <3>1. Len(stack) # 1 /\ stack' = SubSeq(stack, 1, Len(stack) - 1) /\ UNCHANGED req
      BY <2>2 DEF TreeDir
    <3>2. Len(stack) - 1 \in 1..Len(stack)
      <4>1. Len(stack) \in Nat /\ Len(stack) # 0
        BY <1>1
      <4>2. \A n \in Nat : n # 0 /\ n # 1 => n - 1 \in 1..n
        OBVIOUS
      <4> QED BY <3>1, <4>1, <4>2
    <3>3. stack' \in Seq(Frame) /\ Len(stack') = Len(stack) - 1
      BY <1>1, <3>1, <3>2
    <3>4. stack' # <<>>
      BY <3>2, <3>3
    <3> QED BY <1>1, <3>1, <3>3, <3>4 DEF RequestInv, RequestTypes, Found
  <2> QED BY <2>1, <2>2
<1> QED BY <1>2, <1>3 DEF ActorInv

\* The changes requests by path end with.
LEMMA PathChangesKeep ==
  ASSUME ActorInv, RemoveFile \/ RenameAct \/ MoveAct
  PROVE  ActorInv'
<1>1. Return /\ UNCHANGED lastHandle /\ req \in Locals
  BY DEF RemoveFile, RenameAct, MoveAct, ActorInv, RequestInv, RequestTypes
<1>2. CacheInv'
  <2>1. CASE UNCHANGED <<obj, cache>>
    BY <1>1, <2>1, SameCache DEF ActorInv
  <2>2. CASE RemoveFile
    BY <1>1, <2>1, <2>2, InvalidateDrops, DeletedChanges, ChangeKeeps DEF ActorInv, RemoveFile
  <2>3. CASE RenameAct /\ ~UNCHANGED <<obj, cache>>
    <3>1. /\ req.pc = "act" /\ req.op = "rename" /\ OnPhone(req.h)
          /\ obj' = [obj EXCEPT ![req.h].name = req.toName] /\ Invalidate({req.from})
      BY <2>3 DEF RenameAct
    <3>2. obj[req.h].parent = req.from
      BY <3>1 DEF ActorInv, RequestInv, Found, InPlace
    <3>3. Changed({req.from})
      BY <1>1, <3>1, <3>2, RenamedChanges DEF ActorInv, OnPhone, Locals
    <3> QED BY <3>1, <3>3, InvalidateDrops, ChangeKeeps DEF ActorInv
  <2>4. CASE MoveAct /\ ~UNCHANGED <<obj, cache>>
    <3>1. /\ req.pc = "act" /\ req.op = "movedst" /\ OnPhone(req.h)
          /\ obj' = [obj EXCEPT ![req.h].parent = req.to] /\ Invalidate({req.from, req.to})
      BY <2>4 DEF MoveAct, Movable
    <3>2. obj[req.h].parent = req.from
      BY <3>1 DEF ActorInv, RequestInv, Found, InPlace
    <3>3. Changed({req.from, req.to})
      BY <1>1, <3>1, <3>2, MovedChanges DEF ActorInv, OnPhone, Locals
    <3> QED BY <3>1, <3>3, InvalidateDrops, ChangeKeeps DEF ActorInv
  <2> QED BY <2>1, <2>2, <2>3, <2>4
<1> QED BY <1>1, <1>2, Returned DEF ActorInv

\* mkdir_all creates a directory.
LEMMA MkdirCreateKeeps ==
  ASSUME ActorInv, MkdirCreate
  PROVE  ActorInv'
<1>1. req \in Locals /\ req.pc = "create" /\ req.path # <<>>
  BY DEF MkdirCreate, ActorInv, RequestInv, RequestTypes
<1>2. CASE Return /\ UNCHANGED <<phone, cache>>
  BY <1>2, Returned, SameCache DEF ActorInv
<1>3. CASE ~(Return /\ UNCHANGED <<phone, cache>>)
  <2> DEFINE h == lastHandle + 1
  <2>1. /\ h \in Handle /\ lastHandle' = h /\ Invalidate({req.cur}) /\ UNCHANGED stack
        /\ obj' = [obj EXCEPT ![h] = [parent |-> req.cur, name |-> Head(req.path), isdir |-> TRUE]]
        /\ req' = [req EXCEPT !.path = Tail(@), !.cur = h]
    BY <1>3 DEF MkdirCreate
  <2>2. req.cur \in Dir /\ req.path \in Path /\ TRUE \in BOOLEAN /\ Head(req.path) \in Names
    BY <1>1, Paths DEF Locals
  <2>3. Changed({req.cur})
    BY <2>1, <2>2, CreatedChanges DEF ActorInv
  <2>4. CacheInv'
    BY <2>1, <2>3, InvalidateDrops, ChangeKeeps DEF ActorInv
  <2>5. h \in Dir
    BY <2>1 DEF Dir
  <2> HIDE DEF h
  <2>6. req' \in Locals /\ req'.pc = "create" /\ req'.op = req.op
    BY <1>1, <2>1, <2>2, <2>5, Paths DEF Locals
  <2>7. RequestInv'
    BY <2>1, <2>6 DEF ActorInv, RequestInv, RequestTypes, Found
  <2> QED BY <2>4, <2>7 DEF ActorInv
<1> QED BY <1>2, <1>3

\* Requests by handle that take one step.
LEMMA HandleStepsKeep ==
  ASSUME ActorInv, HList \/ HDelete \/ HCreate
  PROVE  ActorInv'
<1>1. UNCHANGED <<req, stack>> /\ req.pc = "idle"
  BY DEF HList, HDelete, HCreate, Arrives
<1>2. RequestInv'
  BY <1>1 DEF ActorInv, RequestInv, RequestTypes, Found
<1>3. CASE HList
  <2>1. PICK d \in Dir : Remember(d, FALSE)
    BY <1>3 DEF HList, ClientDirs
  <2>2. FALSE \in BOOLEAN /\ UNCHANGED phone
    BY <1>3 DEF HList
  <2> QED BY <1>2, <2>1, <2>2, RememberKeeps DEF ActorInv
<1>4. CASE HDelete
  <2>1. PICK h \in Handle : obj' = Deleted(h) /\ InvalidateHandle(h) /\ UNCHANGED lastHandle
    BY <1>4 DEF HDelete
  <2>2. PICK ds : Dropped(ds)
    BY <2>1, HandleInvalidateDrops DEF ActorInv
  <2>3. Changed(ds)
    BY <2>1, DeletedChanges DEF ActorInv
  <2> QED BY <1>2, <2>2, <2>3, ChangeKeeps DEF ActorInv
<1>5. CASE HCreate
  <2>1. PICK d \in Dir, n \in Names, isdir \in BOOLEAN :
          /\ lastHandle + 1 \in Handle /\ lastHandle' = lastHandle + 1
          /\ obj' = [obj EXCEPT ![lastHandle + 1] = [parent |-> d, name |-> n, isdir |-> isdir]]
          /\ Invalidate({d}) \/ ("partial" \in Faults /\ UNCHANGED cache)
    BY <1>5 DEF HCreate
  <2>2. CASE Invalidate({d})
    BY <1>2, <2>1, <2>2, CreatedChanges, InvalidateDrops, ChangeKeeps DEF ActorInv
  <2>3. CASE "partial" \in Faults /\ UNCHANGED cache
    BY <1>2, <2>1, <2>3, CreatedChanges, NothingDropped, ChangeKeeps DEF ActorInv
  <2> QED BY <2>1, <2>2, <2>3
<1> QED BY <1>3, <1>4, <1>5

\* rename_handle, both halves.
LEMMA HRenameKeeps ==
  ASSUME ActorInv, HRenameMove \/ HRenameName
  PROVE  ActorInv'
<1>1. req \in Locals /\ UNCHANGED lastHandle
  BY DEF HRenameMove, HRenameName, ActorInv, RequestInv, RequestTypes
<1>2. CASE Return /\ UNCHANGED <<obj, cache>>
  BY <1>1, <1>2, Returned, SameCache DEF ActorInv
<1>3. CASE HRenameMove /\ ~(Return /\ UNCHANGED <<obj, cache>>)
  <2>1. /\ req.pc = "act" /\ req.op = "hrename" /\ req' = [req EXCEPT !.pc = "hrename"] /\ UNCHANGED stack
        /\ \/ req.from = req.to /\ UNCHANGED <<obj, cache>>
           \/ /\ OnPhone(req.h) /\ obj' = [obj EXCEPT ![req.h].parent = req.to]
              /\ Invalidate({req.from, req.to})
    BY <1>3 DEF HRenameMove, Movable, Goto
  <2>2. OnPhone(req.h) => obj[req.h].parent = req.from
    BY <2>1 DEF ActorInv, RequestInv, Found, InPlace
  <2>3. req' \in Locals /\ req'.pc = "hrename" /\ req'.h = req.h /\ req'.to = req.to
    BY <1>1, <2>1 DEF Locals
  <2>4. CASE req.from = req.to /\ UNCHANGED <<obj, cache>>
    <3>1. Found'
      BY <2>2, <2>3, <2>4 DEF Found, InPlace, OnPhone
    <3> QED BY <1>1, <2>1, <2>3, <2>4, <3>1, SameCache DEF ActorInv, RequestInv, RequestTypes
  <2>5. CASE /\ OnPhone(req.h) /\ obj' = [obj EXCEPT ![req.h].parent = req.to]
             /\ Invalidate({req.from, req.to})
    <3>1. Changed({req.from, req.to}) /\ obj'[req.h].parent = req.to
      BY <1>1, <2>2, <2>5, MovedChanges DEF ActorInv, OnPhone, Locals
    <3>2. CacheInv'
      BY <2>5, <3>1, InvalidateDrops, ChangeKeeps DEF ActorInv
    <3>3. Found'
      BY <2>3, <3>1 DEF Found, InPlace
    <3> QED BY <2>1, <2>3, <3>2, <3>3 DEF ActorInv, RequestInv, RequestTypes
  <2> QED BY <2>1, <2>4, <2>5
<1>4. CASE HRenameName /\ ~UNCHANGED <<obj, cache>>
  <2>1. /\ req.pc = "hrename" /\ OnPhone(req.h) /\ obj' = [obj EXCEPT ![req.h].name = req.toName]
        /\ Invalidate({req.to}) /\ Return
    BY <1>4 DEF HRenameName
  <2>2. obj[req.h].parent = req.to
    BY <2>1 DEF ActorInv, RequestInv, Found, InPlace
  <2>3. Changed({req.to})
    BY <1>1, <2>1, <2>2, RenamedChanges DEF ActorInv, OnPhone, Locals
  <2>4. CacheInv'
    BY <2>1, <2>3, InvalidateDrops, ChangeKeeps DEF ActorInv
  <2> QED BY <2>1, <2>4, Returned DEF ActorInv
<1> QED BY <1>2, <1>3, <1>4 DEF HRenameMove, HRenameName

\* Listings expire, and a new session starts with an empty cache.
LEMMA LossesKeep ==
  ASSUME ActorInv, Expire \/ Reconnect
  PROVE  ActorInv'
<1>1. UNCHANGED phone
  BY DEF Expire, Reconnect
<1>2. \A ds : Changed(ds)
  BY <1>1, ActorConstants DEF Changed, ActorInv, CacheInv, CacheTypes
<1>3. CASE Expire
  <2>1. RequestInv'
    BY <1>1, <1>3 DEF Expire, ActorInv, RequestInv, RequestTypes, Found, InPlace, OnPhone
  <2> QED BY <1>2, <1>3, <2>1, InvalidateDrops, ChangeKeeps DEF Expire, ActorInv
<1>4. CASE Reconnect
  <2>1. DOMAIN listing' = {} /\ parents' \in [Handle -> Dir \cup {None}]
    BY <1>4 DEF Reconnect
  <2>2. Dropped({})
    BY <2>1 DEF Dropped
  <2> QED BY <1>2, <1>4, <2>2, ChangeKeeps, Returned DEF Reconnect, ActorInv
<1> QED BY <1>3, <1>4

\* Every step keeps the invariant.
LEMMA ActorStep == ActorInv /\ [Next]_vars => ActorInv'
<1> SUFFICES ASSUME ActorInv, [Next]_vars PROVE ActorInv'
  OBVIOUS
<1>1. CASE UNCHANGED vars
  <2>1. UNCHANGED <<phone, cache, req, stack>>
    BY <1>1 DEF vars
  <2>2. RequestInv'
    BY <2>1 DEF ActorInv, RequestInv, RequestTypes, Found, InPlace, OnPhone
  <2> QED BY <2>1, <2>2, SameCache DEF ActorInv
<1>2. CASE ByPath
  BY <1>2, CallsKeep, LookupsKeep, QuietStepsKeep, TreeListKeeps, TreeEntryKeeps, TreeDirKeeps,
     PathChangesKeep, MkdirCreateKeeps DEF ByPath
<1>3. CASE ByHandle
  BY <1>3, HRenameFindKeeps, HandleStepsKeep, HRenameKeeps DEF ByHandle
<1>4. CASE Expire \/ Reconnect
  BY <1>4, LossesKeep
<1> QED BY <1>1, <1>2, <1>3, <1>4 DEF Next, Quiet

LEMMA ActorInvariant == Spec => []ActorInv
BY ActorInit, ActorStep, PTL DEF Spec

-----------------------------------------------------------------------------
(* What lies below an object, and what a delete takes with it. *)

\* S holds, with a directory, the objects in it.
Holds(S) == \A y \in Handle : (obj[y] # None /\ obj[y].parent \in S) => y \in S

LEMMA SubtreeDef ==
  ASSUME NEW h
  PROVE  /\ Subtree(h) \subseteq Handle
         /\ \A x \in Subtree(h) : \A S \in SUBSET Handle : (h \in S /\ Holds(S)) => x \in S
         /\ \A x \in Handle :
              (\A S \in SUBSET Handle : (h \in S /\ Holds(S)) => x \in S) => x \in Subtree(h)
BY DEF Subtree, Holds

LEMMA SubtreeHolds ==
  ASSUME NEW h
  PROVE  Holds(Subtree(h)) /\ (h \in Handle => h \in Subtree(h))
<1>1. ASSUME NEW y \in Handle, obj[y] # None, obj[y].parent \in Subtree(h) PROVE y \in Subtree(h)
  <2> SUFFICES ASSUME NEW S \in SUBSET Handle, h \in S, Holds(S) PROVE y \in S
    BY <1>1, SubtreeDef
  <2>1. obj[y].parent \in S
    BY <1>1, SubtreeDef
  <2> QED BY <1>1, <2>1 DEF Holds
<1> QED BY <1>1, SubtreeDef DEF Holds

\* What is below an object, itself left out, lies in something below it.
LEMMA SubtreeAbove ==
  ASSUME NEW h \in Handle, NEW x \in Subtree(h), x # h
  PROVE  obj[x] # None /\ obj[x].parent \in Subtree(h)
<1> SUFFICES ASSUME ~(obj[x] # None /\ obj[x].parent \in Subtree(h)) PROVE FALSE
  OBVIOUS
<1> DEFINE S == Subtree(h) \ {x}
<1>1. S \in SUBSET Handle /\ h \in S
  BY SubtreeDef, SubtreeHolds
<1>2. Holds(S)
  BY SubtreeHolds DEF Holds
<1> HIDE DEF S
<1>3. x \in S
  BY <1>1, <1>2, SubtreeDef
<1> QED BY <1>3 DEF S

\* A delete takes what it takes and leaves the rest where it was: what is left
\* and was below r still is.
LEMMA DeletedBelow ==
  ASSUME NEW g, obj' = Deleted(g), NEW r, NEW x \in Subtree(r), obj'[x] # None
  PROVE  x \in Subtree(r)'
<1>1. x \in Handle /\ x \notin Subtree(g)
  BY SubtreeDef DEF Deleted
<1> SUFFICES ASSUME NEW S \in SUBSET Handle, r \in S, Holds(S)' PROVE x \in S
  BY <1>1 DEF Subtree, Holds
<1> DEFINE T == S \cup Subtree(g)
<1>2. T \in SUBSET Handle /\ r \in T
  BY SubtreeDef
<1>3. Holds(T)
  <2> SUFFICES ASSUME NEW y \in Handle, obj[y] # None, obj[y].parent \in T, y \notin Subtree(g)
               PROVE  y \in S
    BY DEF Holds
  <2>1. obj'[y] = obj[y]
    BY DEF Deleted
  <2>2. obj[y].parent \in S
    BY SubtreeHolds DEF Holds
  <2> QED BY <2>1, <2>2 DEF Holds
<1> HIDE DEF T
<1>4. x \in T
  BY <1>2, <1>3, SubtreeDef
<1> QED BY <1>1, <1>4 DEF T

-----------------------------------------------------------------------------
(* Every object lies in a folder that is there. *)

FoldersThere == \A h \in Handle : obj[h] # None => IsDir(obj[h].parent)

\* The ways a step changes the phone.
Renames == \E h \in Handle, n \in Names : OnPhone(h) /\ obj' = [obj EXCEPT ![h].name = n]
Moves   == \E h \in Handle, d \in Dir : Movable(h, d) /\ obj' = [obj EXCEPT ![h].parent = d]
Creates == \E d \in Dir, n \in Names, isdir \in BOOLEAN :
             /\ lastHandle + 1 \in Handle /\ IsDir(d)
             /\ obj' = [obj EXCEPT ![lastHandle + 1] = [parent |-> d, name |-> n, isdir |-> isdir]]
Deletes == \E g : obj' = Deleted(g)

LEMMA PhoneSteps ==
  ASSUME ActorInv, Next
  PROVE  UNCHANGED obj \/ Renames \/ Moves \/ Creates \/ Deletes
<1>1. /\ req \in Locals /\ req.h \in Dir /\ req.to \in Dir /\ req.cur \in Dir
      /\ req.toName \in Names /\ req.path \in Path
  BY DEF ActorInv, RequestInv, RequestTypes, Locals
<1>2. CASE \/ ListCall \/ ResolveCall \/ RemoveCall \/ RenameCall \/ MoveCall \/ WalkStep
           \/ ListEnd \/ ResolveEnd \/ Find \/ FindDst \/ RemoveDir \/ TreeList \/ MkdirAllCall
           \/ MkdirWalk \/ MkdirEnd \/ HList \/ HRenameFind \/ Expire \/ Reconnect \/ Quiet
  BY <1>2 DEF ListCall, ResolveCall, RemoveCall, RenameCall, MoveCall, WalkStep, ListEnd, ResolveEnd,
     Find, FindDst, RemoveDir, TreeList, MkdirAllCall, MkdirWalk, MkdirEnd, HList, HRenameFind,
     Expire, Reconnect, Quiet, vars
<1>3. CASE RemoveFile \/ TreeEntry \/ TreeDir \/ HDelete
  BY <1>3 DEF RemoveFile, TreeEntry, TreeDir, HDelete, Deletes
<1>4. CASE RenameAct \/ HRenameName
  BY <1>1, <1>4 DEF RenameAct, HRenameName, Renames, OnPhone
<1>5. CASE MoveAct \/ HRenameMove
  BY <1>1, <1>5 DEF MoveAct, HRenameMove, Moves, Movable, OnPhone
<1>6. CASE MkdirCreate
  <2>1. CASE UNCHANGED obj
    BY <2>1
  <2>2. CASE ~UNCHANGED obj
    <3>1. /\ IsDir(req.cur) /\ lastHandle + 1 \in Handle /\ req.path # <<>>
          /\ obj' = [obj EXCEPT ![lastHandle + 1] =
                       [parent |-> req.cur, name |-> Head(req.path), isdir |-> TRUE]]
      BY <1>6, <2>2 DEF MkdirCreate
    <3>2. Head(req.path) \in Names
      BY <1>1, <3>1, Paths
    <3> QED BY <1>1, <3>1, <3>2 DEF Creates
  <2> QED BY <2>1, <2>2
<1>7. CASE HCreate
  BY <1>7 DEF HCreate, Creates
<1> QED BY <1>2, <1>3, <1>4, <1>5, <1>6, <1>7 DEF Next, ByPath, ByHandle

LEMMA FoldersStay ==
  ASSUME ActorInv, FoldersThere, [Next]_vars
  PROVE  FoldersThere'
<1>1. obj \in [Handle -> Object \cup {None}] /\ lastHandle \in 0..MaxHandle
  BY DEF ActorInv, CacheInv, CacheTypes
\* A step that keeps the directories that are there and puts nothing in others.
<1>2. ASSUME \A d \in Dir : IsDir(d) => IsDir(d)',
             \A h \in Handle : obj'[h] # None => obj'[h].parent \in Dir /\ IsDir(obj'[h].parent)
      PROVE  FoldersThere'
  BY <1>2 DEF FoldersThere
<1>3. \A h \in Handle : obj[h] # None => obj[h] \in Object /\ obj[h].parent \in Dir
  BY <1>1 DEF Object
<1>4. CASE UNCHANGED obj
  BY <1>4 DEF FoldersThere, IsDir
<1>5. CASE Renames
  <2>1. PICK h \in Handle, n \in Names : OnPhone(h) /\ obj' = [obj EXCEPT ![h].name = n]
    BY <1>5 DEF Renames
  <2>2. obj'[h].parent = obj[h].parent /\ obj'[h].isdir = obj[h].isdir /\ obj'[h] # None /\ obj[h] # None
    <3>1. obj'[h] = [obj[h] EXCEPT !.name = n] /\ obj[h] \in Object
      BY <1>1, <1>3, <2>1 DEF OnPhone
    <3>2. obj'[h] \in Object /\ obj'[h].parent = obj[h].parent /\ obj'[h].isdir = obj[h].isdir
      BY <3>1 DEF Object
    <3> QED BY <2>1, <3>2, ActorNone DEF OnPhone
  <2>3. \A x \in Handle : x # h => obj'[x] = obj[x]
    BY <1>1, <2>1
  <2>4. \A d \in Dir : IsDir(d) => IsDir(d)'
    BY <2>2, <2>3 DEF IsDir
  <2>5. \A x \in Handle : obj'[x] # None => obj[x] # None /\ obj'[x].parent = obj[x].parent
    BY <2>2, <2>3
  <2> QED BY <1>2, <1>3, <2>4, <2>5 DEF FoldersThere
<1>6. CASE Moves
  <2>1. PICK h \in Handle, t \in Dir : Movable(h, t) /\ obj' = [obj EXCEPT ![h].parent = t]
    BY <1>6 DEF Moves
  <2>2. obj'[h].parent = t /\ obj'[h].isdir = obj[h].isdir /\ obj'[h] # None /\ obj[h] # None
    <3>1. obj'[h] = [obj[h] EXCEPT !.parent = t] /\ obj[h] \in Object
      BY <1>1, <1>3, <2>1 DEF OnPhone, Movable
    <3>2. obj'[h] \in Object /\ obj'[h].parent = t /\ obj'[h].isdir = obj[h].isdir
      BY <3>1 DEF Object
    <3> QED BY <2>1, <3>2, ActorNone DEF OnPhone, Movable
  <2>3. \A x \in Handle : x # h => obj'[x] = obj[x]
    BY <1>1, <2>1
  <2>4. \A d \in Dir : IsDir(d) => IsDir(d)'
    BY <2>2, <2>3 DEF IsDir
  <2>5. IsDir(t)
    BY <2>1 DEF Movable
  <2>6. \A x \in Handle : obj'[x] # None =>
          \/ obj'[x].parent = t
          \/ obj[x] # None /\ obj'[x].parent = obj[x].parent
    BY <2>2, <2>3
  <2> QED BY <1>3, <2>4, <2>5, <2>6 DEF FoldersThere
<1>7. CASE Creates
  <2>1. PICK t \in Dir, n \in Names, isdir \in BOOLEAN :
          /\ lastHandle + 1 \in Handle /\ IsDir(t)
          /\ obj' = [obj EXCEPT ![lastHandle + 1] = [parent |-> t, name |-> n, isdir |-> isdir]]
    BY <1>7 DEF Creates
  <2> DEFINE h == lastHandle + 1
  <2>2. obj'[h].parent = t
    BY <1>1, <2>1
  <2>3. \A x \in Handle : x # h => obj'[x] = obj[x]
    BY <1>1, <2>1
  <2>4. obj[h] = None
    <3>1. ~(h <= lastHandle)
      BY <1>1, ActorConstants
    <3> QED BY <2>1, <3>1 DEF ActorInv, CacheInv, Known
  <2> HIDE DEF h
  <2>5. \A d \in Dir : IsDir(d) => IsDir(d)'
    BY <2>3, <2>4 DEF IsDir
  <2>6. \A x \in Handle : obj'[x] # None =>
          \/ obj'[x].parent = t
          \/ obj[x] # None /\ obj'[x].parent = obj[x].parent
    BY <2>2, <2>3
  <2> QED BY <1>3, <2>1, <2>5, <2>6 DEF FoldersThere
<1>8. CASE Deletes
  <2>1. PICK g : obj' = Deleted(g)
    BY <1>8 DEF Deletes
  <2> SUFFICES ASSUME NEW x \in Handle, obj'[x] # None PROVE IsDir(obj[x].parent)'
    BY DEF FoldersThere
  <2>2. x \notin Subtree(g) /\ obj'[x] = obj[x] /\ obj[x] # None
    BY <2>1 DEF Deleted
  <2>3. obj[x].parent \notin Subtree(g) /\ IsDir(obj[x].parent) /\ obj[x].parent \in Dir
    BY <1>3, <2>2, SubtreeHolds DEF Holds, FoldersThere
  <2>4. \A d \in Dir : d \notin Subtree(g) /\ IsDir(d) => IsDir(d)'
    BY <2>1 DEF IsDir, Deleted
  <2> QED BY <2>2, <2>3, <2>4
<1> QED BY <1>4, <1>5, <1>6, <1>7, <1>8, PhoneSteps DEF vars

-----------------------------------------------------------------------------
(* delete_tree stays below the directory it was asked to remove. *)

\* The directories it has gone down into, and the entries it has still to see
\* to, are gone or below the outermost one.
Inside(x) ==
  x = stack[1].dir \/ (x \in Handle /\ (obj[x] # None => x \in Subtree(stack[1].dir)))
FrameInside(f) == Inside(f.dir) /\ \A e \in f.todo : Inside(e.handle)
TreeInside == req.pc = "tree" => \A i \in 1..Len(stack) : FrameInside(stack[i])

\* The outermost directory is below itself; and all objects are said to be
\* below the storage.
LEMMA InsideBelow ==
  ASSUME stack[1].dir \in Dir
  PROVE  \A x \in Handle : Inside(x) /\ obj[x] # None => x \in Subtree(stack[1].dir)
<1>1. \A x \in Handle : x = stack[1].dir => x \in Subtree(stack[1].dir)
  BY SubtreeHolds
<1> QED BY <1>1 DEF Inside

LEMMA RootBelow == Subtree(Root) = Handle
<1>1. Root \notin Handle
  BY ActorConstants DEF Root, Handle
<1> HIDE DEF Root
<1> QED BY <1>1 DEF Subtree

\* What is in a directory inside is inside.
LEMMA ChildInside ==
  ASSUME FoldersThere, obj \in [Handle -> Object \cup {None}], stack[1].dir \in Dir,
         NEW d \in Dir, Inside(d), NEW x \in Handle, OnPhone(x) => obj[x].parent = d
  PROVE  Inside(x)
<1> SUFFICES ASSUME obj[x] # None, obj[x].parent = d PROVE x \in Subtree(stack[1].dir)
  BY DEF Inside, OnPhone
<1>1. CASE d = Root
  <2>1. Root \notin Handle
    BY ActorConstants DEF Root, Handle
  <2>2. stack[1].dir = Root
    BY <1>1, <2>1 DEF Inside
  <2> QED BY <2>2, RootBelow
<1>2. CASE d # Root
  <2>1. d \in Handle /\ obj[d] # None
    BY <1>2 DEF FoldersThere, IsDir
  <2>2. d \in Subtree(stack[1].dir)
    BY <2>1, InsideBelow
  <2> QED BY <2>2, SubtreeHolds DEF Holds
<1> QED BY <1>1, <1>2

\* A delete leaves inside what was inside.
LEMMA InsideStays ==
  ASSUME stack' # <<>>, stack'[1].dir = stack[1].dir,
         UNCHANGED obj \/ \E g : obj' = Deleted(g), NEW x, Inside(x)
  PROVE  Inside(x)'
<1>1. CASE UNCHANGED obj
  BY <1>1 DEF Inside, Subtree
<1>2. CASE \E g : obj' = Deleted(g)
  <2>1. PICK g : obj' = Deleted(g)
    BY <1>2
  <2> SUFFICES ASSUME x \in Handle, obj'[x] # None, obj[x] # None => x \in Subtree(stack[1].dir)
               PROVE  x \in Subtree(stack[1].dir)'
    BY DEF Inside
  <2>2. obj[x] # None
    BY <2>1 DEF Deleted
  <2>3. PICK r : r = stack[1].dir
    OBVIOUS
  <2>4. x \in Subtree(r)'
    BY <2>1, <2>2, <2>3, DeletedBelow
  <2>5. stack'[1].dir = r
    BY <2>3
  <2> QED BY <2>4, <2>5 DEF Subtree
<1> QED BY <1>1, <1>2

\* So a step keeps the frames inside that leaves the outermost directory as it
\* is, and whose frames are as before or inside.
LEMMA FramesStay ==
  ASSUME stack' # <<>>, stack'[1].dir = stack[1].dir,
         UNCHANGED obj \/ \E g : obj' = Deleted(g),
         \A i \in 1..Len(stack') : FrameInside(stack'[i])
  PROVE  TreeInside'
<1>1. \A x : Inside(x) => Inside(x)'
  BY InsideStays
<1>2. ASSUME NEW f, FrameInside(f) PROVE FrameInside(f)'
  BY <1>1, <1>2 DEF FrameInside
<1> QED BY <1>2 DEF TreeInside

TreeInv == FoldersThere /\ TreeInside

LEMMA TreeInit == Init => TreeInv
<1> SUFFICES ASSUME Init PROVE TreeInv
  OBVIOUS
<1>1. FoldersThere
  <2>1. \A h \in Handle : Phone0[h] # None => Phone0[h].parent \in Dir
    BY ActorConstants DEF Object
  <2> QED BY <2>1, PhoneTree DEF Init, FoldersThere, IsDir, Dir
<1>2. TreeInside
  BY DEF Init, Idle, TreeInside
<1> QED BY <1>1, <1>2 DEF TreeInv

\* The steps delete_tree takes.
LEMMA TreeSteps ==
  ASSUME ActorInv, Next, req'.pc = "tree"
  PROVE  RemoveDir \/ TreeList \/ TreeEntry \/ TreeDir \/ (req.pc = "tree" /\ UNCHANGED <<obj, req, stack>>)
<1>1. req \in Locals
  BY DEF ActorInv, RequestInv, RequestTypes
<1>2. ~Return
  BY DEF Return, Idle
<1>3. CASE ListCall \/ ResolveCall \/ RemoveCall \/ RenameCall \/ MoveCall \/ MkdirAllCall
  BY <1>3 DEF ListCall, ResolveCall, RemoveCall, RenameCall, MoveCall, MkdirAllCall, Idle
<1>4. CASE WalkStep \/ FindDst
  BY <1>1, <1>2, <1>4 DEF WalkStep, FindDst, Locals
<1>5. CASE Find
  <2>1. PICK e \in Seen(req.cur, FALSE) :
          LET r == [req EXCEPT !.h = e.handle, !.isdir = e.isdir, !.from = req.cur] IN
          req' = IF req.op = "move"
                 THEN [r EXCEPT !.op = "movedst", !.path = req.toPath, !.cur = Root]
                 ELSE [r EXCEPT !.pc = "act"]
    BY <1>2, <1>5 DEF Find
  <2>2. req.pc = "walk"
    BY <1>5 DEF Find
  <2> QED BY <1>1, <2>1, <2>2 DEF Locals
<1>6. CASE MkdirWalk \/ MkdirCreate
  BY <1>1, <1>2, <1>6 DEF MkdirWalk, MkdirCreate, Goto, Locals
<1>7. CASE ListEnd \/ ResolveEnd \/ RemoveFile \/ RenameAct \/ MoveAct \/ MkdirEnd \/ HRenameName \/ Reconnect
  BY <1>2, <1>7 DEF ListEnd, ResolveEnd, RemoveFile, RenameAct, MoveAct, MkdirEnd, HRenameName, Reconnect
<1>8. CASE HList \/ HDelete \/ HCreate
  BY <1>8 DEF HList, HDelete, HCreate, Arrives
<1>9. CASE HRenameFind
  BY <1>9 DEF HRenameFind, Arrives, Idle
<1>10. CASE HRenameMove
  BY <1>1, <1>2, <1>10 DEF HRenameMove, Goto, Locals
<1>11. CASE Expire \/ Quiet
  BY <1>11 DEF Expire, Quiet, vars
<1> QED BY <1>3, <1>4, <1>5, <1>6, <1>7, <1>8, <1>9, <1>10, <1>11 DEF Next, ByPath, ByHandle

\* The stack when its last frame is replaced.
LEMMA TopReplaced ==
  ASSUME NEW s \in Seq(Frame), s # <<>>, NEW f \in Frame, NEW t, t = [s EXCEPT ![Len(s)] = f]
  PROVE  /\ t \in Seq(Frame) /\ t # <<>> /\ Len(t) = Len(s)
         /\ \A i \in 1..Len(s) : t[i] = IF i = Len(s) THEN f ELSE s[i]
         /\ 1 \in 1..Len(s) /\ Len(s) \in 1..Len(s)
<1>1. Len(s) \in Nat /\ Len(s) # 0 /\ s \in [1..Len(s) -> Frame]
  OBVIOUS
<1>2. 1 \in 1..Len(s) /\ Len(s) \in 1..Len(s)
  BY <1>1
<1>3. \A i \in 1..Len(s) : t[i] = IF i = Len(s) THEN f ELSE s[i]
  BY <1>1
<1> QED BY <1>2, <1>3, TopFrame

LEMMA TreeListStays ==
  ASSUME ActorInv, TreeInv, TreeList, req'.pc = "tree"
  PROVE  TreeInside'
<1> DEFINE top == stack[Len(stack)]
           f   == [dir |-> top.dir, listed |-> TRUE, todo |-> Seen(top.dir, FALSE)]
<1>1. /\ req.pc = "tree" /\ stack \in Seq(Frame) /\ stack # <<>> /\ UNCHANGED obj
      /\ obj \in [Handle -> Object \cup {None}]
  BY DEF ActorInv, RequestInv, RequestTypes, CacheInv, CacheTypes, TreeList
<1>2. stack' = [stack EXCEPT ![Len(stack)] = f]
  <2>1. ~Return
    BY DEF Return, Idle
  <2> QED BY <2>1 DEF TreeList
<1>3. top \in Frame /\ top.dir \in Dir
  BY <1>1, TopFrame DEF Frame
<1>4. \A e \in Seen(top.dir, FALSE) : e \in Entry /\ e.handle \in Handle
                                      /\ (OnPhone(e.handle) => obj[e.handle].parent = top.dir)
  BY <1>3, CachedFacts DEF ActorInv, Entry
<1>5. f \in Frame
  BY <1>3, <1>4 DEF Frame
<1>6. f.dir = top.dir /\ f.todo = Seen(top.dir, FALSE)
  OBVIOUS
<1> HIDE DEF f
<1>7. /\ stack' # <<>> /\ Len(stack') = Len(stack)
      /\ \A i \in 1..Len(stack) : stack'[i] = IF i = Len(stack) THEN f ELSE stack[i]
      /\ 1 \in 1..Len(stack) /\ Len(stack) \in 1..Len(stack)
  BY <1>1, <1>2, <1>5, TopReplaced
<1>8. \A i \in 1..Len(stack) : FrameInside(stack[i])
  BY <1>1 DEF TreeInv, TreeInside
<1>9. stack[1].dir \in Dir
  <2>1. stack[1] \in Frame
    BY <1>1, <1>7
  <2> QED BY <2>1 DEF Frame
<1>10. stack'[1].dir = stack[1].dir
  BY <1>6, <1>7
<1>11. FrameInside(f)
  <2>1. Inside(top.dir)
    BY <1>7, <1>8 DEF FrameInside
  <2>2. FoldersThere
    BY DEF TreeInv
  <2> HIDE DEF top
  <2>3. \A e \in Seen(top.dir, FALSE) : Inside(e.handle)
    BY <1>1, <1>3, <1>4, <1>9, <2>1, <2>2, ChildInside
  <2> QED BY <1>6, <2>1, <2>3 DEF FrameInside
<1>12. \A i \in 1..Len(stack') : FrameInside(stack'[i])
  BY <1>7, <1>8, <1>11
<1> QED BY <1>1, <1>7, <1>10, <1>12, FramesStay

LEMMA TreeEntryStays ==
  ASSUME ActorInv, TreeInv, TreeEntry, req'.pc = "tree"
  PROVE  TreeInside'
<1> DEFINE top == stack[Len(stack)]
<1>1. req.pc = "tree" /\ stack \in Seq(Frame) /\ stack # <<>>
  BY DEF ActorInv, RequestInv, RequestTypes, TreeEntry
<1>2. PICK e \in top.todo :
        LET rest == [stack EXCEPT ![Len(stack)].todo = @ \ {e}] IN
        /\ stack' = Append(rest, NewFrame(e.handle)) \/ stack' = rest
        /\ UNCHANGED obj \/ obj' = Deleted(e.handle)
  <2>1. ~Return
    BY DEF Return, Idle
  <2> QED BY <2>1 DEF TreeEntry
<1>3. top \in Frame
  BY <1>1, TopFrame
<1> DEFINE f    == [top EXCEPT !.todo = @ \ {e}]
           rest == [stack EXCEPT ![Len(stack)] = f]
<1>4. f \in Frame /\ f.dir = top.dir /\ f.todo \subseteq top.todo
  BY <1>3 DEF Frame
<1>5. rest = [stack EXCEPT ![Len(stack)].todo = @ \ {e}]
  OBVIOUS
<1>6. e.handle \in Handle /\ NewFrame(e.handle) \in Frame
  BY <1>2, <1>3 DEF NewFrame, Frame, Entry, Dir
<1> HIDE DEF f
<1>7. /\ rest \in Seq(Frame) /\ rest # <<>> /\ Len(rest) = Len(stack)
      /\ \A i \in 1..Len(stack) : rest[i] = IF i = Len(stack) THEN f ELSE stack[i]
      /\ 1 \in 1..Len(stack) /\ Len(stack) \in 1..Len(stack)
  BY <1>1, <1>4, TopReplaced
<1>8. stack' = Append(rest, NewFrame(e.handle)) \/ stack' = rest
  BY <1>2, <1>5
<1> HIDE DEF rest
<1>9. \A i \in 1..Len(stack) : FrameInside(stack[i])
  BY <1>1 DEF TreeInv, TreeInside
<1>10. FrameInside(f) /\ Inside(e.handle)
  BY <1>2, <1>4, <1>7, <1>9 DEF FrameInside
<1>11. FrameInside(NewFrame(e.handle))
  BY <1>10 DEF FrameInside, NewFrame
<1>12. \A i \in 1..Len(rest) : FrameInside(rest[i])
  BY <1>7, <1>9, <1>10
<1>13. rest[1].dir = stack[1].dir
  BY <1>4, <1>7
<1>14. /\ stack' # <<>> /\ stack'[1] = rest[1]
       /\ \A i \in 1..Len(stack') :
            \/ stack'[i] = NewFrame(e.handle)
            \/ i \in 1..Len(rest) /\ stack'[i] = rest[i]
  <2>1. CASE stack' = rest
    BY <1>7, <2>1
  <2>2. CASE stack' = Append(rest, NewFrame(e.handle))
    <3> DEFINE n == NewFrame(e.handle)
    <3>1. n \in Frame
      BY <1>6
    <3> HIDE DEF n
    <3>2. /\ Len(Append(rest, n)) = Len(rest) + 1
          /\ \A i \in 1..(Len(rest) + 1) : Append(rest, n)[i] = IF i = Len(rest) + 1 THEN n ELSE rest[i]
          /\ Len(rest) \in Nat /\ Len(rest) # 0
      BY <1>7, <3>1
    <3>3. stack' = Append(rest, n)
      BY <2>2 DEF n
    <3>4. /\ 1 \in 1..(Len(rest) + 1) /\ 1 # Len(rest) + 1
          /\ \A i \in 1..(Len(rest) + 1) : i # Len(rest) + 1 => i \in 1..Len(rest)
      BY <3>2
    <3>5. stack' # <<>> /\ stack'[1] = rest[1]
      BY <3>2, <3>3, <3>4
    <3> QED BY <3>2, <3>3, <3>4, <3>5 DEF n
  <2> QED BY <1>8, <2>1, <2>2
<1>15. \A i \in 1..Len(stack') : FrameInside(stack'[i])
  BY <1>11, <1>12, <1>14
<1>16. UNCHANGED obj \/ \E g : obj' = Deleted(g)
  BY <1>2
<1> QED BY <1>13, <1>14, <1>15, <1>16, FramesStay

LEMMA TreeDirStays ==
  ASSUME ActorInv, TreeInv, TreeDir, req'.pc = "tree"
  PROVE  TreeInside'
<1>1. req.pc = "tree" /\ stack \in Seq(Frame) /\ stack # <<>>
  BY DEF ActorInv, RequestInv, RequestTypes, TreeDir
<1>2. Len(stack) # 1 /\ stack' = SubSeq(stack, 1, Len(stack) - 1) /\ \E g : obj' = Deleted(g)
  BY DEF TreeDir, Return, Idle
<1>3. Len(stack) \in Nat /\ Len(stack) - 1 \in 1..Len(stack) /\ 1 \in 1..(Len(stack) - 1)
  <2>1. Len(stack) \in Nat /\ Len(stack) # 0
    BY <1>1
  <2>2. \A n \in Nat : n # 0 /\ n # 1 => n - 1 \in 1..n /\ 1 \in 1..(n - 1)
    OBVIOUS
  <2> QED BY <1>2, <2>1, <2>2
<1>4. Len(stack') = Len(stack) - 1 /\ \A i \in 1..(Len(stack) - 1) : stack'[i] = stack[i]
  BY <1>1, <1>2, <1>3
<1>5. \A i \in 1..(Len(stack) - 1) : i \in 1..Len(stack)
  BY <1>3
<1>6. \A i \in 1..Len(stack') : FrameInside(stack'[i])
  BY <1>1, <1>4, <1>5 DEF TreeInv, TreeInside
<1>7. stack' # <<>>
  BY <1>3, <1>4
<1> QED BY <1>2, <1>3, <1>4, <1>6, <1>7, FramesStay

LEMMA TreeStep == ActorInv /\ TreeInv /\ [Next]_vars => TreeInv'
<1> SUFFICES ASSUME ActorInv, TreeInv, [Next]_vars PROVE TreeInv'
  OBVIOUS
<1>1. FoldersThere'
  BY FoldersStay DEF TreeInv
<1>2. ASSUME req.pc = "tree", UNCHANGED <<obj, req, stack>> PROVE TreeInside'
  BY <1>2 DEF TreeInv, TreeInside, FrameInside, Inside, Subtree
<1>3. TreeInside'
  <2> SUFFICES ASSUME req'.pc = "tree" PROVE TreeInside'
    BY DEF TreeInside
  <2>1. CASE UNCHANGED vars
    BY <1>2, <2>1 DEF vars
  <2>2. CASE RemoveDir
    <3>1. stack' = <<NewFrame(req.h)>>
      BY <2>2 DEF RemoveDir, Return, Idle
    <3>2. Len(stack') = 1 /\ stack'[1] = NewFrame(req.h)
      BY <3>1
    <3>3. stack'[1].todo = {}
      BY <3>2 DEF NewFrame
    <3> QED BY <3>2, <3>3 DEF TreeInside, FrameInside, Inside
  <2>3. CASE Next
    BY <1>2, <2>2, <2>3, TreeSteps, TreeListStays, TreeEntryStays, TreeDirStays
  <2> QED BY <2>1, <2>3
<1> QED BY <1>1, <1>3 DEF TreeInv

LEMMA TreeInvariant == Spec => []TreeInv
BY ActorInvariant, TreeInit, TreeStep, PTL DEF Spec

-----------------------------------------------------------------------------
(* Theorems. *)

\* The phone, the cache, the request and the frames of delete_tree have their
\* types.
THEOREM ActorTypes == Spec => []TypeOK
<1>1. ActorInv => TypeOK
  BY DEF ActorInv, CacheInv, CacheTypes, RequestInv, RequestTypes, TypeOK
<1> QED BY <1>1, ActorInvariant, PTL

\* The parent table names, for every object a cached listing shows, the
\* directory of that listing, so invalidate_handle drops the right one.
THEOREM ParentsHold == Spec => []ParentsRight
<1>1. ActorInv => ParentsRight
  BY DEF ActorInv, CacheInv
<1> QED BY <1>1, ActorInvariant, PTL

\* Cached listings show what is on the phone or is gone, whatever fails, except
\* an upload whose object cannot be deleted.
THEOREM ListingsHold ==
  ASSUME "partial" \notin Faults
  PROVE  Spec => []ListingsSound
<1>1. ASSUME ActorInv PROVE ListingsSound
  <2> SUFFICES ASSUME NEW d \in DOMAIN listing, IsDir(d)
               PROVE  {e \in listing[d] : OnPhone(e.handle)} = Children(d)
    BY DEF ListingsSound
  <2>1. listing[d] \subseteq Entry
    BY <1>1 DEF ActorInv, CacheInv, CacheTypes
  <2>2. ASSUME NEW e \in listing[d], OnPhone(e.handle) PROVE e \in Children(d)
    <3>1. obj[e.handle] = [parent |-> d, name |-> e.name, isdir |-> e.isdir] /\ e.handle \in Handle
      BY <1>1, <2>2 DEF ActorInv, CacheInv, Shown, OnPhone
    <3>2. e = [handle |-> e.handle, name |-> obj[e.handle].name, isdir |-> obj[e.handle].isdir]
      BY <2>1, <3>1 DEF Entry
    <3>3. obj[e.handle].parent = d
      BY <3>1
    <3> QED BY <2>2, <3>1, <3>2, <3>3 DEF Children, OnPhone
  <2>3. ASSUME NEW h \in Handle, obj[h] # None, obj[h].parent = d
        PROVE  [handle |-> h, name |-> obj[h].name, isdir |-> obj[h].isdir] \in listing[d]
    <3>1. PICK e \in listing[d] : e.handle = h
      BY <1>1, <2>3 DEF ActorInv, CacheInv, Complete
    <3>2. obj[h] = [parent |-> d, name |-> e.name, isdir |-> e.isdir]
      BY <1>1, <2>3, <3>1 DEF ActorInv, CacheInv, Shown
    <3>3. e = [handle |-> h, name |-> obj[h].name, isdir |-> obj[h].isdir]
      BY <2>1, <3>1, <3>2 DEF Entry
    <3> QED BY <3>1, <3>3
  <2>4. \A e \in Children(d) : e \in listing[d] /\ OnPhone(e.handle)
    BY <2>3 DEF Children, OnPhone
  <2> QED BY <2>2, <2>4
<1> QED BY <1>1, ActorInvariant, PTL

\* The cache never holds more than MAX_LISTINGS listings.
THEOREM CacheStaysBounded == Spec => []CacheBounded
<1>1. ActorInv => CacheBounded
  BY DEF ActorInv, CacheInv
<1> QED BY <1>1, ActorInvariant, PTL

\* An object deleted by its handle is in no cached listing of a directory that
\* is there, and neither is what was below it (HDelete).
THEOREM DeletedUnlistedHolds == Spec => DeletedUnlisted
<1>1. ActorInv /\ [Next]_vars
      => [\A h \in Handle :
            (req.pc = "idle" /\ obj[h] # None /\ obj'[h] = None)
            => \A d \in DOMAIN listing' : IsDir(d)' => \A e \in listing'[d] : e.handle # h]_vars
  <2> SUFFICES ASSUME ActorInv, Next, NEW h \in Handle,
                      req.pc = "idle", obj[h] # None, obj'[h] = None,
                      NEW d \in DOMAIN listing', IsDir(d)', NEW e \in listing'[d], e.handle = h
               PROVE  FALSE
    BY DEF vars
  <2>1. HDelete
    <3>1. obj \in [Handle -> Object \cup {None}]
      BY DEF ActorInv, CacheInv, CacheTypes
    <3>2. ASSUME HCreate PROVE FALSE
      <4>1. PICK t \in Dir, n \in Names, isdir \in BOOLEAN :
              obj' = [obj EXCEPT ![lastHandle + 1] = [parent |-> t, name |-> n, isdir |-> isdir]]
        BY <3>2 DEF HCreate
      <4>2. [parent |-> t, name |-> n, isdir |-> isdir] # None
        BY ActorNone DEF Object
      <4> QED BY <3>1, <4>1, <4>2
    <3>3. obj' # obj
      OBVIOUS
    <3>4. HDelete \/ HCreate \/ UNCHANGED obj
      BY DEF Next, ByPath, ByHandle, ListCall, ResolveCall, RemoveCall, RenameCall, MoveCall, WalkStep,
         ListEnd, ResolveEnd, Find, FindDst, RemoveFile, RemoveDir, TreeList, TreeEntry, TreeDir,
         RenameAct, MoveAct, MkdirAllCall, MkdirWalk, MkdirCreate, MkdirEnd, HList, HRenameFind,
         HRenameMove, HRenameName, Expire, Reconnect, Quiet, vars
    <3> QED BY <3>2, <3>3, <3>4
  <2>2. PICK g \in Handle : OnPhone(g) /\ obj' = Deleted(g) /\ InvalidateHandle(g)
    BY <2>1 DEF HDelete
  <2>3. h \in Subtree(g)
    BY <2>2 DEF Deleted
  <2>4. parents[g] # None /\ Invalidate({parents[g]})
    BY <2>2 DEF InvalidateHandle
  <2>5. d \in DOMAIN listing /\ d # parents[g] /\ listing'[d] = listing[d]
    BY <2>4 DEF Invalidate
  <2>6. parents[h] = d /\ obj[h].parent = d
    <3>1. obj[h] = [parent |-> d, name |-> e.name, isdir |-> e.isdir]
      BY <2>5 DEF ActorInv, CacheInv, Shown
    <3> QED BY <2>5, <3>1 DEF ActorInv, CacheInv, ParentsRight
  <2>7. h # g
    BY <2>5, <2>6
  <2>8. d \in Subtree(g)
    BY <2>3, <2>6, <2>7, SubtreeAbove
  <2>9. d \in Handle /\ obj'[d] = None /\ d # Root
    BY <2>2, <2>8, SubtreeDef, ActorConstants DEF Deleted, Handle, Root
  <2> QED BY <2>9 DEF IsDir
<1> QED BY <1>1, ActorInvariant, PTL DEF Spec, DeletedUnlisted

\* A recursive remove deletes nothing outside the directory it was asked to
\* remove, however old the listings it works from (delete_tree).
THEOREM RemoveStaysInsideHolds == Spec => RemoveStaysInside
<1>1. ActorInv /\ TreeInv /\ [Next]_vars
      => [(req.pc = "tree" /\ stack # <<>>)
          => \A h \in Handle : (obj[h] # None /\ obj'[h] = None) => h \in Subtree(stack[1].dir)]_vars
  <2> SUFFICES ASSUME ActorInv, TreeInv, Next, req.pc = "tree", stack # <<>>,
                      NEW h \in Handle, obj[h] # None, obj'[h] = None
               PROVE  h \in Subtree(stack[1].dir)
    BY DEF vars
  <2> DEFINE top == stack[Len(stack)]
  <2>1. stack \in Seq(Frame)
    BY DEF ActorInv, RequestInv, RequestTypes
  <2>2. /\ top \in Frame /\ Len(stack) \in 1..Len(stack)
        /\ 1 \in 1..Len(stack) /\ stack[1].dir \in Dir
    <3>1. Len(stack) \in Nat /\ Len(stack) # 0
      BY <2>1
    <3>2. Len(stack) \in 1..Len(stack) /\ 1 \in 1..Len(stack)
      BY <3>1
    <3>3. stack[1] \in Frame /\ top \in Frame
      BY <2>1, <3>2
    <3> HIDE DEF top
    <3> QED BY <3>2, <3>3 DEF Frame
  <2>3. FrameInside(top)
    BY <2>2 DEF TreeInv, TreeInside
  <2>4. PICK g \in Handle : OnPhone(g) /\ obj' = Deleted(g) /\ Inside(g)
    <3>1. obj' # obj
      OBVIOUS
    <3>2. TreeEntry \/ TreeDir \/ UNCHANGED obj
      BY DEF Next, ByPath, ByHandle, ListCall, ResolveCall, RemoveCall, RenameCall, MoveCall, WalkStep,
         ListEnd, ResolveEnd, Find, FindDst, RemoveFile, RemoveDir, TreeList, RenameAct, MoveAct,
         MkdirAllCall, MkdirWalk, MkdirCreate, MkdirEnd, HList, HDelete, HCreate, HRenameFind,
         HRenameMove, HRenameName, Expire, Reconnect, Quiet, Arrives, vars
    <3>3. CASE TreeEntry
      <4>1. PICK e \in top.todo : OnPhone(e.handle) /\ obj' = Deleted(e.handle)
        BY <3>1, <3>3 DEF TreeEntry
      <4> QED BY <2>3, <4>1 DEF FrameInside, OnPhone
    <3>4. CASE TreeDir
      <4>1. OnPhone(top.dir) /\ obj' = Deleted(top.dir)
        BY <3>1, <3>4 DEF TreeDir
      <4> QED BY <2>3, <4>1 DEF FrameInside, OnPhone
    <3> QED BY <3>1, <3>2, <3>3, <3>4
  <2>5. PICK r \in Dir : r = stack[1].dir
    BY <2>2
  <2>6. g \in Subtree(r)
    BY <2>2, <2>4, <2>5, InsideBelow DEF OnPhone
  <2>7. h \in Subtree(g)
    BY <2>4 DEF Deleted
  <2>8. Subtree(r) \in SUBSET Handle /\ Holds(Subtree(r))
    BY SubtreeDef, SubtreeHolds
  <2>9. h \in Subtree(r)
    BY <2>6, <2>7, <2>8, SubtreeDef
  <2> QED BY <2>5, <2>9
<1> QED BY <1>1, ActorInvariant, TreeInvariant, PTL DEF Spec, RemoveStaysInside

=============================================================================
