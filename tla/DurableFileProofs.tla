------------------------- MODULE DurableFileProofs -------------------------
(***************************************************************************)
(* Theorems about DurableFile, for any files, drafts and contents: what    *)
(* the write-back layer promises keeps the newest content of every file.   *)
(* WriteBackDurable shows the layer to implement it.                       *)
(***************************************************************************)
EXTENDS DurableFile, TLAPS

\* No two drafts are of one file.
Apart ==
  \A i, j \in Id :
    /\ i # j /\ draft[i] # None /\ draft[j] # None
    /\ draft[i].of = draft[j].of
    => draft[i].of = 0

FileInv == FileTypes /\ CopiesTrue /\ Apart

LEMMA DraftsAre ==
  ASSUME DurableConstants, NEW d \in Draft
  PROVE  d # None /\ d.data \in Content /\ d.dirty \in BOOLEAN /\ d.of \in Handle \cup {0}
BY DEF DurableConstants, Draft

LEMMA Made ==
  ASSUME NEW data \in Content, NEW dirty \in BOOLEAN, NEW of \in Handle \cup {0}
  PROVE  [data |-> data, dirty |-> dirty, of |-> of] \in Draft
BY DEF Draft

LEMMA FileInitInv == DurableConstants /\ FileInit => FileInv
BY DEF FileInit, FileInv, FileTypes, CopiesTrue, Apart

\* The steps that change drafts alone.
LEMMA DraftStep ==
  ASSUME DurableConstants, FileInv, NEW id \in Id,
         (\E h \in Handle : Open(id, h)) \/ Begin(id) \/ Edit(id)
  PROVE  FileInv'
<1> USE DEF FileInv
<1>1. PICK d \in Draft :
        /\ draft' = [draft EXCEPT ![id] = d] /\ object' = object
        /\ \/ d.dirty
           \/ d.of \in Handle /\ object[d.of] = d.data
        /\ \/ d.of = 0
           \/ draft[id] # None /\ draft[id].of = d.of
           \/ Unshared(id, d.of)
  <2>1. ASSUME NEW h \in Handle, Open(id, h)
        PROVE  /\ [data |-> object[h], dirty |-> FALSE, of |-> h] \in Draft
               /\ draft' = [draft EXCEPT ![id] = [data |-> object[h], dirty |-> FALSE, of |-> h]]
               /\ object' = object /\ Unshared(id, h)
    <3>1. object[h] \in Content
      BY <2>1 DEF Open, FileTypes
    <3> QED BY <2>1, <3>1, Made DEF Open
  <2>2. CASE Begin(id)
    <3>1. [data |-> <<>>, dirty |-> TRUE, of |-> 0] \in Draft
      BY Made DEF DurableConstants
    <3> QED BY <2>2, <3>1 DEF Begin
  <2>3. ASSUME Edit(id)
        PROVE  \E data \in Content :
                 /\ [data |-> data, dirty |-> TRUE, of |-> draft[id].of] \in Draft
                 /\ draft' = [draft EXCEPT ![id] = [data |-> data, dirty |-> TRUE, of |-> draft[id].of]]
                 /\ object' = object /\ draft[id] # None
    <3>1. draft[id] # None /\ draft[id].of \in Handle \cup {0}
      BY <2>3, DraftsAre DEF Edit, FileTypes
    <3> QED BY <2>3, <3>1, Made DEF Edit
  <2> QED BY <2>1, <2>2, <2>3
<1>2. FileTypes'
  BY <1>1 DEF FileTypes
<1>3. CopiesTrue'
  BY <1>1, DraftsAre DEF FileTypes, CopiesTrue
<1>4. Apart'
  BY <1>1, DraftsAre DEF FileTypes, Apart, Unshared
<1> QED BY <1>2, <1>3, <1>4

\* A draft of no file but its own is ahead of it: a piece of it may be there.
LEMMA ObjectStep ==
  ASSUME DurableConstants, FileInv, NEW id \in Id,
         Withdraw(id) \/ (\E h \in Handle : Litter(id, h))
  PROVE  FileInv'
<1> USE DEF FileInv
<1>1. PICK h \in Handle, c \in Content \cup {None} :
        /\ object' = [object EXCEPT ![h] = c] /\ draft' = draft
        /\ draft[id] # None /\ draft[id].dirty
        /\ draft[id].of = h \/ Unshared(id, h)
  <2>1. CASE Withdraw(id)
    <3>1. draft[id].of \in Handle
      BY <2>1, DraftsAre DEF Withdraw, FileTypes
    <3> QED BY <2>1, <3>1 DEF Withdraw
  <2>2. ASSUME NEW h \in Handle, Litter(id, h)
        PROVE  /\ \E c \in Content : object' = [object EXCEPT ![h] = c]
               /\ draft' = draft /\ draft[id] # None /\ draft[id].dirty /\ Unshared(id, h)
    <3>1. draft[id].data \in Content
      BY <2>2, DraftsAre DEF Litter, FileTypes
    <3> QED BY <2>2, <3>1 DEF Litter, DurableConstants
  <2> QED BY <2>1, <2>2
<1>2. FileTypes' /\ Apart'
  BY <1>1 DEF FileTypes, Apart
<1>3. ASSUME NEW i \in Id, draft[i] # None, ~draft[i].dirty PROVE draft[i].of \in Handle /\ draft[i].of # h
  <2>1. i # id /\ draft[i].of \in Handle
    BY <1>1, <1>3 DEF CopiesTrue
  <2> QED BY <1>1, <1>3, <2>1 DEF Apart, Unshared, DurableConstants
<1>4. CopiesTrue'
  BY <1>1, <1>3 DEF FileTypes, CopiesTrue
<1> QED BY <1>2, <1>4

\* A draft becomes the file, or goes with it.
LEMMA BothStep ==
  ASSUME DurableConstants, FileInv, NEW id \in Id,
         (\E h \in Handle : Publish(id, h)) \/ Remove(id)
  PROVE  FileInv'
<1> USE DEF FileInv
<1>1. ASSUME NEW h \in Handle, Publish(id, h) PROVE FileInv'
  <2>1. /\ draft[id] # None /\ draft[id].data \in Content /\ Unshared(id, h)
        /\ object' = [object EXCEPT ![h] = draft[id].data]
        /\ draft' = [draft EXCEPT ![id] = [data |-> draft[id].data, dirty |-> FALSE, of |-> h]]
    BY <1>1, DraftsAre DEF Publish, FileTypes
  <2>2. [data |-> draft[id].data, dirty |-> FALSE, of |-> h] \in Draft
    BY <2>1, Made
  <2>3. FileTypes'
    BY <2>1, <2>2 DEF FileTypes
  <2>4. CopiesTrue'
    BY <2>1 DEF FileTypes, CopiesTrue, Unshared
  <2>5. Apart'
    BY <2>1 DEF FileTypes, Apart, Unshared
  <2> QED BY <2>3, <2>4, <2>5
<1>2. CASE Remove(id)
  <2>1. /\ draft[id] # None /\ draft' = [draft EXCEPT ![id] = None]
        /\ object' = [h \in Handle |-> IF h = draft[id].of THEN None ELSE object[h]]
    BY <1>2 DEF Remove
  <2>2. FileTypes' /\ Apart'
    BY <2>1 DEF FileTypes, Apart
  <2>3. CopiesTrue'
    BY <2>1 DEF FileTypes, CopiesTrue, Apart, DurableConstants
  <2> QED BY <2>2, <2>3
<1> QED BY <1>1, <1>2

LEMMA FileStepInv ==
  ASSUME DurableConstants
  PROVE  FileInv /\ [FileNext]_fvars => FileInv'
<1> SUFFICES ASSUME FileInv, [FileNext]_fvars PROVE FileInv'
  OBVIOUS
<1>1. CASE UNCHANGED fvars
  BY <1>1 DEF fvars, FileInv, FileTypes, CopiesTrue, Apart
<1>2. ASSUME NEW h \in Handle, Delete(h) PROVE FileInv'
  BY <1>2 DEF Delete, FileInv, FileTypes, CopiesTrue, Apart
<1>3. CASE Crash
  BY <1>3 DEF Crash, FileInv, FileTypes, CopiesTrue, Apart
<1> QED BY <1>1, <1>2, <1>3, DraftStep, ObjectStep, BothStep DEF FileNext

-----------------------------------------------------------------------------
\* Dropping a draft that is not ahead loses nothing: it is a copy of its file.
THEOREM CopiesAreTrue ==
  ASSUME DurableConstants
  PROVE  FileSpec => []CopiesTrue
<1>1. FileInv => CopiesTrue
  BY DEF FileInv
<1> QED BY <1>1, FileInitInv, FileStepInv, PTL DEF FileSpec

\* The newest content of a file stays on the phone or in a draft that is ahead
\* until the file is removed.
THEOREM NewestIsKept ==
  ASSUME DurableConstants
  PROVE  FileSpec => NewestKept
<1>1. FileInv /\ [FileNext]_fvars =>
        [\A h \in Handle :
           object[h] # None /\ object'[h] # object[h] =>
             \/ \E id \in Id : /\ draft[id] # None /\ draft[id].of = h
                               /\ draft[id].dirty \/ draft'[id] = None
                               /\ draft'[id] # None => draft'[id] = draft[id]
             \/ \A id \in Id : draft[id] # None => draft[id].of # h]_fvars
  <2> SUFFICES ASSUME FileInv, FileNext, NEW h \in Handle, object[h] # None, object'[h] # object[h]
               PROVE  \/ \E id \in Id : /\ draft[id] # None /\ draft[id].of = h
                                        /\ draft[id].dirty \/ draft'[id] = None
                                        /\ draft'[id] # None => draft'[id] = draft[id]
                      \/ \A id \in Id : draft[id] # None => draft[id].of # h
    BY DEF fvars
  <2>1. ASSUME NEW id \in Id, Withdraw(id)
        PROVE  draft[id] # None /\ draft[id].of = h /\ draft[id].dirty /\ draft' = draft
    BY <2>1 DEF Withdraw, FileInv, FileTypes
  <2>2. ASSUME NEW id \in Id, Remove(id)
        PROVE  draft[id] # None /\ draft[id].of = h /\ draft'[id] = None
    BY <2>2 DEF Remove, FileInv, FileTypes
  <2>3. ASSUME NEW g \in Handle, Delete(g) PROVE \A id \in Id : draft[id] # None => draft[id].of # h
    BY <2>3 DEF Delete, FileInv, FileTypes
  <2>4. ASSUME NEW id \in Id, NEW g \in Handle, Litter(id, g) \/ Publish(id, g) PROVE FALSE
    BY <2>4 DEF Litter, Publish, FileInv, FileTypes
  <2> QED BY <2>1, <2>2, <2>3, <2>4 DEF FileNext, Begin, Edit, Open, Crash
<1> QED BY <1>1, FileInitInv, FileStepInv, PTL DEF FileSpec, NewestKept
=============================================================================
