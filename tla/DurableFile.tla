---------------------------- MODULE DurableFile ----------------------------
(***************************************************************************)
(* What the write-back layer promises of files, without its stages, its    *)
(* requests and its sessions: the phone holds whole files, and a draft     *)
(* holds the newest content of one.  A draft is a copy, or it is ahead;    *)
(* publishing it is one step.  The layer may take the old file off the     *)
(* phone first, and leave pieces there when it fails, but it does that     *)
(* only while the draft is ahead, and it forgets a draft that is ahead     *)
(* only in a crash or when the file is removed.                            *)
(***************************************************************************)
EXTENDS Naturals, Sequences

CONSTANTS
  Handle,   \* the handles of the phone's objects
  Id,       \* the file ids of drafts
  Content,  \* what can be in a file
  None

\* What the constants have to be.
DurableConstants ==
  /\ Handle \subseteq Nat \ {0}
  /\ None \notin Content
  /\ None \notin [data : Content, dirty : BOOLEAN, of : Handle \cup {0}]
  /\ <<>> \in Content
  /\ \A s \in Content : \A n \in 0..Len(s) : [i \in 1..n |-> s[i]] \in Content

VARIABLES
  object,  \* the content of the phone's files
  draft    \* the drafts: content, whether it is ahead, and the file it is of

fvars == <<object, draft>>

Draft == [data : Content, dirty : BOOLEAN, of : Handle \cup {0}]

FileTypes ==
  /\ object \in [Handle -> Content \cup {None}]
  /\ draft \in [Id -> Draft \cup {None}]

FileInit ==
  /\ object \in [Handle -> Content \cup {None}]
  /\ draft = [id \in Id |-> None]

\* No other draft is of the file h.
Unshared(id, h) == \A i \in Id \ {id} : draft[i] # None => draft[i].of # h

\* A file is opened, with all of its content, or a new one is begun.
Open(id, h) ==
  /\ draft[id] = None /\ object[h] # None /\ Unshared(id, h)
  /\ draft' = [draft EXCEPT ![id] = [data |-> object[h], dirty |-> FALSE, of |-> h]]
  /\ UNCHANGED object
Begin(id) ==
  /\ draft[id] = None
  /\ draft' = [draft EXCEPT ![id] = [data |-> <<>>, dirty |-> TRUE, of |-> 0]]
  /\ UNCHANGED object

\* The client changes a file.
Edit(id) ==
  /\ draft[id] # None
  /\ \E data \in Content :
       draft' = [draft EXCEPT ![id] = [data |-> data, dirty |-> TRUE, of |-> draft[id].of]]
  /\ UNCHANGED object

\* A draft that is ahead takes its old file off the phone, leaves a piece of
\* itself there, or becomes the file.
Withdraw(id) ==
  /\ draft[id] # None /\ draft[id].dirty /\ draft[id].of # 0
  /\ object' = [object EXCEPT ![draft[id].of] = None]
  /\ UNCHANGED draft
Litter(id, h) ==
  /\ draft[id] # None /\ draft[id].dirty /\ object[h] = None /\ Unshared(id, h)
  /\ \E n \in 0..Len(draft[id].data) :
       object' = [object EXCEPT ![h] = [i \in 1..n |-> draft[id].data[i]]]
  /\ UNCHANGED draft
Publish(id, h) ==
  /\ draft[id] # None /\ draft[id].dirty /\ object[h] = None /\ Unshared(id, h)
  /\ object' = [object EXCEPT ![h] = draft[id].data]
  /\ draft' = [draft EXCEPT ![id] = [data |-> draft[id].data, dirty |-> FALSE, of |-> h]]

\* A file is removed: with its draft, without one, or before it was published.
Remove(id) ==
  /\ draft[id] # None
  /\ draft[id].of # 0 => object[draft[id].of] # None
  /\ object' = [h \in Handle |-> IF h = draft[id].of THEN None ELSE object[h]]
  /\ draft' = [draft EXCEPT ![id] = None]
Delete(h) ==
  /\ object[h] # None /\ \A id \in Id : draft[id] # None => draft[id].of # h
  /\ object' = [object EXCEPT ![h] = None]
  /\ UNCHANGED draft

\* The layer crashes: its drafts are gone, the files stay.
Crash == draft' = [id \in Id |-> None] /\ UNCHANGED object

FileNext ==
  /\ object' # object \/ draft' # draft
  /\ \/ \E id \in Id : Begin(id) \/ Edit(id) \/ Withdraw(id) \/ Remove(id)
     \/ \E id \in Id, h \in Handle : Open(id, h) \/ Litter(id, h) \/ Publish(id, h)
     \/ \E h \in Handle : Delete(h)
     \/ Crash

FileSpec == FileInit /\ [][FileNext]_fvars

-----------------------------------------------------------------------------
\* A draft that is not ahead is a copy of its file, so nothing is lost with it.
CopiesTrue ==
  \A id \in Id :
    draft[id] # None /\ ~draft[id].dirty =>
      draft[id].of \in Handle /\ object[draft[id].of] = draft[id].data

\* What is in a file is lost only while a draft is ahead of it, or with it: no
\* step takes the newest content of a file that is not being removed.
NewestKept ==
  [][\A h \in Handle :
       object[h] # None /\ object'[h] # object[h] =>
         \/ \E id \in Id : /\ draft[id] # None /\ draft[id].of = h
                           /\ draft[id].dirty \/ draft'[id] = None
                           /\ draft'[id] # None => draft'[id] = draft[id]
         \/ \A id \in Id : draft[id] # None => draft[id].of # h]_fvars
=============================================================================
