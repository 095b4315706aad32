-------------------------- MODULE WriteBackDurable --------------------------
(***************************************************************************)
(* WriteBack, served by one connection, implements DurableFile: a draft is *)
(* a stage with its file in the staging directory.  A flush that has       *)
(* uploaded is already published, although the stage is marked clean only  *)
(* under the next lock, and a stage whose removal has reached the phone is *)
(* already gone.                                                           *)
(***************************************************************************)
EXTENDS WriteBack

\* Some connection is at a point of a request for the file id.
At(p, id) == \E c \in Connections : conn[c].pc = p /\ conn[c].id = id

\* The object that a flush under way has uploaded for id.
Uploaded(id) == conn[CHOOSE c \in Connections : conn[c].pc = "flushed" /\ conn[c].id = id].h

FileOf(h) == IF dev[h] = None \/ dev[h].isdir THEN None ELSE dev[h].data

DraftOf(id) ==
  IF staged[id] = None \/ At("rmdrop", id) THEN None
  ELSE IF At("flushed", id) THEN [data |-> tmp[id], dirty |-> FALSE, of |-> Uploaded(id)]
  ELSE [data |-> tmp[id], dirty |-> staged[id].dirty, of |-> CurrentDev(staged[id])]

Durable == INSTANCE DurableFile WITH
  object <- [h \in Handle |-> FileOf(h)],
  draft <- [id \in Id |-> DraftOf(id)]

\* No draft is the value that stands for none.
ASSUME DraftAssumption == None \notin Durable!Draft

\* Every behaviour of the write-back layer, with its requests, failing calls,
\* lost sessions and restarts, is one of the abstract layer: files are opened
\* whole, published in one step and never dropped half-way (flush_stage,
\* ensure_staged_existing, remove).
ImplementsDurable == Durable!FileSpec
=============================================================================
