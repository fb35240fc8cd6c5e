------------------------------ MODULE CropIndex ------------------------------
(***************************************************************************)
(* What the similarity index promises, whatever runs beside it: a sighting *)
(* is found by a vector computed from a crop it has had since it was last  *)
(* queued, never by one from before.                                       *)
(***************************************************************************)
CONSTANTS Sightings, Crops, NoVector

VARIABLES
  had,        \* the crops each sighting has had since it was last queued
  vector      \* the crop the vector in the index was computed from

vars == <<had, vector>>

Init ==
  /\ had = [s \in Sightings |-> {}]
  /\ vector = [s \in Sightings |-> NoVector]

\* A sighting is created or queued again: what the index held of it is dropped.
Queue(s) == \E c \in Crops :
  /\ had' = [had EXCEPT ![s] = {c}]
  /\ vector' = [vector EXCEPT ![s] = NoVector]

\* Its crop changes; the index does not know yet.
Recrop(s) == \E c \in Crops :
  /\ had[s] # {}
  /\ had' = [had EXCEPT ![s] = @ \cup {c}]
  /\ UNCHANGED vector

\* The vector of one of its crops arrives.
Embed(s) == \E c \in had[s] :
  /\ vector' = [vector EXCEPT ![s] = c]
  /\ UNCHANGED had

\* Sightings are deleted, alone or with their photo.
Remove(S) ==
  /\ had' = [s \in Sightings |-> IF s \in S THEN {} ELSE had[s]]
  /\ vector' = [s \in Sightings |-> IF s \in S THEN NoVector ELSE vector[s]]

Next ==
  \/ \E s \in Sightings : Queue(s) \/ Recrop(s) \/ Embed(s)
  \/ \E S \in SUBSET Sightings : Remove(S)

Spec == Init /\ [][Next]_vars
=============================================================================
