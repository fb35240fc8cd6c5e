--------------------------- MODULE EmbeddingProofs ---------------------------
(***************************************************************************)
(* Proofs about Embedding, for any number of photos, sightings, rectangles,*)
(* requests, worker processes, edits and faults.                           *)
(***************************************************************************)
EXTENDS Embedding, FiniteSetTheorems, TLAPS

USE EmbeddingAssumption

\* Nothing refers to a sighting that was never inserted.
IdsInv ==
  /\ \A s \in Sightings : s > created => ~Stored(s)
  /\ \A w \in Workers : worker[w].step = "embed" => worker[w].s \in 1..created
  /\ \A r \in Requests : req[r].step # "idle" => req[r].s \in 1..created
  /\ \A r \in Requests : req[r].step = "delLoaded" => req[r].photo \in Photos

\* Only rows in processing grow old.
OldInv == \A s \in old : Stored(s) /\ sighting[s].status = "processing"

\* The history of crops holds the crop of the row and that of its vector.
HadInv ==
  \A s \in Sightings :
    /\ ~Stored(s) => had[s] = {}
    /\ Stored(s) => sighting[s].roi \in had[s]
    /\ Stored(s) /\ sighting[s].vector # NoVector => sighting[s].vector \in had[s]

\* A job is no younger than its row, and one of the row's generation carries a
\* crop the row has had since.
JobInv ==
  \A w \in Workers : worker[w].step = "embed" /\ Stored(worker[w].s) =>
    /\ worker[w].gen <= sighting[worker[w].s].gen
    /\ worker[w].gen = sighting[worker[w].s].gen => worker[w].roi \in had[worker[w].s]

\* No request is about to queue the sighting s.
Settling(s) == s \notin tainted /\ \A r \in Requests : ~(Recropped(r) /\ req[r].s = s)

\* Such a job carries the row's own crop unless the crop is in motion.
JobCurrent ==
  \A w \in Workers : worker[w].step = "embed" /\ Stored(worker[w].s) =>
    (worker[w].gen = sighting[worker[w].s].gen /\ Settling(worker[w].s)
       => worker[w].roi = sighting[worker[w].s].roi)

VectorCurrent ==
  \A s \in Sightings : Stored(s) /\ sighting[s].status = "ready" /\ Settling(s)
                         => sighting[s].vector = sighting[s].roi

\* A request deletes sightings of the photo it counted.
DeletingPhoto ==
  \A r \in Requests :
    req[r].step \in {"delLoaded", "delClear", "delCleared", "delRow"} /\ Stored(req[r].s)
      => sighting[req[r].s].photo = req[r].photo

\* The requests that may take the last sighting of a photo away.
Deleting(r, p) == req[r].step = "delRow" /\ req[r].photo = p /\ Stored(req[r].s)

\* Two such requests are an overlap; one alone leaves another sighting.
DeletingAlone ==
  \A p \in photos : p \notin overlapped =>
    /\ \A r, q \in Requests : Deleting(r, p) /\ Deleting(q, p) => r = q
    /\ \A r \in Requests : Deleting(r, p) => \E s \in SightingsOf(p) : s # req[r].s

IInv ==
  /\ RowsOK /\ PhotoExists /\ IdsInv /\ OldInv
  /\ VectorIffReady /\ HadInv /\ JobInv
  /\ JobCurrent /\ VectorCurrent
  /\ DeletingPhoto /\ DeletingAlone /\ LastSightingKept
-----------------------------------------------------------------------------
\* A row with another crop, status, generation or vector is a row.
LEMMA RowType ==
  ASSUME NEW row \in Row
  PROVE  /\ \A roi \in Crops : [row EXCEPT !.roi = roi] \in Row
         /\ \A st \in Statuses : [row EXCEPT !.status = st] \in Row
         /\ \A v \in Crops : [row EXCEPT !.status = "ready", !.vector = v] \in Row
         /\ [row EXCEPT !.status = "pending", !.vector = NoVector, !.gen = @ + 1] \in Row
  <1>1. "pending" \in Statuses /\ "ready" \in Statuses
    BY DEF Statuses
  <1>2. row.gen + 1 \in Nat
    BY DEF Row
  <1>3. QED
    BY <1>1, <1>2 DEF Row

\* The idle request is a request, a worker between jobs a worker.
LEMMA IdleType == Idle \in Request /\ \A st \in {"wait", "drain"} : At(st) \in Job
  BY DEF Idle, Request, At, Job, Crops

\* Removing rows keeps the tables well typed.
LEMMA RemoveType ==
  ASSUME RowsOK, NEW S, Remove(S)
  PROVE  /\ sighting' \in [Sightings -> Row \cup {NoRow}]
         /\ had' \in [Sightings -> SUBSET Crops]
         /\ old' \in SUBSET Sightings
         /\ tainted' \in SUBSET Sightings
  BY DEF RowsOK, Remove

\* So does inserting one.
LEMMA InsertType ==
  ASSUME RowsOK, NEW p \in Photos, NEW roi \in Crops, InsertSighting(p, roi)
  PROVE  /\ sighting' \in [Sightings -> Row \cup {NoRow}]
         /\ had' \in [Sightings -> SUBSET Crops]
         /\ created' \in 0..MaxSightings
         /\ created + 1 \in Sightings
  <1>1. created + 1 \in Sightings
    BY DEF RowsOK, InsertSighting, Sightings
  <1>2. [photo |-> p, roi |-> roi, status |-> "pending", gen |-> 0, vector |-> NoVector] \in Row
    BY DEF Row, Statuses
  <1>3. QED
    BY <1>1, <1>2 DEF RowsOK, InsertSighting

\* And writing a crop.
LEMMA WriteRoiType ==
  ASSUME RowsOK, NEW s \in Sightings, Stored(s), NEW roi \in Crops, WriteRoi(s, roi)
  PROVE  /\ sighting' \in [Sightings -> Row \cup {NoRow}]
         /\ had' \in [Sightings -> SUBSET Crops]
         /\ old' \in SUBSET Sightings
  <1>1. [sighting[s] EXCEPT !.roi = roi] \in Row
    BY RowType DEF RowsOK, Stored
  <1>2. QED
    BY <1>1 DEF RowsOK, WriteRoi

\* Every step keeps the variables well typed.
LEMMA StepType == RowsOK /\ IdsInv /\ OldInv /\ [Next]_vars => RowsOK'
  <1> SUFFICES ASSUME RowsOK, IdsInv, OldInv, [Next]_vars PROVE RowsOK'
    OBVIOUS
  <1> USE DEF RowsOK
  <1>0. \A r \in Requests : req[r].step # "idle" => req[r].s \in Sightings
    BY DEF IdsInv, Sightings
  <1>1. ASSUME NEW p \in Photos, Insert(p) \/ AddSighting(p) PROVE RowsOK'
    <2>1. PICK roi \in Crops : InsertSighting(p, roi)
      BY <1>1 DEF Insert, AddSighting, Crops
    <2>2. photos' \in SUBSET Photos
      BY <1>1 DEF Insert, AddSighting
    <2>3. QED
      BY <2>1, <2>2, InsertType DEF InsertSighting
  <1>2. ASSUME NEW p \in Photos, DeletePhoto(p) PROVE RowsOK'
    BY <1>2, RemoveType DEF DeletePhoto
  <1>3. ASSUME NEW r \in Requests, NEW s \in Sightings, PatchLoad(r, s) PROVE RowsOK'
    <2>1. PICK roi \in Crops :
            req' = [req EXCEPT ![r] = [step |-> "patchLoaded", s |-> s, photo |-> NoPhoto,
                                       old |-> sighting[s].roi, new |-> roi]]
      BY <1>3 DEF PatchLoad
    <2>2. sighting[s].roi \in Crops /\ s \in Nat
      BY <1>3 DEF PatchLoad, Stored, Row, Sightings
    <2>3. [step |-> "patchLoaded", s |-> s, photo |-> NoPhoto,
           old |-> sighting[s].roi, new |-> roi] \in Request
      BY <2>2 DEF Request
    <2>4. req' \in [Requests -> Request] /\ edits' \in 0..MaxEdits
      BY <1>3, <2>1, <2>3 DEF PatchLoad
    <2>5. QED
      BY <1>3, <2>4 DEF PatchLoad, tables
  <1>4. ASSUME NEW r \in Requests, NEW s \in Sightings, DeleteLoad(r, s) PROVE RowsOK'
    <2>1. sighting[s].roi \in Crops /\ sighting[s].photo \in Photos /\ s \in Nat
      BY <1>4 DEF DeleteLoad, Stored, Row, Sightings
    <2>2. [step |-> "delLoaded", s |-> s, photo |-> sighting[s].photo,
           old |-> sighting[s].roi, new |-> Whole] \in Request
      BY <2>1 DEF Request, Crops
    <2>3. req' \in [Requests -> Request] /\ edits' \in 0..MaxEdits
      BY <1>4, <2>2 DEF DeleteLoad
    <2>4. QED
      BY <1>4, <2>3 DEF DeleteLoad, tables
  <1>5. ASSUME NEW r \in Requests PROVE
          /\ Finish(r) => req' \in [Requests -> Request]
          /\ \A st \in {"patchSaved", "delCleared", "delRow", "delClear"} :
               req' = [req EXCEPT ![r].step = st] => req' \in [Requests -> Request]
    <2>1. Finish(r) => req' \in [Requests -> Request]
      BY IdleType DEF Finish
    <2>2. ASSUME NEW st \in {"patchSaved", "delCleared", "delRow", "delClear"}
          PROVE  [req[r] EXCEPT !.step = st] \in Request
      BY DEF Request
    <2>3. QED
      BY <2>1, <2>2
  <1>6. ASSUME NEW r \in Requests, PatchSave(r) PROVE RowsOK'
    <2>1. req[r].s \in Sightings /\ req[r].new \in Crops
      BY <1>6, <1>0 DEF PatchSave, Request
    <2>2. req' \in [Requests -> Request]
      BY <1>5, <1>6 DEF PatchSave
    <2>3. tainted' \in SUBSET Sightings
      BY <1>6, <2>1 DEF PatchSave
    <2>4. QED
      BY <1>6, <2>1, <2>2, <2>3, WriteRoiType DEF PatchSave
  <1>7. ASSUME NEW r \in Requests, PatchRefused(r) PROVE RowsOK'
    BY <1>5, <1>7 DEF PatchRefused
  <1>8. ASSUME NEW r \in Requests, RequeueEmbedding(r) PROVE RowsOK'
    <2>1. req[r].s \in Sightings
      BY <1>8, <1>0 DEF RequeueEmbedding, Recropped
    <2>2. req' \in [Requests -> Request]
      BY <1>5, <1>8 DEF RequeueEmbedding
    <2>3. CASE Stored(req[r].s)
      <3>1. [sighting[req[r].s] EXCEPT !.status = "pending", !.vector = NoVector,
                                       !.gen = @ + 1] \in Row
        BY <2>1, <2>3, RowType DEF Stored
      <3>2. sighting' \in [Sightings -> Row \cup {NoRow}]
        BY <1>8, <2>1, <2>3, <3>1, ZenonT(90) DEF RequeueEmbedding
      <3>3. sighting[req[r].s].roi \in Crops
        BY <2>1, <2>3 DEF Stored, Row
      <3>4. QED
        BY <1>8, <2>1, <2>2, <2>3, <3>2, <3>3 DEF RequeueEmbedding
    <2>4. CASE ~Stored(req[r].s)
      BY <1>8, <2>2, <2>4 DEF RequeueEmbedding
    <2>5. QED
      BY <2>3, <2>4
  <1>9. ASSUME NEW r \in Requests, DeleteCount(r) PROVE RowsOK'
    <2>1. req[r].photo \in Photos
      BY <1>9 DEF DeleteCount, IdsInv
    <2>2. QED
      BY <1>5, <1>9, <2>1 DEF DeleteCount
  <1>10. ASSUME NEW r \in Requests, DeleteClear(r) PROVE RowsOK'
    <2>1. req[r].s \in Sightings /\ Whole \in Crops
      BY <1>10, <1>0 DEF DeleteClear, Crops
    <2>2. req' \in [Requests -> Request]
      BY <1>5, <1>10 DEF DeleteClear
    <2>3. QED
      BY <1>10, <2>1, <2>2, WriteRoiType DEF DeleteClear
  <1>11. ASSUME NEW r \in Requests, DeleteRow(r) PROVE RowsOK'
    BY <1>5, <1>11, RemoveType DEF DeleteRow
  <1>12. ASSUME NEW r \in Requests, Abandon(r) PROVE RowsOK'
    BY <1>5, <1>12 DEF Abandon, Fault
  <1>13. ASSUME NEW w \in Workers PROVE
           \A st \in {"wait", "drain"} : Step(w, st) => worker' \in [Workers -> Job]
    BY IdleType DEF Step
  <1>14. \A s \in Sightings, st \in Statuses :
           Stored(s) => [sighting[s] EXCEPT !.status = st] \in Row
    BY RowType DEF Stored
  <1>15. ASSUME NEW w \in Workers, BeginPass(w) PROVE RowsOK'
    <2>1. \A s \in old : [sighting[s] EXCEPT !.status = "pending"] \in Row
      BY <1>14 DEF OldInv, Statuses
    <2>2. QED
      BY <1>13, <1>15, <2>1 DEF BeginPass, Fault
  <1>16. ASSUME NEW s \in Sightings, Claimed(s) PROVE sighting' \in [Sightings -> Row \cup {NoRow}]
    BY <1>14, <1>16 DEF Claimed, Pending, Statuses
  <1>17. ASSUME NEW w \in Workers, ClaimPending(w) PROVE RowsOK'
    <2>1. PICK s \in Sightings :
            /\ Claimed(s)
            /\ worker' = [worker EXCEPT ![w] = [step |-> "embed", s |-> s,
                                     roi |-> sighting[s].roi, gen |-> sighting[s].gen]]
      BY <1>17 DEF ClaimPending
    <2>2. [step |-> "embed", s |-> s, roi |-> sighting[s].roi, gen |-> sighting[s].gen] \in Job
      BY <2>1 DEF Claimed, Pending, Stored, Row, Job, Sightings
    <2>3. QED
      BY <1>16, <1>17, <2>1, <2>2 DEF ClaimPending
  <1>18. ASSUME NEW w \in Workers, NothingPending(w) PROVE RowsOK'
    BY <1>13, <1>18 DEF NothingPending, tables
  <1>19. ASSUME NEW w \in Workers, ClaimError(w) PROVE RowsOK'
    BY <1>13, <1>16, <1>19 DEF ClaimError, Fault
  <1>20. ASSUME NEW w \in Workers, SaveEmbedding(w) PROVE RowsOK'
    <2>1. CASE Current(worker[w])
      <3>1. [sighting[worker[w].s] EXCEPT !.status = "ready", !.vector = worker[w].roi] \in Row
        BY <2>1, RowType DEF Current, Stored, Job
      <3>2. sighting' \in [Sightings -> Row \cup {NoRow}]
        BY <1>20, <2>1, <3>1 DEF SaveEmbedding, Current
      <3>3. QED
        BY <1>13, <1>20, <3>2 DEF SaveEmbedding
    <2>2. CASE ~Current(worker[w])
      BY <1>13, <1>20, <2>2 DEF SaveEmbedding
    <2>3. QED
      BY <2>1, <2>2
  <1>21. ASSUME NEW w \in Workers, FailEmbedding(w) PROVE RowsOK'
    <2>1. CASE Current(worker[w])
      <3>1. sighting' \in [Sightings -> Row \cup {NoRow}]
        BY <1>14, <1>21, <2>1, ZenonT(60) DEF FailEmbedding, Current, Statuses
      <3>2. QED
        BY <1>13, <1>21, <3>1 DEF FailEmbedding
    <2>2. CASE ~Current(worker[w])
      BY <1>13, <1>21, <2>2 DEF FailEmbedding
    <2>3. QED
      BY <2>1, <2>2
  <1>22. ASSUME NEW w \in Workers, FailLost(w) \/ Crash(w) PROVE RowsOK'
    BY <1>13, <1>22 DEF FailLost, Crash, Fault, tables
  <1>23. ASSUME NEW s \in Sightings, Age(s) PROVE RowsOK'
    BY <1>23 DEF Age, Fault
  <1>24. CASE UNCHANGED vars
    BY <1>24 DEF vars
  <1>25. QED
    BY <1>1, <1>2, <1>3, <1>4, <1>6, <1>7, <1>8, <1>9, <1>10, <1>11, <1>12,
       <1>15, <1>17, <1>18, <1>19, <1>20, <1>21, <1>22, <1>23, <1>24 DEF Next, Run
-----------------------------------------------------------------------------
\* What a step can do to a sighting.
Kept(s)    == sighting'[s] = sighting[s] /\ had'[s] = had[s]
Moved(s)   == /\ Stored(s) /\ sighting[s].status \in {"pending", "processing"}
              /\ \E st \in {"pending", "processing", "failed"} :
                   sighting'[s] = [sighting[s] EXCEPT !.status = st]
              /\ had'[s] = had[s]
Saved(s)   == /\ Stored(s) /\ had'[s] = had[s]
              /\ \E w \in Workers :
                   /\ worker[w].step = "embed" /\ worker[w].s = s
                   /\ worker[w].gen = sighting[s].gen
                   /\ sighting'[s] = [sighting[s] EXCEPT !.status = "ready",
                                                        !.vector = worker[w].roi]
Cropped(s) == /\ Stored(s)
              /\ \E roi \in Crops : /\ sighting'[s] = [sighting[s] EXCEPT !.roi = roi]
                                    /\ had'[s] = had[s] \cup {roi}
Queued(s)  == /\ Stored(s)
              /\ sighting'[s] = [sighting[s] EXCEPT !.status = "pending", !.vector = NoVector,
                                                    !.gen = @ + 1]
              /\ had'[s] = {sighting[s].roi}
Gone(s)    == sighting'[s] = NoRow /\ had'[s] = {}
Added(s)   == /\ s = created + 1
              /\ \E p \in photos', roi \in Crops :
                   /\ sighting'[s] = [photo |-> p, roi |-> roi, status |-> "pending",
                                      gen |-> 0, vector |-> NoVector]
                   /\ had'[s] = {roi}

Changes(s) == \/ Kept(s) \/ Moved(s) \/ Saved(s) \/ Cropped(s) \/ Queued(s) \/ Gone(s)
              \/ Added(s)

\* Every step does one of these to every sighting.
LEMMA RowStep ==
  ASSUME RowsOK, IdsInv, OldInv, [Next]_vars
  PROVE  \A s \in Sightings : Changes(s)
  <1> SUFFICES ASSUME NEW s \in Sightings PROVE Changes(s)
    OBVIOUS
  <1> USE DEF RowsOK
  <1>0. UNCHANGED <<sighting, had>> => Changes(s)
    BY DEF Changes, Kept
  <1>1. ASSUME NEW p \in Photos, Insert(p) \/ AddSighting(p) PROVE Changes(s)
    <2>1. PICK roi \in Crops : InsertSighting(p, roi)
      BY <1>1 DEF Insert, AddSighting, Crops
    <2>2. p \in photos'
      BY <1>1 DEF Insert, AddSighting
    <2>3. CASE s = created + 1
      BY <2>1, <2>2, <2>3 DEF InsertSighting, Changes, Added
    <2>4. CASE s # created + 1
      BY <2>1, <2>4 DEF InsertSighting, Changes, Kept
    <2>5. QED
      BY <2>3, <2>4
  <1>2. ASSUME NEW S, Remove(S) PROVE Changes(s)
    BY <1>2 DEF Remove, Changes, Kept, Gone
  <1>3. ASSUME NEW t \in Sightings, NEW roi \in Crops, Stored(t), WriteRoi(t, roi)
        PROVE  Changes(s)
    BY <1>3 DEF WriteRoi, Changes, Kept, Cropped
  <1>4. ASSUME NEW r \in Requests, PatchSave(r) PROVE Changes(s)
    <2>1. req[r].s \in Sightings /\ req[r].new \in Crops
      BY <1>4 DEF PatchSave, IdsInv, Sightings, Request
    <2>2. QED
      BY <1>0, <1>3, <1>4, <2>1 DEF PatchSave
  <1>5. ASSUME NEW r \in Requests, DeleteClear(r) PROVE Changes(s)
    <2>1. req[r].s \in Sightings /\ Whole \in Crops
      BY <1>5 DEF DeleteClear, IdsInv, Sightings, Crops
    <2>2. QED
      BY <1>0, <1>3, <1>5, <2>1 DEF DeleteClear
  <1>6. ASSUME NEW r \in Requests, RequeueEmbedding(r) PROVE Changes(s)
    <2>1. CASE Stored(req[r].s) /\ s = req[r].s
      BY <1>6, <2>1 DEF RequeueEmbedding, Changes, Queued
    <2>2. CASE Stored(req[r].s) /\ s # req[r].s
      BY <1>6, <2>2 DEF RequeueEmbedding, Changes, Kept
    <2>3. CASE ~Stored(req[r].s)
      BY <1>0, <1>6, <2>3 DEF RequeueEmbedding
    <2>4. QED
      BY <2>1, <2>2, <2>3
  <1>7. ASSUME NEW w \in Workers, BeginPass(w) PROVE Changes(s)
    <2>1. CASE s \in old /\ sighting' # sighting
      BY <1>7, <2>1 DEF BeginPass, OldInv, Changes, Moved
    <2>2. CASE s \notin old \/ sighting' = sighting
      BY <1>7, <2>2 DEF BeginPass, Changes, Kept
    <2>3. QED
      BY <2>1, <2>2
  <1>8. ASSUME NEW t \in Sightings, Claimed(t), UNCHANGED had PROVE Changes(s)
    <2>1. CASE s = t
      BY <1>8, <2>1 DEF Claimed, Pending, Changes, Moved
    <2>2. CASE s # t
      BY <1>8, <2>2 DEF Claimed, Changes, Kept
    <2>3. QED
      BY <2>1, <2>2
  <1>9. ASSUME NEW w \in Workers, SaveEmbedding(w) PROVE Changes(s)
    <2>1. CASE Current(worker[w]) /\ s = worker[w].s
      BY <1>9, <2>1 DEF SaveEmbedding, Current, Changes, Saved
    <2>2. CASE Current(worker[w]) /\ s # worker[w].s
      BY <1>9, <2>2 DEF SaveEmbedding, Changes, Kept
    <2>3. CASE ~Current(worker[w])
      BY <1>0, <1>9, <2>3 DEF SaveEmbedding
    <2>4. QED
      BY <2>1, <2>2, <2>3
  <1>10. ASSUME NEW w \in Workers, FailEmbedding(w) PROVE Changes(s)
    <2>1. CASE Current(worker[w]) /\ s = worker[w].s
      BY <1>10, <2>1 DEF FailEmbedding, Current, Changes, Moved
    <2>2. CASE Current(worker[w]) /\ s # worker[w].s
      BY <1>10, <2>2 DEF FailEmbedding, Changes, Kept
    <2>3. CASE ~Current(worker[w])
      BY <1>0, <1>10, <2>3 DEF FailEmbedding
    <2>4. QED
      BY <2>1, <2>2, <2>3
  <1>11. ASSUME NEW r \in Requests, DeleteRow(r) PROVE Changes(s)
    BY <1>2, <1>11 DEF DeleteRow
  <1>12. ASSUME NEW p \in Photos, DeletePhoto(p) PROVE Changes(s)
    BY <1>2, <1>12 DEF DeletePhoto
  <1>13. ASSUME NEW w \in Workers, ClaimPending(w) \/ ClaimError(w) PROVE Changes(s)
    BY <1>0, <1>8, <1>13 DEF ClaimPending, ClaimError
  <1>14. QED
    BY <1>0, <1>1, <1>4, <1>5, <1>6, <1>7, <1>9, <1>10, <1>11, <1>12, <1>13
       DEF Next, Run, PatchLoad, DeleteLoad, PatchRefused, DeleteCount, Abandon,
           NothingPending, FailLost, Crash, Age, tables, vars

\* What search finds and what a client is told agree after every step.
LEMMA StepVector ==
  ASSUME RowsOK, IdsInv, OldInv, VectorIffReady, [Next]_vars
  PROVE  VectorIffReady'
  <1> SUFFICES ASSUME NEW s \in Sightings, sighting'[s] # NoRow
               PROVE  sighting'[s].vector # NoVector <=> sighting'[s].status = "ready"
    BY DEF VectorIffReady, Stored
  <1>1. Stored(s) => /\ sighting[s] \in Row
                     /\ sighting[s].vector # NoVector <=> sighting[s].status = "ready"
    BY DEF VectorIffReady, RowsOK, Stored
  <1>2. CASE Kept(s)
    BY <1>1, <1>2 DEF Kept, Stored
  <1>3. CASE Moved(s)
    <2>1. PICK st \in {"pending", "processing", "failed"} :
            sighting'[s] = [sighting[s] EXCEPT !.status = st]
      BY <1>3 DEF Moved
    <2>2. sighting'[s].status = st /\ sighting'[s].vector = sighting[s].vector
      BY <1>1, <1>3, <2>1 DEF Moved, Row
    <2>3. QED
      BY <1>1, <1>3, <2>2 DEF Moved
  <1>4. CASE Saved(s)
    <2>1. PICK w \in Workers : sighting'[s] = [sighting[s] EXCEPT !.status = "ready",
                                                              !.vector = worker[w].roi]
      BY <1>4 DEF Saved
    <2>2. worker[w].roi \in Crops
      BY DEF RowsOK, Job
    <2>3. QED
      BY <1>1, <1>4, <2>1, <2>2 DEF Saved, Row
  <1>5. CASE Cropped(s)
    BY <1>1, <1>5 DEF Cropped, Row
  <1>6. CASE Queued(s)
    BY <1>1, <1>6 DEF Queued, Row
  <1>7. CASE Gone(s)
    BY <1>7 DEF Gone
  <1>8. CASE Added(s)
    BY <1>8 DEF Added
  <1>9. QED
    BY <1>2, <1>3, <1>4, <1>5, <1>6, <1>7, <1>8, RowStep DEF Changes

\* The history follows the rows.
LEMMA StepHad ==
  ASSUME RowsOK, IdsInv, OldInv, JobInv, HadInv, [Next]_vars
  PROVE  HadInv'
  <1> DEFINE Had(row, crops) == /\ row = NoRow => crops = {}
                                /\ row # NoRow => row.roi \in crops
                                /\ row # NoRow /\ row.vector # NoVector => row.vector \in crops
  <1> SUFFICES ASSUME NEW s \in Sightings PROVE Had(sighting'[s], had'[s])
    BY DEF HadInv, Stored
  <1>1. Had(sighting[s], had[s]) /\ (Stored(s) => sighting[s] \in Row)
    BY DEF HadInv, Stored, RowsOK
  <1>2. CASE Kept(s)
    BY <1>1, <1>2 DEF Kept
  <1>3. CASE Moved(s)
    <2>1. PICK st \in Statuses : sighting'[s] = [sighting[s] EXCEPT !.status = st]
      BY <1>3 DEF Moved, Statuses
    <2>2. sighting'[s] # NoRow
      <3>1. sighting[s] \in Row
        BY <1>1, <1>3 DEF Moved
      <3>2. [sighting[s] EXCEPT !.status = st] \in Row
        BY <3>1, RowType
      <3>3. QED
        BY <2>1, <3>2
    <2>3. sighting'[s].roi = sighting[s].roi /\ sighting'[s].vector = sighting[s].vector
      BY <1>1, <1>3, <2>1 DEF Moved, Row
    <2>4. QED
      BY <1>1, <1>3, <2>2, <2>3 DEF Moved, Stored
  <1>4. CASE Saved(s)
    <2>1. PICK w \in Workers :
            /\ worker[w].step = "embed" /\ worker[w].s = s /\ worker[w].gen = sighting[s].gen
            /\ sighting'[s] = [sighting[s] EXCEPT !.status = "ready", !.vector = worker[w].roi]
      BY <1>4 DEF Saved
    <2>2. worker[w].roi \in had[s]
      BY <1>4, <2>1 DEF JobInv, Saved
    <2>3. sighting'[s] # NoRow
      <3>1. sighting[s] \in Row /\ worker[w].roi \in Crops
        BY <1>1, <1>4 DEF Saved, RowsOK, Job
      <3>2. [sighting[s] EXCEPT !.status = "ready", !.vector = worker[w].roi] \in Row
        BY <3>1, RowType
      <3>3. QED
        BY <2>1, <3>2
    <2>4. sighting'[s].roi = sighting[s].roi /\ sighting'[s].vector = worker[w].roi
      BY <1>1, <1>4, <2>1 DEF Saved, Row
    <2>5. QED
      BY <1>1, <1>4, <2>2, <2>3, <2>4 DEF Saved, Stored
  <1>5. CASE Cropped(s)
    BY <1>1, <1>5 DEF Cropped, Stored, Row
  <1>6. CASE Queued(s)
    <2>1. sighting'[s] # NoRow
      BY <1>1, <1>6, RowType DEF Queued
    <2>2. sighting'[s].roi = sighting[s].roi /\ sighting'[s].vector = NoVector
      BY <1>1, <1>6 DEF Queued, Row
    <2>3. QED
      BY <1>6, <2>1, <2>2 DEF Queued
  <1>7. CASE Gone(s)
    BY <1>7 DEF Gone
  <1>8. CASE Added(s)
    <2>1. PICK p \in photos', roi \in Crops :
            /\ sighting'[s] = [photo |-> p, roi |-> roi, status |-> "pending",
                               gen |-> 0, vector |-> NoVector]
            /\ had'[s] = {roi}
      BY <1>8 DEF Added
    <2>2. sighting'[s].roi = roi /\ sighting'[s].vector = NoVector
      BY <2>1
    <2>3. sighting'[s] # NoRow
      <3>1. p \in Photos
        BY StepType DEF RowsOK
      <3>2. QED
        BY <2>1, <3>1 DEF Row, Statuses
    <2>4. QED
      BY <2>1, <2>2, <2>3
  <1>9. QED
    BY <1>2, <1>3, <1>4, <1>5, <1>6, <1>7, <1>8, RowStep DEF Changes

\* The photo of a row survives every step that keeps the row.
LEMMA StepPhoto ==
  ASSUME RowsOK, IdsInv, OldInv, PhotoExists, [Next]_vars
  PROVE  PhotoExists'
  <1> SUFFICES ASSUME NEW s \in Sightings, sighting'[s] # NoRow PROVE sighting'[s].photo \in photos'
    BY DEF PhotoExists
  <1>1. Stored(s) => sighting[s] \in Row /\ sighting[s].photo \in photos
    BY DEF PhotoExists, Stored, RowsOK
  <1>2. CASE Kept(s) \/ Moved(s) \/ Saved(s) \/ Cropped(s) \/ Queued(s)
    <2>1. Stored(s) /\ sighting'[s].photo = sighting[s].photo
      BY <1>1, <1>2 DEF Kept, Moved, Saved, Cropped, Queued, Stored, Row
    <2>2. ASSUME NEW p \in Photos, DeletePhoto(p) PROVE p # sighting[s].photo
      BY <2>1, <2>2 DEF DeletePhoto, Remove, SightingsOf
    <2>3. ASSUME NEW p \in Photos, DeletePhoto(p) PROVE sighting[s].photo \in photos'
      BY <1>1, <2>1, <2>2, <2>3 DEF DeletePhoto
    <2>4. sighting[s].photo \in photos'
      BY <1>1, <2>1, <2>3, ZenonT(30)
         DEF Next, Run, vars, tables, Insert, AddSighting, PatchLoad, DeleteLoad, PatchSave,
             PatchRefused, RequeueEmbedding, DeleteCount, DeleteClear, DeleteRow, Abandon,
             BeginPass, ClaimPending, NothingPending, SaveEmbedding, FailEmbedding,
             ClaimError, FailLost, Crash, Age
    <2>5. QED
      BY <2>1, <2>4
  <1>3. CASE Gone(s)
    BY <1>3 DEF Gone
  <1>4. CASE Added(s)
    BY <1>4 DEF Added
  <1>5. QED
    BY <1>2, <1>3, <1>4, RowStep DEF Changes

\* Only rows in processing are in old after a step.
LEMMA StepOld ==
  ASSUME RowsOK, IdsInv, OldInv, [Next]_vars
  PROVE  OldInv'
  <1> USE DEF RowsOK, OldInv, Stored
  <1>1. ASSUME UNCHANGED <<sighting, old>> PROVE OldInv'
    BY <1>1
  <1>2. ASSUME NEW p \in Photos, Insert(p) \/ AddSighting(p) PROVE OldInv'
    <2>1. PICK roi \in Crops : InsertSighting(p, roi)
      BY <1>2 DEF Insert, AddSighting, Crops
    <2>2. created + 1 \notin old
      BY DEF IdsInv
    <2>3. QED
      BY <2>1, <2>2 DEF InsertSighting
  <1>3. ASSUME NEW S, Remove(S) PROVE OldInv'
    BY <1>3 DEF Remove
  <1>4. ASSUME NEW t \in Sightings, NEW roi \in Crops, WriteRoi(t, roi) PROVE OldInv'
    BY <1>4 DEF WriteRoi
  <1>5. ASSUME NEW r \in Requests, PatchSave(r) \/ DeleteClear(r) PROVE OldInv'
    <2>1. req[r].s \in Sightings /\ req[r].new \in Crops /\ Whole \in Crops
      BY <1>5 DEF PatchSave, DeleteClear, IdsInv, Sightings, Request, Crops
    <2>2. QED
      BY <1>1, <1>4, <1>5, <2>1 DEF PatchSave, DeleteClear
  <1>6. ASSUME NEW r \in Requests, RequeueEmbedding(r) PROVE OldInv'
    BY <1>6 DEF RequeueEmbedding
  <1>7. ASSUME NEW w \in Workers, BeginPass(w) PROVE OldInv'
    BY <1>7 DEF BeginPass
  <1>8. ASSUME NEW t \in Sightings, Claimed(t), UNCHANGED old PROVE OldInv'
    <2>1. t \notin old
      BY <1>8 DEF Claimed, Pending
    <2>2. QED
      BY <1>8, <2>1 DEF Claimed
  <1>9. ASSUME NEW w \in Workers, SaveEmbedding(w) \/ FailEmbedding(w) PROVE OldInv'
    BY <1>9 DEF SaveEmbedding, FailEmbedding
  <1>10. ASSUME NEW s \in Sightings, Age(s) PROVE OldInv'
    BY <1>10 DEF Age
  <1>11. ASSUME NEW p \in Photos, DeletePhoto(p) PROVE OldInv'
    BY <1>3, <1>11 DEF DeletePhoto
  <1>12. ASSUME NEW r \in Requests, DeleteRow(r) PROVE OldInv'
    BY <1>3, <1>12 DEF DeleteRow
  <1>13. ASSUME NEW w \in Workers, ClaimPending(w) \/ ClaimError(w) PROVE OldInv'
    BY <1>1, <1>8, <1>13 DEF ClaimPending, ClaimError
  <1>14. QED
    BY <1>1, <1>2, <1>5, <1>6, <1>7, <1>9, <1>10, <1>11, <1>12, <1>13
       DEF Next, Run, PatchLoad, DeleteLoad, PatchRefused, DeleteCount, Abandon,
           NothingPending, FailLost, Crash, tables, vars

\* A job comes from a claim and stays what it was.
LEMMA JobStep ==
  ASSUME RowsOK, [Next]_vars, NEW w \in Workers, worker'[w].step = "embed"
  PROVE  \/ worker'[w] = worker[w]
         \/ \E s \in Sightings :
              /\ Claimed(s) /\ UNCHANGED <<had, tainted, req, created>>
              /\ worker'[w] = [step |-> "embed", s |-> s, roi |-> sighting[s].roi,
                               gen |-> sighting[s].gen]
  <1> USE DEF RowsOK
  <1>1. ASSUME NEW v \in Workers, NEW st \in {"wait", "drain"}, Step(v, st)
        PROVE  worker'[w] = worker[w]
    BY <1>1 DEF Step, At
  <1>2. ASSUME NEW v \in Workers, ClaimPending(v), worker'[w] # worker[w]
        PROVE  \E s \in Sightings :
                 /\ Claimed(s) /\ UNCHANGED <<had, tainted, req, created>>
                 /\ worker'[w] = [step |-> "embed", s |-> s, roi |-> sighting[s].roi,
                                  gen |-> sighting[s].gen]
    BY <1>2 DEF ClaimPending
  <1>3. QED
    BY <1>1, <1>2, ZenonT(30)
       DEF Next, Run, vars, tables, Insert, AddSighting, InsertSighting, DeletePhoto, PatchLoad,
           DeleteLoad, PatchSave, PatchRefused, RequeueEmbedding, DeleteCount, DeleteClear,
           DeleteRow, Abandon, BeginPass, NothingPending, SaveEmbedding, FailEmbedding,
           ClaimError, FailLost, Crash, Age

\* A request begins on a row that is there.
LEMMA RequestStep ==
  ASSUME RowsOK, IdsInv, [Next]_vars, NEW r \in Requests, req'[r].step # "idle"
  PROVE  \/ /\ req[r].step # "idle"
            /\ req'[r].s = req[r].s /\ req'[r].photo = req[r].photo
            /\ req'[r].step = "delLoaded" => req[r].step = "delLoaded"
            /\ req[r].step \notin {"delLoaded", "delClear", "delCleared", "delRow"}
                 => req'[r].step \notin {"delLoaded", "delClear", "delCleared", "delRow"}
         \/ /\ UNCHANGED tables
            /\ req'[r].s \in Sightings /\ Stored(req'[r].s)
            /\ req'[r].step \in {"patchLoaded", "delLoaded"}
            /\ req'[r].step = "delLoaded" => req'[r].photo = sighting[req'[r].s].photo
  <1> USE DEF RowsOK
  <1>1. ASSUME NEW q \in Requests, Finish(q) PROVE req'[r] = req[r]
    BY <1>1 DEF Finish, Idle
  <1>2. ASSUME NEW q \in Requests, NEW s \in Sightings, PatchLoad(q, s), req'[r] # req[r]
        PROVE  /\ UNCHANGED tables
               /\ req'[r].s \in Sightings /\ Stored(req'[r].s)
               /\ req'[r].step = "patchLoaded"
    BY <1>2 DEF PatchLoad
  <1>3. ASSUME NEW q \in Requests, NEW s \in Sightings, DeleteLoad(q, s), req'[r] # req[r]
        PROVE  /\ UNCHANGED tables
               /\ req'[r].s \in Sightings /\ Stored(req'[r].s)
               /\ req'[r].step = "delLoaded" /\ req'[r].photo = sighting[req'[r].s].photo
    BY <1>3 DEF DeleteLoad
  <1>4. ASSUME NEW q \in Requests, PatchSave(q) \/ DeleteCount(q) \/ DeleteClear(q)
        PROVE  /\ req[r].step # "idle"
               /\ req'[r].s = req[r].s /\ req'[r].photo = req[r].photo
               /\ req'[r].step = "delLoaded" => req[r].step = "delLoaded"
               /\ req[r].step \notin {"delLoaded", "delClear", "delCleared", "delRow"}
                    => req'[r].step \notin {"delLoaded", "delClear", "delCleared", "delRow"}
    BY <1>1, <1>4 DEF PatchSave, DeleteCount, DeleteClear, Request
  <1>5. QED
    BY <1>1, <1>2, <1>3, <1>4, ZenonT(30)
       DEF Next, Run, vars, Insert, AddSighting, InsertSighting, DeletePhoto,
           PatchRefused, RequeueEmbedding, DeleteRow, Abandon, BeginPass, ClaimPending,
           NothingPending, SaveEmbedding, FailEmbedding, ClaimError, FailLost, Crash, Age

\* Numbers are handed out once.
LEMMA StepIds ==
  ASSUME RowsOK, PhotoExists, IdsInv, OldInv, [Next]_vars
  PROVE  IdsInv'
  <1> USE DEF RowsOK
  <1>1. created' \in Nat /\ created \in Nat /\ created <= created'
    <2>1. created' = created \/ created' = created + 1
      BY ZenonT(30) DEF Next, Run, vars, tables, Insert, AddSighting, InsertSighting, DeletePhoto, PatchLoad,
             DeleteLoad, PatchSave, PatchRefused, RequeueEmbedding, DeleteCount, DeleteClear,
             DeleteRow, Abandon, BeginPass, ClaimPending, NothingPending, SaveEmbedding,
             FailEmbedding, ClaimError, FailLost, Crash, Age
    <2>2. QED
      BY <2>1
  <1>2. \A s \in Sightings : Stored(s) => s \in 1..created
    BY DEF IdsInv, Sightings
  <1>3. ASSUME NEW s \in Sightings, s > created' PROVE ~Stored(s)'
    <2>1. ~Stored(s)
      BY <1>1, <1>3 DEF IdsInv, Sightings
    <2>2. CASE Added(s)
      <3>1. created' = created + 1
        <4>1. PICK p \in photos' : sighting'[s] # sighting[s]
          BY <2>1, <2>2, StepType DEF Added, Stored, Row, Statuses
        <4>2. QED
          BY <2>1, <4>1, ZenonT(90)
             DEF Next, Run, vars, tables, Insert, AddSighting, InsertSighting, DeletePhoto,
                 Remove, PatchLoad, DeleteLoad, PatchSave, WriteRoi, PatchRefused,
                 RequeueEmbedding, DeleteCount, DeleteClear, DeleteRow, Abandon, BeginPass,
                 OldInv, ClaimPending, Claimed, Pending, NothingPending, SaveEmbedding,
                 FailEmbedding, Current, ClaimError, FailLost, Crash, Age, Stored
      <3>2. QED
        BY <1>3, <2>2, <3>1 DEF Added, Sightings
    <2>3. QED
      BY <2>1, <2>2, RowStep DEF Changes, Kept, Moved, Saved, Cropped, Queued, Gone, Stored
  <1>4. ASSUME NEW w \in Workers, worker'[w].step = "embed" PROVE worker'[w].s \in 1..created'
    <2>1. worker'[w].s \in 1..created
      <3>1. CASE worker'[w] = worker[w]
        BY <1>4, <3>1 DEF IdsInv
      <3>2. ASSUME NEW t \in Sightings, Claimed(t),
                   worker'[w] = [step |-> "embed", s |-> t, roi |-> sighting[t].roi,
                                 gen |-> sighting[t].gen]
            PROVE  worker'[w].s \in 1..created
        BY <1>2, <3>2 DEF Claimed, Pending
      <3>3. QED
        BY <1>4, <3>1, <3>2, JobStep
    <2>2. QED
      BY <1>1, <2>1
  <1>5. ASSUME NEW r \in Requests, req'[r].step # "idle"
        PROVE  /\ req'[r].s \in 1..created'
               /\ req'[r].step = "delLoaded" => req'[r].photo \in Photos
    <2>1. req'[r].s \in 1..created
      BY <1>2, <1>5, RequestStep DEF IdsInv
    <2>2. \A s \in Sightings : Stored(s) => sighting[s].photo \in Photos
      BY DEF Stored, Row
    <2>3. QED
      BY <1>1, <1>5, <2>1, <2>2, RequestStep DEF IdsInv
  <1>6. QED
    BY <1>3, <1>4, <1>5 DEF IdsInv

\* No job gets ahead of its row, and one of its generation keeps a crop of it.
LEMMA StepJob ==
  ASSUME RowsOK, IdsInv, OldInv, HadInv, JobInv, [Next]_vars
  PROVE  JobInv'
  <1> SUFFICES ASSUME NEW w \in Workers, NEW s, s = worker'[w].s,
                      worker'[w].step = "embed", sighting'[s] # NoRow
               PROVE  /\ worker'[w].gen <= sighting'[s].gen
                      /\ worker'[w].gen = sighting'[s].gen => worker'[w].roi \in had'[s]
    BY DEF JobInv, Stored
  <1>1. CASE worker'[w] = worker[w]
    <2>1. s \in Sightings /\ s # created + 1 /\ worker'[w].gen \in Nat
      BY <1>1 DEF IdsInv, RowsOK, Sightings, Job
    <2>2. Stored(s) => /\ sighting[s] \in Row /\ sighting[s].gen \in Nat
                       /\ worker'[w].gen <= sighting[s].gen
                       /\ worker'[w].gen = sighting[s].gen => worker'[w].roi \in had[s]
      BY <1>1, <2>1 DEF JobInv, Stored, RowsOK, Row
    <2>3. CASE Kept(s) \/ Moved(s) \/ Saved(s) \/ Cropped(s)
      <3>1. Stored(s)
        BY <2>3, ZenonT(30) DEF Kept, Moved, Saved, Cropped, Stored
      <3>2. sighting'[s].gen = sighting[s].gen
        BY <2>2, <2>3, <3>1 DEF Kept, Moved, Saved, Cropped, Row
      <3>3. had[s] \subseteq had'[s]
        BY <2>3 DEF Kept, Moved, Saved, Cropped
      <3>4. QED
        BY <2>2, <3>1, <3>2, <3>3
    <2>4. CASE Queued(s)
      <3>1. sighting'[s].gen = sighting[s].gen + 1
        BY <2>2, <2>4 DEF Queued, Row
      <3>2. QED
        BY <2>1, <2>2, <2>4, <3>1 DEF Queued
    <2>5. CASE Gone(s)
      BY <2>5 DEF Gone
    <2>6. QED
      BY <2>1, <2>3, <2>4, <2>5, RowStep DEF Changes, Added
  <1>2. ASSUME NEW t \in Sightings, Claimed(t), UNCHANGED had,
               worker'[w] = [step |-> "embed", s |-> t, roi |-> sighting[t].roi,
                             gen |-> sighting[t].gen]
        PROVE  /\ worker'[w].gen <= sighting'[s].gen
               /\ worker'[w].roi \in had'[s]
    <2>1. sighting[t] \in Row /\ sighting[t].roi \in had[t]
      BY <1>2 DEF Claimed, Pending, Stored, RowsOK, HadInv
    <2>2. sighting'[t].gen = sighting[t].gen /\ sighting[t].gen \in Nat
      BY <1>2, <2>1 DEF Claimed, RowsOK, Row
    <2>3. QED
      BY <1>2, <2>1, <2>2
  <1>3. QED
    BY <1>1, <1>2, JobStep

\* A crop that is settled after a step was settled before it and is the same,
\* unless the step queued the sighting.
LEMMA SettleStep ==
  ASSUME RowsOK, IdsInv, OldInv, [Next]_vars, NEW s \in Sightings,
         Stored(s), Stored(s)', Settling(s)', ~Queued(s)
  PROVE  Settling(s) /\ sighting'[s].roi = sighting[s].roi
  <1> USE DEF RowsOK
  <1> DEFINE Goal == Settling(s) /\ sighting'[s].roi = sighting[s].roi
  <1>0. sighting[s] \in Row
    BY DEF Stored
  <1>1. s \notin tainted' /\ \A q \in Requests : ~(Recropped(q)' /\ req'[q].s = s)
    BY DEF Settling
  <1>2. ASSUME \A q \in Requests : Recropped(q) /\ req[q].s = s => req'[q] = req[q],
               s \in tainted => s \in tainted'
        PROVE  Settling(s)
    BY <1>1, <1>2 DEF Settling, Recropped
  <1>3. CASE UNCHANGED <<sighting, req, tainted>>
    BY <1>2, <1>3
  <1>4. ASSUME NEW p \in Photos, Insert(p) \/ AddSighting(p) PROVE Goal
    <2>1. PICK roi \in Crops : InsertSighting(p, roi)
      BY <1>4 DEF Insert, AddSighting, Crops
    <2>2. s # created + 1
      BY DEF IdsInv
    <2>3. QED
      BY <1>2, <2>1, <2>2 DEF InsertSighting
  <1>5. ASSUME NEW S, Remove(S) PROVE sighting'[s] = sighting[s] /\ (s \in tainted => s \in tainted')
    BY <1>5 DEF Remove, Stored
  <1>6. ASSUME NEW p \in Photos, DeletePhoto(p) PROVE Goal
    BY <1>2, <1>5, <1>6 DEF DeletePhoto
  <1>7. ASSUME NEW r \in Requests, DeleteRow(r) PROVE Goal
    BY <1>2, <1>5, <1>7 DEF DeleteRow, Finish, Recropped
  <1>8. ASSUME NEW r \in Requests, NEW t \in Sightings, PatchLoad(r, t) \/ DeleteLoad(r, t)
        PROVE  Goal
    BY <1>2, <1>8 DEF PatchLoad, DeleteLoad, tables, Recropped
  <1>9. ASSUME NEW r \in Requests, PatchSave(r) PROVE Goal
    <2>1. \A q \in Requests : Recropped(q) => req'[q] = req[q]
      BY <1>9 DEF PatchSave, Finish, Recropped
    <2>2. Settling(s)
      BY <1>2, <1>9, <2>1 DEF PatchSave
    <2>3. CASE req[r].s # s \/ ~Stored(req[r].s)
      BY <1>9, <2>2, <2>3 DEF PatchSave, WriteRoi, Stored
    <2>4. CASE req[r].s = s /\ req[r].old = req[r].new
      BY <1>0, <1>1, <1>9, <2>2, <2>4 DEF PatchSave, WriteRoi, Row
    <2>5. CASE req[r].s = s /\ req[r].old # req[r].new
      <3>1. req'[r].step = "patchSaved" /\ req'[r].s = s
        BY <1>9, <2>5 DEF PatchSave, Request
      <3>2. QED
        BY <1>1, <3>1 DEF Recropped
    <2>6. QED
      BY <2>3, <2>4, <2>5
  <1>10. ASSUME NEW r \in Requests, PatchRefused(r) \/ Abandon(r) PROVE Goal
    <2>1. Recropped(r) => req[r].s # s
      BY <1>1, <1>10 DEF PatchRefused, Abandon, Recropped
    <2>2. QED
      BY <1>2, <1>10, <2>1 DEF PatchRefused, Abandon, Finish
  <1>11. ASSUME NEW r \in Requests, RequeueEmbedding(r) PROVE Goal
    <2>1. CASE req[r].s = s
      <3>1. Queued(s)
        BY <1>11, <2>1 DEF RequeueEmbedding, Queued
      <3>2. QED
        BY <3>1
    <2>2. CASE req[r].s # s
      BY <1>2, <1>11, <2>2 DEF RequeueEmbedding, Finish
    <2>3. QED
      BY <2>1, <2>2
  <1>12. ASSUME NEW r \in Requests, DeleteCount(r) PROVE Goal
    BY <1>2, <1>12 DEF DeleteCount, Finish, Recropped
  <1>13. ASSUME NEW r \in Requests, DeleteClear(r) PROVE Goal
    <2>1. req[r].s = s => req'[r].step = "delCleared" /\ req'[r].s = s
      BY <1>13 DEF DeleteClear, Request
    <2>2. req[r].s # s
      BY <1>1, <2>1 DEF Recropped
    <2>3. QED
      BY <1>2, <1>13, <2>2 DEF DeleteClear, WriteRoi, Finish, Recropped
  <1>14. ASSUME NEW w \in Workers, BeginPass(w) PROVE Goal
    BY <1>0, <1>2, <1>14 DEF BeginPass, Row
  <1>15. ASSUME NEW w \in Workers, ClaimPending(w) \/ ClaimError(w) PROVE Goal
    BY <1>0, <1>2, <1>15 DEF ClaimPending, ClaimError, Claimed, Row
  <1>16. ASSUME NEW w \in Workers, SaveEmbedding(w) \/ FailEmbedding(w) PROVE Goal
    BY <1>0, <1>2, <1>16 DEF SaveEmbedding, FailEmbedding, Row
  <1>17. QED
    BY <1>3, <1>4, <1>6, <1>7, <1>8, <1>9, <1>10, <1>11, <1>12, <1>13, <1>14, <1>15, <1>16
       DEF Next, Run, NothingPending, FailLost, Crash, Age, tables, vars

\* A job of the row's generation carries the row's crop once that is settled.
LEMMA StepJobCurrent ==
  ASSUME RowsOK, IdsInv, OldInv, JobInv, JobCurrent, [Next]_vars
  PROVE  JobCurrent'
  <1> SUFFICES ASSUME NEW w \in Workers, NEW s, s = worker'[w].s,
                      worker'[w].step = "embed", sighting'[s] # NoRow,
                      worker'[w].gen = sighting'[s].gen, Settling(s)'
               PROVE  worker'[w].roi = sighting'[s].roi
    BY DEF JobCurrent, Stored, Settling, Recropped
  <1>1. CASE worker'[w] = worker[w]
    <2>1. s \in Sightings /\ s # created + 1
      BY <1>1 DEF IdsInv, RowsOK, Sightings
    <2>2. Stored(s)
      BY <2>1, RowStep DEF Changes, Kept, Moved, Saved, Cropped, Queued, Gone, Added, Stored
    <2>3. sighting[s] \in Row /\ sighting[s].gen \in Nat /\ worker[w].gen <= sighting[s].gen
          /\ worker[w].gen \in Nat
      BY <1>1, <2>1, <2>2 DEF Stored, RowsOK, Row, JobInv, Job
    <2>4. ~Queued(s)
      <3>1. Queued(s) => sighting'[s].gen = sighting[s].gen + 1
        BY <2>3 DEF Queued, Row
      <3>2. QED
        BY <1>1, <2>3, <3>1
    <2>5. Settling(s) /\ sighting'[s].roi = sighting[s].roi
      BY <2>1, <2>2, <2>4, SettleStep DEF Stored
    <2>6. sighting'[s].gen = sighting[s].gen
      BY <2>1, <2>2, <2>3, <2>4, RowStep
         DEF Changes, Kept, Moved, Saved, Cropped, Gone, Added, Stored, Row
    <2>7. QED
      BY <1>1, <2>2, <2>5, <2>6 DEF JobCurrent
  <1>2. ASSUME NEW t \in Sightings, Claimed(t),
               worker'[w] = [step |-> "embed", s |-> t, roi |-> sighting[t].roi,
                             gen |-> sighting[t].gen]
        PROVE  worker'[w].roi = sighting'[s].roi
    <2>1. sighting'[t].roi = sighting[t].roi
      BY <1>2 DEF Claimed, Pending, Stored, RowsOK, Row
    <2>2. QED
      BY <1>2, <2>1
  <1>3. QED
    BY <1>1, <1>2, JobStep

\* A ready vector is the one of the crop once that is settled.
LEMMA StepCurrent ==
  ASSUME RowsOK, IdsInv, OldInv, JobCurrent, VectorCurrent, [Next]_vars
  PROVE  VectorCurrent'
  <1> SUFFICES ASSUME NEW s \in Sightings, Stored(s)', sighting'[s].status = "ready", Settling(s)'
               PROVE  sighting'[s].vector = sighting'[s].roi
    BY DEF VectorCurrent
  <1>1. ~Added(s)
    <2>1. ASSUME NEW p, NEW roi,
                 sighting'[s] = [photo |-> p, roi |-> roi, status |-> "pending",
                                 gen |-> 0, vector |-> NoVector]
          PROVE  FALSE
      BY <2>1
    <2>2. QED
      BY <2>1 DEF Added
  <1>2. Stored(s) /\ sighting[s] \in Row
    BY <1>1, RowStep DEF Changes, Kept, Moved, Saved, Cropped, Queued, Gone, Stored, RowsOK
  <1>3. ~Queued(s) /\ ~Moved(s)
    BY <1>2 DEF Queued, Moved, Row
  <1>4. Settling(s) /\ sighting'[s].roi = sighting[s].roi
    BY <1>2, <1>3, SettleStep
  <1>5. CASE Kept(s)
    BY <1>2, <1>4, <1>5 DEF VectorCurrent, Kept
  <1>6. CASE Saved(s)
    <2>1. PICK w \in Workers :
            /\ worker[w].step = "embed" /\ worker[w].s = s /\ worker[w].gen = sighting[s].gen
            /\ sighting'[s] = [sighting[s] EXCEPT !.status = "ready", !.vector = worker[w].roi]
      BY <1>6 DEF Saved
    <2>2. worker[w].roi = sighting[s].roi
      BY <1>2, <1>4, <2>1 DEF JobCurrent
    <2>3. QED
      BY <1>2, <2>1, <2>2 DEF Row
  <1>7. CASE Cropped(s)
    <2>1. sighting'[s].vector = sighting[s].vector /\ sighting[s].status = "ready"
      BY <1>2, <1>7 DEF Cropped, Row
    <2>2. QED
      BY <1>2, <1>4, <2>1 DEF VectorCurrent
  <1>8. CASE Gone(s)
    BY <1>8 DEF Gone, Stored
  <1>9. QED
    BY <1>1, <1>3, <1>5, <1>6, <1>7, <1>8, RowStep DEF Changes
-----------------------------------------------------------------------------
\* A row keeps its photo, and only two statements delete one.
LEMMA RowKept ==
  ASSUME RowsOK, IdsInv, OldInv, [Next]_vars, NEW s \in Sightings, Stored(s)
  PROVE  /\ sighting'[s] # NoRow => sighting'[s].photo = sighting[s].photo
         /\ sighting'[s] = NoRow =>
              \/ \E p \in Photos : DeletePhoto(p) /\ sighting[s].photo = p
              \/ \E r \in Requests : DeleteRow(r) /\ req[r].s = s
  <1>1. sighting[s] \in Row /\ s # created + 1
    BY DEF RowsOK, Stored, IdsInv
  <1>2. sighting'[s] # NoRow => sighting'[s].photo = sighting[s].photo
    BY <1>1, RowStep DEF Changes, Kept, Moved, Saved, Cropped, Queued, Gone, Added, Row
  <1>3. ASSUME sighting'[s] = NoRow
        PROVE  \/ \E p \in Photos : DeletePhoto(p) /\ sighting[s].photo = p
               \/ \E r \in Requests : DeleteRow(r) /\ req[r].s = s
    <2> USE DEF RowsOK
    <2>0. sighting'[s] \notin Row /\ sighting' # sighting
      BY <1>1, <1>3
    <2>1. ASSUME NEW p \in Photos, NEW roi \in Crops, InsertSighting(p, roi) PROVE FALSE
      BY <1>1, <2>0, <2>1 DEF InsertSighting
    <2>2. ASSUME NEW p \in Photos, Insert(p) \/ AddSighting(p) PROVE FALSE
      BY <2>1, <2>2 DEF Insert, AddSighting, Crops
    <2>3. ASSUME NEW t \in Sightings, NEW roi \in Crops, WriteRoi(t, roi) PROVE FALSE
      <3>1. [sighting[s] EXCEPT !.roi = roi] \in Row
        BY <1>1, RowType
      <3>2. QED
        BY <1>1, <2>0, <2>3, <3>1 DEF WriteRoi
    <2>4. ASSUME NEW r \in Requests, PatchSave(r) \/ DeleteClear(r) PROVE FALSE
      <3>1. req[r].s \in Sightings /\ req[r].new \in Crops /\ Whole \in Crops
        BY <2>4 DEF PatchSave, DeleteClear, IdsInv, Sightings, Request, Crops
      <3>2. QED
        BY <2>0, <2>3, <2>4, <3>1 DEF PatchSave, DeleteClear
    <2>5. ASSUME NEW r \in Requests, RequeueEmbedding(r) PROVE FALSE
      <3>1. [sighting[s] EXCEPT !.status = "pending", !.vector = NoVector,
                                !.gen = @ + 1] \in Row
        BY <1>1, RowType
      <3>2. CASE s = req[r].s /\ sighting' # sighting
        BY <1>1, <2>0, <2>5, <3>1, <3>2 DEF RequeueEmbedding
      <3>3. CASE s # req[r].s
        BY <1>1, <2>0, <2>5, <3>3 DEF RequeueEmbedding
      <3>4. QED
        BY <2>0, <3>2, <3>3
    <2>6. ASSUME NEW st \in Statuses PROVE [sighting[s] EXCEPT !.status = st] \in Row
      BY <1>1, RowType
    <2>7. ASSUME NEW w \in Workers, BeginPass(w) \/ ClaimPending(w) \/ ClaimError(w)
                                   \/ FailEmbedding(w)
          PROVE  FALSE
      BY <1>1, <2>0, <2>6, <2>7
         DEF BeginPass, ClaimPending, ClaimError, Claimed, FailEmbedding, Statuses
    <2>8. ASSUME NEW w \in Workers, SaveEmbedding(w) PROVE FALSE
      <3>1. [sighting[s] EXCEPT !.status = "ready", !.vector = worker[w].roi] \in Row
        BY <1>1, <2>8, RowType DEF Job
      <3>2. CASE sighting' = sighting
        BY <2>0, <3>2
      <3>3. CASE worker[w].s = s /\ sighting' # sighting
        <4>1. sighting'[s] = [sighting[s] EXCEPT !.status = "ready", !.vector = worker[w].roi]
          BY <1>1, <2>8, <3>3 DEF SaveEmbedding
        <4>2. QED
          BY <2>0, <3>1, <4>1
      <3>4. CASE worker[w].s # s /\ sighting' # sighting
        <4>1. sighting'[s] = sighting[s]
          BY <1>1, <2>8, <3>4 DEF SaveEmbedding
        <4>2. QED
          BY <1>1, <2>0, <4>1
      <3>5. QED
        BY <3>2, <3>3, <3>4
    <2>9. ASSUME NEW p \in Photos, DeletePhoto(p) PROVE sighting[s].photo = p
      BY <1>1, <2>0, <2>9 DEF DeletePhoto, Remove, SightingsOf
    <2>10. ASSUME NEW r \in Requests, DeleteRow(r) PROVE req[r].s = s
      BY <1>1, <2>0, <2>10 DEF DeleteRow, Remove
    <2>11. QED
      BY <2>0, <2>2, <2>4, <2>5, <2>7, <2>8, <2>9, <2>10
         DEF Next, Run, PatchLoad, DeleteLoad, PatchRefused, DeleteCount, Abandon,
             NothingPending, FailLost, Crash, Age, tables, vars
  <1>4. QED
    BY <1>2, <1>3

\* A request deletes sightings of the photo it counted, after every step.
LEMMA StepDeletingPhoto ==
  ASSUME RowsOK, IdsInv, OldInv, DeletingPhoto, [Next]_vars
  PROVE  DeletingPhoto'
  <1> SUFFICES ASSUME NEW r \in Requests, NEW s, s = req'[r].s, sighting'[s] # NoRow,
                      req'[r].step \in {"delLoaded", "delClear", "delCleared", "delRow"}
               PROVE  sighting'[s].photo = req'[r].photo
    BY DEF DeletingPhoto, Stored
  <1>1. CASE /\ req[r].step # "idle"
             /\ s = req[r].s /\ req'[r].photo = req[r].photo
             /\ req[r].step \in {"delLoaded", "delClear", "delCleared", "delRow"}
    <2>1. s \in Sightings /\ s # created + 1
      BY <1>1 DEF IdsInv, RowsOK, Sightings
    <2>2. Stored(s)
      BY <2>1, RowStep DEF Changes, Kept, Moved, Saved, Cropped, Queued, Gone, Added, Stored
    <2>3. QED
      BY <1>1, <2>1, <2>2, RowKept DEF DeletingPhoto
  <1>2. CASE /\ UNCHANGED tables
             /\ req'[r].step = "delLoaded" => req'[r].photo = sighting[s].photo
             /\ req'[r].step \in {"patchLoaded", "delLoaded"}
    BY <1>2 DEF tables
  <1>3. QED
    BY <1>1, <1>2, RequestStep

\* What is left of a photo after a step.
LEMMA SightingsStep ==
  ASSUME RowsOK, IdsInv, OldInv, [Next]_vars, NEW p \in Photos,
         \A r \in Requests : DeleteRow(r) => req[r].s \notin SightingsOf(p),
         ~DeletePhoto(p)
  PROVE  \A s \in SightingsOf(p) : s \in SightingsOf(p)'
  BY RowKept DEF SightingsOf, Stored

\* A request that is about to delete was so before, or has counted now.
LEMMA DeletingStep ==
  ASSUME RowsOK, IdsInv, OldInv, [Next]_vars, NEW r \in Requests, NEW p \in photos',
         Deleting(r, p)'
  PROVE  /\ req'[r].s = req[r].s /\ req[r].s \in Sightings /\ Stored(req[r].s)
         /\ \/ Deleting(r, p)
            \/ DeleteCount(r) /\ req[r].photo = p /\ Cardinality(SightingsOf(p)) > 1
  <1> USE DEF RowsOK
  <1>1. req'[r].step = "delRow" /\ req'[r].photo = p
    BY DEF Deleting
  <1>2. req[r].step # "idle" /\ req'[r].s = req[r].s /\ req'[r].photo = req[r].photo
    BY <1>1, RequestStep
  <1>3. req[r].s \in Sightings /\ req[r].s # created + 1
    BY <1>2 DEF IdsInv, Sightings
  <1>4. sighting'[req[r].s] # NoRow
    BY <1>2 DEF Deleting, Stored
  <1>5. Stored(req[r].s)
    BY <1>3, <1>4, RowStep DEF Changes, Kept, Moved, Saved, Cropped, Queued, Gone, Added, Stored
  <1>6. ASSUME req[r].step # "delRow"
        PROVE  DeleteCount(r) /\ Cardinality(SightingsOf(req[r].photo)) > 1
    <2>1. ASSUME NEW q \in Requests, Finish(q) PROVE FALSE
      BY <1>1, <1>6, <2>1 DEF Finish, Idle
    <2>2. ASSUME NEW q \in Requests, DeleteCount(q)
          PROVE  DeleteCount(r) /\ Cardinality(SightingsOf(req[r].photo)) > 1
      <3>1. q = r
        BY <1>1, <1>6, <2>1, <2>2 DEF DeleteCount
      <3>2. QED
        BY <1>1, <1>6, <2>1, <2>2, <3>1 DEF DeleteCount, Request
    <2>3. ASSUME NEW q \in Requests, PatchSave(q) \/ DeleteClear(q) PROVE FALSE
      BY <1>1, <1>6, <2>1, <2>3 DEF PatchSave, DeleteClear, Request
    <2>4. ASSUME NEW q \in Requests, NEW t \in Sightings, PatchLoad(q, t) \/ DeleteLoad(q, t)
          PROVE  FALSE
      BY <1>1, <1>6, <2>4 DEF PatchLoad, DeleteLoad
    <2>5. QED
      BY <1>1, <1>6, <2>1, <2>2, <2>3, <2>4, ZenonT(30)
         DEF Next, Run, vars, Insert, AddSighting, InsertSighting, DeletePhoto, PatchRefused,
             RequeueEmbedding, DeleteRow, Abandon, BeginPass, ClaimPending, NothingPending,
             SaveEmbedding, FailEmbedding, ClaimError, FailLost, Crash, Age
  <1>7. QED
    BY <1>1, <1>2, <1>3, <1>5, <1>6 DEF Deleting

\* A set of sightings with more than one member has one besides any given.
LEMMA AnotherOne ==
  ASSUME RowsOK, NEW p, Cardinality(SightingsOf(p)) > 1, NEW t
  PROVE  \E s \in SightingsOf(p) : s # t
  <1> SUFFICES ASSUME SightingsOf(p) \subseteq {t} PROVE FALSE
    OBVIOUS
  <1>1. IsFiniteSet({t}) /\ Cardinality({t}) = 1
    BY FS_Singleton
  <1>2. Cardinality(SightingsOf(p)) <= 1 /\ Cardinality(SightingsOf(p)) \in Nat
    BY <1>1, FS_Subset, FS_CardinalityType
  <1>3. QED
    BY <1>2

\* Where no overlap was seen, at most one request is deleting and it leaves a
\* sighting, after every step.
LEMMA StepDeletingAlone ==
  ASSUME RowsOK, PhotoExists, IdsInv, OldInv, DeletingPhoto, DeletingAlone, [Next]_vars
  PROVE  DeletingAlone'
  <1> USE DEF RowsOK
  <1> SUFFICES ASSUME NEW p \in photos', p \notin overlapped'
               PROVE  /\ \A r, q \in Requests : Deleting(r, p)' /\ Deleting(q, p)' => r = q
                      /\ \A r \in Requests : Deleting(r, p)' =>
                           \E s \in SightingsOf(p)' : s # req'[r].s
    BY DEF DeletingAlone
  <1>1. p \in Photos
    BY StepType
  <1>2. ASSUME p \notin photos, NEW r \in Requests, Deleting(r, p)' PROVE FALSE
    <2>1. req[r].s \in Sightings /\ Stored(req[r].s) /\ req'[r].s = req[r].s
      BY <1>2, DeletingStep
    <2>2. req[r].photo = p /\ req[r].step \in {"delRow", "delLoaded"}
      <3>1. DeleteCount(r) => req[r].step = "delLoaded"
        BY DEF DeleteCount
      <3>2. QED
        BY <1>2, <3>1, DeletingStep DEF Deleting
    <2>3. sighting[req[r].s].photo = p
      BY <2>1, <2>2 DEF DeletingPhoto
    <2>4. QED
      BY <1>2, <2>1, <2>3 DEF PhotoExists, Stored
  <1>3. ASSUME p \in photos PROVE p \notin overlapped /\ ~DeletePhoto(p)
    BY <1>3, ZenonT(30)
       DEF Next, Run, vars, tables, Insert, AddSighting, InsertSighting, DeletePhoto, PatchLoad,
           DeleteLoad, PatchSave, PatchRefused, RequeueEmbedding, DeleteCount, DeleteClear,
           DeleteRow, Abandon, BeginPass, ClaimPending, NothingPending, SaveEmbedding,
           FailEmbedding, ClaimError, FailLost, Crash, Age
  <1>4. ASSUME p \in photos, NEW r \in Requests, DeleteCount(r), req[r].photo = p,
               Cardinality(SightingsOf(p)) > 1, NEW q \in Requests, Deleting(q, p)
        PROVE  FALSE
    BY <1>4 DEF DeleteCount, Deleting
  <1>5. ASSUME NEW r \in Requests, DeleteCount(r), NEW q \in Requests, q # r, Deleting(q, p)'
        PROVE  Deleting(q, p)
    BY <1>5 DEF DeleteCount, Deleting, Finish, Stored
  <1>6. ASSUME NEW r \in Requests, NEW q \in Requests, Deleting(r, p)', Deleting(q, p)'
        PROVE  r = q
    <2>1. p \in photos
      BY <1>2, <1>6
    <2>2. CASE Deleting(r, p) /\ Deleting(q, p)
      BY <1>3, <2>1, <2>2 DEF DeletingAlone
    <2>3. CASE ~Deleting(r, p)
      <3>1. DeleteCount(r) /\ req[r].photo = p /\ Cardinality(SightingsOf(p)) > 1
        BY <1>6, <2>3, DeletingStep
      <3>2. QED
        BY <1>4, <1>5, <1>6, <2>1, <3>1
    <2>4. CASE ~Deleting(q, p)
      <3>1. DeleteCount(q) /\ req[q].photo = p /\ Cardinality(SightingsOf(p)) > 1
        BY <1>6, <2>4, DeletingStep
      <3>2. QED
        BY <1>4, <1>5, <1>6, <2>1, <3>1
    <2>5. QED
      BY <2>2, <2>3, <2>4
  <1>7. ASSUME NEW r \in Requests, Deleting(r, p)'
        PROVE  \E s \in SightingsOf(p)' : s # req'[r].s
    <2>1. p \in photos /\ p \notin overlapped /\ req'[r].s = req[r].s /\ Stored(req[r].s)
      BY <1>2, <1>3, <1>7, DeletingStep
    <2>2. CASE \E q \in Requests : DeleteRow(q) /\ req[q].s \in SightingsOf(p)
      <3>1. PICK q \in Requests : DeleteRow(q) /\ req[q].s \in SightingsOf(p)
        BY <2>2
      <3>2. Deleting(q, p)
        BY <3>1 DEF DeleteRow, SightingsOf, DeletingPhoto, Deleting
      <3>3. q # r
        BY <1>7, <3>1 DEF DeleteRow, Deleting, Finish, Idle
      <3>4. Deleting(r, p)
        BY <1>7, <3>1, <3>3, DeletingStep DEF DeleteRow, Finish, DeleteCount, Deleting
      <3>5. QED
        BY <2>1, <3>2, <3>3, <3>4 DEF DeletingAlone
    <2>3. CASE ~\E q \in Requests : DeleteRow(q) /\ req[q].s \in SightingsOf(p)
      <3>1. \A s \in SightingsOf(p) : s \in SightingsOf(p)'
        BY <1>1, <1>3, <2>1, <2>3, SightingsStep
      <3>2. \E s \in SightingsOf(p) : s # req[r].s
        <4>1. CASE Deleting(r, p)
          BY <2>1, <4>1 DEF DeletingAlone
        <4>2. CASE Cardinality(SightingsOf(p)) > 1
          BY <4>2, AnotherOne
        <4>3. QED
          BY <1>7, <4>1, <4>2, DeletingStep
      <3>3. QED
        BY <2>1, <3>1, <3>2
    <2>4. QED
      BY <2>2, <2>3
  <1>8. QED
    BY <1>6, <1>7

\* A photo without an overlap keeps a sighting after every step.
LEMMA StepLast ==
  ASSUME RowsOK, PhotoExists, IdsInv, OldInv, DeletingPhoto, DeletingAlone, LastSightingKept,
         [Next]_vars
  PROVE  LastSightingKept'
  <1> USE DEF RowsOK
  <1> SUFFICES ASSUME NEW p \in photos', p \notin overlapped'
               PROVE  \E s \in Sightings : s \in SightingsOf(p)'
    BY DEF LastSightingKept
  <1>1. p \in Photos
    BY StepType
  <1>2. CASE p \notin photos
    <2>1. PICK roi \in Crops : Insert(p) /\ InsertSighting(p, roi)
      BY <1>2, ZenonT(30)
         DEF Next, Run, vars, tables, Insert, AddSighting, InsertSighting, DeletePhoto, PatchLoad,
             DeleteLoad, PatchSave, PatchRefused, RequeueEmbedding, DeleteCount, DeleteClear,
             DeleteRow, Abandon, BeginPass, ClaimPending, NothingPending, SaveEmbedding,
             FailEmbedding, ClaimError, FailLost, Crash, Age
    <2>2. created + 1 \in Sightings
      BY <1>1, <2>1, InsertType
    <2>3. [photo |-> p, roi |-> roi, status |-> "pending", gen |-> 0, vector |-> NoVector] \in Row
      BY <1>1 DEF Row, Statuses
    <2>4. created + 1 \in SightingsOf(p)'
      BY <2>1, <2>2, <2>3 DEF InsertSighting, SightingsOf, Stored
    <2>5. QED
      BY <2>2, <2>4
  <1>3. CASE p \in photos
    <2>1. p \notin overlapped /\ ~DeletePhoto(p)
      BY <1>3, ZenonT(30)
         DEF Next, Run, vars, tables, Insert, AddSighting, InsertSighting, DeletePhoto, PatchLoad,
             DeleteLoad, PatchSave, PatchRefused, RequeueEmbedding, DeleteCount, DeleteClear,
             DeleteRow, Abandon, BeginPass, ClaimPending, NothingPending, SaveEmbedding,
             FailEmbedding, ClaimError, FailLost, Crash, Age
    <2>2. CASE \E q \in Requests : DeleteRow(q) /\ req[q].s \in SightingsOf(p)
      <3>1. PICK q \in Requests : DeleteRow(q) /\ req[q].s \in SightingsOf(p)
        BY <2>2
      <3>2. Deleting(q, p)
        BY <3>1 DEF DeleteRow, SightingsOf, DeletingPhoto, Deleting
      <3>3. PICK s \in SightingsOf(p) : s # req[q].s
        BY <1>3, <2>1, <3>2 DEF DeletingAlone
      <3>4. s \in SightingsOf(p)'
        BY <3>1, <3>3 DEF DeleteRow, Remove, SightingsOf, Stored
      <3>5. QED
        BY <3>4 DEF SightingsOf
    <2>3. CASE ~\E q \in Requests : DeleteRow(q) /\ req[q].s \in SightingsOf(p)
      <3>1. PICK s \in SightingsOf(p) : TRUE
        BY <1>3, <2>1 DEF LastSightingKept
      <3>2. s \in SightingsOf(p)'
        BY <1>1, <2>1, <2>3, SightingsStep
      <3>3. QED
        BY <3>2 DEF SightingsOf
    <2>4. QED
      BY <2>2, <2>3
  <1>4. QED
    BY <1>2, <1>3
-----------------------------------------------------------------------------
\* The conjunction is an inductive invariant of the system.
LEMMA InductiveInvariant == Spec => []IInv
  <1>1. Init => IInv
    BY IdleType
       DEF Init, IInv, RowsOK, PhotoExists, IdsInv, OldInv, VectorIffReady, HadInv, JobInv,
           JobCurrent, VectorCurrent, DeletingPhoto, DeletingAlone, Deleting, LastSightingKept,
           Stored, Idle, At
  <1>2. IInv /\ [Next]_vars => IInv'
    BY StepType, StepPhoto, StepIds, StepOld, StepVector, StepHad, StepJob, StepJobCurrent,
       StepCurrent, StepDeletingPhoto, StepDeletingAlone, StepLast DEF IInv
  <1>3. QED
    BY <1>1, <1>2, PTL DEF Spec

\* Every reachable state is well typed, and no sighting outlives its photo.
THEOREM TypeCorrect == Spec => []TypeOK
  <1>1. IInv => TypeOK
    BY DEF IInv, TypeOK
  <1>2. QED
    BY <1>1, InductiveInvariant, PTL

\* Search and the status shown to clients never disagree.
THEOREM SearchAgrees == Spec => []VectorIffReady
  BY InductiveInvariant, PTL DEF IInv

\* A sighting is found by the crop it shows once no change of it is under way.
THEOREM FoundByItsCrop == Spec => []CurrentVector
  <1>1. IInv => CurrentVector
    BY DEF IInv, VectorCurrent, CurrentVector, Settling
  <1>2. QED
    BY <1>1, InductiveInvariant, PTL

\* Only overlapping deletions take the last sighting of a photo.
THEOREM KeepsLast == Spec => []LastSightingKept
  BY InductiveInvariant, PTL DEF IInv
-----------------------------------------------------------------------------
\* The vector search sees of each sighting.
Seen == [s \in Sightings |-> IF Stored(s) THEN sighting[s].vector ELSE NoVector]

\* Every step is a step of the index its users see, or none.
LEMMA IndexStep ==
  ASSUME IInv, [Next]_vars
  PROVE  Index!Next \/ UNCHANGED Index!vars
  <1> USE DEF IInv, RowsOK
  <1> DEFINE Same == had' = had /\ Seen' = Seen
  <1>0. Same => Index!Next \/ UNCHANGED Index!vars
    BY DEF Index!vars, Seen
  <1>1. ASSUME NEW s \in Sightings, NEW c \in Crops, had' = [had EXCEPT ![s] = {c}],
               Seen' = [Seen EXCEPT ![s] = NoVector]
        PROVE  Index!Next
    BY <1>1 DEF Index!Next, Index!Queue, Seen
  <1>2. ASSUME NEW s \in Sightings, NEW c \in Crops, had[s] # {},
               had' = [had EXCEPT ![s] = @ \cup {c}], Seen' = Seen
        PROVE  Index!Next
    BY <1>2 DEF Index!Next, Index!Recrop, Seen
  <1>3. ASSUME NEW s \in Sightings, NEW c \in had[s], had' = had,
               Seen' = [Seen EXCEPT ![s] = c]
        PROVE  Index!Next
    BY <1>3 DEF Index!Next, Index!Embed, Seen
  <1>4. ASSUME NEW S \in SUBSET Sightings, Remove(S) PROVE Index!Next
    <2>1. Seen' = [s \in Sightings |-> IF s \in S THEN NoVector ELSE Seen[s]]
      BY <1>4 DEF Seen, Remove, Stored
    <2>2. had' = [s \in Sightings |-> IF s \in S THEN {} ELSE had[s]]
      BY <1>4 DEF Remove
    <2>3. QED
      BY <2>1, <2>2 DEF Index!Next, Index!Remove, Seen
  <1>5. ASSUME NEW p \in Photos, Insert(p) \/ AddSighting(p) PROVE Index!Next
    <2>1. PICK roi \in Crops : InsertSighting(p, roi)
      BY <1>5 DEF Insert, AddSighting, Crops
    <2>2. created + 1 \in Sightings
      BY <2>1, InsertType
    <2>3. [photo |-> p, roi |-> roi, status |-> "pending", gen |-> 0, vector |-> NoVector] \in Row
      BY DEF Row, Statuses
    <2>4. Seen' = [Seen EXCEPT ![created + 1] = NoVector]
      BY <2>1, <2>2, <2>3 DEF InsertSighting, Seen, Stored
    <2>5. had' = [had EXCEPT ![created + 1] = {roi}]
      BY <2>1 DEF InsertSighting
    <2>6. QED
      BY <1>1, <2>2, <2>4, <2>5
  <1>6. ASSUME NEW s \in Sightings, Stored(s), NEW c \in Crops, WriteRoi(s, c) PROVE Index!Next
    <2>1. sighting[s] \in Row /\ [sighting[s] EXCEPT !.roi = c] \in Row /\ had[s] # {}
      BY <1>6, RowType DEF Stored, HadInv
    <2>2. Seen' = Seen
      BY <1>6, <2>1 DEF WriteRoi, Seen, Stored, Row
    <2>3. QED
      BY <1>2, <1>6, <2>1, <2>2 DEF WriteRoi
  <1>7. ASSUME NEW r \in Requests, PatchSave(r) \/ DeleteClear(r)
        PROVE  Index!Next \/ UNCHANGED Index!vars
    <2>1. req[r].s \in Sightings /\ req[r].new \in Crops /\ Whole \in Crops
      BY <1>7 DEF PatchSave, DeleteClear, IdsInv, Sightings, Request, Crops
    <2>2. QED
      BY <1>0, <1>6, <1>7, <2>1 DEF PatchSave, DeleteClear, Seen, Stored
  <1>8. ASSUME NEW r \in Requests, RequeueEmbedding(r)
        PROVE  Index!Next \/ UNCHANGED Index!vars
    <2>1. CASE Stored(req[r].s)
      <3> DEFINE s == req[r].s
      <3>1. s \in Sightings
        BY <1>8 DEF RequeueEmbedding, Recropped, IdsInv, Sightings
      <3>2. sighting[s] \in Row /\ sighting[s].roi \in Crops
            /\ [sighting[s] EXCEPT !.status = "pending", !.vector = NoVector,
                                   !.gen = @ + 1] \in Row
        <4>1. sighting[s] \in Row
          BY <2>1, <3>1 DEF Stored
        <4>2. sighting[s].roi \in Crops /\ sighting[s].gen + 1 \in Nat
          BY <4>1 DEF Row
        <4>3. [sighting[s] EXCEPT !.status = "pending", !.vector = NoVector,
                                  !.gen = @ + 1] \in Row
          BY <4>1, <4>2 DEF Row, Statuses
        <4>4. QED
          BY <4>1, <4>2, <4>3
      <3>3. Seen' = [Seen EXCEPT ![s] = NoVector]
        <4>1. sighting' = [sighting EXCEPT ![s] = [sighting[s] EXCEPT !.status = "pending",
                                                    !.vector = NoVector, !.gen = @ + 1]]
          BY <1>8, <2>1, ZenonT(90) DEF RequeueEmbedding
        <4>2. QED
          BY <3>1, <3>2, <4>1 DEF Seen, Stored, Row
      <3>4. had' = [had EXCEPT ![s] = {sighting[s].roi}]
        BY <1>8, <2>1 DEF RequeueEmbedding
      <3>5. QED
        BY <1>1, <3>1, <3>2, <3>3, <3>4
    <2>2. CASE ~Stored(req[r].s)
      BY <1>0, <1>8, <2>2 DEF RequeueEmbedding, Seen, Stored
    <2>3. QED
      BY <2>1, <2>2
  <1>9. ASSUME UNCHANGED had,
               \A s \in Sightings : Kept(s) \/ Moved(s)
        PROVE  Same
    <2>1. ASSUME NEW s \in Sightings
          PROVE  /\ Stored(s) <=> sighting'[s] # NoRow
                 /\ Stored(s) => sighting'[s].vector = sighting[s].vector
      <3>1. CASE Kept(s)
        BY <3>1 DEF Kept, Stored
      <3>2. CASE Moved(s)
        <4>1. PICK st \in Statuses : sighting'[s] = [sighting[s] EXCEPT !.status = st]
          BY <3>2 DEF Moved, Statuses
        <4>2. sighting[s] \in Row /\ [sighting[s] EXCEPT !.status = st] \in Row
          BY <3>2, RowType DEF Moved, Stored
        <4>3. QED
          BY <3>2, <4>1, <4>2 DEF Moved, Row, Stored
      <3>3. QED
        BY <1>9, <3>1, <3>2
    <2>2. QED
      BY <1>9, <2>1 DEF Seen, Stored
  <1>10. ASSUME NEW w \in Workers, BeginPass(w) \/ ClaimPending(w) \/ ClaimError(w)
                                  \/ FailEmbedding(w)
         PROVE  Same
    <2>1. UNCHANGED had
      BY <1>10 DEF BeginPass, ClaimPending, ClaimError, FailEmbedding
    <2>2. ASSUME NEW s \in Sightings PROVE Kept(s) \/ Moved(s)
      <3>1. CASE BeginPass(w)
        BY <3>1 DEF BeginPass, OldInv, Kept, Moved
      <3>2. CASE ClaimPending(w) \/ ClaimError(w)
        BY <3>2, <2>1 DEF ClaimPending, ClaimError, Claimed, Pending, Kept, Moved
      <3>3. CASE FailEmbedding(w)
        BY <3>3 DEF FailEmbedding, Current, Kept, Moved
      <3>4. QED
        BY <1>10, <3>1, <3>2, <3>3
    <2>3. QED
      BY <1>9, <2>1, <2>2
  <1>11. ASSUME NEW w \in Workers, SaveEmbedding(w)
         PROVE  Index!Next \/ UNCHANGED Index!vars
    <2>1. CASE Current(worker[w])
      <3> DEFINE s == worker[w].s
                 c == worker[w].roi
      <3>1. s \in Sightings /\ c \in had[s] /\ c \in Crops
        BY <1>11, <2>1 DEF SaveEmbedding, Current, JobInv, Job
      <3>2. sighting[s] \in Row /\ [sighting[s] EXCEPT !.status = "ready", !.vector = c] \in Row
        BY <2>1, <3>1, RowType DEF Current, Stored
      <3>3. sighting' = [sighting EXCEPT ![s] = [sighting[s] EXCEPT !.status = "ready",
                                                                    !.vector = c]]
        BY <1>11, <2>1 DEF SaveEmbedding
      <3> HIDE DEF s, c
      <3>4. Seen' = [Seen EXCEPT ![s] = c]
        BY <3>1, <3>2, <3>3 DEF Seen, Stored, Row
      <3>5. had' = had
        BY <1>11 DEF SaveEmbedding
      <3>6. QED
        BY <1>3, <3>1, <3>4, <3>5
    <2>2. CASE ~Current(worker[w])
      BY <1>0, <1>11, <2>2 DEF SaveEmbedding, Seen, Stored
    <2>3. QED
      BY <2>1, <2>2
  <1>12. ASSUME NEW p \in Photos, DeletePhoto(p) PROVE Index!Next
    BY <1>4, <1>12 DEF DeletePhoto, SightingsOf
  <1>13. ASSUME NEW r \in Requests, DeleteRow(r) PROVE Index!Next
    <2>1. {req[r].s} \in SUBSET Sightings
      BY <1>13 DEF DeleteRow, IdsInv, Sightings
    <2>2. QED
      BY <1>4, <1>13, <2>1 DEF DeleteRow
  <1>14. CASE UNCHANGED <<sighting, had>>
    BY <1>0, <1>14 DEF Seen, Stored
  <1>15. QED
    BY <1>0, <1>5, <1>7, <1>8, <1>10, <1>11, <1>12, <1>13, <1>14
       DEF Next, Run, PatchLoad, DeleteLoad, PatchRefused, DeleteCount, Abandon,
           NothingPending, FailLost, Crash, Age, tables, vars

\* The workers and handlers implement the index: no vector is older than the
\* last time its sighting was queued.
THEOREM Implements == Spec => IndexSpec
  <1>1. Init => Index!Init
    BY DEF Init, Index!Init, Stored
  <1>2. IInv /\ [Next]_vars => [Index!Next]_(Index!vars)
    BY IndexStep
  <1>3. QED
    BY <1>1, <1>2, InductiveInvariant, PTL DEF Spec, IndexSpec, Index!Spec
=============================================================================
