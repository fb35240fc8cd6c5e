------------------------------ MODULE Embedding ------------------------------
(***************************************************************************)
(* Sightings, their crops and the embedding workers: the sighting          *)
(* statements of internal/records/records.go and search.go, the handlers   *)
(* of internal/httpapi/sightings.go and internal/embedjob/worker.go.       *)
(*                                                                         *)
(* A vector is represented by the crop of the photo it was computed from.  *)
(* Each SQL statement is one step; a handler holds a request between two   *)
(* of them.  A worker is the goroutine of one server process.              *)
(***************************************************************************)
EXTENDS Naturals, FiniteSets

CONSTANTS
  Photos,          \* primary keys of records
  MaxSightings,    \* bound: sightings ever inserted; they are numbered by created_at
  Rois,            \* rectangles a client may draw
  Whole,           \* the crop of a sighting without a rectangle (NULL columns)
  Requests, Workers,
  MaxEdits,        \* bound: PATCH and DELETE requests ever started
  MaxFaults,       \* bound: crashes, database errors and jobs of over 15 minutes
  NoRow, NoVector, NoPhoto

Sightings == 1..MaxSightings
Crops     == Rois \cup {Whole}
Statuses  == {"pending", "processing", "ready", "failed"}
Row       == [photo: Photos, roi: Crops, status: Statuses, gen: Nat,
              vector: Crops \cup {NoVector}]
Job       == [step: {"wait", "drain", "embed"}, s: Nat, roi: Crops, gen: Nat]
Request   == [step: {"idle", "patchLoaded", "patchSaved", "delLoaded", "delClear",
                     "delCleared", "delRow"},
              s: Nat, photo: Photos \cup {NoPhoto}, old: Crops, new: Crops]

ASSUME EmbeddingAssumption ==
  /\ MaxSightings \in Nat /\ MaxEdits \in Nat /\ MaxFaults \in Nat
  /\ Whole \notin Rois
  /\ NoRow \notin Row
  /\ NoVector \notin Crops
  /\ NoPhoto \notin Photos

VARIABLES
  photos,      \* table records
  sighting,    \* table sightings
  created,     \* sightings inserted so far
  old,         \* rows in processing whose updated_at is over 15 minutes ago
  worker,      \* what each process's worker is doing
  req,         \* requests between two of their statements
  edits, faults,
  had,         \* history: crops of each sighting since it was last queued
  tainted,     \* history: sightings whose crop changed and no requeue followed
  overlapped   \* history: photos two of whose sightings were being deleted at once

vars == <<photos, sighting, created, old, worker, req, edits, faults, had, tainted, overlapped>>
tables == <<photos, sighting, created, old, had, tainted, overlapped>>

Idle == [step |-> "idle", s |-> 0, photo |-> NoPhoto, old |-> Whole, new |-> Whole]
At(step) == [step |-> step, s |-> 0, roi |-> Whole, gen |-> 0]

Stored(s)      == sighting[s] # NoRow
SightingsOf(p) == {s \in Sightings : Stored(s) /\ sighting[s].photo = p}
Pending(s)     == Stored(s) /\ sighting[s].status = "pending"

\* A request that has written a new crop and not queued it yet.
Recropped(r) == req[r].step \in {"patchSaved", "delCleared"}

RowsOK ==
  /\ photos \in SUBSET Photos
  /\ sighting \in [Sightings -> Row \cup {NoRow}]
  /\ created \in 0..MaxSightings
  /\ old \in SUBSET Sightings
  /\ worker \in [Workers -> Job]
  /\ req \in [Requests -> Request]
  /\ edits \in 0..MaxEdits
  /\ faults \in 0..MaxFaults
  /\ had \in [Sightings -> SUBSET Crops]
  /\ tainted \in SUBSET Sightings
  /\ overlapped \in SUBSET Photos

PhotoExists == \A s \in Sightings : sighting[s] # NoRow => sighting[s].photo \in photos

\* The type invariant: the columns hold what their types admit, and the foreign
\* key of a sighting names a photo that exists.
TypeOK == RowsOK /\ PhotoExists

Init ==
  /\ photos = {}
  /\ sighting = [s \in Sightings |-> NoRow]
  /\ created = 0
  /\ old = {}
  /\ worker = [w \in Workers |-> At("wait")]
  /\ req = [r \in Requests |-> Idle]
  /\ edits = 0
  /\ faults = 0
  /\ had = [s \in Sightings |-> {}]
  /\ tainted = {}
  /\ overlapped = {}

Finish(r) == req' = [req EXCEPT ![r] = Idle]

\* A crash, a database error or a very slow job, counted.
Fault == faults < MaxFaults /\ faults' = faults + 1

-----------------------------------------------------------------------------
\* Photos and sightings come and go

\* INSERT INTO sightings of Repo.Insert and Repo.AddSighting.
InsertSighting(p, roi) ==
  /\ created < MaxSightings
  /\ created' = created + 1
  /\ sighting' = [sighting EXCEPT ![created + 1] =
       [photo |-> p, roi |-> roi, status |-> "pending", gen |-> 0, vector |-> NoVector]]
  /\ had' = [had EXCEPT ![created + 1] = {roi}]
  /\ UNCHANGED <<old, worker, req, edits, faults, tainted, overlapped>>

\* Repo.Insert: the photo and its first sighting in one transaction.
Insert(p) ==
  /\ p \notin photos
  /\ photos' = photos \cup {p}
  /\ \E roi \in Crops : InsertSighting(p, roi)

\* addSighting insists on a rectangle; INSERT ... SELECT needs the photo.
AddSighting(p) ==
  /\ p \in photos
  /\ \E roi \in Rois : InsertSighting(p, roi)
  /\ UNCHANGED photos

\* Rows that are deleted, for whatever reason.
Remove(S) ==
  /\ sighting' = [s \in Sightings |-> IF s \in S THEN NoRow ELSE sighting[s]]
  /\ had' = [s \in Sightings |-> IF s \in S THEN {} ELSE had[s]]
  /\ old' = old \ S
  /\ tainted' = tainted \ S

\* Repo.DeletePhoto; sightings go with it (ON DELETE CASCADE).
DeletePhoto(p) ==
  /\ p \in photos
  /\ photos' = photos \ {p}
  /\ Remove(SightingsOf(p))
  /\ overlapped' = overlapped \ {p}
  /\ UNCHANGED <<created, worker, req, edits, faults>>

-----------------------------------------------------------------------------
\* PATCH /api/sightings/{id}

\* GetSighting; the body replaces the crop or keeps the one just read.
PatchLoad(r, s) ==
  /\ req[r].step = "idle"
  /\ Stored(s)
  /\ edits < MaxEdits /\ edits' = edits + 1
  /\ \E roi \in Crops :
       req' = [req EXCEPT ![r] = [step |-> "patchLoaded", s |-> s, photo |-> NoPhoto,
                                  old |-> sighting[s].roi, new |-> roi]]
  /\ UNCHANGED <<tables, worker, faults>>

\* UPDATE sightings SET roi ... of UpdateSighting: whatever crop the row has by
\* now is overwritten.
WriteRoi(s, roi) ==
  /\ sighting' = [sighting EXCEPT ![s].roi = roi]
  /\ had' = [had EXCEPT ![s] = @ \cup {roi}]
  /\ old' = old \ {s}

\* No row matched: 500.  An unchanged crop (compared with the one read first)
\* needs no requeue and the request is over.
PatchSave(r) ==
  LET s == req[r].s
      same == req[r].old = req[r].new IN
  /\ req[r].step = "patchLoaded"
  /\ IF Stored(s)
       THEN /\ WriteRoi(s, req[r].new)
            /\ tainted' = IF same /\ sighting[s].roi # req[r].new
                            THEN tainted \cup {s} ELSE tainted
            /\ IF same THEN Finish(r) ELSE req' = [req EXCEPT ![r].step = "patchSaved"]
       ELSE /\ UNCHANGED <<sighting, had, old, tainted>>
            /\ Finish(r)
  /\ UNCHANGED <<photos, created, worker, edits, faults, overlapped>>

\* applySightingFields refuses the custom fields of the body (400): the new
\* crop is stored, the requeue below is not reached.
PatchRefused(r) ==
  /\ req[r].step = "patchSaved"
  /\ Finish(r)
  /\ tainted' = tainted \cup ({req[r].s} \cap Sightings)
  /\ UNCHANGED <<photos, sighting, created, old, had, overlapped, worker, edits, faults>>

\* Mutant of RequeueEmbedding: the UPDATE without "embedding = NULL".
RequeueKeepingVector(r) ==
  LET s == req[r].s IN
  /\ Recropped(r)
  /\ sighting' = IF Stored(s)
                   THEN [sighting EXCEPT ![s].status = "pending", ![s].gen = @ + 1]
                   ELSE sighting
  /\ Finish(r)
  /\ UNCHANGED <<photos, created, old, had, tainted, overlapped, worker, edits, faults>>

\* Mutant of RequeueEmbedding: what is queued or being embedded is left alone.
RequeueReadyOnly(r) ==
  LET s == req[r].s IN
  /\ Recropped(r)
  /\ IF Stored(s) /\ sighting[s].status = "ready"
       THEN /\ sighting' = [sighting EXCEPT ![s].status = "pending", ![s].vector = NoVector,
                                            ![s].gen = @ + 1]
            /\ had' = [had EXCEPT ![s] = {sighting[s].roi}]
            /\ tainted' = tainted \ {s}
            /\ old' = old \ {s}
       ELSE UNCHANGED <<sighting, had, tainted, old>>
  /\ Finish(r)
  /\ UNCHANGED <<photos, created, overlapped, worker, edits, faults>>

\* RequeueEmbedding of a PATCH or of the DELETE that kept the last sighting.
RequeueEmbedding(r) ==
  LET s == req[r].s IN
  /\ Recropped(r)
  /\ IF Stored(s)
       THEN /\ sighting' = [sighting EXCEPT ![s].status = "pending", ![s].vector = NoVector,
                                            ![s].gen = @ + 1]
            /\ had' = [had EXCEPT ![s] = {sighting[s].roi}]
            /\ tainted' = tainted \ {s}
            /\ old' = old \ {s}
       ELSE UNCHANGED <<sighting, had, tainted, old>>
  /\ Finish(r)
  /\ UNCHANGED <<photos, created, overlapped, worker, edits, faults>>

-----------------------------------------------------------------------------
\* DELETE /api/sightings/{id}: Repo.DeleteSighting

DeleteLoad(r, s) ==
  /\ req[r].step = "idle"
  /\ Stored(s)
  /\ edits < MaxEdits /\ edits' = edits + 1
  /\ req' = [req EXCEPT ![r] = [step |-> "delLoaded", s |-> s, photo |-> sighting[s].photo,
                                old |-> sighting[s].roi, new |-> Whole]]
  /\ UNCHANGED <<tables, worker, faults>>

\* SELECT count(*): the last sighting is kept, as the whole picture; it is
\* refused (400) when it is that already.
DeleteCount(r) ==
  LET p == req[r].photo
      others == \E q \in Requests : req[q].step = "delRow" /\ req[q].photo = p IN
  /\ req[r].step = "delLoaded"
  /\ IF Cardinality(SightingsOf(p)) > 1
       THEN /\ req' = [req EXCEPT ![r].step = "delRow"]
            /\ overlapped' = IF others THEN overlapped \cup {p} ELSE overlapped
       ELSE /\ IF req[r].old = Whole THEN Finish(r)
                                     ELSE req' = [req EXCEPT ![r].step = "delClear"]
            /\ UNCHANGED overlapped
  /\ UNCHANGED <<photos, sighting, created, old, had, tainted, worker, edits, faults>>

DeleteClear(r) ==
  LET s == req[r].s IN
  /\ req[r].step = "delClear"
  /\ IF Stored(s)
       THEN WriteRoi(s, Whole) /\ req' = [req EXCEPT ![r].step = "delCleared"]
       ELSE UNCHANGED <<sighting, had, old>> /\ Finish(r)
  /\ UNCHANGED <<photos, created, tainted, overlapped, worker, edits, faults>>

DeleteRow(r) ==
  /\ req[r].step = "delRow"
  /\ Remove({req[r].s})
  /\ Finish(r)
  /\ UNCHANGED <<photos, created, overlapped, worker, edits, faults>>

\* A request dies between two statements: crash, cancelled context, error.
Abandon(r) ==
  /\ req[r].step # "idle"
  /\ Fault
  /\ Finish(r)
  /\ tainted' = IF Recropped(r) THEN tainted \cup ({req[r].s} \cap Sightings) ELSE tainted
  /\ UNCHANGED <<photos, sighting, created, old, had, overlapped, worker, edits>>

-----------------------------------------------------------------------------
\* The worker of a server process

Step(w, step) == worker' = [worker EXCEPT ![w] = At(step)]

\* Mutant of BeginPass: stuck jobs are not looked for.
BeginPassOnly(w) ==
  /\ worker[w].step = "wait"
  /\ Step(w, "drain")
  /\ UNCHANGED <<tables, req, edits, faults>>

\* Woken by Notify or by the ticker, once the CLIP engine is loaded: RequeueStuck,
\* then drain.  An error of RequeueStuck is logged and the pass goes on.
BeginPass(w) ==
  /\ worker[w].step = "wait"
  /\ Step(w, "drain")
  /\ \/ /\ sighting' = [s \in Sightings |-> IF s \in old
                                            THEN [sighting[s] EXCEPT !.status = "pending"]
                                            ELSE sighting[s]]
        /\ old' = {}
        /\ UNCHANGED faults
     \/ Fault /\ UNCHANGED <<sighting, old>>
  /\ UNCHANGED <<photos, created, had, tainted, overlapped, req, edits>>

\* Oldest first.
Claimed(s) ==
  /\ Pending(s)
  /\ \A t \in Sightings : Pending(t) => s <= t
  /\ sighting' = [sighting EXCEPT ![s].status = "processing"]

ClaimPending(w) ==
  /\ worker[w].step = "drain"
  /\ \E s \in Sightings :
       /\ Claimed(s)
       /\ worker' = [worker EXCEPT ![w] = [step |-> "embed", s |-> s, roi |-> sighting[s].roi,
                                           gen |-> sighting[s].gen]]
  /\ UNCHANGED <<photos, created, old, had, tainted, overlapped, req, edits, faults>>

NothingPending(w) ==
  /\ worker[w].step = "drain"
  /\ \A s \in Sightings : ~Pending(s)
  /\ Step(w, "wait")
  /\ UNCHANGED <<tables, req, edits, faults>>

\* ClaimPending returns an error; the statement may have been executed.
ClaimError(w) ==
  /\ worker[w].step = "drain"
  /\ Fault
  /\ Step(w, "wait")
  /\ UNCHANGED sighting \/ \E s \in Sightings : Claimed(s)
  /\ UNCHANGED <<photos, created, old, had, tainted, overlapped, req, edits>>

\* WHERE embedding_gen = $2 AND embedding_status = 'processing'
Current(job) ==
  /\ job.s \in Sightings /\ Stored(job.s)
  /\ sighting[job.s].gen = job.gen
  /\ sighting[job.s].status = "processing"

\* Mutant of SaveEmbedding: the UPDATE looks at the id only.
SaveUnguarded(w) ==
  LET job == worker[w] IN
  /\ job.step = "embed"
  /\ Step(w, "drain")
  /\ IF job.s \in Sightings /\ Stored(job.s)
       THEN sighting' = [sighting EXCEPT ![job.s].status = "ready", ![job.s].vector = job.roi]
       ELSE UNCHANGED sighting
  /\ old' = old \ {job.s}
  /\ UNCHANGED <<photos, created, had, tainted, overlapped, req, edits, faults>>

\* embedOne: open the object, decode, crop, embed, SaveEmbedding.
SaveEmbedding(w) ==
  LET job == worker[w] IN
  /\ job.step = "embed"
  /\ Step(w, "drain")
  /\ IF Current(job)
       THEN /\ sighting' = [sighting EXCEPT ![job.s].status = "ready", ![job.s].vector = job.roi]
            /\ old' = old \ {job.s}
       ELSE UNCHANGED <<sighting, old>>
  /\ UNCHANGED <<photos, created, had, tainted, overlapped, req, edits, faults>>

\* Any step of it fails: FailEmbedding.
FailEmbedding(w) ==
  LET job == worker[w] IN
  /\ job.step = "embed"
  /\ Step(w, "drain")
  /\ IF Current(job)
       THEN /\ sighting' = [sighting EXCEPT ![job.s].status = "failed"]
            /\ old' = old \ {job.s}
       ELSE UNCHANGED <<sighting, old>>
  /\ UNCHANGED <<photos, created, had, tainted, overlapped, req, edits, faults>>

\* FailEmbedding fails too; its error is dropped.
FailLost(w) ==
  /\ worker[w].step = "embed"
  /\ Fault
  /\ Step(w, "drain")
  /\ UNCHANGED <<tables, req, edits>>

\* The process dies and is started again; its worker waits for the engine.
Crash(w) ==
  /\ worker[w].step # "wait"
  /\ Fault
  /\ Step(w, "wait")
  /\ UNCHANGED <<tables, req, edits>>

\* Fifteen minutes pass over a row in processing.  That a worker still has the
\* job after so long counts as a fault.
Age(s) ==
  /\ Stored(s) /\ sighting[s].status = "processing"
  /\ s \notin old
  /\ old' = old \cup {s}
  /\ IF \E w \in Workers : worker[w].step = "embed" /\ worker[w].s = s
       THEN Fault
       ELSE UNCHANGED faults
  /\ UNCHANGED <<photos, sighting, created, had, tainted, overlapped, worker, req, edits>>

\* The loop of a worker: one of these is always enabled.
Run(w) ==
  \/ BeginPass(w)
  \/ ClaimPending(w) \/ NothingPending(w)
  \/ SaveEmbedding(w) \/ FailEmbedding(w)

Next ==
  \/ \E p \in Photos : Insert(p) \/ AddSighting(p) \/ DeletePhoto(p)
  \/ \E r \in Requests :
       \/ \E s \in Sightings : PatchLoad(r, s) \/ DeleteLoad(r, s)
       \/ PatchSave(r) \/ PatchRefused(r) \/ RequeueEmbedding(r)
       \/ DeleteCount(r) \/ DeleteClear(r) \/ DeleteRow(r)
       \/ Abandon(r)
  \/ \E w \in Workers :
       \/ Run(w)
       \/ ClaimError(w) \/ FailLost(w) \/ Crash(w)
  \/ \E s \in Sightings : Age(s)

Spec == Init /\ [][Next]_vars

\* The engine is loaded in time, the ticker fires, the loop runs on, time passes; no client
\* has to finish what it began.
FairSpec ==
  /\ Spec
  /\ \A w \in Workers : WF_vars(Run(w))
  /\ \A s \in Sightings : WF_vars(Age(s))

-----------------------------------------------------------------------------
\* Properties

\* Search (which asks only for embedding IS NOT NULL) and the status a client
\* sees (which asks for "ready") never disagree.
VectorIffReady ==
  \A s \in Sightings : Stored(s) =>
    (sighting[s].vector # NoVector <=> sighting[s].status = "ready")

\* A sighting found by similarity is found by the crop it shows, unless a
\* request that changed the crop is about to queue it, died before it could, or
\* overwrote a change it had not seen.
CurrentVector ==
  \A s \in Sightings :
    /\ Stored(s) /\ sighting[s].status = "ready" /\ s \notin tainted
    /\ \A r \in Requests : ~(Recropped(r) /\ req[r].s = s)
    => sighting[s].vector = sighting[s].roi

\* Help.tsx:420 of the deletion of sightings: the last one stays.
LastSightingStays == \A p \in photos : SightingsOf(p) # {}

\* It does, unless two of them were deleted at once.
LastSightingKept ==
  \A p \in photos : SightingsOf(p) = {} => p \in overlapped

\* Every queued sighting is embedded or failed in the end (or is gone), through
\* crashes of the worker, errors of the database and stuck jobs.
Settled ==
  \A s \in Sightings :
    (Stored(s) /\ sighting[s].status \in {"pending", "processing"})
      ~> (~Stored(s) \/ sighting[s].status \in {"ready", "failed"})

\* The index as its users see it.
Index == INSTANCE CropIndex WITH
  vector <- [s \in Sightings |-> IF Stored(s) THEN sighting[s].vector ELSE NoVector]

\* No vector in the index is older than the queue entry it answers.
IndexSpec == Index!Spec

\* doc/Anforderungen.md: a changed rectangle makes the sighting be embedded anew.
EditedCropReembedded ==
  \A s \in Sightings :
    /\ Stored(s) /\ sighting[s].status = "ready"
    /\ \A r \in Requests : req[r].step = "idle"
    => sighting[s].vector = sighting[s].roi
=============================================================================
