-------------------------------- MODULE Upload --------------------------------
(***************************************************************************)
(* How a photo gets into the archive and out of it: savePhoto of            *)
(* internal/httpapi/ingest.go, called by the upload and import handlers,    *)
(* Repo.Insert, the object store of internal/storage, and deleteRecord of   *)
(* internal/httpapi/deletion.go.                                            *)
(*                                                                          *)
(* A photo stands for the hash of its normalised bytes; the unique index on *)
(* (tenant_id, content_hash) allows one row for each.  The objects of an    *)
(* upload have fresh keys, the row a fresh id: both are named after the     *)
(* call that made them.  Each statement and each visit to the store is a    *)
(* step; the two objects of an upload are put, and deleted, in one, for     *)
(* nobody else knows their keys.                                            *)
(***************************************************************************)
EXTENDS Naturals

CONSTANTS
  Pictures,      \* contents that clients send
  Thumbable,     \* those a thumbnail can be made of
  MaxUploads,    \* bound: calls of savePhoto
  Failures,      \* what may go wrong: subset of FailureKinds
  MaxFaults,     \* bound: how often
  NoRecord, NoPicture

\* "crash":  the process ends;
\* "store":  Put or Delete of the object store fails;
\* "db":     a statement fails, with no effect;
\* "commit": a COMMIT takes effect and its answer is lost;
\* "redact": the deadline check after the COMMIT fails, for instance because
\*           the client has gone and its context is cancelled
FailureKinds == {"crash", "store", "db", "commit", "redact"}

Uploads == 1..MaxUploads
Object  == [upload: Uploads, kind: {"orig", "thumb"}]
Row     == [id: Uploads, thumb: BOOLEAN, fields: BOOLEAN]
UploadSteps == {"new", "check", "read", "put", "insert", "cleanup", "redact", "fields", "done"}
Answers == {"none", "created", "duplicate", "refused", "error"}
Upload  == [step: UploadSteps, photo: Pictures \cup {NoPicture}, fielded: BOOLEAN,
            thumb: BOOLEAN, found: Uploads \cup {0}, tried: BOOLEAN, answer: Answers]

ASSUME UploadAssumption ==
  /\ MaxUploads \in Nat /\ MaxFaults \in Nat
  /\ Failures \subseteq FailureKinds
  /\ Thumbable \subseteq Pictures
  /\ NoRecord \notin Row
  /\ NoPicture \notin Pictures

VARIABLES
  row,        \* table records, by content hash
  store,      \* objects in the store
  up,         \* calls of savePhoto
  deleting,   \* objects that a deleteRecord is about to delete
  faults,
  leaked,     \* history: objects a fault left behind
  disowned    \* history: calls whose insert was committed and then taken for failed

uploadVars == <<row, store, up, deleting, faults, leaked, disowned>>

Objects(u, thumb) == [upload: {u}, kind: IF thumb THEN {"orig", "thumb"} ELSE {"orig"}]
Recorded(p)       == row[p] # NoRecord
ObjectsOf(p)      == Objects(row[p].id, row[p].thumb)

\* Calls that hold objects nobody else knows of.
Holding == {u \in Uploads : up[u].step \in {"insert", "cleanup"}}

\* The type invariant: a row is named after the call that wrote it, and a call that
\* reads a row knows which.
UploadTypeOK ==
  /\ row \in [Pictures -> Row \cup {NoRecord}]
  /\ store \in SUBSET Object
  /\ up \in [Uploads -> Upload]
  /\ \A p \in Pictures : Recorded(p) => up[row[p].id].photo = p
  /\ \A u \in Uploads : /\ up[u].step # "new" => up[u].photo \in Pictures
                        /\ up[u].step = "read" => up[u].found # 0
  /\ deleting \in SUBSET Object
  /\ faults \in 0..MaxFaults
  /\ leaked \in SUBSET Object
  /\ disowned \in SUBSET Uploads

UploadInit ==
  /\ row = [p \in Pictures |-> NoRecord]
  /\ store = {}
  /\ up = [u \in Uploads |-> [step |-> "new", photo |-> NoPicture, fielded |-> FALSE,
             thumb |-> FALSE, found |-> 0, tried |-> FALSE, answer |-> "none"]]
  /\ deleting = {}
  /\ faults = 0
  /\ leaked = {}
  /\ disowned = {}

Fault(kind) == kind \in Failures /\ faults < MaxFaults /\ faults' = faults + 1

Goto(u, step)     == up' = [up EXCEPT ![u].step = step]

\* A call that is over keeps its answer, its local variables are gone.
Ended(u, answer) == [step |-> "done", photo |-> up[u].photo, fielded |-> FALSE,
                     thumb |-> FALSE, found |-> 0, tried |-> FALSE, answer |-> answer]
Answer(u, answer) == up' = [up EXCEPT ![u] = Ended(u, answer)]

\* The answer that is given when the objects of the call have been deleted.
CleanUp(u, answer) == up' = [up EXCEPT ![u].step = "cleanup", ![u].answer = answer]

-----------------------------------------------------------------------------
\* savePhoto

\* A request that may be refused at once: wrong type, unknown case or motif, a
\* required field missing.
Start(u, p) ==
  /\ up[u].step = "new"
  /\ \/ \E fielded \in BOOLEAN :
          up' = [up EXCEPT ![u].step = "check", ![u].photo = p, ![u].fielded = fielded]
     \/ up' = [up EXCEPT ![u].step = "done", ![u].photo = p, ![u].answer = "refused"]
  /\ UNCHANGED <<row, store, deleting, faults, leaked, disowned>>

\* FindIDByHash: before the objects are put, and again after a conflict.
Check(u) ==
  /\ up[u].step = "check"
  /\ LET p == up[u].photo IN
       \/ /\ Recorded(p)
          /\ up' = [up EXCEPT ![u].step = "read", ![u].found = row[p].id]
       \/ /\ ~Recorded(p)
          /\ IF up[u].tried THEN Answer(u, "error") ELSE Goto(u, "put")
  /\ UNCHANGED <<row, store, deleting, faults, leaked, disowned>>

\* Mutant of Read: the answer is given from what FindIDByHash returned.
ReadTrusting(u) ==
  /\ up[u].step = "read"
  /\ Answer(u, IF up[u].found = u THEN "created" ELSE "duplicate")
  /\ UNCHANGED <<row, store, deleting, faults, leaked, disowned>>

\* GetPhoto: the row that was found, or written, may be gone by now.
Read(u) ==
  /\ up[u].step = "read"
  /\ LET p == up[u].photo IN
       IF Recorded(p) /\ row[p].id = up[u].found
       THEN Answer(u, IF up[u].found = u THEN "created" ELSE "duplicate")
       ELSE Answer(u, "error")
  /\ UNCHANGED <<row, store, deleting, faults, leaked, disowned>>

\* A read fails.
ReadFails(u) ==
  /\ up[u].step \in {"check", "read"}
  /\ Fault("db")
  /\ Answer(u, "error")
  /\ UNCHANGED <<row, store, deleting, leaked, disowned>>

\* Both objects are put; a photo no thumbnail can be made of keeps the original
\* for one.
Put(u) ==
  /\ up[u].step = "put"
  /\ LET thumb == up[u].photo \in Thumbable IN
       /\ store' = store \cup Objects(u, thumb)
       /\ up' = [up EXCEPT ![u].step = "insert", ![u].thumb = thumb]
  /\ UNCHANGED <<row, deleting, faults, leaked, disowned>>

\* Put fails and may leave a file that is not complete; an original that was
\* already there is deleted.
PutFails(u) ==
  /\ up[u].step = "put"
  /\ Fault("store")
  /\ \E rest \in SUBSET Objects(u, TRUE) :
       /\ rest # Objects(u, TRUE)
       /\ store' = store \cup rest
       /\ leaked' = leaked \cup rest
  /\ Answer(u, "error")
  /\ UNCHANGED <<row, deleting, disowned>>

NewRow(u) == [id |-> u, thumb |-> up[u].thumb, fields |-> FALSE]
Write(u)  == row' = [row EXCEPT ![up[u].photo] = NewRow(u)]

\* Repo.Insert commits both rows; if the photo was filed under a case, its deadline
\* is checked next.
Insert(u) ==
  /\ up[u].step = "insert"
  /\ ~Recorded(up[u].photo)
  /\ Write(u)
  /\ \E step \in {"redact", "fields"} : Goto(u, step)
  /\ UNCHANGED <<store, deleting, faults, leaked, disowned>>

\* Mutant of Conflict: the duplicate is answered and the objects are left.
ConflictLeaving(u) ==
  /\ up[u].step = "insert"
  /\ Recorded(up[u].photo)
  /\ up' = [up EXCEPT ![u].step = "check", ![u].tried = TRUE]
  /\ UNCHANGED <<row, store, deleting, faults, leaked, disowned>>

\* The unique index refuses the row: another call stored this content first.
Conflict(u) ==
  /\ up[u].step = "insert"
  /\ Recorded(up[u].photo)
  /\ up' = [up EXCEPT ![u].step = "cleanup", ![u].tried = TRUE]
  /\ UNCHANGED <<row, store, deleting, faults, leaked, disowned>>

\* A foreign key refuses it: the case or motif was deleted after the check.
Unknown(u) ==
  /\ up[u].step = "insert"
  /\ ~Recorded(up[u].photo)
  /\ CleanUp(u, "refused")
  /\ UNCHANGED <<row, store, deleting, faults, leaked, disowned>>

InsertFails(u) ==
  /\ up[u].step = "insert"
  /\ Fault("db")
  /\ CleanUp(u, "error")
  /\ UNCHANGED <<row, store, deleting, leaked, disowned>>

\* The rows are there, the call believes they are not.
InsertUnknown(u) ==
  /\ up[u].step = "insert"
  /\ ~Recorded(up[u].photo)
  /\ Fault("commit")
  /\ Write(u)
  /\ CleanUp(u, "error")
  /\ disowned' = disowned \cup {u}
  /\ UNCHANGED <<store, deleting, leaked>>

\* redactIfDue; the location is not modelled here (see Retention).
RedactPhoto(u) ==
  /\ up[u].step = "redact"
  /\ Goto(u, "fields")
  /\ UNCHANGED <<row, store, deleting, faults, leaked, disowned>>

\* Its error is an error of Repo.Insert, though the rows are committed.
RedactFails(u) ==
  /\ up[u].step = "redact"
  /\ Fault("redact")
  /\ CleanUp(u, "error")
  /\ disowned' = disowned \cup {u}
  /\ UNCHANGED <<row, store, deleting, leaked>>

\* Store.Delete of the objects of a failed call.  After a conflict the hash is
\* looked up again, else the answer is given.
Cleanup(u) ==
  /\ up[u].step = "cleanup"
  /\ LET mine == Objects(u, up[u].thumb) IN
       \/ /\ store' = store \ mine
          /\ UNCHANGED <<faults, leaked>>
       \/ \E rest \in SUBSET mine :
            /\ rest # {}
            /\ Fault("store")
            /\ store' = store \ (mine \ rest)
            /\ leaked' = leaked \cup rest
  /\ IF up[u].answer = "none" THEN Goto(u, "check") ELSE Answer(u, up[u].answer)
  /\ UNCHANGED <<row, deleting, disowned>>

\* Mutant of WriteFields: an error is handled like one of Repo.Insert.
WriteFieldsCleaning(u) ==
  /\ up[u].step = "fields"
  /\ LET p == up[u].photo
         mine == Recorded(p) /\ row[p].id = u IN
       \/ /\ mine \/ ~up[u].fielded
          /\ up' = [up EXCEPT ![u].step = "read", ![u].found = u]
          /\ row' = IF up[u].fielded THEN [row EXCEPT ![p].fields = TRUE] ELSE row
       \/ /\ up[u].fielded
          /\ CleanUp(u, "error")
          /\ UNCHANGED row
  /\ UNCHANGED <<store, deleting, faults, leaked, disowned>>

\* SetSightingFields writes the values of a fielded request, in statements of
\* their own: the sighting may be gone, a definition may have changed since
\* the check.  An error is answered and the rows stay.
WriteFields(u) ==
  /\ up[u].step = "fields"
  /\ LET p == up[u].photo
         mine == Recorded(p) /\ row[p].id = u IN
       \/ /\ mine \/ ~up[u].fielded
          /\ up' = [up EXCEPT ![u].step = "read", ![u].found = u]
          /\ row' = IF up[u].fielded THEN [row EXCEPT ![p].fields = TRUE] ELSE row
       \/ /\ up[u].fielded
          /\ Answer(u, "error")
          /\ UNCHANGED row
  /\ UNCHANGED <<store, deleting, faults, leaked, disowned>>

-----------------------------------------------------------------------------
\* deleteRecord: the row first, then the objects.

Remove(p) ==
  /\ Recorded(p)
  /\ row' = [row EXCEPT ![p] = NoRecord]
  /\ \/ deleting' = deleting \cup ObjectsOf(p) /\ UNCHANGED <<faults, leaked>>
     \/ /\ Fault("commit")                      \* the handler answers 500
        /\ leaked' = leaked \cup (ObjectsOf(p) \cap store)
        /\ UNCHANGED deleting
  /\ UNCHANGED <<store, up, disowned>>

RemoveObject(o) ==
  /\ o \in deleting
  /\ deleting' = deleting \ {o}
  /\ \/ store' = store \ {o} /\ UNCHANGED <<faults, leaked>>
     \/ /\ Fault("store")
        /\ leaked' = leaked \cup ({o} \cap store)
        /\ UNCHANGED store
  /\ UNCHANGED <<row, up, disowned>>

-----------------------------------------------------------------------------
\* The process ends: no call gets its answer, and nobody remembers the objects
\* of the rows that were not there yet or are not there any more.
Crash ==
  /\ Fault("crash")
  /\ up' = [u \in Uploads |->
              IF up[u].step \in {"new", "done"} THEN up[u]
              ELSE Ended(u, "none")]
  /\ deleting' = {}
  /\ leaked' = leaked \cup (deleting \cap store) \cup
                 UNION {Objects(u, up[u].thumb) \cap store : u \in Holding}
  /\ UNCHANGED <<row, store, disowned>>

Call(u) ==
  \/ \E p \in Pictures : Start(u, p)
  \/ Check(u) \/ Read(u) \/ ReadFails(u) \/ Put(u) \/ PutFails(u)
  \/ Insert(u) \/ Conflict(u) \/ Unknown(u) \/ InsertFails(u) \/ InsertUnknown(u)
  \/ RedactPhoto(u) \/ RedactFails(u) \/ Cleanup(u) \/ WriteFields(u)

UploadNext ==
  \/ \E u \in Uploads : Call(u)
  \/ \E p \in Pictures : Remove(p)
  \/ \E o \in Object : RemoveObject(o)
  \/ Crash

UploadSpec == UploadInit /\ [][UploadNext]_uploadVars

-----------------------------------------------------------------------------
\* Safety

\* A record in the archive has its original and its thumbnail in the store,
\* whatever uploads of the same content, deletions and failures do; excepted are
\* the records of calls that took their own committed insert for failed.
RowHasObjects ==
  \A p \in Pictures : Recorded(p) => ObjectsOf(p) \subseteq store \/ row[p].id \in disowned

\* Every object in the store belongs to a record, to a call that still runs, or
\* to a deletion that still runs: only a fault leaves one behind.
NoOrphans ==
  \A o \in store :
    \/ \E p \in Pictures : Recorded(p) /\ o \in ObjectsOf(p)
    \/ o.upload \in Holding
    \/ o \in deleting
    \/ o \in leaked

\* The call u is over and has just answered that the photo is in the archive.
Confirms(u) == up[u].step # "done" /\ up'[u].step = "done"
                 /\ up'[u].answer \in {"created", "duplicate"}

\* The phone deletes its only copy on these two answers.  When one is given the
\* record is there, with its original in the store (the exception is that of
\* RowHasObjects), and a created record has the field values that were sent.
AnsweredIsStored ==
  [][\A u \in Uploads : Confirms(u) =>
       LET r == row'[up'[u].photo] IN
         /\ r # NoRecord
         /\ [upload |-> r.id, kind |-> "orig"] \in store' \/ r.id \in disowned'
         /\ up'[u].answer = "created" => r.id = u /\ (up[u].fielded => r.fields)]_uploadVars
=============================================================================
