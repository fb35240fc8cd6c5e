----------------------------- MODULE UploadProofs -----------------------------
(***************************************************************************)
(* That a record keeps its objects and no object is forgotten, for any      *)
(* number of contents, calls and faults; and, in the last part, that the    *)
(* page that sends the photos loses none and mixes up no positions.         *)
(*                                                                          *)
(* The argument for the objects: a call that has not written its row is the *)
(* only one to know them; a call that has written it never deletes them     *)
(* again, unless it took its own insert for failed; and a deletion touches  *)
(* the objects only when the row is gone, and no other row ever gets them.  *)
(***************************************************************************)
EXTENDS Upload, WebUpload, TLAPS

\* Calls that have not written a row and may still do so, or look for another's.
Fresh(u) == \/ up[u].step \in {"new", "check", "put", "insert"}
            \/ up[u].step = "cleanup" /\ up[u].answer = "none"

\* The variables have their types.
TypesOK ==
  /\ row \in [Pictures -> Row \cup {NoRecord}]
  /\ store \in SUBSET Object
  /\ up \in [Uploads -> Upload]
  /\ deleting \in SUBSET Object

\* A row was written by a call for this content, which has not come to cleaning
\* up, unless it disowned the row; its objects are in the store.
RowOK(p) ==
  LET i == row[p].id IN
    /\ ~Fresh(i)
    /\ up[i].photo = p
    /\ \/ i \in disowned
       \/ up[i].step # "cleanup" /\ Objects(i, row[p].thumb) \subseteq store

\* The objects a deletion is about to delete belong to no row and never will.
DeletingOK ==
  \A o \in deleting : ~Fresh(o.upload) /\ \A p \in Pictures : Recorded(p) => row[p].id # o.upload

\* What a call is about to insert is in the store.
InsertOK == \A u \in Uploads : up[u].step = "insert" => Objects(u, up[u].thumb) \subseteq store

\* A content is known once the call has started.
StartedOK == \A u \in Uploads : up[u].step # "new" => up[u].photo \in Pictures

\* The inductive invariant.
IInv ==
  /\ TypesOK
  /\ StartedOK
  /\ \A p \in Pictures : Recorded(p) => RowOK(p)
  /\ DeletingOK
  /\ InsertOK

-----------------------------------------------------------------------------
\* The objects of a call carry its name.
LEMMA ObjectsType ==
  ASSUME NEW u \in Uploads, NEW thumb \in BOOLEAN
  PROVE  Objects(u, thumb) \subseteq Object /\ \A o \in Objects(u, thumb) : o.upload = u
BY DEF Objects, Object

\* The initial states satisfy the invariant.
LEMMA InitIInv == ASSUME UploadInit PROVE IInv
<1>1. TypesOK
  BY UploadAssumption DEF UploadInit, TypesOK, Upload, UploadSteps, Answers
<1>2. \A p \in Pictures : ~Recorded(p)
  BY DEF UploadInit, Recorded
<1>3. StartedOK /\ DeletingOK /\ InsertOK
  BY DEF UploadInit, StartedOK, DeletingOK, InsertOK
<1> QED BY <1>1, <1>2, <1>3 DEF IInv

\* The invariant after a step of the call u that changes only where u stands:
\* not into an insertion, and not back to where it has no row.
LEMMA OnlyU ==
  ASSUME IInv, NEW u \in Uploads, NEW r \in Upload,
         up' = [up EXCEPT ![u] = r],
         r.step = "new" \/ r.photo \in Pictures,
         ~Fresh(u) => r.step \notin {"new", "check", "put", "insert", "cleanup"}
                      /\ r.photo = up[u].photo,
         r.step = "insert" => Objects(u, r.thumb) \subseteq store,
         UNCHANGED <<row, store, deleting>>, disowned \subseteq disowned'
  PROVE  IInv'
<1>1. TypesOK'
  BY DEF IInv, TypesOK
<1>2. StartedOK'
  BY DEF IInv, TypesOK, StartedOK
<1>3. \A v \in Uploads : ~Fresh(v) => ~Fresh(v)'
  BY DEF IInv, TypesOK, Fresh
<1>4. ASSUME NEW p \in Pictures, Recorded(p)' PROVE RowOK(p)'
  <2>1. Recorded(p) /\ RowOK(p) /\ row[p].id \in Uploads
    BY <1>4 DEF IInv, Recorded, TypesOK, Row
  <2> QED BY <1>3, <2>1 DEF RowOK, Objects, IInv, TypesOK
<1>5. DeletingOK'
  BY <1>3 DEF IInv, DeletingOK, TypesOK, Recorded, Object
<1>6. InsertOK'
  BY DEF IInv, TypesOK, InsertOK, Objects
<1> QED BY <1>1, <1>2, <1>4, <1>5, <1>6 DEF IInv

\* The four that write the store, each other object stays.
LEMMA PutKeeps == ASSUME IInv, NEW u \in Uploads, Put(u) PROVE IInv'
<1> DEFINE thumb == up[u].photo \in Thumbable
<1>1. /\ store' = store \cup Objects(u, thumb)
      /\ up' = [up EXCEPT ![u].step = "insert", ![u].thumb = thumb]
      /\ thumb \in BOOLEAN
  BY DEF Put
<1> HIDE DEF thumb
<1>2. Objects(u, thumb) \subseteq Object
  BY <1>1, ObjectsType
<1>3. up'[u] \in Upload /\ up[u] \in Upload /\ up'[u].step = "insert" /\ up'[u].thumb = thumb
      /\ up'[u].photo = up[u].photo
  BY <1>1, ZenonT(60) DEF IInv, TypesOK, Upload, UploadSteps
<1>4. up' \in [Uploads -> Upload] /\ \A v \in Uploads \ {u} : up'[v] = up[v]
  BY <1>1, <1>3 DEF IInv, TypesOK
<1>5. TypesOK'
  BY <1>1, <1>2, <1>4 DEF IInv, TypesOK, Put
<1>6. StartedOK'
  BY <1>3, <1>4 DEF IInv, StartedOK, Put
<1>7. Fresh(u) /\ Fresh(u)' /\ \A v \in Uploads : ~Fresh(v) => v # u /\ ~Fresh(v)'
  BY <1>3, <1>4 DEF Fresh, Put
<1>8. ASSUME NEW p \in Pictures, Recorded(p)' PROVE RowOK(p)'
  <2>1. Recorded(p) /\ RowOK(p) /\ row[p].id \in Uploads /\ row' = row /\ disowned' = disowned
    BY <1>8 DEF IInv, Recorded, TypesOK, Row, Put
  <2>2. row[p].id # u
    BY <1>7, <2>1 DEF RowOK
  <2> QED BY <1>1, <1>4, <1>7, <2>1, <2>2 DEF RowOK, Objects
<1>9. DeletingOK'
  BY <1>7 DEF IInv, DeletingOK, TypesOK, Recorded, Object, Put
<1>10. InsertOK'
  BY <1>1, <1>3, <1>4 DEF IInv, InsertOK, Objects
<1> QED BY <1>5, <1>6, <1>8, <1>9, <1>10 DEF IInv

LEMMA PutFailsKeeps == ASSUME IInv, NEW u \in Uploads, PutFails(u) PROVE IInv'
<1>1. PICK rest \in SUBSET Objects(u, TRUE) : store' = store \cup rest
  BY DEF PutFails
<1>2. Objects(u, TRUE) \subseteq Object
  BY ObjectsType
<1>3. up[u] \in Upload /\ Ended(u, "error") \in Upload /\ up' = [up EXCEPT ![u] = Ended(u, "error")]
  BY DEF IInv, TypesOK, PutFails, Answer, Ended, Upload, UploadSteps, Answers
<1>4. /\ up' \in [Uploads -> Upload] /\ \A v \in Uploads \ {u} : up'[v] = up[v]
      /\ up'[u].step = "done" /\ up'[u].photo = up[u].photo
  BY <1>3 DEF IInv, TypesOK, Ended
<1>5. TypesOK'
  BY <1>1, <1>2, <1>4 DEF IInv, TypesOK, PutFails
<1>6. StartedOK'
  BY <1>4 DEF IInv, StartedOK, PutFails
<1>7. Fresh(u) /\ \A v \in Uploads : ~Fresh(v) => v # u /\ ~Fresh(v)'
  BY <1>4 DEF Fresh, PutFails
<1>8. ASSUME NEW p \in Pictures, Recorded(p)' PROVE RowOK(p)'
  <2>1. Recorded(p) /\ RowOK(p) /\ row[p].id \in Uploads /\ row' = row /\ disowned' = disowned
    BY <1>8 DEF IInv, Recorded, TypesOK, Row, PutFails
  <2>2. row[p].id # u
    BY <1>7, <2>1 DEF RowOK
  <2> QED BY <1>1, <1>4, <1>7, <2>1, <2>2 DEF RowOK, Objects
<1>9. DeletingOK'
  BY <1>7 DEF IInv, DeletingOK, TypesOK, Recorded, Object, PutFails
<1>10. InsertOK'
  BY <1>1, <1>4 DEF IInv, InsertOK, Objects
<1> QED BY <1>5, <1>6, <1>8, <1>9, <1>10 DEF IInv

LEMMA CleanupKeeps == ASSUME IInv, NEW u \in Uploads, Cleanup(u) PROVE IInv'
<1>1. up[u] \in Upload /\ Objects(u, up[u].thumb) \subseteq Object
      /\ \A o \in Objects(u, up[u].thumb) : o.upload = u
  BY ObjectsType DEF IInv, TypesOK, Upload
<1>2. store' \subseteq store /\ \A o \in store : o.upload # u => o \in store'
  BY <1>1 DEF Cleanup
<1>3. /\ up' \in [Uploads -> Upload]
      /\ \A v \in Uploads \ {u} : up'[v] = up[v]
      /\ up'[u].photo = up[u].photo
      /\ up'[u].step \in {"check", "done"}
      /\ ~Fresh(u) => up'[u].step = "done"
  <2>1. CASE up[u].answer = "none"
    <3>1. up' = [up EXCEPT ![u].step = "check"]
      BY <2>1 DEF Cleanup, Goto
    <3>2. Fresh(u)
      BY <2>1 DEF Cleanup, Fresh
    <3> QED BY <1>1, <3>1, <3>2 DEF IInv, TypesOK, Upload, UploadSteps
  <2>2. CASE up[u].answer # "none"
    <3>1. up' = [up EXCEPT ![u] = Ended(u, up[u].answer)]
      BY <2>2 DEF Cleanup, Answer
    <3>2. Ended(u, up[u].answer) \in Upload
      BY <1>1 DEF Ended, Upload, UploadSteps
    <3> QED BY <1>1, <3>1, <3>2 DEF IInv, TypesOK, Ended
  <2> QED BY <2>1, <2>2
<1>4. TypesOK'
  BY <1>2, <1>3 DEF IInv, TypesOK, Cleanup
<1>5. StartedOK'
  BY <1>3 DEF IInv, StartedOK, Cleanup
<1>6. \A v \in Uploads : ~Fresh(v) => ~Fresh(v)'
  BY <1>3 DEF Fresh
<1>7. ASSUME NEW p \in Pictures, Recorded(p)' PROVE RowOK(p)'
  <2>1. /\ Recorded(p) /\ RowOK(p) /\ row' = row /\ disowned' = disowned
        /\ row[p].id \in Uploads /\ row[p].thumb \in BOOLEAN
    BY <1>7 DEF IInv, Recorded, TypesOK, Row, Cleanup
  <2>2. ~Fresh(row[p].id)' /\ up'[row[p].id].photo = p
    BY <1>3, <1>6, <2>1 DEF RowOK
  <2>3. CASE row[p].id \in disowned
    BY <2>1, <2>2, <2>3 DEF RowOK, Fresh
  <2>4. CASE row[p].id \notin disowned
    <3>1. row[p].id # u
      BY <2>1, <2>4 DEF RowOK, Cleanup
    <3>2. Objects(row[p].id, row[p].thumb) \subseteq store'
      BY <1>2, <2>1, <2>4, <3>1, ObjectsType DEF RowOK
    <3> QED BY <1>3, <2>1, <2>2, <2>4, <3>1, <3>2 DEF RowOK, Fresh, Objects
  <2> QED BY <2>3, <2>4
<1>8. DeletingOK'
  BY <1>6 DEF IInv, DeletingOK, TypesOK, Recorded, Object, Cleanup
<1>9. InsertOK'
  <2> SUFFICES ASSUME NEW v \in Uploads, up'[v].step = "insert"
               PROVE  Objects(v, up'[v].thumb) \subseteq store'
    BY DEF InsertOK, Objects
  <2>1. v # u /\ up'[v] = up[v] /\ up[v].thumb \in BOOLEAN
    BY <1>3 DEF IInv, TypesOK, Upload
  <2> QED BY <1>2, <2>1, ObjectsType DEF IInv, InsertOK
<1> QED BY <1>4, <1>5, <1>7, <1>8, <1>9 DEF IInv

LEMMA RemoveObjectKeeps == ASSUME IInv, NEW o \in Object, RemoveObject(o) PROVE IInv'
<1>1. /\ store \ {o} \subseteq store' /\ store' \subseteq store
      /\ deleting' = deleting \ {o} /\ o \in deleting
      /\ UNCHANGED <<row, up, disowned>>
  BY DEF RemoveObject
<1>2. TypesOK' /\ StartedOK' /\ DeletingOK'
  BY <1>1 DEF IInv, TypesOK, StartedOK, DeletingOK, Recorded, Fresh
<1>3. ASSUME NEW p \in Pictures, Recorded(p)' PROVE RowOK(p)'
  <2>1. /\ Recorded(p) /\ RowOK(p) /\ row[p].id # o.upload
        /\ row[p].id \in Uploads /\ row[p].thumb \in BOOLEAN
    BY <1>1, <1>3 DEF IInv, DeletingOK, Recorded, TypesOK, Row
  <2>2. Objects(row[p].id, row[p].thumb) \subseteq store
          => Objects(row[p].id, row[p].thumb) \subseteq store'
    BY <1>1, <2>1, ObjectsType
  <2> QED BY <1>1, <2>1, <2>2 DEF RowOK, Fresh, Objects
<1>4. InsertOK'
  <2> SUFFICES ASSUME NEW v \in Uploads, up[v].step = "insert"
               PROVE  Objects(v, up[v].thumb) \subseteq store'
    BY <1>1 DEF InsertOK, Objects
  <2>1. up[v].thumb \in BOOLEAN /\ v # o.upload
    BY <1>1 DEF IInv, TypesOK, Upload, DeletingOK, Fresh
  <2> QED BY <1>1, <2>1, ObjectsType DEF IInv, InsertOK
<1> QED BY <1>2, <1>3, <1>4 DEF IInv

\* The two that write a new row.
LEMMA WriteKeeps ==
  ASSUME IInv, NEW u \in Uploads, up[u].step = "insert", Write(u),
         NEW step \in {"redact", "fields", "cleanup"}, NEW answer \in Answers,
         up' = [up EXCEPT ![u].step = step, ![u].answer = answer],
         step = "cleanup" => answer # "none" /\ u \in disowned',
         UNCHANGED <<store, deleting>>, disowned \subseteq disowned'
  PROVE  IInv'
<1>1. /\ up[u] \in Upload /\ up[u].photo \in Pictures
      /\ Objects(u, up[u].thumb) \subseteq store
  BY DEF IInv, TypesOK, StartedOK, InsertOK
<1>2. /\ up' \in [Uploads -> Upload]
      /\ \A v \in Uploads \ {u} : up'[v] = up[v]
      /\ up'[u].step = step /\ up'[u].answer = answer /\ up'[u].photo = up[u].photo
  BY <1>1 DEF IInv, TypesOK, Upload, UploadSteps
<1>3. row' \in [Pictures -> Row \cup {NoRecord}] /\ row'[up[u].photo] = NewRow(u)
      /\ \A p \in Pictures : p # up[u].photo => row'[p] = row[p]
  BY <1>1 DEF IInv, TypesOK, Write, NewRow, Row, Upload
<1>4. TypesOK' /\ StartedOK' /\ InsertOK'
  BY <1>1, <1>2, <1>3 DEF IInv, TypesOK, StartedOK, InsertOK, Objects
<1>5. Fresh(u) /\ ~Fresh(u)' /\ \A v \in Uploads : ~Fresh(v) => v # u /\ ~Fresh(v)'
  BY <1>2 DEF Fresh
<1>6. ASSUME NEW p \in Pictures, Recorded(p)' PROVE RowOK(p)'
  <2>1. CASE p = up[u].photo
    BY <1>1, <1>2, <1>3, <1>5, <2>1 DEF RowOK, NewRow, Objects
  <2>2. CASE p # up[u].photo
    <3>1. Recorded(p) /\ RowOK(p) /\ row[p].id \in Uploads /\ row'[p] = row[p]
      BY <1>3, <1>6, <2>2 DEF IInv, Recorded, TypesOK, Row
    <3>2. row[p].id # u
      BY <1>5, <3>1 DEF RowOK
    <3> QED BY <1>2, <1>5, <3>1, <3>2 DEF RowOK, Objects
  <2> QED BY <2>1, <2>2
<1>7. DeletingOK'
  <2> SUFFICES ASSUME NEW o \in deleting
               PROVE  ~Fresh(o.upload)' /\ \A p \in Pictures : Recorded(p)' => row'[p].id # o.upload
    BY DEF DeletingOK
  <2>1. o.upload \in Uploads /\ ~Fresh(o.upload)
        /\ \A p \in Pictures : Recorded(p) => row[p].id # o.upload
    BY DEF IInv, DeletingOK, TypesOK, Object
  <2>2. o.upload # u /\ ~Fresh(o.upload)'
    BY <1>5, <2>1
  <2> QED BY <1>3, <2>1, <2>2 DEF Recorded, NewRow
<1> QED BY <1>4, <1>6, <1>7 DEF IInv

LEMMA InsertKeeps == ASSUME IInv, NEW u \in Uploads, Insert(u) PROVE IInv'
<1>1. PICK step \in {"redact", "fields"} : Goto(u, step)
  BY DEF Insert
<1>2. up[u] \in Upload
  BY DEF IInv, TypesOK
<1>3. up' = [up EXCEPT ![u].step = step, ![u].answer = up[u].answer] /\ up[u].answer \in Answers
  BY <1>1, <1>2 DEF Goto, IInv, TypesOK, Upload
<1> QED BY <1>3, WriteKeeps DEF Insert

LEMMA InsertUnknownKeeps == ASSUME IInv, NEW u \in Uploads, InsertUnknown(u) PROVE IInv'
<1>1. up' = [up EXCEPT ![u].step = "cleanup", ![u].answer = "error"] /\ "error" \in Answers
  BY DEF InsertUnknown, CleanUp, Answers
<1> QED BY <1>1, WriteKeeps DEF InsertUnknown

LEMMA RedactFailsKeeps == ASSUME IInv, NEW u \in Uploads, RedactFails(u) PROVE IInv'
<1>1. /\ up[u] \in Upload /\ up[u].photo \in Pictures /\ ~Fresh(u)
      /\ u \in disowned' /\ disowned \subseteq disowned' /\ UNCHANGED <<row, store, deleting>>
  BY DEF IInv, TypesOK, StartedOK, RedactFails, Fresh
<1>2. /\ up' \in [Uploads -> Upload]
      /\ \A v \in Uploads \ {u} : up'[v] = up[v]
      /\ up'[u].step = "cleanup" /\ up'[u].answer = "error" /\ up'[u].photo = up[u].photo
  BY <1>1 DEF IInv, TypesOK, RedactFails, CleanUp, Upload, UploadSteps, Answers
<1>3. TypesOK' /\ StartedOK' /\ InsertOK'
  BY <1>1, <1>2 DEF IInv, TypesOK, StartedOK, InsertOK, Objects
<1>4. \A v \in Uploads : ~Fresh(v) => ~Fresh(v)'
  BY <1>1, <1>2 DEF Fresh
<1>5. ASSUME NEW p \in Pictures, Recorded(p)' PROVE RowOK(p)'
  <2>1. Recorded(p) /\ RowOK(p) /\ row[p].id \in Uploads
    BY <1>1, <1>5 DEF IInv, Recorded, TypesOK, Row
  <2> QED BY <1>1, <1>2, <1>4, <2>1 DEF RowOK, Objects
<1>6. DeletingOK'
  BY <1>1, <1>4 DEF IInv, DeletingOK, TypesOK, Recorded, Object
<1> QED BY <1>3, <1>5, <1>6 DEF IInv

\* The values are written to the row the call has made.
LEMMA WriteFieldsKeeps == ASSUME IInv, NEW u \in Uploads, WriteFields(u) PROVE IInv'
<1>1. /\ up[u] \in Upload /\ up[u].photo \in Pictures /\ ~Fresh(u)
      /\ UNCHANGED <<store, deleting, disowned>>
  BY DEF IInv, TypesOK, StartedOK, WriteFields, Fresh
<1>2. /\ up' \in [Uploads -> Upload]
      /\ \A v \in Uploads \ {u} : up'[v] = up[v]
      /\ up'[u].step \in {"read", "done"} /\ up'[u].photo = up[u].photo
  <2>1. CASE up' = [up EXCEPT ![u].step = "read", ![u].found = u]
    BY <1>1, <2>1 DEF IInv, TypesOK, Upload, UploadSteps
  <2>2. CASE up' = [up EXCEPT ![u] = Ended(u, "error")]
    <3>1. Ended(u, "error") \in Upload
      BY <1>1 DEF Ended, Upload, UploadSteps, Answers
    <3> QED BY <1>1, <2>2, <3>1 DEF IInv, TypesOK, Ended
  <2> QED BY <2>1, <2>2 DEF WriteFields, Answer
<1>3. /\ row' \in [Pictures -> Row \cup {NoRecord}]
      /\ \A p \in Pictures : Recorded(p)' => Recorded(p) /\ row'[p].id = row[p].id
                                             /\ row'[p].thumb = row[p].thumb
  <2>1. CASE row' = row
    BY <2>1 DEF IInv, TypesOK, Recorded
  <2>2. CASE /\ Recorded(up[u].photo)
             /\ row' = [row EXCEPT ![up[u].photo].fields = TRUE]
    <3>1. row[up[u].photo] \in Row
      BY <1>1, <2>2 DEF IInv, TypesOK, Recorded
    <3> QED BY <1>1, <2>2, <3>1 DEF IInv, TypesOK, Recorded, Row
  <2> QED BY <2>1, <2>2 DEF WriteFields
<1>4. TypesOK' /\ StartedOK' /\ InsertOK'
  BY <1>1, <1>2, <1>3 DEF IInv, TypesOK, StartedOK, InsertOK, Objects
<1>5. \A v \in Uploads : ~Fresh(v) => ~Fresh(v)'
  BY <1>1, <1>2 DEF Fresh
<1>6. ASSUME NEW p \in Pictures, Recorded(p)' PROVE RowOK(p)'
  <2>1. Recorded(p) /\ RowOK(p) /\ row[p].id \in Uploads
    BY <1>3, <1>6 DEF IInv, Recorded, TypesOK, Row
  <2> QED BY <1>1, <1>2, <1>3, <1>5, <1>6, <2>1 DEF RowOK, Objects
<1>7. DeletingOK'
  BY <1>1, <1>3, <1>5 DEF IInv, DeletingOK, TypesOK, Object
<1> QED BY <1>4, <1>6, <1>7 DEF IInv

\* No other row has the id of the one that is deleted.
LEMMA RemoveKeeps == ASSUME IInv, NEW p \in Pictures, Remove(p) PROVE IInv'
<1>1. /\ Recorded(p) /\ RowOK(p) /\ row[p].id \in Uploads /\ row[p].thumb \in BOOLEAN
      /\ UNCHANGED <<store, up, disowned>>
      /\ deleting' \subseteq deleting \cup ObjectsOf(p)
  BY DEF IInv, Remove, Recorded, TypesOK, Row
<1>2. /\ row' \in [Pictures -> Row \cup {NoRecord}]
      /\ \A q \in Pictures : Recorded(q)' => q # p /\ Recorded(q) /\ row'[q] = row[q]
  BY DEF IInv, TypesOK, Remove, Recorded
<1>3. ObjectsOf(p) \subseteq Object /\ \A o \in ObjectsOf(p) : o.upload = row[p].id
  BY <1>1, ObjectsType DEF ObjectsOf
<1>4. TypesOK' /\ StartedOK' /\ InsertOK'
  BY <1>1, <1>2, <1>3 DEF IInv, TypesOK, StartedOK, InsertOK, Objects
<1>5. ASSUME NEW q \in Pictures, Recorded(q)' PROVE RowOK(q)'
  BY <1>1, <1>2, <1>5 DEF IInv, RowOK, Fresh, Objects
<1>6. DeletingOK'
  <2> SUFFICES ASSUME NEW o \in deleting'
               PROVE  ~Fresh(o.upload) /\ \A q \in Pictures : Recorded(q)' => row'[q].id # o.upload
    BY <1>1 DEF DeletingOK, Fresh
  <2>1. CASE o \in deleting
    BY <1>2, <2>1 DEF IInv, DeletingOK
  <2>2. CASE o \in ObjectsOf(p)
    BY <1>1, <1>2, <1>3, <2>2 DEF IInv, RowOK
  <2> QED BY <1>1, <2>1, <2>2
<1> QED BY <1>4, <1>5, <1>6 DEF IInv

LEMMA CrashKeeps == ASSUME IInv, Crash PROVE IInv'
<1>1. /\ \A u \in Uploads : up'[u] = up[u] \/ (up'[u] = Ended(u, "none") /\ up[u].step # "new")
      /\ \A u \in Uploads : up[u].step = "new" \/ up'[u].step = "done"
      /\ deleting' = {} /\ UNCHANGED <<row, store, disowned>>
      /\ DOMAIN up' = Uploads
      /\ up' = [u \in Uploads |-> up'[u]]
  BY DEF Crash, Ended
<1>2. \A u \in Uploads : up[u] \in Upload /\ Ended(u, "none") \in Upload
                         /\ Ended(u, "none").step = "done" /\ Ended(u, "none").photo = up[u].photo
  BY DEF IInv, TypesOK, Upload, Ended, UploadSteps, Answers
<1>3. TypesOK' /\ StartedOK' /\ DeletingOK'
  BY <1>1, <1>2 DEF IInv, TypesOK, StartedOK, DeletingOK
<1>4. InsertOK'
  BY <1>1 DEF InsertOK
<1>5. \A u \in Uploads : ~Fresh(u) => up'[u].step = "done" /\ up'[u].photo = up[u].photo
  BY <1>1, <1>2 DEF Fresh
<1>6. ASSUME NEW p \in Pictures, Recorded(p)' PROVE RowOK(p)'
  <2>1. Recorded(p) /\ RowOK(p) /\ row[p].id \in Uploads
    BY <1>1, <1>6 DEF IInv, Recorded, TypesOK, Row
  <2>2. up'[row[p].id].step = "done" /\ up'[row[p].id].photo = p
    BY <1>5, <2>1 DEF RowOK
  <2> QED BY <1>1, <2>1, <2>2 DEF RowOK, Fresh, Objects
<1> QED BY <1>3, <1>4, <1>6 DEF IInv

\* The steps that change only where a call stands.
LEMMA AnswerKeeps ==
  ASSUME IInv, NEW u \in Uploads, NEW answer \in Answers, Answer(u, answer),
         up[u].step # "new", UNCHANGED <<row, store, deleting, disowned>>
  PROVE  IInv'
<1>1. up[u] \in Upload /\ up[u].photo \in Pictures
  BY DEF IInv, TypesOK, StartedOK
<1>2. Ended(u, answer) \in Upload /\ Ended(u, answer).step = "done"
      /\ Ended(u, answer).photo = up[u].photo
  BY <1>1 DEF Ended, Upload, UploadSteps
<1> QED BY <1>1, <1>2, OnlyU DEF Answer

LEMMA GotoKeeps ==
  ASSUME IInv, NEW u \in Uploads, NEW r \in Upload, up' = [up EXCEPT ![u] = r],
         r.step = "new" \/ r.photo \in Pictures, r.step # "insert", Fresh(u),
         UNCHANGED <<row, store, deleting, disowned>>
  PROVE  IInv'
BY OnlyU

LEMMA StartKeeps == ASSUME IInv, NEW u \in Uploads, NEW p \in Pictures, Start(u, p) PROVE IInv'
<1>1. up[u] \in Upload /\ Fresh(u)
  BY DEF IInv, TypesOK, Start, Fresh
<1>2. CASE \E fielded \in BOOLEAN :
             up' = [up EXCEPT ![u].step = "check", ![u].photo = p, ![u].fielded = fielded]
  <2>1. PICK fielded \in BOOLEAN :
             up' = [up EXCEPT ![u].step = "check", ![u].photo = p, ![u].fielded = fielded]
    BY <1>2
  <2> DEFINE r == [up[u] EXCEPT !.step = "check", !.photo = p, !.fielded = fielded]
  <2>2. r \in Upload /\ r.photo \in Pictures /\ r.step # "insert" /\ up' = [up EXCEPT ![u] = r]
    BY <1>1, <2>1 DEF IInv, TypesOK, Upload, UploadSteps
  <2> HIDE DEF r
  <2> QED BY <1>1, <2>2, GotoKeeps DEF Start
<1>3. CASE up' = [up EXCEPT ![u].step = "done", ![u].photo = p, ![u].answer = "refused"]
  <2> DEFINE r == [up[u] EXCEPT !.step = "done", !.photo = p, !.answer = "refused"]
  <2>1. r \in Upload /\ r.photo \in Pictures /\ r.step # "insert" /\ up' = [up EXCEPT ![u] = r]
    BY <1>1, <1>3 DEF IInv, TypesOK, Upload, UploadSteps, Answers
  <2> HIDE DEF r
  <2> QED BY <1>1, <2>1, GotoKeeps DEF Start
<1> QED BY <1>2, <1>3 DEF Start

LEMMA CheckKeeps == ASSUME IInv, NEW u \in Uploads, Check(u) PROVE IInv'
<1>1. up[u] \in Upload /\ up[u].photo \in Pictures /\ Fresh(u)
  BY DEF IInv, TypesOK, StartedOK, Check, Fresh
<1>2. CASE /\ Recorded(up[u].photo)
           /\ up' = [up EXCEPT ![u].step = "read", ![u].found = row[up[u].photo].id]
  <2> DEFINE r == [up[u] EXCEPT !.step = "read", !.found = row[up[u].photo].id]
  <2>1. row[up[u].photo].id \in Uploads
    BY <1>1, <1>2 DEF IInv, TypesOK, Recorded, Row
  <2>2. r \in Upload /\ r.photo \in Pictures /\ r.step # "insert" /\ up' = [up EXCEPT ![u] = r]
    BY <1>1, <1>2, <2>1 DEF Upload, UploadSteps
  <2> HIDE DEF r
  <2> QED BY <1>1, <2>2, GotoKeeps DEF Check
<1>3. CASE Answer(u, "error")
  BY <1>3, AnswerKeeps DEF Check, Answers
<1>4. CASE Goto(u, "put")
  <2> DEFINE r == [up[u] EXCEPT !.step = "put"]
  <2>1. r \in Upload /\ r.photo \in Pictures /\ r.step # "insert" /\ up' = [up EXCEPT ![u] = r]
    BY <1>1, <1>4 DEF Goto, Upload, UploadSteps
  <2> HIDE DEF r
  <2> QED BY <1>1, <2>1, GotoKeeps DEF Check
<1> QED BY <1>2, <1>3, <1>4 DEF Check

LEMMA ReadKeeps == ASSUME IInv, NEW u \in Uploads, Read(u) \/ ReadFails(u) PROVE IInv'
<1>1. \E answer \in Answers : Answer(u, answer)
  BY DEF Read, ReadFails, Answers
<1> QED BY <1>1, AnswerKeeps DEF Read, ReadFails

\* A call whose insert was refused, and one that goes on to the field values.
LEMMA StayKeeps ==
  ASSUME IInv, NEW u \in Uploads,
         Conflict(u) \/ Unknown(u) \/ InsertFails(u) \/ RedactPhoto(u)
  PROVE  IInv'
<1>1. up[u] \in Upload /\ up[u].photo \in Pictures
      /\ UNCHANGED <<row, store, deleting, disowned>>
  BY DEF IInv, TypesOK, StartedOK, Conflict, Unknown, InsertFails, RedactPhoto
<1>2. CASE Conflict(u)
  <2> DEFINE r == [up[u] EXCEPT !.step = "cleanup", !.tried = TRUE]
  <2>1. r \in Upload /\ r.photo \in Pictures /\ r.step # "insert" /\ up' = [up EXCEPT ![u] = r]
    BY <1>1, <1>2 DEF Conflict, Upload, UploadSteps
  <2>2. Fresh(u)
    BY <1>2 DEF Conflict, Fresh
  <2> HIDE DEF r
  <2> QED BY <1>1, <2>1, <2>2, GotoKeeps
<1>3. CASE Unknown(u) \/ InsertFails(u)
  <2>1. PICK answer \in {"refused", "error"} : CleanUp(u, answer)
    BY <1>3 DEF Unknown, InsertFails
  <2> DEFINE r == [up[u] EXCEPT !.step = "cleanup", !.answer = answer]
  <2>2. r \in Upload /\ r.photo \in Pictures /\ r.step # "insert" /\ up' = [up EXCEPT ![u] = r]
    BY <1>1, <2>1 DEF CleanUp, Upload, UploadSteps, Answers
  <2>3. Fresh(u)
    BY <1>3 DEF Unknown, InsertFails, Fresh
  <2> HIDE DEF r
  <2> QED BY <1>1, <2>2, <2>3, GotoKeeps
<1>4. CASE RedactPhoto(u)
  <2> DEFINE r == [up[u] EXCEPT !.step = "fields"]
  <2>1. r \in Upload /\ r.photo = up[u].photo /\ r.step = "fields" /\ up' = [up EXCEPT ![u] = r]
    BY <1>1, <1>4 DEF RedactPhoto, Goto, Upload, UploadSteps
  <2> HIDE DEF r
  <2> QED BY <1>1, <2>1, OnlyU
<1> QED BY <1>2, <1>3, <1>4

LEMMA CallKeeps == ASSUME IInv, NEW u \in Uploads, Call(u) PROVE IInv'
BY StartKeeps, CheckKeeps, ReadKeeps, PutKeeps, PutFailsKeeps, InsertKeeps, StayKeeps,
   InsertUnknownKeeps, RedactFailsKeeps, CleanupKeeps, WriteFieldsKeeps DEF Call

LEMMA NextIInv == ASSUME IInv, [UploadNext]_uploadVars PROVE IInv'
<1>1. CASE UNCHANGED uploadVars
  BY <1>1 DEF uploadVars, IInv, TypesOK, StartedOK, RowOK, DeletingOK, InsertOK, Fresh, Recorded, Objects
<1>2. CASE UploadNext
  BY <1>2, CallKeeps, RemoveKeeps, RemoveObjectKeeps, CrashKeeps DEF UploadNext
<1> QED BY <1>1, <1>2

LEMMA Invariance == UploadSpec => []IInv
BY InitIInv, NextIInv, PTL DEF UploadSpec

-----------------------------------------------------------------------------
\* A record in the archive has its objects in the store, unless its own call
\* took the committed insert for failed (savePhoto, Repo.Insert, deleteRecord).
THEOREM RecordsKeepTheirObjects == UploadSpec => []RowHasObjects
<1>1. ASSUME IInv PROVE RowHasObjects
  BY <1>1 DEF IInv, RowHasObjects, RowOK, ObjectsOf
<1> QED BY <1>1, Invariance, PTL

-----------------------------------------------------------------------------
\* What the answers rest on: no call that cleans up is about to answer that the
\* photo is stored, and one that reads back its own row has written its values.
AnswersOK ==
  \A u \in Uploads :
    /\ up[u].step = "cleanup" => up[u].answer \in {"none", "refused", "error"}
    /\ up[u].step # "done" /\ up[u].step # "cleanup" => up[u].answer = "none"
    /\ up[u].step = "read" /\ up[u].found = u /\ up[u].fielded
         => \A p \in Pictures : Recorded(p) /\ row[p].id = u => row[p].fields

\* The steps of a call keep what the other calls' answers rest on.
LEMMA OthersAnswersOK ==
  ASSUME AnswersOK, NEW u \in Uploads,
         \A v \in Uploads \ {u} : up'[v] = up[v],
         \A p \in Pictures : Recorded(p)' => \/ row'[p].id = u
                                             \/ Recorded(p) /\ row'[p].id = row[p].id
                                                /\ row'[p].fields = row[p].fields,
         /\ up'[u].step = "cleanup" => up'[u].answer \in {"none", "refused", "error"}
         /\ up'[u].step # "done" /\ up'[u].step # "cleanup" => up'[u].answer = "none"
         /\ up'[u].step = "read" /\ up'[u].found = u /\ up'[u].fielded
              => \A p \in Pictures : Recorded(p)' /\ row'[p].id = u => row'[p].fields
  PROVE  AnswersOK'
BY DEF AnswersOK, Recorded

LEMMA CallAnswersOK == ASSUME IInv, AnswersOK, NEW u \in Uploads, Call(u) PROVE AnswersOK'
<1> USE DEF IInv, TypesOK, Upload
<1>1. CASE \E p \in Pictures : Start(u, p)
  <2>1. /\ up'[u].step \in {"check", "done"} /\ (up'[u].step = "check" => up'[u].answer = "none")
        /\ \A v \in Uploads \ {u} : up'[v] = up[v]
        /\ row' = row
    BY <1>1 DEF Start, AnswersOK
  <2> QED BY <2>1, OthersAnswersOK DEF Recorded
<1>2. CASE Check(u)
  <2>1. /\ up'[u].step \in {"read", "put", "done"}
        /\ up'[u].step # "done" => up'[u].answer = "none"
        /\ \A v \in Uploads \ {u} : up'[v] = up[v]
        /\ row' = row
    BY <1>2 DEF Check, Answer, Goto, Ended, AnswersOK
  <2>2. up'[u].step = "read" => up'[u].found # u
    <3> SUFFICES ASSUME Recorded(up[u].photo),
                        up' = [up EXCEPT ![u].step = "read", ![u].found = row[up[u].photo].id]
                 PROVE  up'[u].found # u
      BY <1>2 DEF Check, Answer, Goto, Ended
    <3>1. up[u].photo \in Pictures /\ Fresh(u)
      BY <1>2 DEF Check, StartedOK, Fresh
    <3>2. row[up[u].photo].id # u
      BY <3>1 DEF RowOK
    <3> QED BY <3>2
  <2> QED BY <2>1, <2>2, OthersAnswersOK DEF Recorded
<1>3. CASE Read(u) \/ ReadFails(u) \/ PutFails(u)
  <2>1. up'[u].step = "done" /\ (\A v \in Uploads \ {u} : up'[v] = up[v]) /\ row' = row
    <3>1. (\E answer \in Answers : Answer(u, answer)) /\ row' = row
      BY <1>3 DEF Read, ReadFails, PutFails, Answers
    <3> QED BY <3>1 DEF Answer, Ended
  <2> QED BY <2>1, OthersAnswersOK DEF Recorded
<1>4. CASE Put(u) \/ Conflict(u) \/ RedactPhoto(u)
  <2>1. /\ up'[u].step \in {"insert", "cleanup", "fields"} /\ up'[u].answer = "none"
        /\ (\A v \in Uploads \ {u} : up'[v] = up[v]) /\ row' = row
    BY <1>4 DEF Put, Conflict, RedactPhoto, Goto, AnswersOK
  <2> QED BY <2>1, OthersAnswersOK DEF Recorded
<1>5. CASE Unknown(u) \/ InsertFails(u) \/ RedactFails(u)
  <2>1. /\ up'[u].step = "cleanup" /\ up'[u].answer \in {"refused", "error"}
        /\ (\A v \in Uploads \ {u} : up'[v] = up[v]) /\ row' = row
    BY <1>5 DEF Unknown, InsertFails, RedactFails, CleanUp
  <2> QED BY <2>1, OthersAnswersOK DEF Recorded
<1>6. CASE Insert(u) \/ InsertUnknown(u)
  <2>1. /\ \/ up'[u].step \in {"redact", "fields"} /\ up'[u].answer = "none"
           \/ up'[u].step = "cleanup" /\ up'[u].answer = "error"
        /\ \A v \in Uploads \ {u} : up'[v] = up[v]
    BY <1>6 DEF Insert, InsertUnknown, Goto, CleanUp, AnswersOK
  <2>2. \A p \in Pictures : Recorded(p)' => \/ row'[p].id = u
                                            \/ Recorded(p) /\ row'[p] = row[p]
    BY <1>6 DEF Insert, InsertUnknown, Write, NewRow, Recorded
  <2> QED BY <2>1, <2>2, OthersAnswersOK
<1>7. CASE Cleanup(u)
  <2>1. /\ up'[u].step \in {"check", "done"} /\ (up'[u].step = "check" => up'[u].answer = "none")
        /\ \A v \in Uploads \ {u} : up'[v] = up[v]
        /\ row' = row
    BY <1>7 DEF Cleanup, Goto, Answer, Ended
  <2> QED BY <2>1, OthersAnswersOK DEF Recorded
<1>8. CASE WriteFields(u)
  <2>1. up[u].answer = "none" /\ up[u].photo \in Pictures
    BY <1>8 DEF WriteFields, AnswersOK, StartedOK
  <2>2. CASE Answer(u, "error") /\ row' = row
    <3>1. up'[u].step = "done" /\ \A v \in Uploads \ {u} : up'[v] = up[v]
      BY <2>2 DEF Answer, Ended
    <3> QED BY <2>2, <3>1, OthersAnswersOK DEF Recorded
  <2>3. CASE /\ up' = [up EXCEPT ![u].step = "read", ![u].found = u]
             /\ ~up[u].fielded /\ row' = row
    <3>1. /\ up'[u].step = "read" /\ up'[u].answer = "none" /\ ~up'[u].fielded
          /\ \A v \in Uploads \ {u} : up'[v] = up[v]
      BY <2>1, <2>3
    <3> QED BY <2>3, <3>1, OthersAnswersOK DEF Recorded
  <2>4. CASE /\ up' = [up EXCEPT ![u].step = "read", ![u].found = u]
             /\ Recorded(up[u].photo) /\ row[up[u].photo].id = u
             /\ row' = [row EXCEPT ![up[u].photo].fields = TRUE]
    <3>1. /\ up'[u].step = "read" /\ up'[u].answer = "none"
          /\ \A v \in Uploads \ {u} : up'[v] = up[v]
      BY <2>1, <2>4
    <3>2. row[up[u].photo] \in Row
      BY <2>1, <2>4 DEF Recorded
    <3>3. /\ row'[up[u].photo].id = u /\ row'[up[u].photo].fields
          /\ \A p \in Pictures : p # up[u].photo => row'[p] = row[p]
      BY <2>1, <2>4, <3>2 DEF Row
    <3>4. \A p \in Pictures : Recorded(p) /\ row[p].id = u => p = up[u].photo
      BY <1>8 DEF RowOK
    <3> QED BY <3>1, <3>3, <3>4, OthersAnswersOK DEF Recorded
  <2> QED BY <1>8, <2>2, <2>3, <2>4 DEF WriteFields
<1> QED BY <1>1, <1>2, <1>3, <1>4, <1>5, <1>6, <1>7, <1>8 DEF Call

LEMMA NextAnswersOK == ASSUME IInv, AnswersOK, [UploadNext]_uploadVars PROVE AnswersOK'
<1>1. CASE UNCHANGED uploadVars
  BY <1>1 DEF uploadVars, AnswersOK, Recorded
<1>2. CASE \E p \in Pictures : Remove(p)
  BY <1>2 DEF Remove, AnswersOK, Recorded, IInv, TypesOK
<1>3. CASE \E o \in Object : RemoveObject(o)
  BY <1>3 DEF RemoveObject, AnswersOK, Recorded
<1>4. CASE Crash
  BY <1>4 DEF Crash, Ended, AnswersOK, Recorded
<1> QED BY <1>1, <1>2, <1>3, <1>4, CallAnswersOK DEF UploadNext

\* The one step that answers that the photo is in the archive is Read.
LEMMA ConfirmsIsRead ==
  ASSUME IInv, AnswersOK, [UploadNext]_uploadVars, NEW u \in Uploads, Confirms(u)
  PROVE  Read(u)
<1>1. up[u].step # "done" /\ up'[u].step = "done" /\ up'[u].answer \in {"created", "duplicate"}
      /\ up[u] \in Upload /\ up \in [Uploads -> Upload]
  BY DEF Confirms, IInv, TypesOK
<1>2. up' # up
  BY <1>1
<1>3. ~Crash
  BY <1>1 DEF Crash, Ended
<1>4. PICK v \in Uploads : Call(v)
  BY <1>2, <1>3 DEF UploadNext, uploadVars, Remove, RemoveObject
<1>5. v = u
  BY <1>1, <1>4 DEF Call, Start, Check, Read, ReadFails, Put, PutFails, Insert, Conflict, Unknown,
     InsertFails, InsertUnknown, RedactPhoto, RedactFails, Cleanup, WriteFields, Goto, Answer, CleanUp
<1>6. ~(\E p \in Pictures : Start(u, p))
  <2> SUFFICES ASSUME NEW p \in Pictures, Start(u, p) PROVE FALSE
    OBVIOUS
  <2>1. up'[u].step = "check" \/ up'[u].answer = "refused"
    BY <1>1 DEF Start, Upload
  <2> QED BY <1>1, <2>1
<1>7. ~(Check(u) \/ ReadFails(u) \/ Put(u) \/ PutFails(u) \/ WriteFields(u))
  <2>1. ~Answer(u, "error")
    BY <1>1 DEF Answer, Ended
  <2>2. ~Check(u)
    BY <1>1, <2>1 DEF Check, Goto, Upload
  <2>3. ~Put(u)
    BY <1>1 DEF Put, Upload
  <2>4. ~WriteFields(u)
    BY <1>1, <2>1 DEF WriteFields, Upload
  <2> QED BY <2>1, <2>2, <2>3, <2>4 DEF ReadFails, PutFails
<1>8. ~(Insert(u) \/ Conflict(u) \/ Unknown(u) \/ InsertFails(u) \/ InsertUnknown(u)
        \/ RedactPhoto(u) \/ RedactFails(u))
  BY <1>1 DEF Insert, Conflict, Unknown, InsertFails, InsertUnknown, RedactPhoto, RedactFails,
     Goto, CleanUp, Upload
<1>9. ~Cleanup(u)
  BY <1>1 DEF Cleanup, Goto, Answer, Ended, AnswersOK, Upload
<1> QED BY <1>4, <1>5, <1>6, <1>7, <1>8, <1>9 DEF Call

\* Who is answered that the photo is in the archive finds its record and its
\* original there, and a created record holds the values that were sent
\* (savePhoto); the exception is that of RecordsKeepTheirObjects.
THEOREM AnswersAreTrue == UploadSpec => AnsweredIsStored
<1>1. UploadInit => AnswersOK
  BY DEF UploadInit, AnswersOK
<1>2. IInv /\ AnswersOK /\ [UploadNext]_uploadVars => AnswersOK'
  BY NextAnswersOK
<1> DEFINE Goal == \A u \in Uploads : Confirms(u) =>
             LET r == row'[up'[u].photo] IN
               /\ r # NoRecord
               /\ [upload |-> r.id, kind |-> "orig"] \in store' \/ r.id \in disowned'
               /\ up'[u].answer = "created" => r.id = u /\ (up[u].fielded => r.fields)
<1>3. ASSUME IInv, AnswersOK, [UploadNext]_uploadVars PROVE Goal
  <2> SUFFICES ASSUME NEW u \in Uploads, Confirms(u)
      PROVE  LET r == row'[up'[u].photo] IN
               /\ r # NoRecord
               /\ [upload |-> r.id, kind |-> "orig"] \in store' \/ r.id \in disowned'
               /\ up'[u].answer = "created" => r.id = u /\ (up[u].fielded => r.fields)
    OBVIOUS
  <2> DEFINE p == up[u].photo
  <2>1. Read(u)
    BY <1>3, ConfirmsIsRead
  <2>2. /\ p \in Pictures /\ up[u] \in Upload /\ up'[u].answer \in {"created", "duplicate"}
        /\ up[u].step = "read" /\ UNCHANGED <<row, store, disowned>>
    BY <1>3, <2>1 DEF IInv, TypesOK, StartedOK, Read, Confirms
  <2>3. Recorded(p) /\ row[p].id = up[u].found
        /\ up' = [up EXCEPT ![u] = Ended(u, IF up[u].found = u THEN "created" ELSE "duplicate")]
    BY <1>3, <2>1, <2>2 DEF Read, Answer, Ended, IInv, TypesOK
  <2>4. up'[u].photo = p /\ (up'[u].answer = "created" => up[u].found = u)
    BY <1>3, <2>3 DEF Ended, IInv, TypesOK
  <2>5. RowOK(p) /\ row[p] \in Row
    BY <1>3, <2>2, <2>3 DEF IInv, TypesOK, Recorded
  <2>6. [upload |-> row[p].id, kind |-> "orig"] \in store \/ row[p].id \in disowned
    BY <2>5 DEF RowOK, Objects
  <2>7. up'[u].answer = "created" => row[p].id = u /\ (up[u].fielded => row[p].fields)
    BY <1>3, <2>2, <2>3, <2>4 DEF AnswersOK
  <2> QED BY <2>2, <2>3, <2>4, <2>6, <2>7 DEF Recorded
<1>4. [UploadNext]_uploadVars /\ IInv /\ AnswersOK => [Goal]_uploadVars
  BY <1>3
<1> HIDE DEF Goal
<1>5. UploadSpec => [][Goal]_uploadVars
  BY <1>1, <1>2, <1>4, Invariance, PTL DEF UploadSpec
<1> QED BY <1>5 DEF Goal, AnsweredIsStored

-----------------------------------------------------------------------------
\* Who answers for an object: the call that has put it and not yet inserted its
\* row or cleaned up, and only for the objects it knows it has put.
Held(u, o) == u \in Holding /\ o \in Objects(u, up[u].thumb)

Kept(o) == \/ \E p \in Pictures : Recorded(p) /\ o \in ObjectsOf(p)
           \/ \E u \in Uploads : Held(u, o)
           \/ o \in deleting
           \/ o \in leaked

\* Stronger than NoOrphans: a call that holds objects holds no others.
AllKept == \A o \in store : Kept(o)

\* A step of the call u: no row changes its objects, no other call is touched,
\* and what u puts or no longer holds is accounted for.
LEMMA CallKeepsAll ==
  ASSUME AllKept, NEW u \in Uploads,
         \A v \in Uploads \ {u} : up'[v] = up[v],
         \A p \in Pictures : Recorded(p) => Recorded(p)' /\ row'[p].id = row[p].id
                                            /\ row'[p].thumb = row[p].thumb,
         deleting' = deleting, leaked \subseteq leaked',
         \A o \in store' \ leaked' : o \in store \/ Held(u, o)',
         \A o \in store' \ leaked' : Held(u, o) => Kept(o)'
  PROVE  AllKept'
<1> SUFFICES ASSUME NEW o \in store', o \notin leaked' PROVE Kept(o)'
  BY DEF AllKept, Kept
<1>1. CASE Held(u, o)'
  BY <1>1 DEF Kept
<1>2. CASE o \in store /\ \E p \in Pictures : Recorded(p) /\ o \in ObjectsOf(p)
  BY <1>2 DEF Kept, ObjectsOf, Objects
<1>3. CASE o \in store /\ \E v \in Uploads : Held(v, o)
  <2>1. PICK v \in Uploads : Held(v, o)
    BY <1>3
  <2>2. CASE v = u
    BY <1>3, <2>1, <2>2
  <2>3. CASE v # u
    <3>1. Held(v, o)'
      BY <2>1, <2>3 DEF Held, Holding, Objects
    <3> QED BY <3>1 DEF Kept
  <2> QED BY <2>2, <2>3
<1>4. CASE o \in deleting \/ o \in leaked
  BY <1>4 DEF Kept
<1> QED BY <1>1, <1>2, <1>3, <1>4 DEF AllKept, Kept

\* The steps of a call that change neither row nor store, and go neither into nor
\* out of the time in which it holds objects.
LEMMA StandStillKeepsAll ==
  ASSUME AllKept, NEW u \in Uploads,
         \A v \in Uploads \ {u} : up'[v] = up[v],
         u \in Holding <=> u \in Holding',
         u \in Holding => up'[u].thumb = up[u].thumb,
         UNCHANGED <<row, store, deleting, leaked>>
  PROVE  AllKept'
<1>1. \A o \in store' : Held(u, o) => Held(u, o)'
  BY DEF Held, Objects
<1>2. \A o \in store' : Held(u, o) => Kept(o)'
  BY <1>1 DEF Kept
<1>3. \A p \in Pictures : Recorded(p) => Recorded(p)'
  BY DEF Recorded
<1> QED BY <1>2, <1>3, CallKeepsAll

LEMMA CallAllKept == ASSUME TypesOK, StartedOK, AllKept, NEW u \in Uploads, Call(u) PROVE AllKept'
<1> USE DEF TypesOK, Upload
<1>1. CASE \E p \in Pictures : Start(u, p)
  <2>1. PICK p \in Pictures : Start(u, p)
    BY <1>1
  <2>2. /\ \A v \in Uploads \ {u} : up'[v] = up[v]
        /\ up[u].step = "new" /\ up'[u].step \in {"check", "done"}
    BY <2>1 DEF Start
  <2> QED BY <2>1, <2>2, StandStillKeepsAll DEF Start, Holding
<1>2. CASE Check(u) \/ Read(u) \/ ReadFails(u)
  <2>1. /\ \A v \in Uploads \ {u} : up'[v] = up[v]
        /\ up[u].step \in {"check", "read"} /\ up'[u].step \in {"read", "put", "done"}
    BY <1>2 DEF Check, Read, ReadFails, Answer, Goto, Ended
  <2> QED BY <1>2, <2>1, StandStillKeepsAll DEF Check, Read, ReadFails, Holding
<1>3. CASE Put(u)
  <2>1. /\ \A v \in Uploads \ {u} : up'[v] = up[v]
        /\ up[u].step = "put" /\ up'[u].step = "insert"
        /\ up'[u].thumb = (up[u].photo \in Thumbable)
        /\ store' = store \cup Objects(u, up'[u].thumb)
        /\ UNCHANGED <<row, deleting, leaked>>
    BY <1>3 DEF Put
  <2>2. \A o \in Objects(u, up'[u].thumb) : Held(u, o)'
    BY <2>1 DEF Held, Holding, Objects
  <2>3. \A o \in store' \ leaked' : o \in store \/ Held(u, o)'
    BY <2>1, <2>2
  <2>4. \A o \in store' \ leaked' : ~Held(u, o)
    BY <2>1 DEF Held, Holding
  <2> QED BY <2>1, <2>3, <2>4, CallKeepsAll DEF Recorded
<1>4. CASE PutFails(u)
  <2>1. /\ \A v \in Uploads \ {u} : up'[v] = up[v]
        /\ up[u].step = "put"
        /\ store' \ leaked' \subseteq store /\ leaked \subseteq leaked'
        /\ UNCHANGED <<row, deleting>>
    BY <1>4 DEF PutFails, Answer
  <2>2. \A o \in store' \ leaked' : ~Held(u, o)
    BY <2>1 DEF Held, Holding
  <2> QED BY <2>1, <2>2, CallKeepsAll DEF Recorded
<1>5. CASE Insert(u) \/ InsertUnknown(u)
  <2>1. /\ \A v \in Uploads \ {u} : up'[v] = up[v]
        /\ up[u].step = "insert" /\ ~Recorded(up[u].photo)
        /\ row' = [row EXCEPT ![up[u].photo] = NewRow(u)]
        /\ UNCHANGED <<store, deleting, leaked>>
    BY <1>5 DEF Insert, InsertUnknown, Write, Goto, CleanUp
  <2>2. PICK p \in Pictures : p = up[u].photo
    BY <2>1 DEF StartedOK
  <2>3. /\ NewRow(u) \in Row /\ NewRow(u).id = u /\ NewRow(u).thumb = up[u].thumb
        /\ row'[p] = NewRow(u) /\ ~Recorded(p) /\ \A q \in Pictures : q # p => row'[q] = row[q]
    BY <2>1, <2>2 DEF NewRow, Row
  <2>4. \A o \in store' : Held(u, o) => Recorded(p)' /\ o \in ObjectsOf(p)'
    BY <2>3, UploadAssumption DEF Held, Recorded, ObjectsOf, Objects
  <2>5. \A o \in store' : Held(u, o) => Kept(o)'
    BY <2>4 DEF Kept
  <2>6. \A q \in Pictures : Recorded(q) => Recorded(q)' /\ row'[q].id = row[q].id
                                           /\ row'[q].thumb = row[q].thumb
    BY <2>3 DEF Recorded
  <2> QED BY <2>1, <2>5, <2>6, CallKeepsAll
<1>6. CASE Conflict(u) \/ Unknown(u) \/ InsertFails(u)
  <2>1. /\ \A v \in Uploads \ {u} : up'[v] = up[v]
        /\ up[u].step = "insert" /\ up'[u].step = "cleanup" /\ up'[u].thumb = up[u].thumb
    BY <1>6 DEF Conflict, Unknown, InsertFails, CleanUp
  <2> QED BY <1>6, <2>1, StandStillKeepsAll DEF Conflict, Unknown, InsertFails, Holding
<1>7. CASE RedactPhoto(u)
  <2>1. /\ \A v \in Uploads \ {u} : up'[v] = up[v]
        /\ up[u].step = "redact" /\ up'[u].step = "fields"
    BY <1>7 DEF RedactPhoto, Goto
  <2> QED BY <1>7, <2>1, StandStillKeepsAll DEF RedactPhoto, Holding
<1>8. CASE RedactFails(u)
  <2>1. /\ \A v \in Uploads \ {u} : up'[v] = up[v]
        /\ up[u].step = "redact"
        /\ UNCHANGED <<row, store, deleting, leaked>>
    BY <1>8 DEF RedactFails, CleanUp
  <2>2. \A o \in store' : ~Held(u, o)
    BY <2>1 DEF Held, Holding
  <2> QED BY <2>1, <2>2, CallKeepsAll DEF Recorded
<1>9. CASE Cleanup(u)
  <2> DEFINE mine == Objects(u, up[u].thumb)
  <2>1. /\ \A v \in Uploads \ {u} : up'[v] = up[v]
        /\ UNCHANGED <<row, deleting>>
    BY <1>9 DEF Cleanup, Goto, Answer
  <2>2. /\ store' \subseteq store /\ leaked \subseteq leaked'
        /\ \A o \in mine : o \in store' => o \in leaked'
    BY <1>9 DEF Cleanup
  <2>3. \A o \in store' \ leaked' : ~Held(u, o)
    BY <2>2 DEF Held
  <2> QED BY <2>1, <2>2, <2>3, CallKeepsAll DEF Recorded
<1>10. CASE WriteFields(u)
  <2>1. /\ \A v \in Uploads \ {u} : up'[v] = up[v]
        /\ up[u].step = "fields"
        /\ UNCHANGED <<store, deleting, leaked>>
    BY <1>10 DEF WriteFields, Answer
  <2>2. \A o \in store' : ~Held(u, o)
    BY <2>1 DEF Held, Holding
  <2>3. \A p \in Pictures : Recorded(p) => Recorded(p)' /\ row'[p].id = row[p].id
                                           /\ row'[p].thumb = row[p].thumb
    <3>1. CASE row' = row
      BY <3>1 DEF Recorded
    <3>2. CASE Recorded(up[u].photo) /\ row' = [row EXCEPT ![up[u].photo].fields = TRUE]
      <4>1. up[u].photo \in Pictures /\ row[up[u].photo] \in Row
        BY <2>1, <3>2 DEF StartedOK, Recorded
      <4>2. row'[up[u].photo] \in Row
        BY <3>2, <4>1 DEF Row
      <4> QED BY <3>2, <4>1, <4>2, UploadAssumption DEF Recorded, Row
    <3> QED BY <1>10, <3>1, <3>2 DEF WriteFields
  <2> QED BY <2>1, <2>2, <2>3, CallKeepsAll
<1> QED BY <1>1, <1>2, <1>3, <1>4, <1>5, <1>6, <1>7, <1>8, <1>9, <1>10 DEF Call

\* A deletion takes over the objects of the row, and gives each up for good or as
\* one a fault left behind.
LEMMA RemoveAllKept == ASSUME TypesOK, AllKept, NEW p \in Pictures, Remove(p) PROVE AllKept'
<1>1. /\ UNCHANGED <<store, up>>
      /\ \A q \in Pictures \ {p} : row'[q] = row[q]
      /\ deleting \subseteq deleting' /\ leaked \subseteq leaked'
      /\ \A o \in store : o \in ObjectsOf(p) => o \in deleting' \/ o \in leaked'
  BY DEF Remove, TypesOK
<1> SUFFICES ASSUME NEW o \in store, o \notin deleting', o \notin leaked' PROVE Kept(o)'
  BY <1>1 DEF AllKept, Kept
<1>2. CASE \E q \in Pictures : Recorded(q) /\ o \in ObjectsOf(q)
  BY <1>1, <1>2 DEF Kept, Recorded, ObjectsOf, Objects
<1>3. CASE \E u \in Uploads : Held(u, o)
  BY <1>1, <1>3 DEF Kept, Held, Holding, Objects
<1> QED BY <1>1, <1>2, <1>3 DEF AllKept, Kept

LEMMA RemoveObjectAllKept == ASSUME AllKept, NEW d \in Object, RemoveObject(d) PROVE AllKept'
<1>1. /\ UNCHANGED <<row, up>>
      /\ store' \subseteq store /\ deleting' = deleting \ {d} /\ leaked \subseteq leaked'
      /\ d \notin store' \/ d \in leaked'
  BY DEF RemoveObject
<1> SUFFICES ASSUME NEW o \in store', o \notin leaked' PROVE Kept(o)'
  BY DEF AllKept, Kept
<1>2. CASE \E q \in Pictures : Recorded(q) /\ o \in ObjectsOf(q)
  BY <1>1, <1>2 DEF Kept, Recorded, ObjectsOf, Objects
<1>3. CASE \E u \in Uploads : Held(u, o)
  BY <1>1, <1>3 DEF Kept, Held, Holding, Objects
<1> QED BY <1>1, <1>2, <1>3 DEF AllKept, Kept

LEMMA CrashAllKept == ASSUME AllKept, Crash PROVE AllKept'
<1>1. /\ UNCHANGED <<row, store>>
      /\ leaked \subseteq leaked'
      /\ \A o \in store : o \in deleting => o \in leaked'
      /\ \A o \in store, u \in Uploads : Held(u, o) => o \in leaked'
  BY DEF Crash, Held, Holding
<1> SUFFICES ASSUME NEW o \in store, o \notin leaked' PROVE Kept(o)'
  BY <1>1 DEF AllKept, Kept
<1>2. \E q \in Pictures : Recorded(q) /\ o \in ObjectsOf(q)
  BY <1>1 DEF AllKept, Kept
<1> QED BY <1>1, <1>2 DEF Kept, Recorded, ObjectsOf, Objects

LEMMA NextAllKept == ASSUME IInv, AllKept, [UploadNext]_uploadVars PROVE AllKept'
<1>1. CASE UNCHANGED uploadVars
  BY <1>1 DEF uploadVars, AllKept, Kept, Held, Holding, Recorded, ObjectsOf, Objects
<1>2. CASE UploadNext
  BY <1>2, CallAllKept, RemoveAllKept, RemoveObjectAllKept, CrashAllKept DEF UploadNext, IInv
<1> QED BY <1>1, <1>2

\* Every object in the store belongs to a record, to a call that still runs or to
\* a deletion that still runs; only a fault leaves one behind (savePhoto, its
\* cleanup, deleteRecord).
THEOREM NoObjectIsForgotten == UploadSpec => []NoOrphans
<1>1. UploadInit => AllKept
  BY DEF UploadInit, AllKept
<1>2. IInv /\ AllKept /\ [UploadNext]_uploadVars => AllKept'
  BY NextAllKept
<1>3. ASSUME AllKept PROVE NoOrphans
  <2> SUFFICES ASSUME NEW o \in store, NEW u \in Uploads, Held(u, o) PROVE o.upload \in Holding
    BY <1>3 DEF NoOrphans, AllKept, Kept
  <2>1. o.upload = u
    BY DEF Held, Objects
  <2> QED BY <2>1 DEF Held
<1> QED BY <1>1, <1>2, <1>3, Invariance, PTL DEF UploadSpec

-----------------------------------------------------------------------------
(***************************************************************************)
(* The page.  A photo that is being sent is the one that is shown, and what *)
(* waits is what waited when it was sent or came meanwhile.  A position is  *)
(* the shown photo's, unless the user was too fast for it; and an address   *)
(* is that of the position, or is still asked for, or was not asked for.    *)
(***************************************************************************)

PageTypesOK ==
  /\ queue \in Seq(Files)
  /\ current \in Files \cup {NoFile}
  /\ form \in Form
  /\ readingExif \in SUBSET Files
  /\ looking \in Spot
  /\ skipReverse \in BOOLEAN
  /\ searching \in SUBSET (Files \cup {NoFile})
  /\ sending \in Sending \cup {NotSending}
  /\ unasked \in BOOLEAN
  /\ chosen \in SUBSET Files

\* Where each photo that was chosen has got to.
QueueOK ==
  /\ current = NoFile => queue = <<>>
  /\ busy => /\ current = sending.photo
             /\ Range(queue) \subseteq Range(sending.rest) \cup meanwhile
  /\ ChosenKept

\* Whose positions the EXIF that is still read, a search and the form may be.
PlaceOK ==
  /\ readingExif \subseteq {current} \cup hurried
  /\ searching \subseteq {current} \cup hurried
  /\ form.gpsCleared => readingExif \subseteq hurried
  /\ form.at # NoPosition => form.of \in {current} \cup hurried
  /\ form.at # NoPosition /\ form.gpsCleared => form.of \in hurried

\* Which position an address belongs to.
AddressOK ==
  /\ looking \in {NoPosition, form.at}
  /\ form.at = NoPosition => form.address = NoPosition
  /\ form.address \in {NoPosition, form.at} \/ looking # NoPosition \/ unasked

PageInv == PageTypesOK /\ QueueOK /\ PlaceOK /\ AddressOK /\ OwnPlace

\* Ranges of the sequences the page makes.
LEMMA RangeParts ==
  ASSUME NEW s \in Seq(Files), s # <<>>
  PROVE  /\ Head(s) \in Files /\ Tail(s) \in Seq(Files) /\ s[1] = Head(s)
         /\ Range(s) = {Head(s)} \cup Range(Tail(s))
<1>1. Head(s) \in Files /\ Tail(s) \in Seq(Files) /\ s[1] = Head(s) /\ 1 \in DOMAIN s
  OBVIOUS
<1>2. \A i \in DOMAIN s : i = 1 \/ (i - 1 \in DOMAIN Tail(s) /\ Tail(s)[i - 1] = s[i])
  OBVIOUS
<1>3. \A i \in DOMAIN Tail(s) : i + 1 \in DOMAIN s /\ Tail(s)[i] = s[i + 1]
  OBVIOUS
<1>4. ASSUME NEW x \in Range(s) PROVE x \in {Head(s)} \cup Range(Tail(s))
  <2>1. PICK i \in DOMAIN s : s[i] = x
    BY <1>4 DEF Range
  <2> QED BY <1>1, <1>2, <2>1 DEF Range
<1>5. ASSUME NEW x \in Range(Tail(s)) PROVE x \in Range(s)
  <2>1. PICK i \in DOMAIN Tail(s) : Tail(s)[i] = x
    BY <1>5 DEF Range
  <2> QED BY <1>3, <2>1 DEF Range
<1>6. Head(s) \in Range(s)
  BY <1>1 DEF Range
<1> QED BY <1>1, <1>4, <1>5, <1>6

LEMMA RangeConcat ==
  ASSUME NEW s \in Seq(Files), NEW t \in Seq(Files)
  PROVE  s \o t \in Seq(Files) /\ Range(s \o t) = Range(s) \cup Range(t)
<1>1. \A i \in DOMAIN s : i \in DOMAIN (s \o t) /\ (s \o t)[i] = s[i]
  OBVIOUS
<1>2. \A i \in DOMAIN t : Len(s) + i \in DOMAIN (s \o t) /\ (s \o t)[Len(s) + i] = t[i]
  OBVIOUS
<1>3. \A i \in DOMAIN (s \o t) : i \in DOMAIN s \/ (i - Len(s) \in DOMAIN t /\ (s \o t)[i] = t[i - Len(s)])
  OBVIOUS
<1>4. s \o t \in Seq(Files)
  OBVIOUS
<1>5. ASSUME NEW x \in Range(s \o t) PROVE x \in Range(s) \cup Range(t)
  <2>1. PICK i \in DOMAIN (s \o t) : (s \o t)[i] = x
    BY <1>5 DEF Range
  <2> QED BY <1>1, <1>3, <2>1 DEF Range
<1>6. \A x \in Range(s) \cup Range(t) : x \in Range(s \o t)
  BY <1>1, <1>2 DEF Range
<1> QED BY <1>4, <1>5, <1>6

\* A page that shows nothing.
LEMMA EmptyPage ==
  /\ BlankForm \in Form /\ BlankForm.at = NoPosition /\ BlankForm.address = NoPosition /\ ~BlankForm.gpsCleared
BY DEF BlankForm, Form, Spot

\* What the picker does with a new position, address and photo: the address that is
\* shown is that of the position, or asked for, or not asked for.
LEMMA MovedOK ==
  ASSUME PageTypesOK, AddressOK, NEW f \in Form, NEW skip \in BOOLEAN, Moved(f, skip),
         f.at = form.at => f.address = form.address \/ f.address = f.at
  PROVE  /\ AddressOK'
         /\ form' \in Form /\ form'.at = f.at /\ form'.of = f.of /\ form'.gpsCleared = f.gpsCleared
         /\ looking' \in Spot /\ skipReverse' \in BOOLEAN /\ unasked' \in BOOLEAN
<1> USE DEF PageTypesOK, AddressOK, Form, Spot
<1>1. CASE f.at = form.at
  BY <1>1 DEF Moved
<1>2. CASE f.at # form.at /\ f.at = NoPosition
  <2>1. form' = [f EXCEPT !.address = NoPosition] /\ looking' = NoPosition /\ unasked' = FALSE
        /\ skipReverse' = skip
    BY <1>2 DEF Moved
  <2> QED BY <1>2, <2>1
<1>3. CASE f.at # form.at /\ f.at # NoPosition
  <2>1. form' = f /\ looking' = (IF skip THEN NoPosition ELSE f.at) /\ skipReverse' = FALSE
        /\ unasked' = (skip /\ f.address # f.at)
    BY <1>3 DEF Moved
  <2>2. AddressOK'
    <3>1. CASE skip
      BY <1>3, <2>1, <3>1
    <3>2. CASE ~skip
      BY <1>3, <2>1, <3>2
    <3> QED BY <3>1, <3>2
  <2> QED BY <1>3, <2>1, <2>2
<1> QED BY <1>1, <1>2, <1>3

\* Another photo is shown: what was under way for the last one counts as hurried.
LEMMA loadItemOK ==
  ASSUME PageTypesOK, PlaceOK, AddressOK, NEW p \in Files \cup {NoFile}, loadItem(p),
         searching' = searching
  PROVE  /\ PlaceOK' /\ AddressOK'
         /\ current' = p /\ form' \in Form /\ readingExif' \in SUBSET Files /\ looking' \in Spot
         /\ skipReverse' \in BOOLEAN /\ unasked' \in BOOLEAN
         /\ hurried \subseteq hurried'
<1>1. Moved(BlankForm, skipReverse) /\ skipReverse \in BOOLEAN
  BY DEF loadItem, PageTypesOK
<1>3. /\ AddressOK'
      /\ form' \in Form /\ form'.at = NoPosition /\ form'.gpsCleared = FALSE
      /\ looking' \in Spot /\ skipReverse' \in BOOLEAN /\ unasked' \in BOOLEAN
  BY <1>1, EmptyPage, MovedOK
<1>4. /\ current' = p /\ readingExif' = readingExif \cup ({p} \ {NoFile})
      /\ hurried' = hurried \cup Unanswered
  BY DEF loadItem
<1>5. /\ \A q \in readingExif : q \in hurried'
      /\ searching \subseteq hurried'
  BY <1>4 DEF PlaceOK, Unanswered
<1>6. PlaceOK'
  BY <1>3, <1>4, <1>5 DEF PlaceOK
<1> QED BY <1>3, <1>4, <1>6 DEF PageTypesOK

\* The events of the form leave the queue alone.
LEMMA QueueStays ==
  ASSUME QueueOK, UNCHANGED <<queue, current, sending, uploaded, chosen, removed, meanwhile>>
  PROVE  QueueOK'
BY DEF QueueOK, ChosenKept, busy, Range

\* What has been sent is judged by what it was sent with.
LEMMA OwnPlaceStays ==
  ASSUME OwnPlace, sending' = sending, hurried \subseteq hurried'
  PROVE  OwnPlace'
BY DEF OwnPlace, busy, savePhoto

LEMMA PositionKeeps == ASSUME PageInv, NEW x \in Positions, SetPosition(x) PROVE PageInv'
<1> DEFINE f == [form EXCEPT !.at = x, !.of = current, !.gpsCleared = FALSE]
<1>1. /\ f \in Form /\ f.at = x /\ f.of = current /\ f.gpsCleared = FALSE
      /\ f.address = form.address
  BY DEF PageInv, PageTypesOK, Form, Spot
<1>2. Moved(f, skipReverse) /\ skipReverse \in BOOLEAN
  BY DEF SetPosition, PageInv, PageTypesOK
<1>3. /\ UNCHANGED <<queue, current, readingExif, searching, sending, uploaded, chosen, removed, meanwhile, hurried>>
  BY DEF SetPosition, UNCHANGED_History
<1> HIDE DEF f
<1>4. /\ AddressOK' /\ form' \in Form /\ form'.of = current /\ form'.gpsCleared = FALSE
      /\ looking' \in Spot /\ skipReverse' \in BOOLEAN /\ unasked' \in BOOLEAN
  BY <1>1, <1>2, MovedOK DEF PageInv
<1>5. PlaceOK'
  BY <1>3, <1>4 DEF PageInv, PlaceOK
<1>6. PageTypesOK'
  BY <1>3, <1>4 DEF PageInv, PageTypesOK
<1> QED BY <1>3, <1>4, <1>5, <1>6, QueueStays, OwnPlaceStays DEF PageInv

LEMMA AddressKeeps == ASSUME PageInv, NEW a \in Spot, AddressComes(a) PROVE PageInv'
<1>1. /\ form' = [form EXCEPT !.address = a] /\ looking # NoPosition /\ looking' = NoPosition
      /\ a \in {looking, NoPosition}
      /\ UNCHANGED <<queue, current, readingExif, skipReverse, searching, sending, unasked>>
      /\ UNCHANGED <<uploaded, chosen, removed, meanwhile, hurried>>
  BY DEF AddressComes, UNCHANGED_History
<1>2. /\ form' \in Form /\ form'.at = form.at /\ form'.of = form.of
      /\ form'.gpsCleared = form.gpsCleared /\ form'.address = a
  BY <1>1 DEF PageInv, PageTypesOK, Form
<1>3. AddressOK'
  BY <1>1, <1>2 DEF PageInv, AddressOK
<1>4. PlaceOK'
  BY <1>1, <1>2 DEF PageInv, PlaceOK
<1>5. PageTypesOK'
  BY <1>1, <1>2 DEF PageInv, PageTypesOK, Spot
<1> QED BY <1>1, <1>3, <1>4, <1>5, QueueStays, OwnPlaceStays DEF PageInv

LEMMA SearchKeeps ==
  ASSUME PageInv, searchAddress \/ \E o \in Files \cup {NoFile} : SearchFails(o)
  PROVE  PageInv'
<1>1. /\ searching' \subseteq searching \cup {current}
      /\ UNCHANGED <<queue, current, form, readingExif, looking, skipReverse, sending, unasked>>
      /\ UNCHANGED <<uploaded, chosen, removed, meanwhile, hurried>>
  <2>1. CASE searchAddress
    BY <2>1 DEF searchAddress, UNCHANGED_History
  <2>2. CASE \E o \in Files \cup {NoFile} : SearchFails(o)
    BY <2>2 DEF SearchFails, SearchEnds, UNCHANGED_History
  <2> QED BY <2>1, <2>2
<1>2. PageTypesOK' /\ PlaceOK' /\ AddressOK'
  BY <1>1 DEF PageInv, PageTypesOK, PlaceOK, AddressOK
<1> QED BY <1>1, <1>2, QueueStays, OwnPlaceStays DEF PageInv

LEMMA SearchFindsKeeps ==
  ASSUME PageInv, NEW o \in Files \cup {NoFile}, NEW x \in Positions, SearchFinds(o, x)
  PROVE  PageInv'
<1>1. /\ searching' \subseteq searching /\ o \in {current} \cup hurried
      /\ UNCHANGED <<queue, current, readingExif, sending>>
      /\ UNCHANGED <<uploaded, chosen, removed, meanwhile, hurried>>
  BY DEF SearchFinds, SearchEnds, UNCHANGED_History, PageInv, PlaceOK
<1>2. /\ AddressOK' /\ form' \in Form /\ form'.of = o /\ form'.gpsCleared = FALSE
      /\ looking' \in Spot /\ skipReverse' \in BOOLEAN /\ unasked' \in BOOLEAN
  <2>1. CASE x = form.at
    <3>1. /\ form' = [form EXCEPT !.address = x, !.of = o, !.gpsCleared = FALSE]
          /\ skipReverse' = TRUE /\ looking' = NoPosition /\ unasked' = FALSE
      BY <2>1 DEF SearchFinds
    <3>2. /\ form' \in Form /\ form'.at = x /\ form'.address = x /\ form'.of = o
          /\ form'.gpsCleared = FALSE
      BY <1>1, <2>1, <3>1 DEF PageInv, PageTypesOK, Form, Spot
    <3> QED BY <3>1, <3>2, WebAssumption DEF AddressOK, Spot
  <2>2. CASE x # form.at
    <3> DEFINE f == [at |-> x, of |-> o, gpsCleared |-> FALSE, address |-> x]
    <3>1. f \in Form /\ f.at = x /\ f.address = x /\ f.of = o /\ f.gpsCleared = FALSE
      BY <1>1 DEF Form, Spot
    <3>2. Moved(f, TRUE)
      BY <2>2 DEF SearchFinds
    <3> HIDE DEF f
    <3> QED BY <3>1, <3>2, MovedOK DEF PageInv
  <2> QED BY <2>1, <2>2
<1>3. PlaceOK'
  BY <1>1, <1>2 DEF PageInv, PlaceOK
<1>4. PageTypesOK'
  BY <1>1, <1>2 DEF PageInv, PageTypesOK
<1> QED BY <1>1, <1>2, <1>3, <1>4, QueueStays, OwnPlaceStays DEF PageInv

LEMMA ExifKeeps == ASSUME PageInv, NEW p \in Files, ExifRead(p) PROVE PageInv'
<1>1. /\ p \in readingExif /\ readingExif' = readingExif \ {p} /\ p \in {current} \cup hurried
      /\ form.gpsCleared => p \in hurried
      /\ UNCHANGED <<queue, current, searching, sending>>
      /\ UNCHANGED <<uploaded, chosen, removed, meanwhile, hurried>>
  BY DEF ExifRead, UNCHANGED_History, PageInv, PlaceOK
<1>2. CASE Exif[p] = NoPosition
  <2>1. UNCHANGED <<form, looking, skipReverse, unasked>>
    BY <1>2 DEF ExifRead
  <2>2. PageTypesOK' /\ PlaceOK' /\ AddressOK'
    BY <1>1, <2>1 DEF PageInv, PageTypesOK, PlaceOK, AddressOK
  <2> QED BY <1>1, <2>2, QueueStays, OwnPlaceStays DEF PageInv
<1>3. CASE Exif[p] # NoPosition
  <2> DEFINE f == [form EXCEPT !.at = Exif[p], !.of = p]
  <2>1. Moved(f, skipReverse) /\ skipReverse \in BOOLEAN
    BY <1>3 DEF ExifRead, PageInv, PageTypesOK
  <2>2. f \in Form /\ f.of = p /\ f.gpsCleared = form.gpsCleared /\ f.address = form.address
    BY WebAssumption DEF PageInv, PageTypesOK, Form
  <2> HIDE DEF f
  <2>3. /\ AddressOK' /\ form' \in Form /\ form'.of = p /\ form'.gpsCleared = form.gpsCleared
        /\ looking' \in Spot /\ skipReverse' \in BOOLEAN /\ unasked' \in BOOLEAN
    BY <2>1, <2>2, MovedOK DEF PageInv
  <2>4. PlaceOK'
    BY <1>1, <2>3 DEF PageInv, PlaceOK
  <2>5. PageTypesOK'
    BY <1>1, <2>3 DEF PageInv, PageTypesOK
  <2> QED BY <1>1, <2>3, <2>4, <2>5, QueueStays, OwnPlaceStays DEF PageInv
<1> QED BY <1>2, <1>3

LEMMA clearGpsKeeps == ASSUME PageInv, clearGps PROVE PageInv'
<1> DEFINE f == [BlankForm EXCEPT !.gpsCleared = TRUE]
<1>1. f \in Form /\ f.at = NoPosition /\ f.address = NoPosition
  BY DEF BlankForm, Form, Spot
<1>2. /\ Moved(f, skipReverse) /\ skipReverse \in BOOLEAN
      /\ hurried' = hurried \cup (readingExif \cap {current})
      /\ UNCHANGED <<queue, current, readingExif, searching, sending, uploaded, chosen, removed, meanwhile>>
  BY DEF clearGps, PageInv, PageTypesOK
<1> HIDE DEF f
<1>3. /\ AddressOK' /\ form' \in Form /\ form'.at = NoPosition
      /\ looking' \in Spot /\ skipReverse' \in BOOLEAN /\ unasked' \in BOOLEAN
  BY <1>1, <1>2, MovedOK DEF PageInv
<1>4. PlaceOK'
  BY <1>2, <1>3 DEF PageInv, PlaceOK
<1>5. PageTypesOK'
  BY <1>2, <1>3 DEF PageInv, PageTypesOK
<1> QED BY <1>2, <1>3, <1>4, <1>5, QueueStays, OwnPlaceStays DEF PageInv

\* Photos are chosen: the first is shown if none was.
LEMMA enqueueKeeps == ASSUME PageInv, NEW b \in Batches[chosen], enqueueImages(b) PROVE PageInv'
<1>1. b \in Seq(Files) /\ b # <<>> /\ Range(b) \subseteq Files
      /\ chosen' = chosen \cup Range(b) /\ UNCHANGED <<searching, sending, uploaded, removed>>
  <2>1. chosen \in SUBSET Files
    BY DEF PageInv, PageTypesOK
  <2>2. b \in Seq(Files) /\ b # <<>>
    BY <2>1, WebAssumption
  <2> QED BY <2>2 DEF enqueueImages, Range
<1>2. CASE current = NoFile
  <2>1. /\ queue' = Tail(b) /\ loadItem(Head(b)) /\ meanwhile' = meanwhile
        /\ Head(b) \in Files /\ Tail(b) \in Seq(Files)
        /\ Range(b) = {Head(b)} \cup Range(Tail(b))
    BY <1>1, <1>2, RangeParts DEF enqueueImages
  <2>2. /\ PlaceOK' /\ AddressOK'
        /\ current' = Head(b) /\ form' \in Form /\ readingExif' \in SUBSET Files /\ looking' \in Spot
        /\ skipReverse' \in BOOLEAN /\ unasked' \in BOOLEAN
        /\ hurried \subseteq hurried'
    BY <1>1, <2>1, loadItemOK DEF PageInv
  <2>3. PageTypesOK'
    BY <1>1, <2>1, <2>2 DEF PageInv, PageTypesOK
  <2>4. ~busy /\ ~busy'
    BY <1>1, <1>2, WebAssumption DEF PageInv, PageTypesOK, QueueOK, Sending, busy
  <2>5. queue = <<>> /\ Range(queue) = {} /\ NoFile \notin chosen
    BY <1>2, WebAssumption DEF PageInv, PageTypesOK, QueueOK, Range
  <2>6. ChosenKept'
    BY <1>1, <1>2, <2>1, <2>2, <2>5 DEF PageInv, QueueOK, ChosenKept
  <2>7. QueueOK'
    BY <2>1, <2>2, <2>4, <2>6, WebAssumption DEF QueueOK
  <2> QED BY <1>1, <2>2, <2>3, <2>7, OwnPlaceStays DEF PageInv
<1>3. CASE current # NoFile
  <2>1. /\ queue' = queue \o b
        /\ meanwhile' = IF busy THEN meanwhile \cup Range(b) ELSE meanwhile
        /\ UNCHANGED <<current, form, readingExif, looking, skipReverse, hurried, unasked>>
    BY <1>3 DEF enqueueImages
  <2>2. queue' \in Seq(Files) /\ Range(queue') = Range(queue) \cup Range(b)
    BY <1>1, <2>1, RangeConcat DEF PageInv, PageTypesOK
  <2>3. PageTypesOK'
    BY <1>1, <2>1, <2>2 DEF PageInv, PageTypesOK
  <2>4. PlaceOK' /\ AddressOK'
    BY <1>1, <2>1 DEF PageInv, PlaceOK, AddressOK
  <2>5. QueueOK'
    <3>1. busy' = busy /\ meanwhile \subseteq meanwhile'
      BY <1>1, <2>1 DEF busy
    <3>2. ChosenKept'
      BY <1>1, <2>1, <2>2, <3>1 DEF PageInv, QueueOK, ChosenKept
    <3>3. busy => /\ current' = sending'.photo
                  /\ Range(queue') \subseteq Range(sending'.rest) \cup meanwhile'
      BY <1>1, <2>1, <2>2 DEF PageInv, QueueOK
    <3> QED BY <1>3, <2>1, <3>1, <3>2, <3>3 DEF QueueOK
  <2> QED BY <1>1, <2>1, <2>3, <2>4, <2>5, OwnPlaceStays DEF PageInv
<1> QED BY <1>2, <1>3

\* The user removes the photo that is shown, or all.
LEMMA skipCurrentKeeps == ASSUME PageInv, skipCurrent PROVE PageInv'
<1>1. /\ ~busy /\ queue # <<>> /\ queue \in Seq(Files) /\ current # NoFile
      /\ removed' = removed \cup {current}
      /\ queue' = Tail(queue) /\ loadItem(Head(queue))
      /\ UNCHANGED <<searching, sending, uploaded, chosen, meanwhile>>
  BY DEF skipCurrent, PageInv, PageTypesOK, QueueOK
<1>2. /\ Head(queue) \in Files /\ Tail(queue) \in Seq(Files)
      /\ Range(queue) = {Head(queue)} \cup Range(Tail(queue))
  BY <1>1, RangeParts
<1>3. /\ PlaceOK' /\ AddressOK'
      /\ current' = Head(queue) /\ form' \in Form /\ readingExif' \in SUBSET Files /\ looking' \in Spot
      /\ skipReverse' \in BOOLEAN /\ unasked' \in BOOLEAN
      /\ hurried \subseteq hurried'
  BY <1>1, <1>2, loadItemOK DEF PageInv
<1>4. PageTypesOK'
  BY <1>1, <1>2, <1>3 DEF PageInv, PageTypesOK
<1>5. ChosenKept'
  BY <1>1, <1>2, <1>3 DEF PageInv, QueueOK, ChosenKept
<1>6. QueueOK'
  BY <1>1, <1>2, <1>3, <1>5, WebAssumption DEF QueueOK, busy
<1> QED BY <1>1, <1>3, <1>4, <1>6, OwnPlaceStays DEF PageInv

LEMMA clearQueueKeeps == ASSUME PageInv, clearQueue PROVE PageInv'
<1>1. /\ ~busy /\ removed' = removed \cup {current} \cup Range(queue)
      /\ queue' = <<>> /\ loadItem(NoFile)
      /\ UNCHANGED <<searching, sending, uploaded, chosen, meanwhile>>
  BY DEF clearQueue
<1>2. /\ PlaceOK' /\ AddressOK'
      /\ current' = NoFile /\ form' \in Form /\ readingExif' \in SUBSET Files /\ looking' \in Spot
      /\ skipReverse' \in BOOLEAN /\ unasked' \in BOOLEAN
      /\ hurried \subseteq hurried'
  BY <1>1, loadItemOK DEF PageInv
<1>3. PageTypesOK'
  BY <1>1, <1>2 DEF PageInv, PageTypesOK
<1>4. ChosenKept'
  BY <1>1, <1>2 DEF PageInv, QueueOK, ChosenKept
<1>5. QueueOK'
  BY <1>1, <1>2, <1>4 DEF QueueOK, busy
<1> QED BY <1>1, <1>2, <1>3, <1>5, OwnPlaceStays DEF PageInv

\* What is sent is what the form shows.
LEMMA SubmitKeeps == ASSUME PageInv, Submit PROVE PageInv'
<1> DEFINE s == [photo |-> current, form |-> form, rest |-> queue,
                 hasty |-> looking # NoPosition \/ unasked]
<1>1. /\ current \in Files /\ sending' = s
      /\ s.photo = current /\ s.form = form /\ s.rest = queue
      /\ s.hasty = (looking # NoPosition \/ unasked)
      /\ UNCHANGED <<queue, current, form, readingExif, looking, skipReverse, searching, unasked>>
      /\ UNCHANGED <<uploaded, chosen, removed, meanwhile, hurried>>
  BY DEF Submit, UNCHANGED_History, PageInv, PageTypesOK
<1>2. s \in Sending
  BY <1>1 DEF Sending, PageInv, PageTypesOK
<1> HIDE DEF s
<1>3. PageTypesOK' /\ PlaceOK' /\ AddressOK'
  BY <1>1, <1>2 DEF PageInv, PageTypesOK, PlaceOK, AddressOK
<1>4. QueueOK'
  BY <1>1 DEF PageInv, QueueOK, ChosenKept, Range
<1>5. OwnPlace'
  <2> DEFINE r == savePhoto(current, form)
  <2>1. /\ r.at = IF form.gpsCleared THEN NoPosition ELSE IF form.at # NoPosition THEN form.at ELSE Exif[current]
        /\ r.address = IF r.at = NoPosition \/ form.address = NoPosition THEN r.at ELSE form.address
    BY DEF savePhoto
  <2>2. savePhoto(sending.photo, sending.form)' = r
    BY <1>1 DEF savePhoto
  <2> HIDE DEF r
  <2>3. form.at # NoPosition => form.of \in {current} \cup hurried
    BY DEF PageInv, PlaceOK
  <2>4. form.at \notin {NoPosition, r.at} => form.of \in hurried
    BY <2>1 DEF PageInv, PlaceOK
  <2>5. r.address = r.at \/ s.hasty
    BY <1>1, <2>1 DEF PageInv, AddressOK
  <2> QED BY <1>1, <2>2, <2>3, <2>4, <2>5 DEF OwnPlace
<1> QED BY <1>3, <1>4, <1>5 DEF PageInv

\* The page goes on from the queue it had when the photo was sent.
LEMMA SavedKeeps == ASSUME PageInv, Saved PROVE PageInv'
<1>1. /\ busy /\ sending \in Sending /\ sending.rest \in Seq(Files) /\ sending.photo = current
      /\ Range(queue) \subseteq Range(sending.rest) \cup meanwhile
      /\ uploaded' = uploaded \cup {current}
      /\ sending' = NotSending /\ UNCHANGED <<chosen, removed, meanwhile>>
  BY DEF Saved, Stores, busy, PageInv, PageTypesOK, QueueOK, Sending
<1>2. CASE sending.rest = <<>>
  <2>1. /\ queue' = <<>> /\ current' = NoFile /\ form' = BlankForm
        /\ readingExif' = {} /\ looking' = NoPosition /\ skipReverse' = FALSE /\ searching' = {}
        /\ unasked' = FALSE
    BY <1>2 DEF Saved, GoOn, Navigate
  <2>2. PlaceOK' /\ AddressOK'
    BY <2>1, EmptyPage DEF PlaceOK, AddressOK
  <2>6. PageTypesOK'
    <3>1. queue' \in Seq(Files) /\ readingExif' \in SUBSET Files /\ chosen' \in SUBSET Files
      BY <1>1, <2>1 DEF PageInv, PageTypesOK
    <3>2. form' \in Form /\ searching' \in SUBSET (Files \cup {NoFile}) /\ looking' \in Spot
      BY <2>1, EmptyPage DEF Spot
    <3>3. current' \in Files \cup {NoFile} /\ sending' \in Sending \cup {NotSending}
      BY <1>1, <2>1
    <3>4. skipReverse' \in BOOLEAN /\ unasked' \in BOOLEAN
      BY <2>1
    <3> QED BY <3>1, <3>2, <3>3, <3>4 DEF PageTypesOK
  <2>3. Range(sending.rest) = {}
    BY <1>2 DEF Range
  <2>4. QueueOK'
    BY <1>1, <2>1, <2>3 DEF PageInv, QueueOK, ChosenKept, busy
  <2>5. OwnPlace'
    BY <1>1 DEF OwnPlace, busy
  <2> QED BY <2>2, <2>4, <2>5, <2>6 DEF PageInv
<1>3. CASE sending.rest # <<>>
  <2>1. /\ queue' = Tail(sending.rest) /\ loadItem(Head(sending.rest)) /\ searching' = searching
    BY <1>3 DEF Saved, GoOn
  <2>2. /\ Head(sending.rest) \in Files /\ Tail(sending.rest) \in Seq(Files)
        /\ Range(sending.rest) = {Head(sending.rest)} \cup Range(Tail(sending.rest))
    BY <1>1, <1>3, RangeParts
  <2>3. /\ PlaceOK' /\ AddressOK'
        /\ current' = Head(sending.rest) /\ form' \in Form /\ readingExif' \in SUBSET Files
        /\ looking' \in Spot /\ skipReverse' \in BOOLEAN /\ unasked' \in BOOLEAN
    BY <2>1, <2>2, loadItemOK DEF PageInv
  <2>4. PageTypesOK'
    BY <1>1, <2>1, <2>2, <2>3 DEF PageInv, PageTypesOK
  <2>5. QueueOK'
    BY <1>1, <2>1, <2>2, <2>3, WebAssumption DEF PageInv, QueueOK, ChosenKept, busy
  <2>6. OwnPlace'
    BY <1>1 DEF OwnPlace, busy
  <2> QED BY <2>3, <2>4, <2>5, <2>6 DEF PageInv
<1> QED BY <1>2, <1>3

LEMMA NotSavedKeeps == ASSUME PageInv, NotSaved PROVE PageInv'
<1>1. /\ sending' = NotSending /\ uploaded \subseteq uploaded'
      /\ UNCHANGED <<queue, current, form, readingExif, looking, skipReverse, searching, chosen, removed,
                     meanwhile, hurried, unasked>>
  BY DEF NotSaved, Stores
<1>2. PageTypesOK' /\ PlaceOK' /\ AddressOK'
  BY <1>1 DEF PageInv, PageTypesOK, PlaceOK, AddressOK
<1>3. ~busy'
  BY <1>1 DEF busy
<1>4. QueueOK' /\ OwnPlace'
  BY <1>1, <1>3 DEF PageInv, QueueOK, ChosenKept, OwnPlace, Range
<1> QED BY <1>2, <1>4 DEF PageInv

LEMMA WebInvariance == WebSpec => []PageInv
<1>1. WebInit => PageInv
  <2> SUFFICES ASSUME WebInit PROVE PageInv
    OBVIOUS
  <2>1. PlaceOK /\ AddressOK
    BY EmptyPage DEF WebInit, PlaceOK, AddressOK
  <2>3. PageTypesOK
    <3>1. queue \in Seq(Files) /\ readingExif \in SUBSET Files /\ chosen \in SUBSET Files
      BY DEF WebInit
    <3>2. form \in Form /\ searching \in SUBSET (Files \cup {NoFile}) /\ looking \in Spot
      BY EmptyPage DEF WebInit, Spot
    <3>3. current \in Files \cup {NoFile} /\ sending \in Sending \cup {NotSending}
      BY DEF WebInit
    <3>4. skipReverse \in BOOLEAN /\ unasked \in BOOLEAN
      BY DEF WebInit
    <3> QED BY <3>1, <3>2, <3>3, <3>4 DEF PageTypesOK
  <2>2. QueueOK /\ OwnPlace
    BY DEF WebInit, QueueOK, ChosenKept, OwnPlace, busy
  <2> QED BY <2>1, <2>2, <2>3 DEF PageInv
<1>2. PageInv /\ [WebNext]_webVars => PageInv'
  <2> SUFFICES ASSUME PageInv, [WebNext]_webVars PROVE PageInv'
    OBVIOUS
  <2>1. CASE UNCHANGED webVars
    <3>1. PageTypesOK' /\ PlaceOK' /\ AddressOK'
      BY <2>1 DEF webVars, PageInv, PageTypesOK, PlaceOK, AddressOK
    <3> QED BY <2>1, <3>1, QueueStays, OwnPlaceStays DEF webVars, PageInv
  <2>2. CASE WebNext
    BY <2>2, PositionKeeps, AddressKeeps, SearchKeeps, SearchFindsKeeps, ExifKeeps, clearGpsKeeps,
       enqueueKeeps, skipCurrentKeeps, clearQueueKeeps, SubmitKeeps, SavedKeeps, NotSavedKeeps
       DEF WebNext
  <2> QED BY <2>1, <2>2
<1> QED BY <1>1, <1>2, PTL DEF WebSpec

\* No photo that was chosen is lost from the page, but one that is added while
\* another is sent (enqueueImages, onSubmit).
THEOREM ChosenPhotosAreKept == WebSpec => []ChosenKept
<1>1. PageInv => ChosenKept
  BY DEF PageInv, QueueOK
<1> QED BY <1>1, WebInvariance, PTL

\* A photo is sent with its own position and with the address of that position,
\* unless the user was too fast for the EXIF, the search or the address
\* (loadItem, onSubmit, the effects of the picker; savePhoto).
THEOREM PhotosKeepTheirPlace == WebSpec => []OwnPlace
<1>1. PageInv => OwnPlace
  BY DEF PageInv
<1> QED BY <1>1, WebInvariance, PTL
=============================================================================
