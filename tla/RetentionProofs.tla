--------------------------- MODULE RetentionProofs ---------------------------
(***************************************************************************)
(* Proofs about Retention, for any number of photos, cases and concurrent  *)
(* requests.                                                               *)
(***************************************************************************)
EXTENDS Retention, TLAPS

USE RetentionAssumption

\* An open case was last open now; a closed one when it was closed.
PeriodInv ==
  \A c \in Cases : case[c] # NoRow =>
    lastOpen[c] = (IF case[c].closedAt = NoTime THEN now ELSE case[c].closedAt)

\* A PATCH that is about to write a cleanly redacted photo carries no position.
PendingInv ==
  \A r \in Requests, p \in Photos :
    /\ req[r].step = "patchChecked" /\ req[r].photo = p
    /\ photo[p] # NoRow /\ photo[p].redacted /\ p \notin raced
    => req[r].pos = NoPos

IInv == RowsOK /\ CaseExists /\ PeriodInv /\ PendingInv /\ CleanRedactionFinal
-----------------------------------------------------------------------------
\* The initial state is well typed.
LEMMA InitType == Init => RowsOK
  BY DEF Init, RowsOK, Idle, Request, Steps, Position

\* The idle request is a request.
LEMMA IdleType == Idle \in Request
  BY DEF Idle, Request, Steps, Position

\* A request that goes on stays a request.
LEMMA ContinueType ==
  ASSUME RowsOK, NEW r \in Requests, NEW step \in Steps,
         NEW p \in Photos \cup {NoPhoto}, NEW c \in Cases \cup {NoCase}
  PROVE  Continue(r, step, p, c) => req' \in [Requests -> Request]
  <1>1. [step |-> step, photo |-> p, case |-> c, pos |-> NoPos, addr |-> FALSE] \in Request
    BY DEF Request, Position
  <1>2. QED
    BY <1>1 DEF RowsOK, Continue

\* A request that ends stays a request.
LEMMA FinishType ==
  ASSUME RowsOK, NEW r \in Requests, Finish(r)
  PROVE  req' \in [Requests -> Request]
  BY IdleType DEF RowsOK, Finish

\* The UPDATE of a PATCH makes a row of a row.
LEMMA PatchedRowType ==
  ASSUME NEW row \in PhotoRow, NEW pos \in Position, NEW addr \in BOOLEAN
  PROVE  [row EXCEPT !.pos = pos, !.addr = addr] \in PhotoRow
  BY DEF PhotoRow

\* The redacting UPDATE keeps rows rows and never creates or removes one.
LEMMA RedactType ==
  ASSUME RowsOK, NEW S, Redact(S)
  PROVE  /\ photo' \in [Photos -> PhotoRow \cup {NoRow}]
         /\ raced' \in SUBSET Photos
  <1>1. \A p \in Photos : Due(p) => RedactedRow(photo[p]) \in PhotoRow
    BY ZenonT(60) DEF RowsOK, Due, Stored, RedactedRow, PhotoRow, Position
  <1>2. QED
    BY <1>1 DEF Redact, RowsOK

\* Every step keeps the variables well typed.
LEMMA StepType == RowsOK /\ [Next]_vars => RowsOK'
  <1> SUFFICES ASSUME RowsOK, [Next]_vars PROVE RowsOK'
    OBVIOUS
  <1> USE DEF RowsOK
  <1>1. ASSUME NEW r \in Requests, NEW p \in Photos, InsertPhoto(r, p) PROVE RowsOK'
    <2>1. PICK pos \in Position, addr \in BOOLEAN, importAddr \in BOOLEAN,
               c \in {d \in Cases : Known(d)} \cup {NoCase} :
            /\ photo' = [photo EXCEPT ![p] =
                 [pos |-> pos, addr |-> addr, importAddr |-> importAddr,
                  caseId |-> c, redacted |-> FALSE]]
            /\ IF c = NoCase THEN UNCHANGED req ELSE Continue(r, "redactPhoto", p, NoCase)
      BY <1>1, ZenonT(90) DEF InsertPhoto
    <2>2. photo' \in [Photos -> PhotoRow \cup {NoRow}]
      BY <2>1 DEF PhotoRow
    <2>3. req' \in [Requests -> Request]
      BY <2>1, ContinueType DEF Steps
    <2>4. QED
      BY <1>1, <2>2, <2>3 DEF InsertPhoto
  <1>2. ASSUME NEW r \in Requests, NEW p \in Photos, PatchLoad(r, p) PROVE RowsOK'
    <2>1. PICK clearGps \in BOOLEAN, sent \in Positions \cup {photo[p].pos},
               address \in {"keep", "set", "clear"} :
            LET pos == IF clearGps THEN NoPos ELSE sent IN
            \E addr \in PatchedAddresses(photo[p], clearGps, pos, address) :
              req' = [req EXCEPT ![r] = [step |-> "patchLoaded", photo |-> p,
                                         case |-> NoCase, pos |-> pos, addr |-> addr]]
      BY <1>2 DEF PatchLoad
    <2> DEFINE pos == IF clearGps THEN NoPos ELSE sent
    <2>2. pos \in Position
      BY <1>2 DEF PatchLoad, Stored, PhotoRow, Position
    <2>3. PatchedAddresses(photo[p], clearGps, pos, address) \subseteq BOOLEAN
      BY DEF PatchedAddresses
    <2>4. PICK addr \in BOOLEAN :
            req' = [req EXCEPT ![r] = [step |-> "patchLoaded", photo |-> p,
                                       case |-> NoCase, pos |-> pos, addr |-> addr]]
      BY <2>1, <2>3
    <2> HIDE DEF pos
    <2>5. req' \in [Requests -> Request]
      BY <2>2, <2>4 DEF Request, Steps
    <2>6. QED
      BY <1>2, <2>5 DEF PatchLoad
  <1>3. ASSUME NEW r \in Requests, PatchCheck(r) PROVE RowsOK'
    <2>1. req' \in [Requests -> Request]
      <3>1. [req[r] EXCEPT !.step = "patchChecked"] \in Request
        BY DEF Request, Steps
      <3>2. QED
        BY <1>3, <3>1, IdleType DEF PatchCheck, Finish
    <2>2. QED
      BY <1>3, <2>1 DEF PatchCheck
  <1>4. ASSUME NEW r \in Requests, PatchWrite(r) PROVE RowsOK'
    <2>1. req[r] \in Request
      OBVIOUS
    <2>2. photo' \in [Photos -> PhotoRow \cup {NoRow}]
      <3> DEFINE new == [photo[req[r].photo] EXCEPT !.pos = req[r].pos, !.addr = req[r].addr]
      <3>1. ASSUME req[r].photo \in Photos, photo[req[r].photo] # NoRow
            PROVE new \in PhotoRow
        BY <2>1, <3>1, PatchedRowType DEF Request
      <3>2. photo' = [photo EXCEPT ![req[r].photo] =
                        IF photo[req[r].photo] = NoRow THEN NoRow ELSE new]
        BY <1>4 DEF PatchWrite
      <3> HIDE DEF new
      <3>3. QED
        BY <3>1, <3>2
    <2>3. QED
      BY <1>4, <2>2, FinishType DEF PatchWrite
  <1>5. ASSUME NEW r \in Requests, NEW c \in Cases, CreateCase(r, c) PROVE RowsOK'
    <2>1. case' \in [Cases -> CaseRow \cup {NoRow}]
      BY <1>5 DEF CreateCase, CaseRow
    <2>2. photo' \in [Photos -> PhotoRow \cup {NoRow}]
      BY <1>5 DEF CreateCase, PhotoRow, Stored
    <2>3. req' \in [Requests -> Request]
      BY <1>5, ContinueType DEF CreateCase, Steps
    <2>4. QED
      BY <1>5, <2>1, <2>2, <2>3 DEF CreateCase
  <1>6. ASSUME NEW r \in Requests, NEW c \in Cases, UpdateCase(r, c) PROVE RowsOK'
    <2>1. case' \in [Cases -> CaseRow \cup {NoRow}]
      BY <1>6 DEF UpdateCase, CaseRow, Known
    <2>2. QED
      BY <1>6, <2>1, ContinueType DEF UpdateCase, Steps
  <1>7. ASSUME NEW r \in Requests, NEW c \in Cases,
               CloseRead(r, c) \/ ReopenRead(r, c)
        PROVE RowsOK'
    BY <1>7, ContinueType DEF CloseRead, ReopenRead, Steps
  <1>8. ASSUME NEW r \in Requests, CloseWrite(r) PROVE RowsOK'
    <2>1. case' \in [Cases -> CaseRow \cup {NoRow}]
      BY <1>8 DEF CloseWrite, CaseRow, Known
    <2>2. req' \in [Requests -> Request]
      BY <1>8, ContinueType, FinishType DEF CloseWrite, Steps, Known
    <2>3. QED
      BY <1>8, <2>1, <2>2 DEF CloseWrite
  <1>9. ASSUME NEW r \in Requests, ReopenWrite(r) PROVE RowsOK'
    <2>1. case' \in [Cases -> CaseRow \cup {NoRow}]
      BY <1>9 DEF ReopenWrite, CaseRow, Known
    <2>2. QED
      BY <1>9, <2>1, FinishType DEF ReopenWrite
  <1>10. ASSUME NEW r \in Requests, NEW c \in Cases, NEW p \in Photos,
                AssignPhotoCase(r, c, p)
         PROVE RowsOK'
    <2>1. photo' \in [Photos -> PhotoRow \cup {NoRow}]
      BY <1>10 DEF AssignPhotoCase, PhotoRow, Stored
    <2>2. QED
      BY <1>10, <2>1, ContinueType DEF AssignPhotoCase, Steps
  <1>11. ASSUME NEW r \in Requests, RedactIfDue(r) \/ RedactDueForCase(r) PROVE RowsOK'
    <2>1. PICK S : Redact(S)
      BY <1>11 DEF RedactIfDue, RedactDueForCase
    <2>2. QED
      BY <1>11, <2>1, RedactType, FinishType DEF RedactIfDue, RedactDueForCase
  <1>12. ASSUME NEW r \in Requests, Abandon(r) PROVE RowsOK'
    BY <1>12, FinishType DEF Abandon
  <1>13. ASSUME NEW p \in Photos, DeletePhoto(p) \/ UnlinkPhotoCase(p) PROVE RowsOK'
    BY <1>13 DEF DeletePhoto, UnlinkPhotoCase, PhotoRow, Stored
  <1>14. ASSUME NEW c \in Cases, DeleteCase(c) PROVE RowsOK'
    <2>1. photo' \in [Photos -> PhotoRow \cup {NoRow}]
      BY <1>14 DEF DeleteCase, PhotoRow, Stored
    <2>2. QED
      BY <1>14, <2>1 DEF DeleteCase
  <1>15. CASE RedactDueLocations
    BY <1>15, RedactType DEF RedactDueLocations
  <1>16. CASE Tick
    BY <1>16 DEF Tick
  <1>17. CASE UNCHANGED vars
    BY <1>17 DEF vars
  <1>18. QED
    BY <1>1, <1>2, <1>3, <1>4, <1>5, <1>6, <1>7, <1>8, <1>9, <1>10, <1>11,
       <1>12, <1>13, <1>14, <1>15, <1>16, <1>17 DEF Next

\* A step that removes no case and files photos only under existing ones keeps
\* the foreign key.
LEMMA RefsKept ==
  ASSUME CaseExists,
         \A c \in Cases : case[c] # NoRow => case'[c] # NoRow,
         \A p \in Photos : \/ photo'[p] = NoRow
                           \/ photo[p] # NoRow /\ photo'[p].caseId = photo[p].caseId
                           \/ photo'[p].caseId = NoCase
                           \/ photo'[p].caseId \in Cases /\ case'[photo'[p].caseId] # NoRow
  PROVE  CaseExists'
  BY DEF CaseExists

\* The redacting UPDATE leaves every photo under its case.
LEMMA RedactRefs ==
  ASSUME RowsOK, NEW S, Redact(S)
  PROVE  \A p \in Photos : photo'[p] = NoRow
                            \/ (photo[p] # NoRow /\ photo'[p].caseId = photo[p].caseId)
  <1> SUFFICES ASSUME NEW p \in Photos
               PROVE  \/ photo'[p] = NoRow
                      \/ photo[p] # NoRow /\ photo'[p].caseId = photo[p].caseId
    OBVIOUS
  <1>1. CASE Due(p) /\ p \in S
    <2>1. photo[p] \in PhotoRow
      BY <1>1 DEF Due, Stored, RowsOK
    <2>2. photo'[p] = RedactedRow(photo[p])
      BY <1>1 DEF Redact
    <2>3. QED
      BY <1>1, <2>1, <2>2 DEF RedactedRow, PhotoRow, Due, Stored
  <1>2. CASE ~(Due(p) /\ p \in S)
    BY <1>2 DEF Redact
  <1>3. QED
    BY <1>1, <1>2

\* Every step keeps the foreign key; DeleteCase does it by ON DELETE SET NULL.
LEMMA StepRefs == RowsOK /\ CaseExists /\ [Next]_vars => CaseExists'
  <1> SUFFICES ASSUME RowsOK, CaseExists, [Next]_vars PROVE CaseExists'
    OBVIOUS
  <1> USE DEF RowsOK
  <1>1. ASSUME NEW r \in Requests, NEW p \in Photos, InsertPhoto(r, p) PROVE CaseExists'
    BY <1>1, RefsKept DEF InsertPhoto, Known
  <1>2. ASSUME NEW r \in Requests, PatchWrite(r) PROVE CaseExists'
    <2>1. \A p \in Photos : \/ photo'[p] = NoRow
                            \/ photo[p] # NoRow /\ photo'[p].caseId = photo[p].caseId
      BY <1>2 DEF PatchWrite, PhotoRow
    <2>2. QED
      BY <1>2, <2>1, RefsKept DEF PatchWrite
  <1>3. ASSUME NEW r \in Requests, NEW c \in Cases, CreateCase(r, c) PROVE CaseExists'
    <2>1. case'[c] # NoRow /\ \A d \in Cases : case[d] # NoRow => case'[d] # NoRow
      BY <1>3 DEF CreateCase, CaseRow
    <2>2. CASE UNCHANGED photo
      BY <2>1, <2>2, RefsKept
    <2>3. ASSUME NEW p \in Photos, Stored(p), photo' = [photo EXCEPT ![p].caseId = c]
          PROVE  CaseExists'
      BY <2>1, <2>3, RefsKept DEF Stored, PhotoRow
    <2>4. QED
      BY <1>3, <2>2, <2>3 DEF CreateCase
  <1>4. ASSUME NEW r \in Requests, NEW c \in Cases, NEW p \in Photos,
               AssignPhotoCase(r, c, p)
        PROVE  CaseExists'
    BY <1>4, RefsKept DEF AssignPhotoCase, Known, Stored, PhotoRow
  <1>5. ASSUME NEW r \in Requests, NEW c \in Cases, UpdateCase(r, c) PROVE CaseExists'
    BY <1>5, RefsKept DEF UpdateCase, CaseRow
  <1>6. ASSUME NEW r \in Requests, CloseWrite(r) \/ ReopenWrite(r) PROVE CaseExists'
    <2>1. \A c \in Cases : case[c] # NoRow => case'[c] # NoRow
      BY <1>6 DEF CloseWrite, ReopenWrite, CaseRow, Known
    <2>2. QED
      BY <1>6, <2>1 DEF CaseExists, CloseWrite, ReopenWrite
  <1>7. ASSUME NEW S, Redact(S), UNCHANGED case PROVE CaseExists'
    BY <1>7, RedactRefs, RefsKept
  <1>8. ASSUME NEW p \in Photos, DeletePhoto(p) PROVE CaseExists'
    BY <1>8 DEF DeletePhoto, CaseExists
  <1>9. ASSUME NEW p \in Photos, UnlinkPhotoCase(p) PROVE CaseExists'
    BY <1>9, RefsKept DEF UnlinkPhotoCase, Stored, PhotoRow
  <1>10. ASSUME NEW c \in Cases, DeleteCase(c) PROVE CaseExists'
    <2>1. \A p \in Photos : \/ photo'[p] = photo[p] /\ (photo[p] # NoRow => photo[p].caseId # c)
                            \/ photo'[p].caseId = NoCase
      BY <1>10 DEF DeleteCase, Stored, PhotoRow
    <2>2. case' = [case EXCEPT ![c] = NoRow]
      BY <1>10 DEF DeleteCase
    <2>3. QED
      BY <2>1, <2>2 DEF CaseExists
  <1>11. QED
    BY <1>1, <1>2, <1>3, <1>4, <1>5, <1>6, <1>7, <1>8, <1>9, <1>10
       DEF Next, vars, CaseExists, PatchLoad, PatchCheck, CloseRead, ReopenRead, RedactIfDue,
           RedactDueForCase, RedactDueLocations, Abandon, Tick

\* The history variable dates every case correctly: no statement moves the
\* closing date of a closed case or leaves one behind in an open case.
LEMMA StepPeriod == RowsOK /\ PeriodInv /\ [Next]_vars => PeriodInv'
  <1> SUFFICES ASSUME RowsOK, PeriodInv, [Next]_vars PROVE PeriodInv'
    OBVIOUS
  <1> USE DEF PeriodInv
  <1>1. ASSUME NEW r \in Requests, NEW c \in Cases, CreateCase(r, c) PROVE PeriodInv'
    BY <1>1 DEF RowsOK, CreateCase, CaseRow
  <1>2. ASSUME NEW r \in Requests, NEW c \in Cases, UpdateCase(r, c) PROVE PeriodInv'
    BY <1>2 DEF RowsOK, UpdateCase, CaseRow, Known
  <1>3. ASSUME NEW r \in Requests, CloseWrite(r) PROVE PeriodInv'
    BY <1>3 DEF RowsOK, CloseWrite, CaseRow, Known, Closed
  <1>4. ASSUME NEW r \in Requests, ReopenWrite(r) PROVE PeriodInv'
    BY <1>4 DEF RowsOK, ReopenWrite, CaseRow, Known
  <1>5. ASSUME NEW c \in Cases, DeleteCase(c) PROVE PeriodInv'
    BY <1>5 DEF RowsOK, DeleteCase
  <1>6. CASE Tick
    BY <1>6 DEF RowsOK, Tick, Known, Closed
  <1>7. CASE UNCHANGED <<case, now, lastOpen>>
    BY <1>7
  <1>8. QED
    BY <1>1, <1>2, <1>3, <1>4, <1>5, <1>6, <1>7
       DEF Next, vars, InsertPhoto, PatchLoad, CloseRead, ReopenRead,
           AssignPhotoCase, PatchCheck, PatchWrite, RedactIfDue, RedactDueForCase,
           Abandon, DeletePhoto, UnlinkPhotoCase, RedactDueLocations

\* The redacting UPDATE leaves no position, and every PATCH that is past its
\* check marks the photo as raced.
LEMMA RedactFinal ==
  ASSUME RowsOK, PendingInv, CleanRedactionFinal, NEW S, Redact(S),
         \A r \in Requests : req'[r] = req[r] \/ req'[r] = Idle
  PROVE  PendingInv' /\ CleanRedactionFinal'
  <1>1. \A p \in Photos : \/ photo'[p] = photo[p]
                          \/ Due(p) /\ photo'[p] = RedactedRow(photo[p])
    BY DEF Redact
  <1>2. \A p \in Photos : Due(p) => photo[p] \in PhotoRow
    BY DEF Due, Stored, RowsOK
  <1>3. \A p \in Photos : Due(p) => RedactedRow(photo[p]).pos = NoPos
    BY <1>2 DEF RedactedRow, PhotoRow
  <1>4. \A r \in Requests, p \in Photos :
          photo'[p] # photo[p] /\ req[r].step = "patchChecked" /\ req[r].photo = p
            => p \in raced'
    BY DEF Redact
  <1>5. raced \subseteq raced'
    BY DEF Redact
  <1>6. \A r \in Requests : req'[r].step = "patchChecked" => req'[r] = req[r]
    BY DEF Idle
  <1>7. CleanRedactionFinal'
    BY <1>1, <1>3, <1>5 DEF CleanRedactionFinal, Stored
  <1>8. PendingInv'
    BY <1>1, <1>4, <1>5, <1>6 DEF PendingInv
  <1>9. QED
    BY <1>7, <1>8

\* A request at another step than its final UPDATE does not matter.
LEMMA OtherPending ==
  ASSUME RowsOK, PendingInv, CleanRedactionFinal, UNCHANGED raced,
         \A p \in Photos : \/ photo'[p] = photo[p]
                           \/ photo'[p] = NoRow
                           \/ photo'[p].redacted = FALSE
                           \/ photo[p] # NoRow /\ photo'[p].redacted = photo[p].redacted
                               /\ photo'[p].pos = photo[p].pos,
         \A r \in Requests : req'[r] = req[r] \/ req'[r].step # "patchChecked"
  PROVE  PendingInv' /\ CleanRedactionFinal'
  BY DEF PendingInv, CleanRedactionFinal, Stored
\* Filing a photo elsewhere does not matter either.
LEMMA RefilePending ==
  ASSUME RowsOK, PendingInv, CleanRedactionFinal, UNCHANGED raced,
         NEW c,
         \A q \in Photos : \/ photo'[q] = photo[q]
                           \/ photo[q] # NoRow /\ photo'[q] = [photo[q] EXCEPT !.caseId = c],
         \A r \in Requests : req'[r] = req[r] \/ req'[r].step # "patchChecked"
  PROVE  PendingInv' /\ CleanRedactionFinal'
  <1>1. \A q \in Photos : photo[q] # NoRow => photo[q] \in PhotoRow
    BY DEF RowsOK
  <1>2. \A q \in Photos : \/ photo'[q] = photo[q]
                          \/ photo[q] # NoRow /\ photo'[q].redacted = photo[q].redacted
                              /\ photo'[q].pos = photo[q].pos
    BY <1>1 DEF PhotoRow
  <1>3. QED
    BY <1>2, OtherPending

\* No step puts a position back on a cleanly redacted photo.
LEMMA StepFinal ==
  RowsOK /\ PendingInv /\ CleanRedactionFinal /\ [Next]_vars
    => PendingInv' /\ CleanRedactionFinal'
  <1> SUFFICES ASSUME RowsOK, PendingInv, CleanRedactionFinal, [Next]_vars
               PROVE  PendingInv' /\ CleanRedactionFinal'
    OBVIOUS
  <1> DEFINE Goal == PendingInv' /\ CleanRedactionFinal'
  <1>1. ASSUME NEW r \in Requests, NEW p \in Photos, InsertPhoto(r, p) PROVE Goal
    <2>1. photo'[p].redacted = FALSE
      BY <1>1 DEF InsertPhoto, RowsOK
    <2>2. \A q \in Photos : q # p => photo'[q] = photo[q]
      BY <1>1 DEF InsertPhoto, RowsOK
    <2>3. \A s \in Requests : req'[s] = req[s] \/ req'[s].step # "patchChecked"
      BY <1>1 DEF InsertPhoto, Continue, RowsOK
    <2>4. QED
      BY <1>1, <2>1, <2>2, <2>3, OtherPending DEF InsertPhoto
  <1>2. ASSUME NEW r \in Requests, NEW p \in Photos, PatchLoad(r, p) PROVE Goal
    BY <1>2, OtherPending DEF PatchLoad, RowsOK
  <1>3. ASSUME NEW r \in Requests, PatchCheck(r) PROVE Goal
    <2>1. CASE Finish(r)
      BY <1>3, <2>1, OtherPending DEF PatchCheck, Finish, Idle, RowsOK
    <2>2. CASE /\ Stored(req[r].photo)
               /\ ~(photo[req[r].photo].redacted /\ photo[req[r].photo].pos # req[r].pos)
               /\ req' = [req EXCEPT ![r].step = "patchChecked"]
      <3>1. /\ req'[r].photo = req[r].photo
            /\ req'[r].pos = req[r].pos
            /\ \A s \in Requests : s # r => req'[s] = req[s]
        BY <2>2 DEF RowsOK, Request
      <3>2. UNCHANGED <<photo, raced>>
        BY <1>3 DEF PatchCheck
      <3>3. QED
        BY <2>2, <3>1, <3>2 DEF PendingInv, CleanRedactionFinal, Stored
    <2>3. QED
      BY <1>3, <2>1, <2>2 DEF PatchCheck
  <1>4. ASSUME NEW r \in Requests, PatchWrite(r) PROVE Goal
    <2> DEFINE p == req[r].photo
    <2>1. /\ \A q \in Photos : q # p => photo'[q] = photo[q]
          /\ photo[p] = NoRow => photo' = photo
      BY <1>4 DEF PatchWrite, RowsOK
    <2>2. ASSUME p \in Photos, photo[p] # NoRow
          PROVE  photo'[p].redacted = photo[p].redacted /\ photo'[p].pos = req[r].pos
      <3>1. photo[p] \in PhotoRow
        BY <2>2 DEF RowsOK
      <3>2. photo'[p] = [photo[p] EXCEPT !.pos = req[r].pos, !.addr = req[r].addr]
        BY <1>4, <2>2 DEF PatchWrite, RowsOK
      <3>3. QED
        BY <3>1, <3>2 DEF PhotoRow
    <2>3. /\ req[r].step = "patchChecked"
          /\ UNCHANGED raced
          /\ \A s \in Requests : req'[s] = req[s] \/ req'[s].step # "patchChecked"
      BY <1>4 DEF PatchWrite, Finish, Idle, RowsOK
    <2>4. CleanRedactionFinal'
      BY <2>1, <2>2, <2>3 DEF CleanRedactionFinal, PendingInv, Stored
    <2>5. PendingInv'
      BY <2>1, <2>2, <2>3 DEF PendingInv
    <2>6. QED
      BY <2>4, <2>5
  <1>5. ASSUME NEW r \in Requests, NEW c \in Cases, CreateCase(r, c) PROVE Goal
    <2>1. \A q \in Photos : \/ photo'[q] = photo[q]
                            \/ photo[q] # NoRow /\ photo'[q] = [photo[q] EXCEPT !.caseId = c]
      BY <1>5 DEF CreateCase, Stored, RowsOK
    <2>2. \A s \in Requests : req'[s] = req[s] \/ req'[s].step # "patchChecked"
      BY <1>5 DEF CreateCase, Continue, RowsOK
    <2>3. QED
      BY <1>5, <2>1, <2>2, RefilePending DEF CreateCase
  <1>6. ASSUME NEW r \in Requests, NEW c \in Cases,
               UpdateCase(r, c) \/ CloseRead(r, c) \/ ReopenRead(r, c)
        PROVE  Goal
    <2>1. \A s \in Requests : req'[s] = req[s] \/ req'[s].step # "patchChecked"
      BY <1>6 DEF UpdateCase, CloseRead, ReopenRead, Continue, RowsOK
    <2>2. QED
      BY <1>6, <2>1, OtherPending DEF UpdateCase, CloseRead, ReopenRead
  <1>7. ASSUME NEW r \in Requests, CloseWrite(r) \/ ReopenWrite(r) \/ Abandon(r) PROVE Goal
    <2>1. \A s \in Requests : req'[s] = req[s] \/ req'[s].step # "patchChecked"
      BY <1>7 DEF CloseWrite, ReopenWrite, Abandon, Continue, Finish, Idle, RowsOK
    <2>2. QED
      BY <1>7, <2>1, OtherPending DEF CloseWrite, ReopenWrite, Abandon
  <1>8. ASSUME NEW r \in Requests, RedactIfDue(r) \/ RedactDueForCase(r) PROVE Goal
    <2>1. PICK S : Redact(S)
      BY <1>8 DEF RedactIfDue, RedactDueForCase
    <2>2. \A s \in Requests : req'[s] = req[s] \/ req'[s] = Idle
      BY <1>8 DEF RedactIfDue, RedactDueForCase, Finish, RowsOK
    <2>3. QED
      BY <2>1, <2>2, RedactFinal
  <1>9. CASE RedactDueLocations
    BY <1>9, RedactFinal DEF RedactDueLocations
  <1>10. ASSUME NEW p \in Photos, DeletePhoto(p) PROVE Goal
    <2>1. photo'[p] = NoRow /\ \A q \in Photos : q # p => photo'[q] = photo[q]
      BY <1>10 DEF DeletePhoto, RowsOK
    <2>2. raced' = raced \ {p} /\ UNCHANGED req
      BY <1>10 DEF DeletePhoto
    <2>3. QED
      BY <2>1, <2>2 DEF PendingInv, CleanRedactionFinal, Stored
  <1>11. ASSUME NEW p \in Photos, UnlinkPhotoCase(p) PROVE Goal
    BY <1>11, RefilePending DEF UnlinkPhotoCase, Stored, RowsOK
  <1>12. ASSUME NEW c \in Cases, DeleteCase(c) PROVE Goal
    BY <1>12, RefilePending DEF DeleteCase, Stored
  <1>13. CASE Tick \/ UNCHANGED vars
    BY <1>13, OtherPending DEF Tick, vars
  <1>14. ASSUME NEW r \in Requests, NEW c \in Cases, NEW p \in Photos,
               AssignPhotoCase(r, c, p) PROVE Goal
    <2>1. \A q \in Photos : \/ photo'[q] = photo[q]
                            \/ photo[q] # NoRow /\ photo'[q] = [photo[q] EXCEPT !.caseId = c]
      BY <1>14 DEF AssignPhotoCase, Stored, RowsOK
    <2>2. \A s \in Requests : req'[s] = req[s] \/ req'[s].step # "patchChecked"
      BY <1>14 DEF AssignPhotoCase, Continue, RowsOK
    <2>3. QED
      BY <1>14, <2>1, <2>2, RefilePending DEF AssignPhotoCase
  <1>15. QED
    BY <1>1, <1>2, <1>3, <1>4, <1>5, <1>6, <1>7, <1>8, <1>9, <1>10, <1>11, <1>12, <1>13, <1>14 DEF Next
-----------------------------------------------------------------------------
\* The conjunction is an inductive invariant of the system.
LEMMA InductiveInvariant == Spec => []IInv
  <1>1. Init => IInv
    BY InitType DEF Init, IInv, CaseExists, PeriodInv, PendingInv, CleanRedactionFinal, Stored, Idle
  <1>2. IInv /\ [Next]_vars => IInv'
    BY StepType, StepRefs, StepPeriod, StepFinal DEF IInv
  <1>3. QED
    BY <1>1, <1>2, PTL DEF Spec

\* Every reachable state is well typed: rows stay rows, requests requests, and no
\* photo names a case that is gone.
THEOREM TypeCorrect == Spec => []TypeOK
  <1>1. IInv => TypeOK
    BY DEF IInv, TypeOK
  <1>2. QED
    BY <1>1, InductiveInvariant, PTL

\* A redaction that no PATCH overtook is final (UpdatePhoto, the redacting
\* UPDATE statements).
THEOREM CleanRedaction == Spec => []CleanRedactionFinal
  BY InductiveInvariant, PTL DEF IInv

\* No location is removed before its case was closed for the whole period.
THEOREM NoEarly == Spec => NoEarlyRedaction
  <1> DEFINE Lost(p) == Stored(p) /\ photo'[p] # NoRow /\ ~photo[p].redacted /\ photo'[p].redacted
             Kept(p) == \E c \in Cases :
                          /\ Closed(c) /\ photo[p].caseId = c
                          /\ lastOpen[c] + RetentionYears(case[c].kind) <= now
  <1>1. ASSUME IInv, NEW p \in Photos, Due(p) PROVE Kept(p)
    BY <1>1 DEF IInv, RowsOK, PeriodInv, Due, Expired, Closed, Known
  <1>2. ASSUME IInv, NEW p \in Photos, Lost(p), Next PROVE Due(p)
    <2>1. photo[p] \in PhotoRow /\ photo[p].redacted = FALSE
      BY <1>2 DEF IInv, RowsOK, Stored, PhotoRow
    <2>2. ASSUME NEW S, Redact(S) PROVE Due(p)
      BY <1>2, <2>2 DEF Redact
    <2>3. ASSUME NEW c, photo'[p] = [photo[p] EXCEPT !.caseId = c] PROVE FALSE
      BY <1>2, <2>1, <2>3 DEF PhotoRow
    <2>4. ASSUME NEW r \in Requests, PatchWrite(r) PROVE FALSE
      BY <1>2, <2>1, <2>4 DEF PatchWrite, IInv, RowsOK, PhotoRow, Stored
    <2>5. ASSUME NEW r \in Requests, NEW q \in Photos, InsertPhoto(r, q) PROVE FALSE
      BY <1>2, <2>1, <2>5 DEF InsertPhoto, FreshPhoto, IInv, RowsOK, Stored
    <2>6. photo'[p] # photo[p]
      BY <1>2, <2>1
    <2>7. ASSUME NEW r \in Requests, NEW c \in Cases, CreateCase(r, c) PROVE FALSE
      <3>1. photo'[p] = photo[p] \/ photo'[p] = [photo[p] EXCEPT !.caseId = c]
        <4>1. CASE UNCHANGED <<photo, req>>
          BY <4>1
        <4>2. ASSUME NEW q \in Photos, photo' = [photo EXCEPT ![q].caseId = c]
              PROVE  photo'[p] = photo[p] \/ photo'[p] = [photo[p] EXCEPT !.caseId = c]
          BY <4>2 DEF IInv, RowsOK
        <4>3. QED
          BY <2>7, <4>1, <4>2 DEF CreateCase
      <3>2. QED
        BY <2>3, <2>6, <3>1
    <2>11. ASSUME NEW r \in Requests, NEW c \in Cases, NEW q \in Photos,
                  AssignPhotoCase(r, c, q)
           PROVE  FALSE
      BY <2>3, <2>6, <2>11 DEF AssignPhotoCase, IInv, RowsOK
    <2>8. ASSUME NEW q \in Photos, DeletePhoto(q) \/ UnlinkPhotoCase(q) PROVE FALSE
      BY <1>2, <2>3, <2>6, <2>8 DEF DeletePhoto, UnlinkPhotoCase, IInv, RowsOK
    <2>9. ASSUME NEW c \in Cases, DeleteCase(c) PROVE FALSE
      BY <2>3, <2>6, <2>9 DEF DeleteCase
    <2>10. QED
      BY <1>2, <2>2, <2>4, <2>5, <2>6, <2>7, <2>8, <2>9, <2>11
         DEF Next, PatchLoad, PatchCheck, UpdateCase, CloseRead, CloseWrite, ReopenRead,
             ReopenWrite, RedactIfDue, RedactDueForCase, RedactDueLocations, Abandon, Tick
  <1>3. IInv /\ [Next]_vars => [\A p \in Photos : Lost(p) => Kept(p)]_vars
    BY <1>1, <1>2
  <1>4. QED
    BY <1>3, InductiveInvariant, PTL DEF Spec, NoEarlyRedaction

\* The closing date of a closed case never moves.
THEOREM Deadline == Spec => DeadlineKept
  <1> DEFINE Fixed(c) == Closed(c) /\ Known(c)' /\ case'[c].closedAt # NoTime
                           => case'[c].closedAt = case[c].closedAt
  <1>1. IInv /\ [Next]_vars => [\A c \in Cases : Fixed(c)]_vars
    <2> SUFFICES ASSUME IInv, Next, NEW c \in Cases, Closed(c), case'[c].closedAt # NoTime,
                        case'[c] # NoRow
                 PROVE  case'[c].closedAt = case[c].closedAt
      BY DEF Known
    <2> USE DEF IInv, RowsOK
    <2>1. case[c] \in CaseRow
      BY DEF Closed, Known
    <2>2. ASSUME NEW r \in Requests, NEW d \in Cases, CreateCase(r, d)
          PROVE case'[c] = case[c]
      BY <2>2 DEF CreateCase, FreshCase, Closed, Known
    <2>3. ASSUME NEW r \in Requests, NEW d \in Cases, UpdateCase(r, d)
          PROVE  case'[c].closedAt = case[c].closedAt
      BY <2>1, <2>3 DEF UpdateCase, CaseRow
    <2>4. ASSUME NEW r \in Requests, CloseWrite(r) PROVE case'[c] = case[c]
      BY <2>4 DEF CloseWrite, Closed, Known
    <2>5. ASSUME NEW r \in Requests, ReopenWrite(r) PROVE case'[c] = case[c]
      BY <2>1, <2>5 DEF ReopenWrite, CaseRow
    <2>6. ASSUME NEW d \in Cases, DeleteCase(d) PROVE case'[c] = case[c]
      BY <2>6 DEF DeleteCase
    <2>7. QED
      BY <2>2, <2>3, <2>4, <2>5, <2>6
         DEF Next, InsertPhoto, PatchLoad, PatchCheck, PatchWrite, CloseRead, ReopenRead,
             AssignPhotoCase, RedactIfDue, RedactDueForCase, Abandon, DeletePhoto,
             UnlinkPhotoCase, RedactDueLocations, Tick
  <1>2. QED
    BY <1>1, InductiveInvariant, PTL DEF Spec, DeadlineKept
=============================================================================
