------------------------------ MODULE Retention ------------------------------
(***************************************************************************)
(* Cases (Vorgaenge), the retention period of photo locations and the      *)
(* hourly worker that removes them: internal/records/cases.go, the parts   *)
(* of internal/records/records.go that write a photo's location, and       *)
(* internal/retention/worker.go.                                           *)
(*                                                                         *)
(* A location is a position (latitude and longitude together) and an       *)
(* address kept in the JSON column "extra".  Time is counted in years.     *)
(* Every SQL statement and every transaction is one step; the handlers     *)
(* that issue several statements hold a request between them, and any      *)
(* other handler, or the worker, may run in the gap.                       *)
(***************************************************************************)
EXTENDS Naturals

CONSTANTS
  Photos, Cases,      \* primary keys of records and cases
  Requests,           \* HTTP requests that may be in progress together
  Positions,          \* GPS positions a client may send
  MaxNow,             \* bound: the clock stops here
  NoRow, NoPos, NoCase, NoPhoto, NoTime

Kinds == {"civil", "criminal"}

\* Years a closed case keeps the locations of its photos.
RetentionYears(kind) == IF kind = "criminal" THEN 5 ELSE 3

Position  == Positions \cup {NoPos}
PhotoRow  == [pos: Position, addr: BOOLEAN, importAddr: BOOLEAN,
              caseId: Cases \cup {NoCase}, redacted: BOOLEAN]
CaseRow   == [kind: Kinds, closedAt: Nat \cup {NoTime}]
Steps     == {"idle", "patchLoaded", "patchChecked", "closing", "reopening",
              "redactCase", "redactPhoto"}
Request   == [step: Steps, photo: Photos \cup {NoPhoto}, case: Cases \cup {NoCase},
              pos: Position, addr: BOOLEAN]

ASSUME RetentionAssumption ==
  /\ MaxNow \in Nat
  /\ NoRow \notin PhotoRow \cup CaseRow
  /\ NoPos \notin Positions
  /\ NoCase \notin Cases
  /\ NoPhoto \notin Photos
  /\ NoTime \notin Nat

VARIABLES
  photo,       \* table records
  case,        \* table cases
  now,         \* the database clock, in years
  req,         \* requests in progress, each between two of its statements
  lastOpen,    \* history: when each case was last seen open
  raced        \* history: photos redacted while a PATCH had passed its check

vars == <<photo, case, now, req, lastOpen, raced>>

Idle == [step |-> "idle", photo |-> NoPhoto, case |-> NoCase,
         pos |-> NoPos, addr |-> FALSE]

\* The columns hold what their types admit ...
RowsOK ==
  /\ photo \in [Photos -> PhotoRow \cup {NoRow}]
  /\ case \in [Cases -> CaseRow \cup {NoRow}]
  /\ now \in Nat
  /\ req \in [Requests -> Request]
  /\ lastOpen \in [Cases -> Nat]
  /\ raced \in SUBSET Photos

\* ... and the foreign key of a photo names a case that exists.
CaseExists ==
  \A p \in Photos : photo[p] # NoRow /\ photo[p].caseId # NoCase
                      => photo[p].caseId \in Cases /\ case[photo[p].caseId] # NoRow

\* The type invariant: rows are rows, requests are requests, references hold.
TypeOK == RowsOK /\ CaseExists

Init ==
  /\ photo = [p \in Photos |-> NoRow]
  /\ case = [c \in Cases |-> NoRow]
  /\ now = 0
  /\ req = [r \in Requests |-> Idle]
  /\ lastOpen = [c \in Cases |-> 0]
  /\ raced = {}

-----------------------------------------------------------------------------
\* State functions

Stored(p)  == photo[p] # NoRow
Known(c)   == c \in Cases /\ case[c] # NoRow
Closed(c)  == Known(c) /\ case[c].closedAt # NoTime
\* Mutant of Expired: every case expires after the period of a civil one.
ExpiredKindBlind(c) == Closed(c) /\ case[c].closedAt + RetentionYears("civil") <= now

Expired(c) == Closed(c) /\ case[c].closedAt + RetentionYears(case[c].kind) <= now

\* Mutant of Due: a photo that has an address and no position is passed over.
DueWithPosition(p) ==
  /\ Stored(p)
  /\ ~photo[p].redacted
  /\ photo[p].pos # NoPos
  /\ Expired(photo[p].caseId)

\* The WHERE clause the three redacting UPDATE statements share.
Due(p) ==
  /\ Stored(p)
  /\ ~photo[p].redacted
  /\ Expired(photo[p].caseId)

\* RedactedCount > 0 of the case summary.
HasRedactedPhoto(c) == \E p \in Photos : Stored(p) /\ photo[p].caseId = c /\ photo[p].redacted

\* The redacting UPDATE over the photos S: position and address go, the photo
\* and what an import wrote next to the address stay.
RedactedRow(row) == [row EXCEPT !.pos = NoPos, !.addr = FALSE, !.redacted = TRUE]

Redact(S) ==
  LET due == {p \in Photos : p \in S /\ Due(p)} IN
  /\ photo' = [p \in Photos |-> IF p \in due THEN RedactedRow(photo[p]) ELSE photo[p]]
  /\ raced' = raced \cup {p \in due : \E r \in Requests :
                                        req[r].step = "patchChecked" /\ req[r].photo = p}

\* A fresh UUID: no row and no request in progress knows it.
FreshPhoto(p) == photo[p] = NoRow /\ \A r \in Requests : req[r].photo # p
FreshCase(c)  == case[c] = NoRow /\ \A r \in Requests : req[r].case # c

Continue(r, step, p, c) ==
  req' = [req EXCEPT ![r] = [step |-> step, photo |-> p, case |-> c,
                             pos |-> NoPos, addr |-> FALSE]]
Finish(r) == req' = [req EXCEPT ![r] = Idle]

-----------------------------------------------------------------------------
\* Photos

\* Repo.Insert, called by savePhoto: the rows are committed first, a photo
\* filed under a case is checked against its deadline afterwards.  An import
\* keeps the catalogue's address inside extra.import and names no case.
InsertPhoto(r, p) ==
  /\ req[r].step = "idle"
  /\ FreshPhoto(p)
  /\ \E pos \in Position, addr, importAddr \in BOOLEAN,
        c \in {d \in Cases : Known(d)} \cup {NoCase} :
       /\ importAddr => c = NoCase /\ (addr => pos # NoPos)
       /\ photo' = [photo EXCEPT ![p] =
            [pos |-> pos, addr |-> addr, importAddr |-> importAddr,
             caseId |-> c, redacted |-> FALSE]]
       /\ IF c = NoCase THEN UNCHANGED req ELSE Continue(r, "redactPhoto", p, NoCase)
  /\ UNCHANGED <<case, now, lastOpen, raced>>

\* Repo.DeletePhoto: the row is gone.
DeletePhoto(p) ==
  /\ Stored(p)
  /\ photo' = [photo EXCEPT ![p] = NoRow]
  /\ raced' = raced \ {p}
  /\ UNCHANGED <<case, now, req, lastOpen>>

\* PATCH /api/records/{id}, first read: the body is merged into the row as it
\* is now.  A missing address may be looked up for the position (the geocoder
\* may or may not answer).
PatchedAddresses(row, clearGps, pos, address) ==
  LET kept == row.addr /\ ~clearGps IN
  CASE address = "clear" -> {FALSE}
    [] address = "set"   -> {TRUE}
    [] OTHER -> {a \in BOOLEAN : a = kept \/ (a /\ ~clearGps /\ pos # NoPos)}

PatchLoad(r, p) ==
  /\ req[r].step = "idle"
  /\ Stored(p)
  /\ \E clearGps \in BOOLEAN, sent \in Positions \cup {photo[p].pos},
        address \in {"keep", "set", "clear"} :
       LET pos == IF clearGps THEN NoPos ELSE sent IN
       \E addr \in PatchedAddresses(photo[p], clearGps, pos, address) :
         req' = [req EXCEPT ![r] = [step |-> "patchLoaded", photo |-> p, case |-> NoCase,
                                    pos |-> pos, addr |-> addr]]
  /\ UNCHANGED <<photo, case, now, lastOpen, raced>>

\* Mutant of PatchCheck: a redacted photo is treated like any other.
PatchCheckLenient(r) ==
  /\ req[r].step = "patchLoaded"
  /\ IF Stored(req[r].photo)
       THEN req' = [req EXCEPT ![r].step = "patchChecked"]
       ELSE Finish(r)
  /\ UNCHANGED <<photo, case, now, lastOpen, raced>>

\* UpdatePhoto reads the row again: after the redaction a changed position is
\* refused (409), the address is not looked at.
PatchCheck(r) ==
  LET p == req[r].photo IN
  /\ req[r].step = "patchLoaded"
  /\ IF Stored(p) /\ ~(photo[p].redacted /\ photo[p].pos # req[r].pos)
       THEN req' = [req EXCEPT ![r].step = "patchChecked"]
       ELSE Finish(r)
  /\ UNCHANGED <<photo, case, now, lastOpen, raced>>

\* ... and writes position and extra, whatever the row holds by now.
PatchWrite(r) ==
  LET p == req[r].photo IN
  /\ req[r].step = "patchChecked"
  /\ photo' = [photo EXCEPT ![p] =
       IF @ = NoRow THEN NoRow ELSE [@ EXCEPT !.pos = req[r].pos, !.addr = req[r].addr]]
  /\ Finish(r)
  /\ UNCHANGED <<case, now, lastOpen, raced>>

-----------------------------------------------------------------------------
\* Cases

\* CreateCase: case and optional first photo in one transaction; the deadline
\* check of that photo follows the commit.
CreateCase(r, c) ==
  /\ req[r].step = "idle"
  /\ FreshCase(c)
  /\ \E kind \in Kinds : case' = [case EXCEPT ![c] = [kind |-> kind, closedAt |-> NoTime]]
  /\ lastOpen' = [lastOpen EXCEPT ![c] = now]
  /\ \/ UNCHANGED <<photo, req>>
     \/ \E p \in Photos :
          /\ Stored(p)
          /\ photo' = [photo EXCEPT ![p].caseId = c]
          /\ Continue(r, "redactPhoto", p, NoCase)
  /\ UNCHANGED <<now, raced>>

\* UpdateCase: a new kind moves the deadline, then due photos are redacted.
UpdateCase(r, c) ==
  /\ req[r].step = "idle"
  /\ Known(c)
  /\ \E kind \in Kinds : case' = [case EXCEPT ![c].kind = kind]
  /\ Continue(r, "redactCase", NoPhoto, c)
  /\ UNCHANGED <<photo, now, lastOpen, raced>>

\* SetCaseClosed(true): a case that reads as closed is returned unchanged.
CloseRead(r, c) ==
  /\ req[r].step = "idle"
  /\ Known(c) /\ ~Closed(c)
  /\ Continue(r, "closing", NoPhoto, c)
  /\ UNCHANGED <<photo, case, now, lastOpen, raced>>

\* Mutant of CloseWrite: the UPDATE without "closed_at IS NULL".
CloseWriteAgain(r) ==
  LET c == req[r].case IN
  /\ req[r].step = "closing"
  /\ IF Known(c)
       THEN /\ case' = [case EXCEPT ![c].closedAt = now]
            /\ Continue(r, "redactCase", NoPhoto, c)
       ELSE /\ UNCHANGED case
            /\ Finish(r)
  /\ UNCHANGED <<photo, now, lastOpen, raced>>

\* UPDATE ... WHERE closed_at IS NULL; no row matched ends the request.
CloseWrite(r) ==
  LET c == req[r].case IN
  /\ req[r].step = "closing"
  /\ IF Known(c) /\ ~Closed(c)
       THEN /\ case' = [case EXCEPT ![c].closedAt = now]
            /\ Continue(r, "redactCase", NoPhoto, c)
       ELSE /\ UNCHANGED case
            /\ Finish(r)
  /\ UNCHANGED <<photo, now, lastOpen, raced>>

\* SetCaseClosed(false): refused once a photo of the case is redacted.
ReopenRead(r, c) ==
  /\ req[r].step = "idle"
  /\ Closed(c) /\ ~HasRedactedPhoto(c)
  /\ Continue(r, "reopening", NoPhoto, c)
  /\ UNCHANGED <<photo, case, now, lastOpen, raced>>

\* The UPDATE that reopens has no condition on the row's state.
ReopenWrite(r) ==
  LET c == req[r].case IN
  /\ req[r].step = "reopening"
  /\ IF Known(c)
       THEN /\ case' = [case EXCEPT ![c].closedAt = NoTime]
            /\ lastOpen' = [lastOpen EXCEPT ![c] = now]
       ELSE UNCHANGED <<case, lastOpen>>
  /\ Finish(r)
  /\ UNCHANGED <<photo, now, raced>>

\* DeleteCase; the foreign key is ON DELETE SET NULL.
DeleteCase(c) ==
  /\ Known(c)
  /\ case' = [case EXCEPT ![c] = NoRow]
  /\ photo' = [p \in Photos |-> IF Stored(p) /\ photo[p].caseId = c
                                  THEN [photo[p] EXCEPT !.caseId = NoCase]
                                  ELSE photo[p]]
  /\ UNCHANGED <<now, req, lastOpen, raced>>

\* AssignPhotoCase: the transaction, then the deadline check.
AssignPhotoCase(r, c, p) ==
  /\ req[r].step = "idle"
  /\ Known(c) /\ Stored(p)
  /\ photo' = [photo EXCEPT ![p].caseId = c]
  /\ Continue(r, "redactPhoto", p, NoCase)
  /\ UNCHANGED <<case, now, lastOpen, raced>>

UnlinkPhotoCase(p) ==
  /\ Stored(p) /\ photo[p].caseId # NoCase
  /\ photo' = [photo EXCEPT ![p].caseId = NoCase]
  /\ UNCHANGED <<case, now, req, lastOpen, raced>>

\* redactIfDue and redactDueForCase, the last statement of their handlers.
RedactIfDue(r) ==
  /\ req[r].step = "redactPhoto"
  /\ Redact({req[r].photo})
  /\ Finish(r)
  /\ UNCHANGED <<case, now, lastOpen>>

RedactDueForCase(r) ==
  /\ req[r].step = "redactCase"
  /\ Redact({p \in Photos : Stored(p) /\ photo[p].caseId = req[r].case})
  /\ Finish(r)
  /\ UNCHANGED <<case, now, lastOpen>>

-----------------------------------------------------------------------------
\* The worker, the clock and failures

\* retention.Run: at start and every hour, over the whole table.
RedactDueLocations ==
  /\ \E p \in Photos : Due(p)
  /\ Redact(Photos)
  /\ UNCHANGED <<case, now, req, lastOpen>>

\* A request ends early: process crash, cancelled context, database error.
Abandon(r) ==
  /\ req[r].step # "idle"
  /\ Finish(r)
  /\ UNCHANGED <<photo, case, now, lastOpen, raced>>

Tick ==
  /\ now < MaxNow
  /\ now' = now + 1
  /\ lastOpen' = [c \in Cases |-> IF Known(c) /\ ~Closed(c) THEN now + 1 ELSE lastOpen[c]]
  /\ UNCHANGED <<photo, case, req, raced>>

Next ==
  \/ \E r \in Requests :
       \/ \E p \in Photos : InsertPhoto(r, p) \/ PatchLoad(r, p)
       \/ \E c \in Cases : \/ CreateCase(r, c) \/ UpdateCase(r, c)
                           \/ CloseRead(r, c) \/ ReopenRead(r, c)
       \/ \E c \in Cases, p \in Photos : AssignPhotoCase(r, c, p)
       \/ PatchCheck(r) \/ PatchWrite(r)
       \/ CloseWrite(r) \/ ReopenWrite(r)
       \/ RedactIfDue(r) \/ RedactDueForCase(r)
       \/ Abandon(r)
  \/ \E p \in Photos : DeletePhoto(p) \/ UnlinkPhotoCase(p)
  \/ \E c \in Cases : DeleteCase(c)
  \/ RedactDueLocations
  \/ Tick

Spec == Init /\ [][Next]_vars

\* The same system with requests that are over before the next year begins: the
\* counterexamples below need no request that takes years.
BriefNext == Next /\ (now' # now => \A r \in Requests : req[r].step = "idle")
BriefSpec == Init /\ [][BriefNext]_vars

\* The worker's ticker keeps firing and time passes; no client has to act.
FairSpec == Spec /\ WF_vars(RedactDueLocations) /\ WF_vars(Tick)

-----------------------------------------------------------------------------
\* Properties

\* A photo loses its location only when its case has been closed without
\* interruption for the whole period of its kind, whichever of the five
\* statements does it and whatever was closed, reopened or changed before.
NoEarlyRedaction ==
  [][\A p \in Photos :
       Stored(p) /\ photo'[p] # NoRow /\ ~photo[p].redacted /\ photo'[p].redacted =>
         \E c \in Cases :
           /\ Closed(c) /\ photo[p].caseId = c
           /\ lastOpen[c] + RetentionYears(case[c].kind) <= now]_vars

\* Two requests that close the same case together do not restart its period:
\* the date a closed case carries never moves.
DeadlineKept ==
  [][\A c \in Cases : Closed(c) /\ Known(c)' /\ case'[c].closedAt # NoTime
                        => case'[c].closedAt = case[c].closedAt]_vars

\* A redaction that met no PATCH between its check and its UPDATE is final: the
\* position stays away, whatever requests are sent from then on.
CleanRedactionFinal ==
  \A p \in Photos : Stored(p) /\ photo[p].redacted /\ p \notin raced => photo[p].pos = NoPos

\* Closing a case has its consequence: the photo loses its location (or leaves
\* the case, or the case is reopened or deleted) even when the request that
\* should have redacted it died on the way and the worker has to.
ClosedCaseRedacts ==
  \A p \in Photos, c \in Cases :
    (Stored(p) /\ photo[p].caseId = c /\ Closed(c) /\ lastOpen[c] + 5 <= MaxNow)
      ~> (~Stored(p) \/ photo[p].redacted \/ photo[p].caseId # c \/ ~Closed(c))

\* doc/Anforderungen.md: after the location was removed GPS cannot be set again.
GpsNotSetAgain ==
  [][\A p \in Photos : Stored(p) /\ photo'[p] # NoRow /\ photo[p].redacted
                         => photo'[p].pos \in {NoPos, photo[p].pos}]_vars
=============================================================================
