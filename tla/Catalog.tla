-------------------------------- MODULE Catalog --------------------------------
(***************************************************************************)
(* Motifs and deletion requests: internal/records/motifs.go, the deletion   *)
(* columns and DeletePhoto of internal/records/records.go, and the handlers *)
(* of internal/httpapi/motifs.go and deletion.go.                           *)
(*                                                                          *)
(* Transactions run under READ COMMITTED: a statement sees what is          *)
(* committed when it begins, and a row that was written stays locked until  *)
(* the end.  A transaction that decides nothing by what it has read earlier *)
(* is one step, at its COMMIT; UnlinkSighting and DeletePhoto are not.      *)
(***************************************************************************)
EXTENDS Naturals, FiniteSets

CONSTANTS
  Photos, Sightings, Motifs,   \* primary keys, each given to one row only
  Users,                       \* accounts that may write
  Officers,                    \* those of them that may execute deletions
  Requests,                    \* HTTP requests that may be in progress together
  New, Gone,                   \* a key before its row is inserted, and after it is deleted
  NoUser, NoPhoto, NoSighting, NoMotif

Absent      == {New, Gone}
PhotoRow    == [requestedBy: Users \cup {NoUser}]
SightingRow == [photo: Photos, motif: Motifs \cup {NoMotif}]

Removing  == {"deleted", "dissolve"}
Deleting  == {"request", "clear", "clearWrite", "execute", "delete"} \cup Removing
Unlinking == {"unlinked", "empty", "shared"}

\* "seen" are the motifs that DeletePhoto has listed, "empty" those it has found
\* without sightings.  Histories: "stale" says that the deletion columns, or the
\* members of the motif, have changed since the request looked at them, and a motif
\* whose members have changed since DeletePhoto looked for them leaves "seen".
Request == [step: {"idle"} \cup Deleting \cup Unlinking,
            actor: Users \cup {NoUser}, photo: Photos \cup {NoPhoto},
            sighting: Sightings \cup {NoSighting}, motif: Motifs \cup {NoMotif},
            seen: SUBSET Motifs, empty: SUBSET Motifs, stale: BOOLEAN]

ASSUME CatalogAssumption ==
  /\ Officers \subseteq Users
  /\ Absent \cap (PhotoRow \cup SightingRow \cup {"there"}) = {}
  /\ New # Gone
  /\ NoUser \notin Users /\ NoPhoto \notin Photos
  /\ NoSighting \notin Sightings /\ NoMotif \notin Motifs

VARIABLES
  photo,       \* table records
  sighting,    \* table sightings, as committed
  motif,       \* table motifs, as committed: New, "there" or Gone
  req          \* requests in progress, each between two of its statements

vars == <<photo, sighting, motif, req>>

Stored(p)  == photo[p] \notin Absent
Seen(s)    == sighting[s] \notin Absent
There(m)   == motif[m] = "there"
OfPhoto(p) == {s \in Sightings : Seen(s) /\ sighting[s].photo = p}
Members(m) == {s \in Sightings : Seen(s) /\ sighting[s].motif = m}
MotifsOf(S) == {sighting[s].motif : s \in S} \ {NoMotif}

Idle == [step |-> "idle", actor |-> NoUser, photo |-> NoPhoto, sighting |-> NoSighting,
         motif |-> NoMotif, seen |-> {}, empty |-> {}, stale |-> FALSE]

\* The columns hold what their types admit ...
RowsOK ==
  /\ photo \in [Photos -> PhotoRow \cup Absent]
  /\ sighting \in [Sightings -> SightingRow \cup Absent]
  /\ motif \in [Motifs -> {"there"} \cup Absent]
  /\ req \in [Requests -> Request]

\* ... and a sighting has its photo, and its motif if it names one.
ForeignKeys ==
  \A s \in Sightings : Seen(s) =>
    /\ Stored(sighting[s].photo)
    /\ sighting[s].motif # NoMotif => There(sighting[s].motif)

\* The type invariant.
TypeOK == RowsOK /\ ForeignKeys

Init ==
  /\ photo = [p \in Photos |-> New]
  /\ sighting = [s \in Sightings |-> New]
  /\ motif = [m \in Motifs |-> New]
  /\ req = [r \in Requests |-> Idle]

-----------------------------------------------------------------------------
\* Requests

Begin(r, next) == req[r].step = "idle" /\ req' = [req EXCEPT ![r] = next]
Goto(r, step)  == req' = [req EXCEPT ![r].step = step]

\* The members of the motifs M have changed: who has counted them is mistaken.
Miscounted(rq, M) ==
  [r \in Requests |->
     CASE rq[r].step \in {"empty", "shared"} /\ rq[r].motif \in M -> [rq[r] EXCEPT !.stale = TRUE]
       [] rq[r].step = "dissolve" -> [rq[r] EXCEPT !.seen = @ \ M]
       [] OTHER -> rq[r]]

\* The deletion columns of p have changed: so is who has checked them.
Overtaken(rq, p) ==
  [r \in Requests |-> IF rq[r].step \in Deleting /\ rq[r].photo = p
                        THEN [rq[r] EXCEPT !.stale = TRUE] ELSE rq[r]]

Finished(r) == [req EXCEPT ![r] = Idle]

\* The rows that a transaction in progress has written: a deletion has its photo and,
\* by cascade, the photo's sightings; nobody else can give it more of them.
PhotoLocked(p) == \E r \in Requests : req[r].step \in Removing /\ req[r].photo = p
Locked(s) == \/ \E r \in Requests : req[r].step \in Unlinking /\ req[r].sighting = s
             \/ Seen(s) /\ PhotoLocked(sighting[s].photo)

\* A request ends early; its transaction is rolled back.
Abort(r) ==
  /\ req[r].step # "idle"
  /\ req' = Finished(r)
  /\ UNCHANGED <<photo, sighting, motif>>

-----------------------------------------------------------------------------
\* Photos and sightings

\* Repo.Insert: the foreign key refuses a motif that has gone.
InsertPhoto(p, s, m) ==
  /\ photo[p] = New /\ sighting[s] = New
  /\ m # NoMotif => There(m)
  /\ photo' = [photo EXCEPT ![p] = [requestedBy |-> NoUser]]
  /\ sighting' = [sighting EXCEPT ![s] = [photo |-> p, motif |-> m]]
  /\ req' = Miscounted(req, {m})
  /\ UNCHANGED motif

AddSighting(p, s) ==
  /\ Stored(p) /\ ~PhotoLocked(p) /\ sighting[s] = New
  /\ sighting' = [sighting EXCEPT ![s] = [photo |-> p, motif |-> NoMotif]]
  /\ UNCHANGED <<photo, motif, req>>

\* DeleteSighting where it deletes; its own race is in Embedding.  Nobody looks
\* after the motif.
DeleteSighting(s) ==
  /\ Seen(s) /\ ~Locked(s)
  /\ OfPhoto(sighting[s].photo) # {s}
  /\ req' = Miscounted(req, {sighting[s].motif})
  /\ sighting' = [sighting EXCEPT ![s] = Gone]
  /\ UNCHANGED <<photo, motif>>

-----------------------------------------------------------------------------
\* Motifs

\* CreateMotif inserts the motif and moves its first sighting into it.
CreateMotif(m, s) ==
  /\ motif[m] = New /\ Seen(s) /\ ~Locked(s)
  /\ motif' = [motif EXCEPT ![m] = "there"]
  /\ sighting' = [sighting EXCEPT ![s].motif = m]
  /\ req' = Miscounted(req, {m, sighting[s].motif})
  /\ UNCHANGED photo

\* AssignSighting, out of whatever motif the sighting is in.
AssignSighting(m, s) ==
  /\ There(m) /\ Seen(s) /\ ~Locked(s)
  /\ sighting[s].motif # m
  /\ sighting' = [sighting EXCEPT ![s].motif = m]
  /\ req' = Miscounted(req, {m, sighting[s].motif})
  /\ UNCHANGED <<photo, motif>>

\* Mutant of Cleared: the foreign key sets nothing to NULL.
ClearedNot(m) == sighting

\* The foreign key of motif_id: ON DELETE SET NULL.
Cleared(m) ==
  [s \in Sightings |-> IF s \in Members(m) THEN [sighting[s] EXCEPT !.motif = NoMotif]
                       ELSE sighting[s]]

\* DeleteMotif waits for the transactions that have written a member.
DeleteMotif(m) ==
  /\ There(m)
  /\ \A s \in Members(m) : ~Locked(s)
  /\ motif' = [motif EXCEPT ![m] = Gone]
  /\ sighting' = Cleared(m)
  /\ req' = Miscounted(req, {m})
  /\ UNCHANGED photo

\* UnlinkSighting: the UPDATE, not committed ...
UnlinkUpdate(r, s) ==
  /\ Seen(s) /\ sighting[s].motif # NoMotif /\ ~Locked(s)
  /\ Begin(r, [Idle EXCEPT !.step = "unlinked", !.sighting = s, !.motif = sighting[s].motif])
  /\ UNCHANGED <<photo, sighting, motif>>

\* ... the count, which sees its own UPDATE and those of others when committed ...
UnlinkCount(r) ==
  /\ req[r].step = "unlinked"
  /\ Goto(r, IF Members(req[r].motif) = {req[r].sighting} THEN "empty" ELSE "shared")
  /\ UNCHANGED <<photo, sighting, motif>>

\* ... and the motif is deleted when none was left, which waits for transactions
\* that have written a member meanwhile and sets their sightings to NULL; COMMIT.
UnlinkDelete(r) ==
  /\ req[r].step = "empty"
  /\ LET m == req[r].motif IN
       /\ \A s \in Members(m) \ {req[r].sighting} : ~Locked(s)
       /\ sighting' = Cleared(m)
       /\ motif' = [motif EXCEPT ![m] = Gone]
       /\ req' = Miscounted(Finished(r), {m})
  /\ UNCHANGED photo

\* Otherwise only its date is written; COMMIT.
UnlinkKeep(r) ==
  /\ req[r].step = "shared"
  /\ sighting' = [sighting EXCEPT ![req[r].sighting].motif = NoMotif]
  /\ req' = Miscounted(Finished(r), {req[r].motif})
  /\ UNCHANGED <<photo, motif>>

-----------------------------------------------------------------------------
\* Deletion requests

Ask(step, u, p) == [Idle EXCEPT !.step = step, !.actor = u, !.photo = p]

\* Mutant of RequestRead: a pending request of somebody else is not refused.
RequestReadAny(r, u, p) ==
  /\ Stored(p)
  /\ Begin(r, Ask("request", u, p))
  /\ UNCHANGED <<photo, sighting, motif>>

\* RequestDeletion reads the photo: somebody else's request is in the way ...
RequestRead(r, u, p) ==
  /\ Stored(p)
  /\ photo[p].requestedBy \in {NoUser, u}
  /\ Begin(r, Ask("request", u, p))
  /\ UNCHANGED <<photo, sighting, motif>>

\* The UPDATE of the deletion columns, of no row if the photo has gone; it waits for
\* who is deleting the row.
WriteRequest(r, by) ==
  LET p == req[r].photo IN
    /\ ~PhotoLocked(p)
    /\ IF Stored(p) /\ photo[p].requestedBy # by
         THEN /\ photo' = [photo EXCEPT ![p].requestedBy = by]
              /\ req' = Overtaken(Finished(r), p)
         ELSE /\ req' = Finished(r)
              /\ UNCHANGED photo

\* ... and writes without another look.
RequestWrite(r) ==
  /\ req[r].step = "request"
  /\ WriteRequest(r, req[r].actor)
  /\ UNCHANGED <<sighting, motif>>

\* cancelDeletion: one's own request, or as an officer.
CancelCheck(r, u, p) ==
  /\ Stored(p)
  /\ photo[p].requestedBy \in IF u \in Officers THEN Users ELSE {u}
  /\ Begin(r, Ask("clear", u, p))
  /\ UNCHANGED <<photo, sighting, motif>>

\* ClearDeletion reads once more, only whether there is a request.
ClearRead(r) ==
  /\ req[r].step = "clear"
  /\ LET p == req[r].photo IN
       IF Stored(p) /\ photo[p].requestedBy # NoUser THEN Goto(r, "clearWrite")
       ELSE req' = Finished(r)
  /\ UNCHANGED <<photo, sighting, motif>>

ClearWrite(r) ==
  /\ req[r].step = "clearWrite"
  /\ WriteRequest(r, NoUser)
  /\ UNCHANGED <<sighting, motif>>

\* deleteRecord: an officer, and not his own request; there need not be one.
ExecuteCheck(r, u, p) ==
  /\ u \in Officers
  /\ Stored(p) /\ photo[p].requestedBy # u
  /\ Begin(r, Ask("execute", u, p))
  /\ UNCHANGED <<photo, sighting, motif>>

\* DeletePhoto reads the photo again and lists the motifs of its sightings ...
ListMotifs(r) ==
  /\ req[r].step = "execute"
  /\ IF Stored(req[r].photo)
       THEN req' = [req EXCEPT ![r].step = "delete", ![r].seen = MotifsOf(OfPhoto(req[r].photo))]
       ELSE req' = Finished(r)
  /\ UNCHANGED <<photo, sighting, motif>>

\* ... deletes the record and by cascade its sightings, not committed; it waits for
\* transactions that have written one of these rows ...
DeleteRecord(r) ==
  /\ req[r].step = "delete"
  /\ LET p == req[r].photo IN
       /\ ~PhotoLocked(p)
       /\ \A s \in OfPhoto(p) : ~Locked(s)
       /\ IF Stored(p) THEN Goto(r, "deleted") ELSE req' = Finished(r)
  /\ UNCHANGED <<photo, sighting, motif>>

\* Mutant of Emptied: the motifs go whether they have other members or not.
EmptiedAll(M, S) == {m \in M : There(m)}

\* Those of the motifs M that have no member but the sightings S.
Emptied(M, S) == {m \in M : There(m) /\ Members(m) \subseteq S}

\* ... looks which of the listed motifs have no sighting any more: it does not see
\* its own rows, but what others have not committed yet is as before ...
FindEmpty(r) ==
  /\ req[r].step = "deleted"
  /\ req' = [req EXCEPT ![r].step = "dissolve",
                        ![r].empty = Emptied(req[r].seen, OfPhoto(req[r].photo))]
  /\ UNCHANGED <<photo, sighting, motif>>

\* ... and deletes these, without another look: it waits for transactions that have
\* written a member meanwhile and sets their sightings to NULL; COMMIT.
DeletePhoto(r) ==
  /\ req[r].step = "dissolve"
  /\ LET S == OfPhoto(req[r].photo)
         M == {m \in req[r].empty : There(m)} IN
       /\ \A m \in M : \A s \in Members(m) \ S : ~Locked(s)
       /\ photo' = [photo EXCEPT ![req[r].photo] = Gone]
       /\ sighting' = [s \in Sightings |->
            IF s \in S THEN Gone
            ELSE IF Seen(s) /\ sighting[s].motif \in M THEN [sighting[s] EXCEPT !.motif = NoMotif]
            ELSE sighting[s]]
       /\ motif' = [m \in Motifs |-> IF m \in M THEN Gone ELSE motif[m]]
       /\ req' = Miscounted(Finished(r), M \cup MotifsOf(S))

-----------------------------------------------------------------------------
Step(r) ==
  \/ \E s \in Sightings : UnlinkUpdate(r, s)
  \/ UnlinkCount(r) \/ UnlinkDelete(r) \/ UnlinkKeep(r)
  \/ \E u \in Users, p \in Photos : RequestRead(r, u, p) \/ CancelCheck(r, u, p) \/ ExecuteCheck(r, u, p)
  \/ RequestWrite(r) \/ ClearRead(r) \/ ClearWrite(r) \/ ListMotifs(r)
  \/ DeleteRecord(r) \/ FindEmpty(r) \/ DeletePhoto(r)
  \/ Abort(r)

Next ==
  \/ \E r \in Requests : Step(r)
  \/ \E p \in Photos, s \in Sightings : \/ AddSighting(p, s)
                                        \/ \E m \in Motifs \cup {NoMotif} : InsertPhoto(p, s, m)
  \/ \E s \in Sightings : DeleteSighting(s)
  \/ \E m \in Motifs : \/ DeleteMotif(m)
                       \/ \E s \in Sightings : CreateMotif(m, s) \/ AssignSighting(m, s)

Spec == Init /\ [][Next]_vars

-----------------------------------------------------------------------------
\* Safety

Ends(r, step) == req[r].step = step /\ req'[r].step = "idle"

\* "Das letzte Lösen einer Sichtung löst das Motiv ebenfalls auf" (Help.tsx:464):
\* an unlinking never ends with a motif left that has no sighting.
UnlinkingDissolves ==
  [][\A r \in Requests : \A m \in Motifs :
       (Ends(r, "empty") \/ Ends(r, "shared")) /\ req[r].motif = m /\ There(m)' => Members(m)' # {}]_vars

\* How far that is so: a motif loses its last sighting and stays only when the
\* sighting is moved to another motif or deleted by itself, or when UnlinkSighting or
\* DeletePhoto has been overtaken: by a change of the members it had counted, or of
\* the motifs it had listed.
MotifsHaveMembers ==
  [][\A m \in Motifs : There(m) /\ There(m)' /\ Members(m) # {} /\ Members(m)' = {} =>
       \/ \E s \in Members(m) : Seen(s)' /\ sighting'[s].motif # NoMotif
       \/ \E s \in Members(m) : sighting'[s] = Gone /\ UNCHANGED photo
       \/ \E r \in Requests : Ends(r, "shared") /\ req[r].stale
       \/ \E r \in Requests : Ends(r, "dissolve") /\ m \notin req[r].seen]_vars

\* A sighting that stays leaves its motif only when it is unlinked or moved, or its
\* motif is deleted by a user, or by an unlinking or the deletion of a photo that has
\* counted too early.
MembersKept ==
  [][\A m \in Motifs : \A s \in Members(m) :
       Seen(s)' /\ sighting'[s].motif = NoMotif =>
         \/ ~There(m)' /\ \A r \in Requests : ~Ends(r, "empty") /\ ~Ends(r, "dissolve")
         \/ \E r \in Requests : (Ends(r, "empty") \/ Ends(r, "shared"))
                                   /\ (req[r].sighting = s \/ req[r].stale)
         \/ \E r \in Requests : Ends(r, "dissolve") /\ m \notin req[r].seen]_vars

\* "Eigene Anträge dürfen Sie nicht selbst ausführen, auch als Löschbeauftragter"
\* (Help.tsx:514): no photo is deleted by the author of its pending request.
OwnRequestsRefused ==
  [][\A p \in Photos : Stored(p) /\ ~Stored(p)' =>
       \A r \in Requests : Ends(r, "dissolve") => photo[p].requestedBy # req[r].actor]_vars

\* How far that is so: nobody but an officer executes a deletion, and nobody one that
\* he has requested himself, unless the request was changed between his check and
\* the DELETE.
NoOwnExecution ==
  [][\A p \in Photos : Stored(p) /\ ~Stored(p)' =>
       \E r \in Requests : /\ Ends(r, "dissolve") /\ req[r].photo = p
                           /\ req[r].actor \in Officers
                           /\ photo[p].requestedBy # req[r].actor \/ req[r].stale]_vars

\* A pending request is withdrawn by its author or an officer only, and never
\* replaced by that of another, unless by somebody who had checked an earlier one.
RequestRespected ==
  [][\A p \in Photos : Stored(p) /\ Stored(p)' /\ photo[p].requestedBy \in Users
                         /\ photo'[p].requestedBy # photo[p].requestedBy =>
       \E r \in Requests :
         /\ req[r].photo = p /\ (Ends(r, "request") \/ Ends(r, "clearWrite"))
         /\ Ends(r, "request") => req[r].stale
         /\ Ends(r, "clearWrite") =>
              req[r].stale \/ req[r].actor \in Officers \cup {photo[p].requestedBy}]_vars
===============================================================================
