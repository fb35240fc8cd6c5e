----------------------------- MODULE CatalogProofs -----------------------------
(***************************************************************************)
(* Proofs about Catalog, for any numbers of photos, sightings, motifs,      *)
(* users and requests.                                                      *)
(***************************************************************************)
EXTENDS Catalog, TLAPS

\* A transaction that unlinks a sighting holds its row: it is still a member of the
\* motif it was found in, and nobody else unlinks it.
LockOK ==
  \A r \in Requests : req[r].step \in Unlinking =>
    /\ req[r].sighting \in Sightings /\ req[r].motif \in Motifs
    /\ Seen(req[r].sighting) /\ sighting[req[r].sighting].motif = req[r].motif
    /\ \A q \in Requests : req[q].step \in Unlinking /\ req[q].sighting = req[r].sighting => q = r

\* A transaction that deletes a photo holds the rows of its sightings alone as well.
HoldOK ==
  \A r \in Requests : req[r].step \in Removing =>
    /\ \A q \in Requests : req[q].step \in Unlinking => sighting[req[q].sighting].photo # req[r].photo
    /\ \A q \in Requests : req[q].step \in Removing /\ req[q].photo = req[r].photo => q = r

\* What an unlinking has counted is so until another request changes it.
CountOK ==
  \A r \in Requests, m \in Motifs : ~req[r].stale /\ req[r].motif = m =>
    /\ req[r].step = "empty" => Members(m) = {req[r].sighting}
    /\ req[r].step = "shared" => Members(m) # {req[r].sighting}

\* What the deletion of a photo has found empty is so, and nothing else that it has
\* listed, until another request changes it.
FoundOK ==
  \A r \in Requests : req[r].step = "dissolve" =>
    \A m \in req[r].seen :
      m \in req[r].empty <=> There(m) /\ Members(m) \subseteq OfPhoto(req[r].photo)

\* Whose request the request rq lets be there.
Admitted(rq) ==
  CASE rq.step = "request" -> {NoUser, rq.actor}
    [] rq.step \in {"clear", "clearWrite"} ->
         {NoUser} \cup IF rq.actor \in Officers THEN Users ELSE {rq.actor}
    [] OTHER -> {NoUser} \cup (Users \ {rq.actor})

\* What a deletion request has checked is so until another request changes it.
CheckOK ==
  \A r \in Requests : req[r].step \in Deleting =>
    /\ req[r].photo \in Photos /\ req[r].actor \in Users /\ photo[req[r].photo] # New
    /\ req[r].step \in {"execute", "delete"} \cup Removing => req[r].actor \in Officers
    /\ ~req[r].stale /\ Stored(req[r].photo) => photo[req[r].photo].requestedBy \in Admitted(req[r])

IInv == RowsOK /\ ForeignKeys /\ LockOK /\ HoldOK /\ CountOK /\ FoundOK /\ CheckOK

-----------------------------------------------------------------------------
\* req' holds the same for r, save that r may have become stale, or has to take some
\* of the motifs it has seen for changed.
Same(r) ==
  /\ req'[r].step = req[r].step /\ req'[r].actor = req[r].actor
  /\ req'[r].photo = req[r].photo /\ req'[r].sighting = req[r].sighting
  /\ req'[r].motif = req[r].motif /\ req'[r].seen \subseteq req[r].seen
  /\ req'[r].empty = req[r].empty
  /\ req[r].stale => req'[r].stale

\* The idle request is a request.
LEMMA IdleType == Idle \in Request /\ Idle.step = "idle"
BY DEF Idle, Request

\* Miscounted changes nothing but "stale", and that for whoever counts one of the motifs,
\* and "seen" of who has found motifs empty.
LEMMA MovedReq ==
  ASSUME NEW rq \in [Requests -> Request], NEW M, req' = Miscounted(rq, M)
  PROVE  /\ req' \in [Requests -> Request]
         /\ \A r \in Requests :
              /\ req'[r].step = rq[r].step /\ req'[r].actor = rq[r].actor
              /\ req'[r].photo = rq[r].photo /\ req'[r].sighting = rq[r].sighting
              /\ req'[r].motif = rq[r].motif /\ req'[r].seen \subseteq rq[r].seen
              /\ req'[r].empty = rq[r].empty
              /\ rq[r].stale => req'[r].stale
              /\ rq[r].step \in {"empty", "shared"} /\ rq[r].motif \in M => req'[r].stale
              /\ rq[r].step = "dissolve" => req'[r].seen \cap M = {}
<1>1. \A r \in Requests : /\ rq[r] \in Request
                          /\ req'[r] \in {rq[r], [rq[r] EXCEPT !.stale = TRUE], [rq[r] EXCEPT !.seen = @ \ M]}
  BY DEF Miscounted
<1>2. \A r \in Requests : rq[r].step \in {"empty", "shared"} /\ rq[r].motif \in M
        => req'[r] = [rq[r] EXCEPT !.stale = TRUE]
  BY DEF Miscounted
<1>a. \A r \in Requests : rq[r].step = "dissolve" => req'[r] = [rq[r] EXCEPT !.seen = @ \ M]
  BY DEF Miscounted
<1>3. \A r \in Requests : [rq[r] EXCEPT !.stale = TRUE] \in Request
  BY <1>1, ZenonT(90) DEF Request
<1>b. \A r \in Requests : [rq[r] EXCEPT !.seen = @ \ M] \in Request
  BY <1>1, SMTT(30) DEF Request
<1>4. req' \in [Requests -> Request]
  BY <1>1, <1>3, <1>b DEF Miscounted
<1>5. ASSUME NEW r \in Requests
      PROVE  /\ req'[r].step = rq[r].step /\ req'[r].actor = rq[r].actor
             /\ req'[r].photo = rq[r].photo /\ req'[r].sighting = rq[r].sighting
             /\ req'[r].motif = rq[r].motif /\ req'[r].seen \subseteq rq[r].seen
             /\ req'[r].empty = rq[r].empty
             /\ rq[r].stale => req'[r].stale
  BY <1>1, SMTT(30) DEF Request
<1>6. \A r \in Requests :
        rq[r].step \in {"empty", "shared"} /\ rq[r].motif \in M => req'[r].stale
  <2>1. \A r \in Requests : [rq[r] EXCEPT !.stale = TRUE].stale = TRUE
    BY <1>1 DEF Request
  <2> QED BY <1>2, <2>1
<1>7. \A r \in Requests : rq[r].step = "dissolve" => req'[r].seen = rq[r].seen \ M
  BY <1>1, <1>a DEF Request
<1> QED BY <1>4, <1>5, <1>6, <1>7

\* Overtaken the same, for whoever has checked the deletion columns of p.
LEMMA OvertakenReq ==
  ASSUME NEW rq \in [Requests -> Request], NEW p, req' = Overtaken(rq, p)
  PROVE  /\ req' \in [Requests -> Request]
         /\ \A r \in Requests :
              /\ req'[r].step = rq[r].step /\ req'[r].actor = rq[r].actor
              /\ req'[r].photo = rq[r].photo /\ req'[r].sighting = rq[r].sighting
              /\ req'[r].motif = rq[r].motif /\ req'[r].seen = rq[r].seen
              /\ req'[r].empty = rq[r].empty
              /\ rq[r].stale => req'[r].stale
              /\ rq[r].step \in Deleting /\ rq[r].photo = p => req'[r].stale
<1>1. \A r \in Requests : rq[r] \in Request /\ req'[r] \in {rq[r], [rq[r] EXCEPT !.stale = TRUE]}
  BY DEF Overtaken
<1>2. \A r \in Requests : rq[r].step \in Deleting /\ rq[r].photo = p
        => req'[r] = [rq[r] EXCEPT !.stale = TRUE]
  BY DEF Overtaken
<1>3. \A r \in Requests : [rq[r] EXCEPT !.stale = TRUE] \in Request
  BY <1>1, ZenonT(30) DEF Request
<1>4. req' \in [Requests -> Request]
  BY <1>1, <1>3 DEF Overtaken
<1> QED BY <1>1, <1>2, <1>4 DEF Request

\* When requests stay as they are or end, and the rows they hold or have looked at
\* stay as they are or are known to be old, what they know is still so.
LEMMA KnowledgeKept ==
  ASSUME IInv,
         \A r \in Requests : Same(r) \/ req'[r].step = "idle",
         \A r \in Requests : req'[r].step \in Unlinking =>
           /\ sighting'[req[r].sighting] \notin Absent
           /\ sighting'[req[r].sighting].motif = req[r].motif
           /\ sighting'[req[r].sighting].photo = sighting[req[r].sighting].photo,
         \A m \in Motifs : \/ Members(m)' = Members(m) /\ motif'[m] = motif[m]
                          \/ \A r \in Requests :
                               /\ req'[r].step \in {"empty", "shared"} /\ req[r].motif = m => req'[r].stale
                               /\ req'[r].step = "dissolve" => m \notin req'[r].seen,
         \A p \in Photos : \/ OfPhoto(p)' = OfPhoto(p)
                          \/ \A r \in Requests : req'[r].step \in Removing => req[r].photo # p,
         \A p \in Photos : \/ photo'[p] = photo[p] \/ photo[p] = New \/ photo'[p] = Gone
                          \/ \A r \in Requests : req'[r].step \in Deleting /\ req[r].photo = p
                               => req'[r].stale,
         \A p \in Photos : photo'[p] = New => photo[p] = New
  PROVE  LockOK' /\ HoldOK' /\ CountOK' /\ FoundOK' /\ CheckOK'
<1>1. LockOK'
  <2> SUFFICES ASSUME NEW r \in Requests, req'[r].step \in Unlinking
               PROVE  /\ req'[r].sighting \in Sightings /\ req'[r].motif \in Motifs
                      /\ sighting'[req'[r].sighting] \notin Absent
                      /\ sighting'[req'[r].sighting].motif = req'[r].motif
                      /\ \A q \in Requests : req'[q].step \in Unlinking
                           /\ req'[q].sighting = req'[r].sighting => q = r
    BY DEF LockOK, Seen
  <2>1. Same(r) /\ req[r].step \in Unlinking
    BY DEF Same, Unlinking
  <2>2. \A q \in Requests : req'[q].step \in Unlinking => Same(q) /\ req[q].step \in Unlinking
    BY DEF Same, Unlinking
  <2> QED BY <2>1, <2>2 DEF IInv, LockOK, Same, Seen
<1>2. CountOK'
  <2> SUFFICES ASSUME NEW r \in Requests, NEW m \in Motifs, ~req'[r].stale, req'[r].motif = m,
                      req'[r].step \in {"empty", "shared"}
               PROVE  /\ req'[r].step = "empty" => Members(m)' = {req'[r].sighting}
                      /\ req'[r].step = "shared" => Members(m)' # {req'[r].sighting}
    BY DEF CountOK
  <2>1. Same(r) /\ ~req[r].stale /\ req[r].motif = m
    BY DEF Same
  <2>2. Members(m)' = Members(m)
    BY <2>1 DEF Same
  <2>3. /\ req[r].step = "empty" => Members(m) = {req[r].sighting}
        /\ req[r].step = "shared" => Members(m) # {req[r].sighting}
    BY <2>1 DEF IInv, CountOK, Same
  <2> QED BY <2>1, <2>2, <2>3 DEF Same
<1>3. CheckOK'
  <2> SUFFICES ASSUME NEW r \in Requests, req'[r].step \in Deleting
               PROVE  /\ req'[r].photo \in Photos /\ req'[r].actor \in Users
                      /\ photo'[req'[r].photo] # New
                      /\ req'[r].step \in {"execute", "delete"} \cup Removing => req'[r].actor \in Officers
                      /\ ~req'[r].stale /\ photo'[req'[r].photo] \notin Absent
                           => photo'[req'[r].photo].requestedBy \in Admitted(req'[r])
    BY DEF CheckOK, Stored
  <2>1. Same(r) /\ req[r].step \in Deleting
    BY DEF Same, Deleting, Removing
  <2>2. Admitted(req'[r]) = Admitted(req[r])
    BY <2>1 DEF Admitted, Same
  <2>3. /\ req[r].photo \in Photos /\ req[r].actor \in Users /\ photo[req[r].photo] # New
        /\ req[r].step \in {"execute", "delete"} \cup Removing => req[r].actor \in Officers
        /\ ~req[r].stale /\ Stored(req[r].photo) => photo[req[r].photo].requestedBy \in Admitted(req[r])
    BY <2>1 DEF IInv, CheckOK
  <2>4. ASSUME ~req'[r].stale, photo'[req'[r].photo] \notin Absent
        PROVE  photo'[req'[r].photo].requestedBy \in Admitted(req'[r])
    <3>1. req[r].photo \in Photos /\ ~req[r].stale /\ req'[r].photo = req[r].photo
      BY <2>1, <2>3, <2>4 DEF Same
    <3>2. photo'[req[r].photo] = photo[req[r].photo] /\ Stored(req[r].photo)
      BY <2>1, <2>3, <2>4, <3>1 DEF Stored, Absent, Same
    <3> QED BY <2>2, <2>3, <3>1, <3>2
  <2> QED BY <2>1, <2>3, <2>4 DEF Same
<1>4. HoldOK'
  <2>1. \A r \in Requests : req'[r].step \in Removing \cup Unlinking =>
          Same(r) /\ req[r].step \in Removing \cup Unlinking
    BY DEF Same, Removing, Unlinking
  <2> QED BY <2>1 DEF IInv, HoldOK, Same
<1>5. FoundOK'
  <2>1. ASSUME NEW r \in Requests, req'[r].step = "dissolve", NEW m \in req'[r].seen
        PROVE  m \in req'[r].empty <=> motif'[m] = "there" /\ Members(m)' \subseteq OfPhoto(req[r].photo)'
    <3>1. Same(r) /\ req[r].step = "dissolve" /\ m \in req[r].seen /\ req[r] \in Request
      BY <2>1 DEF Same, IInv, RowsOK
    <3>2. m \in Motifs /\ req[r].photo \in Photos /\ req'[r].photo = req[r].photo
      BY <3>1 DEF Request, IInv, CheckOK, Deleting, Removing, Same
    <3>3. Members(m)' = Members(m) /\ motif'[m] = motif[m]
      BY <2>1, <3>2
    <3>4. PICK p \in Photos : p = req[r].photo
      BY <3>2
    <3>5. OfPhoto(p)' = OfPhoto(p)
      BY <2>1, <3>4 DEF Removing
    <3>6. OfPhoto(req[r].photo)' = OfPhoto(p)'
      BY <3>2, <3>4 DEF OfPhoto, Seen
    <3>7. m \in req[r].empty <=> There(m) /\ Members(m) \subseteq OfPhoto(req[r].photo)
      BY <3>1 DEF IInv, FoundOK
    <3> QED BY <3>1, <3>3, <3>4, <3>5, <3>6, <3>7 DEF There, Same
  <2> QED BY <2>1 DEF FoundOK, There
<1> QED BY <1>1, <1>2, <1>3, <1>4, <1>5

\* A request that begins or goes on, while the tables stay as they are.
LEMMA QuietKept ==
  ASSUME IInv, NEW r \in Requests, NEW next \in Request,
         req' = [req EXCEPT ![r] = next], UNCHANGED <<photo, sighting, motif>>,
         next.step \in Unlinking =>
           /\ next.sighting \in Sightings /\ next.motif \in Motifs
           /\ Seen(next.sighting) /\ sighting[next.sighting].motif = next.motif
           /\ \A q \in Requests \ {r} : req[q].step \in Unlinking => req[q].sighting # next.sighting
           /\ \A q \in Requests \ {r} : req[q].step \in Removing => req[q].photo # sighting[next.sighting].photo,
         next.step \in Removing => \A q \in Requests \ {r} :
           /\ req[q].step \in Unlinking => sighting[req[q].sighting].photo # next.photo
           /\ req[q].step \in Removing => req[q].photo # next.photo,
         next.step = "dissolve" => \A m \in next.seen :
           m \in next.empty <=> There(m) /\ Members(m) \subseteq OfPhoto(next.photo),
         ~next.stale =>
           /\ next.step = "empty" => Members(next.motif) = {next.sighting}
           /\ next.step = "shared" => Members(next.motif) # {next.sighting},
         next.step \in Deleting =>
           /\ next.photo \in Photos /\ next.actor \in Users /\ photo[next.photo] # New
           /\ next.step \in {"execute", "delete"} \cup Removing => next.actor \in Officers
           /\ ~next.stale /\ Stored(next.photo) => photo[next.photo].requestedBy \in Admitted(next)
  PROVE  IInv'
<1>1. req'[r] = next /\ \A q \in Requests \ {r} : req'[q] = req[q]
  BY DEF IInv, RowsOK
<1>2. RowsOK' /\ ForeignKeys'
  BY DEF IInv, RowsOK, ForeignKeys, Seen, Stored, There
<1>3. LockOK'
  BY <1>1 DEF IInv, LockOK, Seen
<1>4. \A m \in Motifs : Members(m)' = Members(m)
  BY DEF Members, Seen
<1>5. CountOK'
  BY <1>1, <1>4 DEF IInv, CountOK
<1>6. CheckOK'
  BY <1>1 DEF IInv, CheckOK, Stored
<1>7. HoldOK'
  <2>1. next.step \in Unlinking => next.step \notin Removing
    BY DEF Unlinking, Removing
  <2> QED BY <1>1, <2>1 DEF IInv, HoldOK
<1>8. FoundOK'
  <2>1. \A q \in Requests : OfPhoto(req[q].photo)' = OfPhoto(req'[q].photo)
    BY DEF OfPhoto, Seen
  <2>2. \A m : (There(m)' <=> There(m)) /\ Members(m)' = Members(m)
    BY DEF There, Members, Seen
  <2> QED BY <1>1, <2>1, <2>2 DEF IInv, FoundOK
<1> QED BY <1>2, <1>3, <1>5, <1>6, <1>7, <1>8 DEF IInv

\* A request that ends is idle, the others stay.
LEMMA FinishedReq ==
  ASSUME RowsOK, NEW r \in Requests
  PROVE  /\ Finished(r) \in [Requests -> Request]
         /\ Finished(r)[r].step = "idle"
         /\ \A q \in Requests \ {r} : Finished(r)[q] = req[q]
BY IdleType DEF RowsOK, Finished

\* The row that an unlinking holds, when the request is still there.
LEMMA HeldRow ==
  ASSUME LockOK, NEW r \in Requests, Same(r) \/ req'[r].step = "idle", req'[r].step \in Unlinking
  PROVE  /\ Same(r) /\ req[r].step \in Unlinking
         /\ req[r].sighting \in Sightings /\ req[r].motif \in Motifs
         /\ sighting[req[r].sighting] \notin Absent
         /\ sighting[req[r].sighting].motif = req[r].motif
         /\ \A s \in Sightings : ~Locked(s) => s # req[r].sighting
BY DEF LockOK, Same, Seen, Locked, Unlinking

\* The photo that a deletion holds, when the request is still there.
LEMMA HeldPhoto ==
  ASSUME IInv, NEW r \in Requests, Same(r) \/ req'[r].step = "idle", req'[r].step \in Removing
  PROVE  /\ Same(r) /\ req[r].step \in Removing
         /\ req[r].photo \in Photos /\ photo[req[r].photo] # New
         /\ \A p : ~PhotoLocked(p) => p # req[r].photo
         /\ \A s \in Sightings : Seen(s) /\ ~Locked(s) => sighting[s].photo # req[r].photo
BY DEF IInv, CheckOK, Same, Locked, PhotoLocked, Deleting, Removing

\* Photos keep their sightings when sightings keep their photos.
LEMMA SamePhotos ==
  ASSUME \A s \in Sightings : /\ Seen(s)' <=> Seen(s)
                              /\ Seen(s) => sighting'[s].photo = sighting[s].photo
  PROVE  \A p \in Photos : OfPhoto(p)' = OfPhoto(p)
BY DEF OfPhoto

\* Miscounted and Overtaken, from the requests as they are or after one has ended.
LEMMA MovedSame ==
  ASSUME RowsOK, NEW M, NEW rq, rq = req \/ \E r \in Requests : rq = Finished(r),
         req' = Miscounted(rq, M)
  PROVE  /\ req' \in [Requests -> Request]
         /\ \A r \in Requests : Same(r) \/ req'[r].step = "idle"
         /\ \A r \in Requests : rq = req => Same(r)
         /\ \A r \in Requests : rq = Finished(r) => req'[r].step = "idle"
         /\ \A r \in Requests :
              /\ req'[r].step \in {"empty", "shared"} /\ req[r].motif \in M => req'[r].stale
              /\ req'[r].step = "dissolve" => req'[r].seen \cap M = {}
<1>1. rq \in [Requests -> Request]
  BY FinishedReq DEF RowsOK
<1>2. \A r \in Requests : rq[r] = req[r] \/ rq[r].step = "idle"
  BY FinishedReq
<1>3. \A r \in Requests : rq = Finished(r) => rq[r].step = "idle"
  BY FinishedReq
<1> QED BY <1>1, <1>2, <1>3, MovedReq DEF Same

LEMMA OvertakenSame ==
  ASSUME RowsOK, NEW p, NEW r \in Requests, req' = Overtaken(Finished(r), p)
  PROVE  /\ req' \in [Requests -> Request]
         /\ \A q \in Requests : Same(q) \/ req'[q].step = "idle"
         /\ req'[r].step = "idle"
         /\ \A q \in Requests :
              req'[q].step \in Deleting /\ req[q].photo = p => req'[q].stale
<1>1. Finished(r) \in [Requests -> Request]
  BY FinishedReq
<1>2. \A q \in Requests : Finished(r)[q] = req[q] \/ Finished(r)[q].step = "idle"
  BY FinishedReq
<1>3. Finished(r)[r].step = "idle"
  BY FinishedReq
<1>4. "idle" \notin Deleting
  BY DEF Deleting, Removing
<1>5. \A q \in Requests : req'[q].step = Finished(r)[q].step
  BY <1>1, OvertakenReq
<1>6. \A q \in Requests : req'[q].step \in Deleting => Finished(r)[q] = req[q]
  BY <1>2, <1>4, <1>5
<1> QED BY <1>1, <1>2, <1>3, <1>6, OvertakenReq DEF Same

-----------------------------------------------------------------------------
\* The actions preserve IInv.

\* A request ends without having changed a table, by Abort or otherwise.
LEMMA AbortInv ==
  ASSUME IInv, NEW r \in Requests,
         req' = Finished(r), UNCHANGED <<photo, sighting, motif>>
  PROVE  IInv'
BY IdleType, QuietKept DEF Finished, Unlinking, Deleting, Removing, Idle

LEMMA InsertPhotoInv ==
  ASSUME IInv, NEW p \in Photos, NEW s \in Sightings, NEW m \in Motifs \cup {NoMotif},
         InsertPhoto(p, s, m)
  PROVE  IInv'
<1>0. RowsOK /\ ForeignKeys /\ LockOK
  BY DEF IInv
<1>1. /\ req' \in [Requests -> Request]
      /\ \A r \in Requests : Same(r)
      /\ \A r \in Requests :
           /\ req'[r].step \in {"empty", "shared"} /\ req[r].motif \in {m} => req'[r].stale
           /\ req'[r].step = "dissolve" => req'[r].seen \cap {m} = {}
  BY <1>0, MovedSame DEF InsertPhoto
<1>2. RowsOK'
  BY <1>0, <1>1 DEF InsertPhoto, RowsOK, PhotoRow, SightingRow
<1>3. ForeignKeys'
  BY <1>0, CatalogAssumption DEF InsertPhoto, RowsOK, ForeignKeys, Seen, Stored, There, PhotoRow, SightingRow, Absent
<1>4. \A n \in Motifs \ {m} : Members(n)' = Members(n) /\ motif'[n] = motif[n]
  BY <1>0, CatalogAssumption DEF InsertPhoto, RowsOK, Members, Seen, SightingRow, Absent
<1>5. ASSUME NEW r \in Requests, req'[r].step \in Unlinking
      PROVE  /\ sighting'[req[r].sighting] \notin Absent
             /\ sighting'[req[r].sighting].motif = req[r].motif
             /\ sighting'[req[r].sighting].photo = sighting[req[r].sighting].photo
  <2>1. req[r].sighting # s
    BY <1>0, <1>1, <1>5, HeldRow DEF InsertPhoto, Absent
  <2> QED BY <1>0, <1>1, <1>5, <2>1, HeldRow DEF InsertPhoto, RowsOK
<1>6. /\ \A q \in Photos : photo'[q] = photo[q] \/ photo[q] = New
      /\ \A q \in Photos : photo'[q] = New => photo[q] = New
  BY <1>0, CatalogAssumption DEF InsertPhoto, RowsOK, PhotoRow, Absent
<1>p. \A q \in Photos \ {p} : OfPhoto(q)' = OfPhoto(q)
  BY <1>0, CatalogAssumption DEF InsertPhoto, RowsOK, OfPhoto, Seen, SightingRow, Absent
<1>q. \A r \in Requests : req'[r].step \in Removing => req[r].photo # p
  BY <1>1, HeldPhoto DEF InsertPhoto
<1>7. LockOK' /\ HoldOK' /\ CountOK' /\ FoundOK' /\ CheckOK'
  BY <1>0, <1>1, <1>4, <1>5, <1>6, <1>p, <1>q, KnowledgeKept DEF InsertPhoto
<1> QED BY <1>2, <1>3, <1>7 DEF IInv
LEMMA AddSightingInv ==
  ASSUME IInv, NEW p \in Photos, NEW s \in Sightings, AddSighting(p, s)
  PROVE  IInv'
<1>0. RowsOK /\ ForeignKeys /\ LockOK
  BY DEF IInv
<1>1. \A r \in Requests : Same(r)
  BY DEF AddSighting, Same
<1>2. RowsOK'
  BY <1>0 DEF AddSighting, RowsOK, SightingRow
<1>3. ForeignKeys'
  BY <1>0, CatalogAssumption DEF AddSighting, RowsOK, ForeignKeys, Seen, Stored, There, SightingRow
<1>4. \A n \in Motifs : Members(n)' = Members(n) /\ motif'[n] = motif[n]
  BY <1>0, CatalogAssumption DEF AddSighting, RowsOK, Members, Seen, SightingRow, Absent
<1>5. ASSUME NEW r \in Requests, req'[r].step \in Unlinking
      PROVE  /\ sighting'[req[r].sighting] \notin Absent
             /\ sighting'[req[r].sighting].motif = req[r].motif
             /\ sighting'[req[r].sighting].photo = sighting[req[r].sighting].photo
  <2>1. req[r].sighting # s
    BY <1>0, <1>1, <1>5, HeldRow DEF AddSighting, Absent
  <2> QED BY <1>0, <1>1, <1>5, <2>1, HeldRow DEF AddSighting, RowsOK
<1>p. \A q \in Photos \ {p} : OfPhoto(q)' = OfPhoto(q)
  BY <1>0, CatalogAssumption DEF AddSighting, RowsOK, OfPhoto, Seen, SightingRow, Absent
<1>q. \A r \in Requests : req'[r].step \in Removing => req[r].photo # p
  BY <1>1, HeldPhoto DEF AddSighting
<1>6. LockOK' /\ HoldOK' /\ CountOK' /\ FoundOK' /\ CheckOK'
  BY <1>1, <1>4, <1>5, <1>p, <1>q, KnowledgeKept DEF AddSighting
<1> QED BY <1>2, <1>3, <1>6 DEF IInv

LEMMA DeleteSightingInv ==
  ASSUME IInv, NEW s \in Sightings, DeleteSighting(s)
  PROVE  IInv'
<1>0. RowsOK /\ ForeignKeys /\ LockOK
  BY DEF IInv
<1>1. /\ req' \in [Requests -> Request]
      /\ \A r \in Requests : Same(r)
      /\ \A r \in Requests :
           /\ req'[r].step \in {"empty", "shared"} /\ req[r].motif \in {sighting[s].motif} => req'[r].stale
           /\ req'[r].step = "dissolve" => req'[r].seen \cap {sighting[s].motif} = {}
  BY <1>0, MovedSame DEF DeleteSighting
<1>2. RowsOK'
  BY <1>0, <1>1 DEF DeleteSighting, RowsOK, Absent
<1>3. ForeignKeys'
  BY <1>0 DEF DeleteSighting, RowsOK, ForeignKeys, Seen, Stored, There, Absent
<1>4. \A n \in Motifs \ {sighting[s].motif} : Members(n)' = Members(n) /\ motif'[n] = motif[n]
  BY <1>0 DEF DeleteSighting, RowsOK, Members, Seen, Absent
<1>5. ASSUME NEW r \in Requests, req'[r].step \in Unlinking
      PROVE  /\ sighting'[req[r].sighting] \notin Absent
             /\ sighting'[req[r].sighting].motif = req[r].motif
             /\ sighting'[req[r].sighting].photo = sighting[req[r].sighting].photo
  <2>1. req[r].sighting # s
    BY <1>0, <1>1, <1>5, HeldRow DEF DeleteSighting
  <2> QED BY <1>0, <1>1, <1>5, <2>1, HeldRow DEF DeleteSighting, RowsOK
<1>p. \A q \in Photos \ {sighting[s].photo} : OfPhoto(q)' = OfPhoto(q)
  BY <1>0 DEF DeleteSighting, RowsOK, OfPhoto, Seen, Absent
<1>q. \A r \in Requests : req'[r].step \in Removing => req[r].photo # sighting[s].photo
  BY <1>1, HeldPhoto DEF DeleteSighting
<1>6. LockOK' /\ HoldOK' /\ CountOK' /\ FoundOK' /\ CheckOK'
  BY <1>1, <1>4, <1>5, <1>p, <1>q, KnowledgeKept DEF DeleteSighting
<1> QED BY <1>2, <1>3, <1>6 DEF IInv

LEMMA CreateMotifInv ==
  ASSUME IInv, NEW m \in Motifs, NEW s \in Sightings, CreateMotif(m, s)
  PROVE  IInv'
<1>0. RowsOK /\ ForeignKeys /\ LockOK
  BY DEF IInv
<1>1. /\ req' \in [Requests -> Request]
      /\ \A r \in Requests : Same(r)
      /\ \A r \in Requests :
           /\ req'[r].step \in {"empty", "shared"} /\ req[r].motif \in {m, sighting[s].motif} => req'[r].stale
           /\ req'[r].step = "dissolve" => req'[r].seen \cap {m, sighting[s].motif} = {}
  BY <1>0, MovedSame DEF CreateMotif
<1>a. sighting[s] \in SightingRow /\ sighting[s] \notin Absent
  BY <1>0 DEF CreateMotif, RowsOK, Seen
<1>b. /\ sighting' = [sighting EXCEPT ![s] = [sighting[s] EXCEPT !.motif = m]]
      /\ [sighting[s] EXCEPT !.motif = m] \in SightingRow
      /\ [sighting[s] EXCEPT !.motif = m].photo = sighting[s].photo
      /\ [sighting[s] EXCEPT !.motif = m].motif = m
  BY <1>0, <1>a DEF CreateMotif, RowsOK, SightingRow
<1>2. RowsOK'
  BY <1>0, <1>1, <1>b DEF CreateMotif, RowsOK
<1>3. ForeignKeys'
  BY <1>0, <1>a, <1>b, CatalogAssumption
     DEF CreateMotif, RowsOK, ForeignKeys, Seen, Stored, There, Absent
<1>4. \A n \in Motifs \ {m, sighting[s].motif} : Members(n)' = Members(n) /\ motif'[n] = motif[n]
  BY <1>0, <1>a, <1>b DEF CreateMotif, RowsOK, Members, Seen
<1>5. ASSUME NEW r \in Requests, req'[r].step \in Unlinking
      PROVE  /\ sighting'[req[r].sighting] \notin Absent
             /\ sighting'[req[r].sighting].motif = req[r].motif
             /\ sighting'[req[r].sighting].photo = sighting[req[r].sighting].photo
  <2>1. req[r].sighting # s
    BY <1>0, <1>1, <1>5, HeldRow DEF CreateMotif
  <2> QED BY <1>0, <1>1, <1>5, <1>b, <2>1, HeldRow DEF RowsOK
<1>p. \A q \in Photos : OfPhoto(q)' = OfPhoto(q)
  <2>1. \A t \in Sightings \ {s} : sighting'[t] = sighting[t]
    BY <1>0, <1>b DEF RowsOK
  <2>2. sighting'[s] \notin Absent /\ sighting'[s].photo = sighting[s].photo
    BY <1>0, <1>b, CatalogAssumption DEF RowsOK
  <2> QED BY <1>a, <2>1, <2>2, SamePhotos DEF Seen
<1>6. LockOK' /\ HoldOK' /\ CountOK' /\ FoundOK' /\ CheckOK'
  BY <1>1, <1>4, <1>5, <1>p, KnowledgeKept DEF CreateMotif
<1> QED BY <1>2, <1>3, <1>6 DEF IInv

LEMMA AssignSightingInv ==
  ASSUME IInv, NEW m \in Motifs, NEW s \in Sightings, AssignSighting(m, s)
  PROVE  IInv'
<1>0. RowsOK /\ ForeignKeys /\ LockOK
  BY DEF IInv
<1>1. /\ req' \in [Requests -> Request]
      /\ \A r \in Requests : Same(r)
      /\ \A r \in Requests :
           /\ req'[r].step \in {"empty", "shared"} /\ req[r].motif \in {m, sighting[s].motif} => req'[r].stale
           /\ req'[r].step = "dissolve" => req'[r].seen \cap {m, sighting[s].motif} = {}
  BY <1>0, MovedSame DEF AssignSighting
<1>a. sighting[s] \in SightingRow /\ sighting[s] \notin Absent
  BY <1>0 DEF AssignSighting, RowsOK, Seen
<1>b. /\ sighting' = [sighting EXCEPT ![s] = [sighting[s] EXCEPT !.motif = m]]
      /\ [sighting[s] EXCEPT !.motif = m] \in SightingRow
      /\ [sighting[s] EXCEPT !.motif = m].photo = sighting[s].photo
      /\ [sighting[s] EXCEPT !.motif = m].motif = m
  BY <1>0, <1>a DEF AssignSighting, RowsOK, SightingRow
<1>2. RowsOK'
  BY <1>0, <1>1, <1>b DEF AssignSighting, RowsOK
<1>3. ForeignKeys'
  BY <1>0, <1>a, <1>b, CatalogAssumption
     DEF AssignSighting, RowsOK, ForeignKeys, Seen, Stored, There, Absent
<1>4. \A n \in Motifs \ {m, sighting[s].motif} : Members(n)' = Members(n) /\ motif'[n] = motif[n]
  BY <1>0, <1>a, <1>b DEF AssignSighting, RowsOK, Members, Seen
<1>5. ASSUME NEW r \in Requests, req'[r].step \in Unlinking
      PROVE  /\ sighting'[req[r].sighting] \notin Absent
             /\ sighting'[req[r].sighting].motif = req[r].motif
             /\ sighting'[req[r].sighting].photo = sighting[req[r].sighting].photo
  <2>1. req[r].sighting # s
    BY <1>0, <1>1, <1>5, HeldRow DEF AssignSighting
  <2> QED BY <1>0, <1>1, <1>5, <1>b, <2>1, HeldRow DEF RowsOK
<1>p. \A q \in Photos : OfPhoto(q)' = OfPhoto(q)
  <2>1. \A t \in Sightings \ {s} : sighting'[t] = sighting[t]
    BY <1>0, <1>b DEF RowsOK
  <2>2. sighting'[s] \notin Absent /\ sighting'[s].photo = sighting[s].photo
    BY <1>0, <1>b, CatalogAssumption DEF RowsOK
  <2> QED BY <1>a, <2>1, <2>2, SamePhotos DEF Seen
<1>6. LockOK' /\ HoldOK' /\ CountOK' /\ FoundOK' /\ CheckOK'
  BY <1>1, <1>4, <1>5, <1>p, KnowledgeKept DEF AssignSighting
<1> QED BY <1>2, <1>3, <1>6 DEF IInv
\* What ON DELETE SET NULL leaves of the members of m, and of the others.
LEMMA ClearedRows ==
  ASSUME RowsOK, NEW m \in Motifs
  PROVE  /\ Cleared(m) \in [Sightings -> SightingRow \cup Absent]
         /\ \A s \in Members(m) : /\ Cleared(m)[s] \in SightingRow /\ Cleared(m)[s] \notin Absent
                                 /\ Cleared(m)[s].photo = sighting[s].photo
                                 /\ Cleared(m)[s].motif = NoMotif
         /\ \A s \in Sightings \ Members(m) : Cleared(m)[s] = sighting[s]
<1>1. \A s \in Members(m) : /\ s \in Sightings /\ sighting[s] \in SightingRow
                           /\ [sighting[s] EXCEPT !.motif = NoMotif] \in SightingRow
                           /\ [sighting[s] EXCEPT !.motif = NoMotif].photo = sighting[s].photo
                           /\ [sighting[s] EXCEPT !.motif = NoMotif].motif = NoMotif
  BY DEF Members, Seen, RowsOK, SightingRow
<1>2. SightingRow \cap Absent = {}
  BY CatalogAssumption
<1> QED BY <1>1, <1>2 DEF Cleared, RowsOK

LEMMA DeleteMotifInv ==
  ASSUME IInv, NEW m \in Motifs, DeleteMotif(m)
  PROVE  IInv'
<1>0. RowsOK /\ ForeignKeys /\ LockOK
  BY DEF IInv
<1>1. /\ req' \in [Requests -> Request]
      /\ \A r \in Requests : Same(r)
      /\ \A r \in Requests :
           /\ req'[r].step \in {"empty", "shared"} /\ req[r].motif \in {m} => req'[r].stale
           /\ req'[r].step = "dissolve" => req'[r].seen \cap {m} = {}
  BY <1>0, MovedSame DEF DeleteMotif
<1>2. RowsOK'
  BY <1>0, <1>1, ClearedRows DEF DeleteMotif, RowsOK, Absent
<1>3. ForeignKeys'
  <2> SUFFICES ASSUME NEW s \in Sightings, sighting'[s] \notin Absent
               PROVE  /\ photo'[sighting'[s].photo] \notin Absent
                      /\ sighting'[s].motif # NoMotif => motif'[sighting'[s].motif] = "there"
    BY DEF ForeignKeys, Seen, Stored, There
  <2>1. CASE s \in Members(m)
    BY <1>0, <2>1, ClearedRows DEF DeleteMotif, ForeignKeys, Stored, Members
  <2>2. CASE s \notin Members(m)
    <3>1. sighting'[s] = sighting[s]
      BY <1>0, <2>2, ClearedRows DEF DeleteMotif
    <3>2. Seen(s) /\ sighting[s].motif # m
      BY <2>2, <3>1 DEF Members, Seen
    <3> QED BY <1>0, <3>1, <3>2 DEF DeleteMotif, RowsOK, ForeignKeys, Stored, There
  <2> QED BY <2>1, <2>2
<1>4. \A n \in Motifs \ {m} : Members(n)' = Members(n) /\ motif'[n] = motif[n]
  BY <1>0, ClearedRows, CatalogAssumption DEF DeleteMotif, Members, Seen
<1>5. ASSUME NEW r \in Requests, req'[r].step \in Unlinking
      PROVE  /\ sighting'[req[r].sighting] \notin Absent
             /\ sighting'[req[r].sighting].motif = req[r].motif
             /\ sighting'[req[r].sighting].photo = sighting[req[r].sighting].photo
  <2>1. req[r].sighting \in Sightings \ Members(m)
    BY <1>0, <1>1, <1>5, HeldRow DEF DeleteMotif, Members
  <2>2. sighting'[req[r].sighting] = sighting[req[r].sighting]
    BY <1>0, <2>1, ClearedRows DEF DeleteMotif
  <2> QED BY <1>0, <1>1, <1>5, <2>2, HeldRow
<1>p. \A q \in Photos : OfPhoto(q)' = OfPhoto(q)
  BY <1>0, ClearedRows, SamePhotos DEF DeleteMotif, Seen, Members
<1>6. LockOK' /\ HoldOK' /\ CountOK' /\ FoundOK' /\ CheckOK'
  BY <1>1, <1>4, <1>5, <1>p, KnowledgeKept DEF DeleteMotif
<1> QED BY <1>2, <1>3, <1>6 DEF IInv

LEMMA UnlinkDeleteInv ==
  ASSUME IInv, NEW r \in Requests, UnlinkDelete(r)
  PROVE  IInv'
<1> DEFINE m == req[r].motif
<1>0. RowsOK /\ ForeignKeys /\ LockOK
  BY DEF IInv
<1>a. /\ req[r].step \in Unlinking /\ m \in Motifs
      /\ req' = Miscounted(Finished(r), {m}) /\ sighting' = Cleared(m)
      /\ motif' = [motif EXCEPT ![m] = Gone] /\ photo' = photo
      /\ \A s \in Members(m) \ {req[r].sighting} : ~Locked(s)
  BY <1>0 DEF UnlinkDelete, Unlinking, LockOK
<1> HIDE DEF m
<1>1. /\ req' \in [Requests -> Request]
      /\ \A q \in Requests : Same(q) \/ req'[q].step = "idle"
      /\ req'[r].step = "idle"
      /\ \A q \in Requests :
           /\ req'[q].step \in {"empty", "shared"} /\ req[q].motif \in {m} => req'[q].stale
           /\ req'[q].step = "dissolve" => req'[q].seen \cap {m} = {}
  BY <1>0, <1>a, MovedSame
<1>2. RowsOK'
  BY <1>0, <1>1, <1>a, ClearedRows DEF RowsOK, Absent
<1>3. ForeignKeys'
  <2> SUFFICES ASSUME NEW s \in Sightings, sighting'[s] \notin Absent
               PROVE  /\ photo'[sighting'[s].photo] \notin Absent
                      /\ sighting'[s].motif # NoMotif => motif'[sighting'[s].motif] = "there"
    BY DEF ForeignKeys, Seen, Stored, There
  <2>1. CASE s \in Members(m)
    BY <1>0, <1>a, <2>1, ClearedRows DEF ForeignKeys, Stored, Members
  <2>2. CASE s \notin Members(m)
    <3>1. sighting'[s] = sighting[s]
      BY <1>0, <1>a, <2>2, ClearedRows
    <3>2. Seen(s) /\ sighting[s].motif # m
      BY <2>2, <3>1 DEF Members, Seen
    <3> QED BY <1>0, <1>a, <3>1, <3>2 DEF RowsOK, ForeignKeys, Stored, There
  <2> QED BY <2>1, <2>2
<1>4. \A n \in Motifs \ {m} : Members(n)' = Members(n) /\ motif'[n] = motif[n]
  BY <1>0, <1>a, ClearedRows, CatalogAssumption DEF Members, Seen
<1>5. ASSUME NEW q \in Requests, req'[q].step \in Unlinking
      PROVE  /\ sighting'[req[q].sighting] \notin Absent
             /\ sighting'[req[q].sighting].motif = req[q].motif
             /\ sighting'[req[q].sighting].photo = sighting[req[q].sighting].photo
  <2>1. q # r /\ req[q].step \in Unlinking
    BY <1>0, <1>1, <1>5, HeldRow DEF Unlinking
  <2>2. req[q].sighting # req[r].sighting
    BY <1>0, <1>a, <2>1 DEF LockOK
  <2>3. req[q].sighting \in Sightings \ Members(m)
    BY <1>0, <1>1, <1>5, <1>a, <2>2, HeldRow DEF Members
  <2>4. sighting'[req[q].sighting] = sighting[req[q].sighting]
    BY <1>0, <1>a, <2>3, ClearedRows
  <2> QED BY <1>0, <1>1, <1>5, <2>4, HeldRow
<1>p. \A q \in Photos : OfPhoto(q)' = OfPhoto(q)
  BY <1>0, <1>a, ClearedRows, SamePhotos DEF Seen, Members
<1>6. LockOK' /\ HoldOK' /\ CountOK' /\ FoundOK' /\ CheckOK'
  BY <1>1, <1>4, <1>5, <1>a, <1>p, KnowledgeKept
<1> QED BY <1>2, <1>3, <1>6 DEF IInv

LEMMA UnlinkKeepInv ==
  ASSUME IInv, NEW r \in Requests, UnlinkKeep(r)
  PROVE  IInv'
<1> DEFINE m == req[r].motif
           s == req[r].sighting
<1>0. RowsOK /\ ForeignKeys /\ LockOK
  BY DEF IInv
<1>a. /\ req[r].step \in Unlinking /\ m \in Motifs /\ s \in Sightings
      /\ sighting[s] \notin Absent /\ sighting[s].motif = m
      /\ req' = Miscounted(Finished(r), {m}) /\ UNCHANGED <<photo, motif>>
      /\ sighting' = [sighting EXCEPT ![s].motif = NoMotif]
      /\ \A q \in Requests \ {r} : req[q].step \in Unlinking => req[q].sighting # s
  BY <1>0 DEF UnlinkKeep, Unlinking, LockOK, Seen
<1> HIDE DEF m, s
<1>b. sighting[s] \in SightingRow
  BY <1>0, <1>a DEF RowsOK
<1>c. /\ sighting' = [sighting EXCEPT ![s] = [sighting[s] EXCEPT !.motif = NoMotif]]
      /\ [sighting[s] EXCEPT !.motif = NoMotif] \in SightingRow
      /\ [sighting[s] EXCEPT !.motif = NoMotif].photo = sighting[s].photo
      /\ [sighting[s] EXCEPT !.motif = NoMotif].motif = NoMotif
  BY <1>0, <1>a, <1>b DEF RowsOK, SightingRow
<1>1. /\ req' \in [Requests -> Request]
      /\ \A q \in Requests : Same(q) \/ req'[q].step = "idle"
      /\ req'[r].step = "idle"
      /\ \A q \in Requests :
           /\ req'[q].step \in {"empty", "shared"} /\ req[q].motif \in {m} => req'[q].stale
           /\ req'[q].step = "dissolve" => req'[q].seen \cap {m} = {}
  BY <1>0, <1>a, MovedSame
<1>2. RowsOK'
  BY <1>0, <1>1, <1>a, <1>c DEF RowsOK
<1>3. ForeignKeys'
  BY <1>0, <1>a, <1>b, <1>c, CatalogAssumption DEF RowsOK, ForeignKeys, Seen, Stored, There
<1>4. \A n \in Motifs \ {m} : Members(n)' = Members(n) /\ motif'[n] = motif[n]
  BY <1>0, <1>a, <1>b, <1>c, CatalogAssumption DEF RowsOK, Members, Seen
<1>5. ASSUME NEW q \in Requests, req'[q].step \in Unlinking
      PROVE  /\ sighting'[req[q].sighting] \notin Absent
             /\ sighting'[req[q].sighting].motif = req[q].motif
             /\ sighting'[req[q].sighting].photo = sighting[req[q].sighting].photo
  <2>1. q # r /\ req[q].step \in Unlinking
    BY <1>0, <1>1, <1>5, HeldRow DEF Unlinking
  <2>2. req[q].sighting # s
    BY <1>a, <2>1
  <2> QED BY <1>0, <1>1, <1>5, <1>c, <2>2, HeldRow DEF RowsOK
<1>p. \A q \in Photos : OfPhoto(q)' = OfPhoto(q)
  BY <1>0, <1>a, <1>c, CatalogAssumption, SamePhotos DEF RowsOK, Seen
<1>6. LockOK' /\ HoldOK' /\ CountOK' /\ FoundOK' /\ CheckOK'
  BY <1>1, <1>4, <1>5, <1>a, <1>p, KnowledgeKept
<1> QED BY <1>2, <1>3, <1>6 DEF IInv
\* The rows of Begin and Goto, and what they come from.
LEMMA BeginReq ==
  ASSUME RowsOK, NEW r \in Requests, NEW u \in Users, NEW p \in Photos,
         NEW step \in {"request", "clear", "execute"}
  PROVE  /\ Ask(step, u, p) \in Request
         /\ Ask(step, u, p).step = step /\ Ask(step, u, p).actor = u
         /\ Ask(step, u, p).photo = p
BY DEF Ask, Idle, Request, Deleting, Removing

LEMMA AskInv ==
  ASSUME IInv, NEW r \in Requests, NEW u \in Users, NEW p \in Photos,
         RequestRead(r, u, p) \/ CancelCheck(r, u, p) \/ ExecuteCheck(r, u, p)
  PROVE  IInv'
<1>0. RowsOK
  BY DEF IInv
<1>1. photo[p] \in PhotoRow /\ photo[p].requestedBy \in Users \cup {NoUser} /\ photo[p] # New
  BY <1>0 DEF RowsOK, RequestRead, CancelCheck, ExecuteCheck, Stored, PhotoRow, Absent
<1>2. CASE RequestRead(r, u, p)
  <2> DEFINE next == Ask("request", u, p)
  <2>1. /\ next \in Request
        /\ next.step = "request" /\ next.actor = u /\ next.photo = p
    BY <1>0, BeginReq
  <2>2. photo[p].requestedBy \in Admitted(next)
    BY <1>2, <2>1 DEF Admitted, RequestRead
  <2>3. req' = [req EXCEPT ![r] = next] /\ UNCHANGED <<photo, sighting, motif>>
    BY <1>2 DEF RequestRead, Begin
  <2> HIDE DEF next
  <2> QED BY <1>1, <2>1, <2>2, <2>3, QuietKept DEF Unlinking, Deleting, Removing
<1>3. CASE CancelCheck(r, u, p)
  <2> DEFINE next == Ask("clear", u, p)
  <2>1. /\ next \in Request
        /\ next.step = "clear" /\ next.actor = u /\ next.photo = p
    BY <1>0, BeginReq
  <2>2. photo[p].requestedBy \in Admitted(next)
    BY <1>3, <2>1 DEF Admitted, CancelCheck
  <2>3. req' = [req EXCEPT ![r] = next] /\ UNCHANGED <<photo, sighting, motif>>
    BY <1>3 DEF CancelCheck, Begin
  <2> HIDE DEF next
  <2> QED BY <1>1, <2>1, <2>2, <2>3, QuietKept DEF Unlinking, Deleting, Removing
<1>4. CASE ExecuteCheck(r, u, p)
  <2> DEFINE next == Ask("execute", u, p)
  <2>1. /\ next \in Request
        /\ next.step = "execute" /\ next.actor = u /\ next.photo = p
    BY <1>0, BeginReq
  <2>2. photo[p].requestedBy \in Admitted(next)
    BY <1>1, <1>4, <2>1 DEF Admitted, ExecuteCheck
  <2>3. /\ req' = [req EXCEPT ![r] = next] /\ UNCHANGED <<photo, sighting, motif>>
        /\ u \in Officers
    BY <1>4 DEF ExecuteCheck, Begin
  <2> HIDE DEF next
  <2> QED BY <1>1, <2>1, <2>2, <2>3, QuietKept DEF Unlinking, Deleting, Removing
<1> QED BY <1>2, <1>3, <1>4

LEMMA UnlinkUpdateInv ==
  ASSUME IInv, NEW r \in Requests, NEW s \in Sightings, UnlinkUpdate(r, s)
  PROVE  IInv'
<1> DEFINE next == [Idle EXCEPT !.step = "unlinked", !.sighting = s, !.motif = sighting[s].motif]
<1>1. sighting[s].motif \in Motifs
  BY DEF UnlinkUpdate, IInv, RowsOK, Seen, SightingRow
<1>2. /\ next \in Request
      /\ next.step = "unlinked" /\ next.sighting = s /\ next.motif = sighting[s].motif
  BY <1>1 DEF Idle, Request, Unlinking
<1>3. /\ req' = [req EXCEPT ![r] = next] /\ UNCHANGED <<photo, sighting, motif>>
      /\ Seen(s)
      /\ \A q \in Requests :
           /\ req[q].step \in Unlinking => req[q].sighting # s
           /\ req[q].step \in Removing => req[q].photo # sighting[s].photo
  BY DEF UnlinkUpdate, Begin, Locked, PhotoLocked
<1>4. /\ next.step \notin Deleting /\ next.step \notin Removing
      /\ next.step \notin {"dissolve", "empty", "shared"}
  BY <1>2 DEF Deleting, Removing
<1> HIDE DEF next
<1>5. \A q \in Requests \ {r} :
        /\ req[q].step \in Unlinking => req[q].sighting # next.sighting
        /\ req[q].step \in Removing => req[q].photo # sighting[next.sighting].photo
  BY <1>2, <1>3
<1>6. /\ next.sighting \in Sightings /\ next.motif \in Motifs
      /\ Seen(next.sighting) /\ sighting[next.sighting].motif = next.motif
  BY <1>1, <1>2, <1>3
<1> QED BY <1>2, <1>3, <1>4, <1>5, <1>6, QuietKept

LEMMA UnlinkCountInv ==
  ASSUME IInv, NEW r \in Requests, UnlinkCount(r)
  PROVE  IInv'
<1> DEFINE step == IF Members(req[r].motif) = {req[r].sighting} THEN "empty" ELSE "shared"
           next == [req[r] EXCEPT !.step = step]
<1>1. req[r] \in Request /\ req[r].step = "unlinked"
  BY DEF UnlinkCount, IInv, RowsOK
<1>2. step \in {"empty", "shared"}
  OBVIOUS
<1>3. /\ next \in Request /\ next.step = step /\ next.stale = req[r].stale
      /\ next.sighting = req[r].sighting /\ next.motif = req[r].motif
  BY <1>1, <1>2 DEF Request, Unlinking
<1>4. req' = [req EXCEPT ![r] = next] /\ UNCHANGED <<photo, sighting, motif>>
  BY DEF UnlinkCount, Goto
<1>5. /\ next.sighting \in Sightings /\ next.motif \in Motifs
      /\ Seen(next.sighting) /\ sighting[next.sighting].motif = next.motif
      /\ \A q \in Requests \ {r} :
           /\ req[q].step \in Unlinking => req[q].sighting # next.sighting
           /\ req[q].step \in Removing => req[q].photo # sighting[next.sighting].photo
  BY <1>1, <1>3 DEF IInv, LockOK, HoldOK, Unlinking
<1>6. /\ next.step = "empty" => Members(next.motif) = {next.sighting}
      /\ next.step = "shared" => Members(next.motif) # {next.sighting}
  BY <1>3
<1>7. next.step \notin Deleting
  BY <1>2, <1>3 DEF Deleting, Removing
<1>8. next.step \notin Removing /\ next.step # "dissolve"
  BY <1>2, <1>3 DEF Removing
<1> HIDE DEF next, step
<1> QED BY <1>3, <1>4, <1>5, <1>6, <1>7, <1>8, QuietKept

LEMMA ClearReadInv ==
  ASSUME IInv, NEW r \in Requests, ClearRead(r)
  PROVE  IInv'
<1>1. CASE req' = Finished(r)
  BY <1>1, AbortInv DEF ClearRead
<1>2. CASE Goto(r, "clearWrite")
  <2> DEFINE next == [req[r] EXCEPT !.step = "clearWrite"]
  <2>1. req[r] \in Request /\ req[r].step = "clear"
    BY DEF ClearRead, IInv, RowsOK
  <2>2. /\ next \in Request /\ next.step = "clearWrite" /\ next.stale = req[r].stale
        /\ next.photo = req[r].photo /\ next.actor = req[r].actor
    BY <2>1 DEF Request, Deleting, Removing
  <2>3. req' = [req EXCEPT ![r] = next] /\ UNCHANGED <<photo, sighting, motif>>
    BY <1>2 DEF ClearRead, Goto
  <2>4. Admitted(next) = Admitted(req[r])
    BY <2>1, <2>2 DEF Admitted
  <2>5. /\ next.photo \in Photos /\ next.actor \in Users /\ photo[next.photo] # New
        /\ ~next.stale /\ Stored(next.photo) => photo[next.photo].requestedBy \in Admitted(next)
    BY <2>1, <2>2, <2>4 DEF IInv, CheckOK, Deleting, Removing
  <2> HIDE DEF next
  <2> QED BY <2>2, <2>3, <2>5, QuietKept DEF Unlinking, Removing
<1> QED BY <1>1, <1>2 DEF ClearRead

LEMMA ListMotifsInv ==
  ASSUME IInv, NEW r \in Requests, ListMotifs(r)
  PROVE  IInv'
<1>1. CASE req' = Finished(r)
  BY <1>1, AbortInv DEF ListMotifs
<1>2. CASE req' = [req EXCEPT ![r].step = "delete", ![r].seen = MotifsOf(OfPhoto(req[r].photo))]
  <2> DEFINE next == [req[r] EXCEPT !.step = "delete", !.seen = MotifsOf(OfPhoto(req[r].photo))]
  <2>1. req[r] \in Request /\ req[r].step = "execute"
    BY DEF ListMotifs, IInv, RowsOK
  <2>2. MotifsOf(OfPhoto(req[r].photo)) \in SUBSET Motifs
    BY DEF MotifsOf, OfPhoto, Seen, IInv, RowsOK, SightingRow
  <2>3. /\ next \in Request /\ next.step = "delete" /\ next.stale = req[r].stale
        /\ next.photo = req[r].photo /\ next.actor = req[r].actor
    BY <2>1, <2>2 DEF Request, Deleting, Removing
  <2>4. req' = [req EXCEPT ![r] = next] /\ UNCHANGED <<photo, sighting, motif>>
    BY <1>2, <2>1 DEF ListMotifs, IInv, RowsOK
  <2>5. Admitted(next) = Admitted(req[r])
    BY <2>1, <2>3 DEF Admitted
  <2>6. /\ next.photo \in Photos /\ next.actor \in Officers /\ next.actor \in Users
        /\ photo[next.photo] # New
        /\ ~next.stale /\ Stored(next.photo) => photo[next.photo].requestedBy \in Admitted(next)
    BY <2>1, <2>3, <2>5 DEF IInv, CheckOK, Deleting, Removing
  <2> HIDE DEF next
  <2> QED BY <2>3, <2>4, <2>6, QuietKept DEF Unlinking, Removing
<1> QED BY <1>1, <1>2 DEF ListMotifs

LEMMA WriteRequestInv ==
  ASSUME IInv, NEW r \in Requests, RequestWrite(r) \/ ClearWrite(r)
  PROVE  IInv'
<1>0. RowsOK /\ ForeignKeys /\ LockOK /\ CheckOK
  BY DEF IInv
<1> DEFINE p == req[r].photo
<1>1. PICK by \in Users \cup {NoUser} :
        WriteRequest(r, by) /\ UNCHANGED <<sighting, motif>>
  BY <1>0 DEF RequestWrite, ClearWrite, CheckOK, Deleting, Removing
<1>2. CASE req' = Finished(r) /\ UNCHANGED photo
  BY <1>1, <1>2, AbortInv
<1>3. CASE /\ Stored(p) /\ p \in Photos
           /\ photo' = [photo EXCEPT ![p].requestedBy = by]
           /\ req' = Overtaken(Finished(r), p)
  <2> HIDE DEF p
  <2>1. photo[p] \in PhotoRow /\ [photo[p] EXCEPT !.requestedBy = by] \in PhotoRow
    BY <1>0, <1>3 DEF RowsOK, Stored, PhotoRow
  <2>2. PhotoRow \cap Absent = {}
    BY CatalogAssumption
  <2>3. /\ photo' = [photo EXCEPT ![p] = [photo[p] EXCEPT !.requestedBy = by]]
        /\ photo'[p] \in PhotoRow /\ photo'[p] \notin Absent
        /\ \A q \in Photos \ {p} : photo'[q] = photo[q]
    BY <1>0, <1>3, <2>1, <2>2 DEF RowsOK
  <2>4. /\ req' \in [Requests -> Request]
        /\ \A q \in Requests : Same(q) \/ req'[q].step = "idle"
        /\ \A q \in Requests :
             req'[q].step \in Deleting /\ req[q].photo = p => req'[q].stale
    BY <1>0, <1>3, OvertakenSame
  <2>5. RowsOK'
    BY <1>0, <1>1, <2>3, <2>4, <2>1 DEF RowsOK
  <2>6. ForeignKeys'
    BY <1>0, <1>1, <2>3 DEF RowsOK, ForeignKeys, Seen, Stored, There, SightingRow
  <2>7. /\ \A m \in Motifs : Members(m)' = Members(m) /\ motif'[m] = motif[m]
        /\ \A q \in Photos : OfPhoto(q)' = OfPhoto(q)
    BY <1>1 DEF Members, OfPhoto, Seen
  <2>8. ASSUME NEW q \in Requests, req'[q].step \in Unlinking
        PROVE  /\ sighting'[req[q].sighting] \notin Absent
               /\ sighting'[req[q].sighting].motif = req[q].motif
               /\ sighting'[req[q].sighting].photo = sighting[req[q].sighting].photo
    BY <1>0, <1>1, <2>4, <2>8, HeldRow
  <2>9. \A q \in Photos : photo'[q] = New => photo[q] = New
    BY <2>3 DEF Absent
  <2>10. LockOK' /\ HoldOK' /\ CountOK' /\ FoundOK' /\ CheckOK'
    BY <2>3, <2>4, <2>7, <2>8, <2>9, KnowledgeKept
  <2> QED BY <2>5, <2>6, <2>10 DEF IInv
<1>4. p \in Photos
  BY <1>0 DEF CheckOK, RequestWrite, ClearWrite, Deleting, Removing
<1> QED BY <1>1, <1>2, <1>3, <1>4 DEF WriteRequest
LEMMA DeleteRecordInv ==
  ASSUME IInv, NEW r \in Requests, DeleteRecord(r)
  PROVE  IInv'
<1>1. CASE req' = Finished(r)
  BY <1>1, AbortInv DEF DeleteRecord
<1>2. CASE Goto(r, "deleted") /\ Stored(req[r].photo)
  <2> DEFINE next == [req[r] EXCEPT !.step = "deleted"]
  <2>1. req[r] \in Request /\ req[r].step = "delete"
    BY DEF DeleteRecord, IInv, RowsOK
  <2>2. /\ next \in Request /\ next.step = "deleted" /\ next.stale = req[r].stale
        /\ next.photo = req[r].photo /\ next.actor = req[r].actor
    BY <2>1 DEF Request, Deleting, Removing
  <2>3. req' = [req EXCEPT ![r] = next] /\ UNCHANGED <<photo, sighting, motif>>
    BY <1>2 DEF DeleteRecord, Goto
  <2>4. Admitted(next) = Admitted(req[r])
    BY <2>1, <2>2 DEF Admitted
  <2>5. /\ next.photo \in Photos /\ next.actor \in Officers /\ next.actor \in Users
        /\ photo[next.photo] # New
        /\ ~next.stale /\ Stored(next.photo) => photo[next.photo].requestedBy \in Admitted(next)
    BY <2>1, <2>2, <2>4 DEF IInv, CheckOK, Deleting, Removing
  <2>6. \A q \in Requests \ {r} :
          /\ req[q].step \in Unlinking => sighting[req[q].sighting].photo # next.photo
          /\ req[q].step \in Removing => req[q].photo # next.photo
    BY <2>2 DEF DeleteRecord, IInv, LockOK, OfPhoto, Locked, PhotoLocked
  <2> HIDE DEF next
  <2> QED BY <2>2, <2>3, <2>5, <2>6, QuietKept DEF Unlinking
<1> QED BY <1>1, <1>2 DEF DeleteRecord

LEMMA FindEmptyInv ==
  ASSUME IInv, NEW r \in Requests, FindEmpty(r)
  PROVE  IInv'
<1> DEFINE found == Emptied(req[r].seen, OfPhoto(req[r].photo))
           next == [req[r] EXCEPT !.step = "dissolve", !.empty = found]
<1>1. req[r] \in Request /\ req[r].step = "deleted"
  BY DEF FindEmpty, IInv, RowsOK
<1>2. found \in SUBSET Motifs
  BY <1>1 DEF Emptied, Request
<1> HIDE DEF found
<1>a. next \in Request
  BY <1>1, <1>2 DEF Request, Deleting, Removing
<1>3. /\ next \in Request /\ next.step = "dissolve" /\ next.stale = req[r].stale
      /\ next.photo = req[r].photo /\ next.actor = req[r].actor
      /\ next.seen = req[r].seen /\ next.empty = found
  BY <1>1, <1>a DEF Request
<1>4. req' = [req EXCEPT ![r] = next] /\ UNCHANGED <<photo, sighting, motif>>
  BY <1>1 DEF FindEmpty, IInv, RowsOK, found
<1>5. Admitted(next) = Admitted(req[r])
  BY <1>1, <1>3 DEF Admitted
<1>6. /\ next.photo \in Photos /\ next.actor \in Officers /\ next.actor \in Users
      /\ photo[next.photo] # New
      /\ ~next.stale /\ Stored(next.photo) => photo[next.photo].requestedBy \in Admitted(next)
  BY <1>1, <1>3, <1>5 DEF IInv, CheckOK, Deleting, Removing
<1>7. \A q \in Requests \ {r} :
        /\ req[q].step \in Unlinking => sighting[req[q].sighting].photo # next.photo
        /\ req[q].step \in Removing => req[q].photo # next.photo
  BY <1>1, <1>3 DEF IInv, HoldOK, Removing
<1>8. \A m \in next.seen : m \in next.empty <=> There(m) /\ Members(m) \subseteq OfPhoto(next.photo)
  BY <1>3 DEF Emptied, found
<1> HIDE DEF next
<1> QED BY <1>3, <1>4, <1>6, <1>7, <1>8, QuietKept DEF Unlinking

\* What DeletePhoto does: with the photo p go its sightings S and the motifs M.
Removed(r, p, S, M) ==
  /\ p = req[r].photo /\ S = OfPhoto(p) /\ M = {m \in req[r].empty : There(m)}
  /\ \A m \in M : \A s \in Members(m) \ S : ~Locked(s)
  /\ photo' = [photo EXCEPT ![p] = Gone]
  /\ sighting' \in [Sightings -> SightingRow \cup Absent]
  /\ \A s \in S : sighting'[s] = Gone
  /\ \A s \in Sightings \ S :
       IF Seen(s) /\ sighting[s].motif \in M
         THEN /\ sighting'[s] \in SightingRow /\ sighting'[s] \notin Absent
              /\ sighting'[s].photo = sighting[s].photo /\ sighting'[s].motif = NoMotif
         ELSE sighting'[s] = sighting[s]
  /\ motif' = [m \in Motifs |-> IF m \in M THEN Gone ELSE motif[m]]
  /\ req' = Miscounted(Finished(r), M \cup MotifsOf(S))

LEMMA DeletePhotoStep ==
  ASSUME IInv, NEW r \in Requests, DeletePhoto(r)
  PROVE  \E p \in Photos, S \in SUBSET Sightings, M \in SUBSET Motifs : Removed(r, p, S, M)
<1> DEFINE p == req[r].photo
           S == OfPhoto(p)
           M == {m \in req[r].empty : There(m)}
<1>1. req[r].empty \in SUBSET Motifs /\ p \in Photos
  BY DEF IInv, RowsOK, CheckOK, Deleting, Removing, DeletePhoto, Request
<1>2. /\ \A m \in M : \A s \in Members(m) \ S : ~Locked(s)
      /\ photo' = [photo EXCEPT ![p] = Gone]
      /\ sighting' = [s \in Sightings |->
           IF s \in S THEN Gone
           ELSE IF Seen(s) /\ sighting[s].motif \in M THEN [sighting[s] EXCEPT !.motif = NoMotif]
           ELSE sighting[s]]
      /\ motif' = [m \in Motifs |-> IF m \in M THEN Gone ELSE motif[m]]
      /\ req' = Miscounted(Finished(r), M \cup MotifsOf(S))
  BY DEF DeletePhoto
<1>3. S \in SUBSET Sightings /\ M \in SUBSET Motifs
  BY <1>1 DEF OfPhoto
<1> HIDE DEF S, M, p
<1>4. \A s \in Sightings : Seen(s) =>
        /\ [sighting[s] EXCEPT !.motif = NoMotif] \in SightingRow
        /\ [sighting[s] EXCEPT !.motif = NoMotif].photo = sighting[s].photo
        /\ [sighting[s] EXCEPT !.motif = NoMotif].motif = NoMotif
  BY DEF IInv, RowsOK, Seen, SightingRow
<1>5. SightingRow \cap Absent = {}
  BY CatalogAssumption
<1>6. /\ \A s \in S : sighting'[s] = Gone
      /\ \A s \in Sightings \ S :
           IF Seen(s) /\ sighting[s].motif \in M
             THEN /\ sighting'[s] \in SightingRow /\ sighting'[s] \notin Absent
                  /\ sighting'[s].photo = sighting[s].photo /\ sighting'[s].motif = NoMotif
             ELSE sighting'[s] = sighting[s]
  BY <1>2, <1>3, <1>4, <1>5
<1>7. sighting' \in [Sightings -> SightingRow \cup Absent]
  <2>1. \A s \in Sightings : sighting'[s] \in SightingRow \cup Absent
    BY <1>6 DEF IInv, RowsOK, Absent
  <2>2. sighting' = [s \in Sightings |-> sighting'[s]]
    BY <1>2
  <2> QED BY <2>1, <2>2
<1>8. p = req[r].photo /\ S = OfPhoto(p) /\ M = {m \in req[r].empty : There(m)}
  BY DEF S, M, p
<1>9. p \in Photos
  BY <1>1 DEF p
<1>10. Removed(r, p, S, M)
  BY <1>2, <1>6, <1>7, <1>8 DEF Removed
<1> QED BY <1>3, <1>9, <1>10

LEMMA DeletePhotoInv ==
  ASSUME IInv, NEW r \in Requests, DeletePhoto(r)
  PROVE  IInv'
<1>0. RowsOK /\ ForeignKeys /\ LockOK
  BY DEF IInv
<1>1. PICK p \in Photos, S \in SUBSET Sightings, M \in SUBSET Motifs : Removed(r, p, S, M)
  BY DeletePhotoStep
<1>2. /\ req' \in [Requests -> Request]
      /\ \A q \in Requests : Same(q) \/ req'[q].step = "idle"
      /\ req'[r].step = "idle"
      /\ \A q \in Requests :
           /\ req'[q].step \in {"empty", "shared"} /\ req[q].motif \in M \cup MotifsOf(S) => req'[q].stale
           /\ req'[q].step = "dissolve" => req'[q].seen \cap (M \cup MotifsOf(S)) = {}
  <2> DEFINE N == M \cup MotifsOf(S)
  <2>1. req' = Miscounted(Finished(r), N)
    BY <1>1 DEF Removed
  <2> HIDE DEF N
  <2>2. /\ req' \in [Requests -> Request]
        /\ \A q \in Requests : Same(q) \/ req'[q].step = "idle"
        /\ req'[r].step = "idle"
        /\ \A q \in Requests :
             /\ req'[q].step \in {"empty", "shared"} /\ req[q].motif \in N => req'[q].stale
             /\ req'[q].step = "dissolve" => req'[q].seen \cap N = {}
    BY <1>0, <2>1, MovedSame
  <2> QED BY <2>2 DEF N
<1>3. RowsOK'
  BY <1>0, <1>1, <1>2 DEF RowsOK, Absent, Removed
<1>4. ForeignKeys'
  <2> SUFFICES ASSUME NEW s \in Sightings, sighting'[s] \notin Absent
               PROVE  /\ photo'[sighting'[s].photo] \notin Absent
                      /\ sighting'[s].motif # NoMotif => motif'[sighting'[s].motif] = "there"
    BY DEF ForeignKeys, Seen, Stored, There
  <2>1. s \notin S /\ Seen(s) /\ sighting[s] \in SightingRow /\ sighting'[s].photo = sighting[s].photo
    BY <1>0, <1>1 DEF Absent, Seen, RowsOK, Removed
  <2>2. sighting[s].photo # p /\ sighting[s].photo \in Photos
    BY <1>1, <2>1 DEF OfPhoto, SightingRow, Removed
  <2>3. photo'[sighting'[s].photo] \notin Absent
    BY <1>0, <1>1, <2>1, <2>2 DEF ForeignKeys, Stored, RowsOK, Removed
  <2>4. ASSUME sighting'[s].motif # NoMotif PROVE motif'[sighting'[s].motif] = "there"
    <3>1. sighting'[s].motif = sighting[s].motif /\ sighting[s].motif \in Motifs \ M
      BY <1>1, <2>1, <2>4 DEF SightingRow, Removed
    <3> QED BY <1>0, <1>1, <2>1, <2>4, <3>1 DEF ForeignKeys, There, Removed
  <2> QED BY <2>3, <2>4
<1>5. \A n \in Motifs \ (M \cup MotifsOf(S)) : Members(n)' = Members(n) /\ motif'[n] = motif[n]
  <2> SUFFICES ASSUME NEW n \in Motifs \ (M \cup MotifsOf(S))
               PROVE  Members(n)' = Members(n) /\ motif'[n] = motif[n]
    OBVIOUS
  <2>1. n # NoMotif /\ \A s \in S : sighting[s].motif # n
    BY CatalogAssumption DEF MotifsOf
  <2>2. \A s \in Sightings : s \in Members(n)' <=> s \in Members(n)
    BY <1>1, <2>1 DEF Members, Seen, Absent, Removed
  <2> QED BY <1>1, <2>2 DEF Members, Removed
<1>6. ASSUME NEW q \in Requests, req'[q].step \in Unlinking
      PROVE  /\ sighting'[req[q].sighting] \notin Absent
             /\ sighting'[req[q].sighting].motif = req[q].motif
             /\ sighting'[req[q].sighting].photo = sighting[req[q].sighting].photo
  <2>1. /\ req[q].step \in Unlinking /\ req[q].sighting \in Sightings
        /\ Seen(req[q].sighting) /\ sighting[req[q].sighting].motif = req[q].motif
        /\ req[q].motif \in Motifs
    BY <1>0, <1>2, <1>6, HeldRow DEF Seen
  <2>2. req[q].sighting \notin S
    BY <1>1, <2>1 DEF IInv, HoldOK, OfPhoto, DeletePhoto, Removing, Removed
  <2>3. Locked(req[q].sighting)
    BY <2>1 DEF Locked
  <2>4. sighting[req[q].sighting].motif \notin M
    BY <1>1, <2>1, <2>2, <2>3 DEF Members, Removed
  <2> QED BY <1>1, <2>1, <2>2, <2>4 DEF Seen, Removed
<1>7. /\ \A q \in Photos : photo'[q] = photo[q] \/ photo'[q] = Gone
      /\ \A q \in Photos : photo'[q] = New => photo[q] = New
  BY <1>0, <1>1, CatalogAssumption DEF RowsOK, Removed
<1>8. \A q \in Photos \ {p} : OfPhoto(q)' = OfPhoto(q)
  <2> SUFFICES ASSUME NEW q \in Photos \ {p} PROVE OfPhoto(q)' = OfPhoto(q)
    OBVIOUS
  <2>1. \A s \in Sightings : s \in OfPhoto(q)' <=> s \in OfPhoto(q)
    BY <1>1 DEF OfPhoto, Seen, Absent, Removed
  <2> QED BY <2>1 DEF OfPhoto
<1>9. \A q \in Requests : req'[q].step \in Removing => req[q].photo # p
  <2> SUFFICES ASSUME NEW q \in Requests, req'[q].step \in Removing, req[q].photo = p PROVE FALSE
    OBVIOUS
  <2>1. req[q].step \in Removing
    BY <1>2, HeldPhoto
  <2>2. q = r
    BY <1>1, <2>1 DEF IInv, HoldOK, DeletePhoto, Removing, Removed
  <2> QED BY <1>2, <2>2 DEF Removing
<1>10. LockOK' /\ HoldOK' /\ CountOK' /\ FoundOK' /\ CheckOK'
  BY <1>2, <1>5, <1>6, <1>7, <1>8, <1>9, KnowledgeKept
<1> QED BY <1>3, <1>4, <1>10 DEF IInv

-----------------------------------------------------------------------------
\* Every step preserves IInv.
LEMMA NextInv == IInv /\ [Next]_vars => IInv'
<1> SUFFICES ASSUME IInv, [Next]_vars PROVE IInv'
  OBVIOUS
<1>1. ASSUME NEW r \in Requests, Step(r) PROVE IInv'
  BY <1>1, UnlinkUpdateInv, UnlinkCountInv, UnlinkDeleteInv, UnlinkKeepInv, AskInv,
     WriteRequestInv, ClearReadInv, ListMotifsInv, DeleteRecordInv, FindEmptyInv,
     DeletePhotoInv, AbortInv DEF Step, Abort
<1>2. CASE UNCHANGED vars
  <2>1. RowsOK' /\ ForeignKeys' /\ LockOK' /\ CheckOK'
    BY <1>2 DEF vars, IInv, RowsOK, ForeignKeys, LockOK, CheckOK, Seen, Stored, There
  <2>2. CountOK' /\ HoldOK'
    BY <1>2 DEF vars, IInv, CountOK, HoldOK, Members, Seen
  <2>3. FoundOK'
    BY <1>2 DEF vars, IInv, FoundOK, Members, OfPhoto, There, Seen
  <2> QED BY <2>1, <2>2, <2>3 DEF IInv
<1> QED BY <1>1, <1>2, InsertPhotoInv, AddSightingInv, DeleteSightingInv, CreateMotifInv,
           AssignSightingInv, DeleteMotifInv DEF Next

LEMMA InitInv == Init => IInv
<1> SUFFICES ASSUME Init PROVE IInv
  OBVIOUS
<1>1. RowsOK /\ ForeignKeys
  BY IdleType DEF Init, RowsOK, ForeignKeys, Seen, Absent
<1>2. LockOK /\ CheckOK
  BY DEF Init, LockOK, CheckOK, Idle, Unlinking, Deleting, Removing
<1>3. CountOK /\ HoldOK /\ FoundOK
  BY DEF Init, CountOK, HoldOK, FoundOK, Idle, Removing
<1> QED BY <1>1, <1>2, <1>3 DEF IInv

\* The inductive invariant holds in every reachable state.
THEOREM InductiveInvariant == Spec => []IInv
BY InitInv, NextInv, PTL DEF Spec

\* The columns keep their types and the foreign keys hold whatever the handlers of
\* motifs.go and deletion.go do together.
THEOREM TypeCorrect == Spec => []TypeOK
<1>1. IInv => TypeOK
  BY DEF IInv, TypeOK
<1> QED BY <1>1, InductiveInvariant, PTL
-----------------------------------------------------------------------------
\* Which steps change which tables.
LEMMA SightingSteps ==
  ASSUME [Next]_vars
  PROVE  \/ UNCHANGED <<sighting, motif>>
         \/ \E r \in Requests : UnlinkDelete(r) \/ UnlinkKeep(r) \/ DeletePhoto(r)
         \/ \E p \in Photos, s \in Sightings :
              \/ AddSighting(p, s)
              \/ \E m \in Motifs \cup {NoMotif} : InsertPhoto(p, s, m)
         \/ \E s \in Sightings : DeleteSighting(s)
         \/ \E m \in Motifs : DeleteMotif(m) \/ \E s \in Sightings : CreateMotif(m, s) \/ AssignSighting(m, s)
<1>1. CASE UNCHANGED vars
  BY <1>1 DEF vars
<1>2. ASSUME NEW r \in Requests, Step(r)
      PROVE  \/ UNCHANGED <<sighting, motif>>
             \/ UnlinkDelete(r) \/ UnlinkKeep(r) \/ DeletePhoto(r)
  BY <1>2 DEF Step, UnlinkUpdate, UnlinkCount, RequestRead, CancelCheck, ExecuteCheck, RequestWrite,
              ClearRead, ClearWrite, ListMotifs, DeleteRecord, FindEmpty, Abort
<1> QED BY <1>1, <1>2 DEF Next

LEMMA PhotoSteps ==
  ASSUME [Next]_vars
  PROVE  \/ UNCHANGED photo
         \/ \E r \in Requests : RequestWrite(r) \/ ClearWrite(r) \/ DeletePhoto(r)
         \/ \E p \in Photos, s \in Sightings, m \in Motifs \cup {NoMotif} : InsertPhoto(p, s, m)
<1>1. CASE UNCHANGED vars
  BY <1>1 DEF vars
<1>2. ASSUME NEW r \in Requests, Step(r)
      PROVE  \/ UNCHANGED photo
             \/ RequestWrite(r) \/ ClearWrite(r) \/ DeletePhoto(r)
  BY <1>2 DEF Step, UnlinkUpdate, UnlinkCount, UnlinkDelete, UnlinkKeep, RequestRead, CancelCheck,
              ExecuteCheck, ClearRead, ListMotifs, DeleteRecord, FindEmpty, Abort
<1>3. ASSUME NEW m \in Motifs, NEW s \in Sightings, CreateMotif(m, s) \/ AssignSighting(m, s)
      PROVE  UNCHANGED photo
  BY <1>3 DEF CreateMotif, AssignSighting
<1> QED BY <1>1, <1>2, <1>3 DEF Next, AddSighting, DeleteSighting, DeleteMotif

\* Requests that end by UnlinkDelete, UnlinkKeep, DeletePhoto and the writing of a
\* deletion request.
LEMMA EndOfUnlink ==
  ASSUME IInv, NEW r \in Requests, UnlinkDelete(r) \/ UnlinkKeep(r)
  PROVE  /\ UnlinkDelete(r) => Ends(r, "empty")
         /\ UnlinkKeep(r) => Ends(r, "shared")
<1>0. RowsOK
  BY DEF IInv
<1>1. req' = Miscounted(Finished(r), {req[r].motif})
  BY DEF UnlinkDelete, UnlinkKeep
<1>2. req'[r].step = "idle"
  BY <1>0, <1>1, MovedSame
<1> QED BY <1>2 DEF Ends, UnlinkDelete, UnlinkKeep

LEMMA EndOfDelete ==
  ASSUME IInv, NEW r \in Requests, DeletePhoto(r)
  PROVE  Ends(r, "dissolve")
<1>0. RowsOK
  BY DEF IInv
<1>1. PICK N : req' = Miscounted(Finished(r), N)
  BY DeletePhotoStep DEF Removed
<1>2. req'[r].step = "idle"
  BY <1>0, <1>1, MovedSame
<1> QED BY <1>2 DEF Ends, DeletePhoto

LEMMA EndOfWrite ==
  ASSUME IInv, NEW r \in Requests, RequestWrite(r) \/ ClearWrite(r)
  PROVE  req'[r].step = "idle"
<1>0. RowsOK
  BY DEF IInv
<1>1. req' = Finished(r) \/ req' = Overtaken(Finished(r), req[r].photo)
  BY DEF RequestWrite, ClearWrite, WriteRequest
<1> QED BY <1>0, <1>1, OvertakenSame, FinishedReq

\* A motif does not lose its last sighting and stay, but by a move, by the removal
\* of the sighting alone, or by an UnlinkSighting or a DeletePhoto overtaken.
THEOREM MotifsKeepMembers == Spec => MotifsHaveMembers
<1>1. IInv /\ [Next]_vars =>
        \A m \in Motifs : There(m) /\ There(m)' /\ Members(m) # {} /\ Members(m)' = {} =>
          \/ \E s \in Members(m) : Seen(s)' /\ sighting'[s].motif # NoMotif
          \/ \E s \in Members(m) : sighting'[s] = Gone /\ UNCHANGED photo
          \/ \E r \in Requests : Ends(r, "shared") /\ req[r].stale
          \/ \E r \in Requests : Ends(r, "dissolve") /\ m \notin req[r].seen
  <2> SUFFICES ASSUME IInv, [Next]_vars, NEW m \in Motifs, There(m), There(m)',
                      NEW s0 \in Members(m), Members(m)' = {}
               PROVE  \/ \E s \in Members(m) : Seen(s)' /\ sighting'[s].motif # NoMotif
                      \/ \E s \in Members(m) : sighting'[s] = Gone /\ UNCHANGED photo
                      \/ \E r \in Requests : Ends(r, "shared") /\ req[r].stale
                      \/ \E r \in Requests : Ends(r, "dissolve") /\ m \notin req[r].seen
    OBVIOUS
  <2>0. RowsOK /\ LockOK /\ CountOK /\ m # NoMotif
    BY CatalogAssumption DEF IInv
  <2>1. s0 \in Sightings /\ Seen(s0) /\ sighting[s0].motif = m /\ sighting[s0] \in SightingRow
    BY <2>0 DEF Members, RowsOK, Seen
  <2>2. \A s \in Members(m) : s \in Sightings /\ sighting'[s] # sighting[s]
    BY DEF Members, Seen
  <2>3. CASE UNCHANGED <<sighting, motif>>
    BY <2>2, <2>3
  <2>4. ASSUME NEW r \in Requests, UnlinkDelete(r) PROVE FALSE
    <3>1. req[r].motif # m
      BY <2>0, <2>4, CatalogAssumption DEF UnlinkDelete, There, RowsOK, Absent
    <3>2. s0 \notin Members(req[r].motif)
      BY <2>1, <3>1 DEF Members
    <3>3. req[r].motif \in Motifs
      BY <2>0, <2>4 DEF LockOK, UnlinkDelete, Unlinking
    <3> QED BY <2>0, <2>1, <2>2, <2>4, <3>2, <3>3, ClearedRows DEF UnlinkDelete
  <2>5. ASSUME NEW r \in Requests, UnlinkKeep(r)
        PROVE  Ends(r, "shared") /\ req[r].stale
    <3>1. \A s \in Sightings : s # req[r].sighting => sighting'[s] = sighting[s]
      BY <2>0, <2>5 DEF UnlinkKeep, RowsOK
    <3>2. Members(m) = {req[r].sighting}
      BY <2>2, <3>1
    <3>3. req[r].motif = m /\ req[r].step = "shared"
      BY <2>0, <2>5, <3>2 DEF LockOK, UnlinkKeep, Unlinking, Members
    <3>4. req[r].stale
      BY <2>0, <3>2, <3>3 DEF CountOK, RowsOK, Request
    <3> QED BY <2>5, <3>4, EndOfUnlink
  <2>6. ASSUME NEW r \in Requests, DeletePhoto(r)
        PROVE  Ends(r, "dissolve") /\ m \notin req[r].seen
    <3>1. PICK p \in Photos, S \in SUBSET Sightings, M \in SUBSET Motifs : Removed(r, p, S, M)
      BY <2>6, DeletePhotoStep
    <3>2. m \notin M
      BY <3>1, CatalogAssumption DEF There, Absent, Removed
    <3>3. Members(m) \subseteq S
      BY <2>2, <3>1, <3>2 DEF Members, Removed
    <3>4. m \notin req[r].empty
      BY <3>1, <3>2 DEF Removed
    <3>5. m \notin req[r].seen
      BY <2>6, <3>1, <3>3, <3>4 DEF IInv, FoundOK, DeletePhoto, Removed
    <3> QED BY <2>6, <3>5, EndOfDelete
  <2>7. ASSUME NEW p \in Photos, NEW s \in Sightings, NEW n \in Motifs \cup {NoMotif},
               AddSighting(p, s) \/ InsertPhoto(p, s, n)
        PROVE  FALSE
    BY <2>0, <2>1, <2>2, <2>7 DEF AddSighting, InsertPhoto, RowsOK, Seen, Absent
  <2>8. ASSUME NEW s \in Sightings, DeleteSighting(s)
        PROVE  s \in Members(m) /\ sighting'[s] = Gone /\ UNCHANGED photo
    BY <2>0, <2>1, <2>2, <2>8 DEF DeleteSighting, RowsOK
  <2>9. ASSUME NEW n \in Motifs, DeleteMotif(n) PROVE FALSE
    <3>1. n # m
      BY <2>0, <2>9, CatalogAssumption DEF DeleteMotif, There, RowsOK, Absent
    <3>2. s0 \notin Members(n)
      BY <2>1, <3>1 DEF Members
    <3> QED BY <2>0, <2>1, <2>2, <2>9, <3>2, ClearedRows DEF DeleteMotif
  <2>10. ASSUME NEW n \in Motifs, NEW s \in Sightings, CreateMotif(n, s) \/ AssignSighting(n, s)
         PROVE  s0 = s /\ Seen(s)' /\ sighting'[s].motif # NoMotif
    <3>1. sighting' = [sighting EXCEPT ![s] = [sighting[s] EXCEPT !.motif = n]]
      BY <2>0, <2>10 DEF CreateMotif, AssignSighting, RowsOK
    <3>2. s0 = s
      BY <2>0, <2>1, <2>2, <3>1 DEF RowsOK
    <3>3. /\ sighting'[s] = [sighting[s] EXCEPT !.motif = n]
          /\ [sighting[s] EXCEPT !.motif = n] \in SightingRow
          /\ [sighting[s] EXCEPT !.motif = n].motif = n
      BY <2>0, <2>1, <3>1, <3>2 DEF RowsOK, SightingRow
    <3> QED BY <3>2, <3>3, CatalogAssumption DEF Seen
  <2>11. CASE \E r \in Requests : UnlinkDelete(r) \/ UnlinkKeep(r) \/ DeletePhoto(r)
    BY <2>4, <2>5, <2>6, <2>11
  <2>12. ~\E p \in Photos, s \in Sightings :
            AddSighting(p, s) \/ \E n \in Motifs \cup {NoMotif} : InsertPhoto(p, s, n)
    BY <2>7
  <2>13. CASE \E n \in Motifs : DeleteMotif(n) \/ \E s \in Sightings : CreateMotif(n, s) \/ AssignSighting(n, s)
    <3>1. Seen(s0)' /\ sighting'[s0].motif # NoMotif
      BY <2>9, <2>10, <2>13
    <3> QED BY <3>1
  <2>14. CASE \E s \in Sightings : DeleteSighting(s)
    BY <2>8, <2>14
  <2>15. CASE \E p \in Photos, s \in Sightings :
              AddSighting(p, s) \/ \E n \in Motifs \cup {NoMotif} : InsertPhoto(p, s, n)
    BY <2>12, <2>15
  <2> QED BY <2>3, <2>11, <2>13, <2>14, <2>15, SightingSteps
<1> QED BY <1>1, InductiveInvariant, PTL DEF Spec, MotifsHaveMembers

\* A sighting that stays does not fall out of its motif, but when it is unlinked, its
\* motif is deleted by a user, or an unlinking or the deletion of a photo has counted
\* before it came in.
THEOREM MembersStay == Spec => MembersKept
<1>1. IInv /\ [Next]_vars =>
        \A m \in Motifs : \A s \in Members(m) :
          Seen(s)' /\ sighting'[s].motif = NoMotif =>
            \/ ~There(m)' /\ \A r \in Requests : ~Ends(r, "empty") /\ ~Ends(r, "dissolve")
            \/ \E r \in Requests : (Ends(r, "empty") \/ Ends(r, "shared"))
                                      /\ (req[r].sighting = s \/ req[r].stale)
            \/ \E r \in Requests : Ends(r, "dissolve") /\ m \notin req[r].seen
  <2> SUFFICES ASSUME IInv, [Next]_vars, NEW m \in Motifs, NEW s0 \in Members(m),
                      Seen(s0)', sighting'[s0].motif = NoMotif
               PROVE  \/ ~There(m)' /\ \A r \in Requests : ~Ends(r, "empty") /\ ~Ends(r, "dissolve")
                      \/ \E r \in Requests : (Ends(r, "empty") \/ Ends(r, "shared"))
                                                /\ (req[r].sighting = s0 \/ req[r].stale)
                      \/ \E r \in Requests : Ends(r, "dissolve") /\ m \notin req[r].seen
    OBVIOUS
  <2>0. RowsOK /\ LockOK /\ CountOK /\ m # NoMotif
    BY CatalogAssumption DEF IInv
  <2>1. s0 \in Sightings /\ Seen(s0) /\ sighting[s0].motif = m /\ sighting[s0] \in SightingRow
    BY <2>0 DEF Members, RowsOK, Seen
  <2>2. sighting'[s0] # sighting[s0] /\ sighting'[s0] \notin Absent
    BY <2>0, <2>1 DEF Seen
  <2>3. CASE UNCHANGED <<sighting, motif>>
    BY <2>2, <2>3
  <2>4. ASSUME NEW r \in Requests, UnlinkDelete(r)
        PROVE  Ends(r, "empty") /\ (req[r].sighting = s0 \/ req[r].stale)
    <3>1. /\ req[r].motif \in Motifs /\ req[r].step = "empty"
          /\ sighting' = Cleared(req[r].motif)
      BY <2>0, <2>4 DEF LockOK, UnlinkDelete, Unlinking
    <3>2. s0 \in Members(req[r].motif)
      BY <2>0, <2>1, <2>2, <3>1, ClearedRows
    <3>3. req[r].stale \/ Members(req[r].motif) = {req[r].sighting}
      BY <2>0, <3>1 DEF CountOK
    <3> QED BY <2>4, <3>2, <3>3, EndOfUnlink
  <2>5. ASSUME NEW r \in Requests, UnlinkKeep(r)
        PROVE  Ends(r, "shared") /\ req[r].sighting = s0
    BY <2>0, <2>1, <2>2, <2>5, EndOfUnlink DEF UnlinkKeep, RowsOK
  <2>6. ASSUME NEW r \in Requests, DeletePhoto(r)
        PROVE  Ends(r, "dissolve") /\ m \notin req[r].seen
    <3>1. PICK p \in Photos, S \in SUBSET Sightings, M \in SUBSET Motifs : Removed(r, p, S, M)
      BY <2>6, DeletePhotoStep
    <3>2. s0 \notin S
      BY <2>2, <3>1 DEF Absent, Removed
    <3>3. m \in req[r].empty
      BY <2>1, <2>2, <3>1, <3>2 DEF Removed
    <3>4. m \notin req[r].seen
      BY <2>6, <3>1, <3>2, <3>3 DEF IInv, FoundOK, DeletePhoto, Removed
    <3> QED BY <2>6, <3>4, EndOfDelete
  <2>7. ASSUME NEW p \in Photos, NEW s \in Sightings, NEW n \in Motifs \cup {NoMotif},
               AddSighting(p, s) \/ InsertPhoto(p, s, n)
        PROVE  FALSE
    BY <2>0, <2>1, <2>2, <2>7 DEF AddSighting, InsertPhoto, RowsOK, Seen, Absent
  <2>8. ASSUME NEW s \in Sightings, DeleteSighting(s) PROVE FALSE
    BY <2>0, <2>1, <2>2, <2>8 DEF DeleteSighting, RowsOK, Absent
  <2>9. ASSUME NEW n \in Motifs, DeleteMotif(n)
        PROVE  ~There(m)' /\ \A r \in Requests : ~Ends(r, "empty") /\ ~Ends(r, "dissolve")
    <3>1. s0 \in Members(n)
      BY <2>0, <2>1, <2>2, <2>9, ClearedRows DEF DeleteMotif
    <3>2. n = m
      BY <2>1, <3>1 DEF Members
    <3>3. ~There(m)'
      BY <2>0, <2>9, <3>2, CatalogAssumption DEF DeleteMotif, There, RowsOK, Absent
    <3>4. \A r \in Requests : req'[r].step = req[r].step
      <4>1. req' = Miscounted(req, {n})
        BY <2>9 DEF DeleteMotif
      <4>2. \A r \in Requests : Same(r)
        BY <2>0, <4>1, MovedSame
      <4> QED BY <4>2 DEF Same
    <3> QED BY <3>3, <3>4 DEF Ends
  <2>10. ASSUME NEW n \in Motifs, NEW s \in Sightings, CreateMotif(n, s) \/ AssignSighting(n, s)
         PROVE  FALSE
    <3>1. sighting' = [sighting EXCEPT ![s] = [sighting[s] EXCEPT !.motif = n]]
      BY <2>0, <2>10 DEF CreateMotif, AssignSighting, RowsOK
    <3>2. s0 = s
      BY <2>0, <2>1, <2>2, <3>1 DEF RowsOK
    <3>3. sighting'[s0].motif = n
      BY <2>0, <2>1, <3>1, <3>2 DEF RowsOK, SightingRow
    <3> QED BY <3>3, CatalogAssumption
  <2>11. CASE \E r \in Requests : UnlinkDelete(r) \/ UnlinkKeep(r) \/ DeletePhoto(r)
    BY <2>4, <2>5, <2>6, <2>11
  <2>12. CASE \E p \in Photos, s \in Sightings :
              AddSighting(p, s) \/ \E n \in Motifs \cup {NoMotif} : InsertPhoto(p, s, n)
    BY <2>7, <2>12
  <2>13. CASE \E n \in Motifs : DeleteMotif(n) \/ \E s \in Sightings : CreateMotif(n, s) \/ AssignSighting(n, s)
    BY <2>9, <2>10, <2>13
  <2> QED BY <2>3, <2>8, <2>11, <2>12, <2>13, SightingSteps
<1> QED BY <1>1, InductiveInvariant, PTL DEF Spec, MembersKept

\* Nobody executes his own deletion request, unless it was changed between his check
\* and the DELETE.
THEOREM OwnRequestNotExecuted == Spec => NoOwnExecution
<1>1. IInv /\ [Next]_vars =>
        \A p \in Photos : Stored(p) /\ ~Stored(p)' =>
          \E r \in Requests : /\ Ends(r, "dissolve") /\ req[r].photo = p
                              /\ req[r].actor \in Officers
                              /\ photo[p].requestedBy # req[r].actor \/ req[r].stale
  <2> SUFFICES ASSUME IInv, [Next]_vars, NEW p \in Photos, Stored(p), ~Stored(p)'
               PROVE  \E r \in Requests : /\ Ends(r, "dissolve") /\ req[r].photo = p
                                          /\ req[r].actor \in Officers
                                          /\ photo[p].requestedBy # req[r].actor \/ req[r].stale
    OBVIOUS
  <2>0. RowsOK /\ CheckOK
    BY DEF IInv
  <2>1. photo'[p] # photo[p] /\ photo'[p] \in Absent
    BY DEF Stored
  <2>2. CASE UNCHANGED photo
    BY <2>1, <2>2
  <2>3. ASSUME NEW r \in Requests, RequestWrite(r) \/ ClearWrite(r) PROVE FALSE
    <3>1. PICK by \in Users \cup {NoUser} : WriteRequest(r, by)
      BY <2>0, <2>3 DEF RequestWrite, ClearWrite, CheckOK, Deleting, Removing
    <3>2. \A q \in Photos : Stored(q) => photo[q] \in PhotoRow
                             /\ [photo[q] EXCEPT !.requestedBy = by] \in PhotoRow
      BY <2>0 DEF RowsOK, Stored, PhotoRow
    <3>3. photo'[p] \in {photo[p], [photo[p] EXCEPT !.requestedBy = by]}
      BY <2>0, <3>1 DEF WriteRequest, RowsOK
    <3> QED BY <2>1, <3>2, <3>3, CatalogAssumption
  <2>4. ASSUME NEW r \in Requests, DeletePhoto(r)
        PROVE  /\ Ends(r, "dissolve") /\ req[r].photo = p /\ req[r].actor \in Officers
               /\ photo[p].requestedBy # req[r].actor \/ req[r].stale
    <3>1. req[r].photo = p
      BY <2>0, <2>1, <2>4, DeletePhotoStep DEF RowsOK, Removed
    <3>2. req[r].step = "dissolve"
      BY <2>4 DEF DeletePhoto
    <3>3. req[r].actor \in Officers /\ req[r].actor \in Users
          /\ (~req[r].stale => photo[p].requestedBy \in Admitted(req[r]))
      BY <2>0, <3>1, <3>2 DEF CheckOK, Deleting, Removing
    <3>4. req[r].actor \notin Admitted(req[r])
      BY <3>2, <3>3, CatalogAssumption DEF Admitted
    <3> QED BY <2>4, <3>1, <3>3, <3>4, EndOfDelete
  <2>5. ASSUME NEW q \in Photos, NEW s \in Sightings, NEW n \in Motifs \cup {NoMotif}, InsertPhoto(q, s, n)
        PROVE  FALSE
    BY <2>0, <2>1, <2>5 DEF InsertPhoto, RowsOK, Stored, Absent
  <2> QED BY <2>2, <2>3, <2>4, <2>5, PhotoSteps
<1> QED BY <1>1, InductiveInvariant, PTL DEF Spec, NoOwnExecution

\* A pending deletion request is withdrawn by its author or an officer only, and not
\* replaced, unless by somebody who had checked an earlier one.
THEOREM PendingRequestRespected == Spec => RequestRespected
<1>1. IInv /\ [Next]_vars =>
        \A p \in Photos : Stored(p) /\ Stored(p)' /\ photo[p].requestedBy \in Users
                            /\ photo'[p].requestedBy # photo[p].requestedBy =>
          \E r \in Requests :
            /\ req[r].photo = p /\ (Ends(r, "request") \/ Ends(r, "clearWrite"))
            /\ Ends(r, "request") => req[r].stale
            /\ Ends(r, "clearWrite") =>
                 req[r].stale \/ req[r].actor \in Officers \cup {photo[p].requestedBy}
  <2> SUFFICES ASSUME IInv, [Next]_vars, NEW p \in Photos, Stored(p), Stored(p)',
                      photo[p].requestedBy \in Users, photo'[p].requestedBy # photo[p].requestedBy
               PROVE  \E r \in Requests :
                        /\ req[r].photo = p /\ (Ends(r, "request") \/ Ends(r, "clearWrite"))
                        /\ Ends(r, "request") => req[r].stale
                        /\ Ends(r, "clearWrite") =>
                             req[r].stale \/ req[r].actor \in Officers \cup {photo[p].requestedBy}
    OBVIOUS
  <2>0. RowsOK /\ CheckOK
    BY DEF IInv
  <2>1. CASE UNCHANGED photo
    BY <2>1
  <2>2. ASSUME NEW r \in Requests, RequestWrite(r) \/ ClearWrite(r)
        PROVE  /\ req[r].photo = p /\ (Ends(r, "request") \/ Ends(r, "clearWrite"))
               /\ Ends(r, "request") => req[r].stale
               /\ Ends(r, "clearWrite") =>
                    req[r].stale \/ req[r].actor \in Officers \cup {photo[p].requestedBy}
    <3>1. PICK by \in Users \cup {NoUser} :
            /\ WriteRequest(r, by)
            /\ \/ RequestWrite(r) /\ by = req[r].actor
               \/ ClearWrite(r) /\ by = NoUser
      BY <2>0, <2>2 DEF RequestWrite, ClearWrite, CheckOK, Deleting, Removing
    <3>2. photo' = [photo EXCEPT ![req[r].photo].requestedBy = by]
      BY <3>1 DEF WriteRequest
    <3>3. req[r].photo = p
      BY <2>0, <3>2 DEF RowsOK
    <3>4. photo[p] \in PhotoRow
      BY <2>0 DEF RowsOK, Stored
    <3>5. by # photo[p].requestedBy
      BY <2>0, <3>2, <3>3, <3>4 DEF RowsOK, PhotoRow
    <3>6. req[r].step = IF RequestWrite(r) THEN "request" ELSE "clearWrite"
      BY <2>2 DEF RequestWrite, ClearWrite
    <3>7. req[r].actor \in Users /\ (~req[r].stale => photo[p].requestedBy \in Admitted(req[r]))
      BY <2>0, <3>3, <3>6 DEF CheckOK, Deleting, Removing
    <3>8. req[r].step = "request" => by = req[r].actor
      BY <3>1 DEF ClearWrite
    <3>9. photo[p].requestedBy # NoUser
      BY CatalogAssumption
    <3>10. req[r].step = "request" => req[r].stale
      BY <3>5, <3>7, <3>8, <3>9 DEF Admitted
    <3>11. req[r].step = "clearWrite" =>
             req[r].stale \/ req[r].actor \in Officers \cup {photo[p].requestedBy}
      BY <3>7, <3>9 DEF Admitted
    <3>12. Ends(r, req[r].step)
      BY <2>2, EndOfWrite DEF Ends
    <3> QED BY <3>3, <3>6, <3>10, <3>11, <3>12 DEF Ends
  <2>3. ASSUME NEW r \in Requests, DeletePhoto(r) PROVE FALSE
    BY <2>0, <2>3, DeletePhotoStep DEF RowsOK, Stored, Absent, Removed
  <2>4. ASSUME NEW q \in Photos, NEW s \in Sightings, NEW n \in Motifs \cup {NoMotif}, InsertPhoto(q, s, n)
        PROVE  FALSE
    BY <2>0, <2>4 DEF InsertPhoto, RowsOK, Stored, Absent
  <2> QED BY <2>1, <2>2, <2>3, <2>4, PhotoSteps
<1> QED BY <1>1, InductiveInvariant, PTL DEF Spec, RequestRespected
================================================================================
