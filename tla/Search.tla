-------------------------------- MODULE Search --------------------------------
(***************************************************************************)
(* What is read of the stock: lists, searches by text or by image, the map, *)
(* exports, summaries and the finds nearby (internal/records/records.go,    *)
(* search.go, summary.go and nearby.go with their handlers).                *)
(*                                                                          *)
(* Every answer but the last is made of two statements, one that counts the *)
(* photos and one that reads a page of them, and a reader turns the pages   *)
(* with requests of their own; others work on the stock between any two of  *)
(* these.  A filter is, for each of its conditions, the set of what passes. *)
(***************************************************************************)
EXTENDS Naturals, FiniteSets

CONSTANTS
  PhotoIds, SightingIds,   \* numbers, in the order of the keys
  Of,                      \* the photo of each sighting
  Days,                    \* moments, or the months of a summary
  Spots,                   \* positions, on a line
  Cases, Motifs, Words, FieldWords,
  Vectors, Scores,
  Score,                   \* how close two vectors are
  PhotoRows,               \* the rows that users write, for each photo
  SightingRows,            \* and for each sighting
  Filters, PageSizes,
  Questions,               \* what readers ask for: a filter, a vector, how close
  DefaultLimit, ListMax, MapLimit, ExportMax, SimilarMax,
  Today, FollowUpAfter, Radius, NearbyMax, PlacesMax,
  SummaryTop, Cell,        \* how many places a summary shows, and how wide they are
  NoDay, NoSpot, NoCase, NoMotif, NoWord, NoVector, NoRow, NoExclusion

PhotoRow == [captured: Days \cup {NoDay}, uploaded: Days, spot: Spots \cup {NoSpot},
             case: Cases \cup {NoCase}]
SightingRow == [motif: Motifs \cup {NoMotif}, crop: BOOLEAN, words: SUBSET Words,
                fields: SUBSET FieldWords, vector: Vectors \cup {NoVector}]

Filter == [query: Words \cup {NoWord}, days: SUBSET Days, gps: SUBSET BOOLEAN,
           edited: SUBSET BOOLEAN, near: SUBSET (Spots \cup {NoSpot}),
           motifs: SUBSET (Motifs \cup {NoMotif}), cases: SUBSET (Cases \cup {NoCase}),
           fields: SUBSET FieldWords]

ASSUME SearchAssumption ==
  /\ PhotoIds \cup SightingIds \cup Days \cup Spots \cup Motifs \cup Scores \subseteq Nat
  /\ IsFiniteSet(SightingIds) /\ Of \in [SightingIds -> PhotoIds]
  /\ Score \in [Vectors \X Vectors -> Scores]
  /\ PhotoRows \in [PhotoIds -> SUBSET PhotoRow]
  /\ SightingRows \in [SightingIds -> SUBSET SightingRow]
  /\ Filters \subseteq Filter
  /\ Questions \subseteq [filter: Filters, vector: Vectors \cup {NoVector}, min: Scores]
  /\ NoRow \notin PhotoRow \cup SightingRow
  /\ {DefaultLimit, ListMax, MapLimit, ExportMax, SimilarMax, Today, FollowUpAfter, Radius,
      NearbyMax, PlacesMax, SummaryTop} \subseteq Nat
  /\ Cell \in Nat \ {0}

VARIABLES
  photoRow, sightingRow,   \* tables records and sightings
  request,                 \* what the reader has asked for
  reading                  \* how far it is answered

searchVars == <<photoRow, sightingRow, request, reading>>

\* "pages": a list or a search; "export": that, or a summary, in one piece.
Request == [kind: {"pages", "map", "export", "similar"}, filter: Filter,
            vector: Vectors \cup {NoVector}, min: Nat, excluded: SightingIds \cup {NoExclusion},
            limit: Nat]

Photos == {p \in PhotoIds : photoRow[p] # NoRow}
Sightings(p) == {s \in SightingIds : Of[s] = p /\ sightingRow[s] # NoRow}

SeenAt(p) == IF photoRow[p].captured = NoDay THEN photoRow[p].uploaded ELSE photoRow[p].captured

-----------------------------------------------------------------------------
\* Which sightings match, and which of them stands for its photo

Catalogued(p) ==
  \/ \E s \in Sightings(p) : sightingRow[s].crop \/ sightingRow[s].motif # NoMotif
  \/ Cardinality(Sightings(p)) > 1

buildWhere(f, skipText, s) ==
  LET p == photoRow[Of[s]]
  IN  /\ (f.query = NoWord \/ skipText) \/ f.query \in sightingRow[s].words
      /\ SeenAt(Of[s]) \in f.days
      /\ (p.spot # NoSpot) \in f.gps
      /\ f.edited = BOOLEAN \/ Catalogued(Of[s]) \in f.edited
      /\ p.spot \in f.near
      /\ sightingRow[s].motif \in f.motifs
      /\ p.case \in f.cases
      /\ f.fields \subseteq sightingRow[s].fields

\* The photo of a sighting that is gone is NULL, and no photo differs from it.
Excluded(x, p) == x # NoExclusion /\ (sightingRow[x] = NoRow \/ Of[x] = p)

Closeness(r, s) == Score[<<r.vector, sightingRow[s].vector>>]

Matching(r) ==
  {s \in SightingIds :
     /\ sightingRow[s] # NoRow
     /\ buildWhere(r.filter, r.vector # NoVector, s)
     /\ r.vector # NoVector => /\ sightingRow[s].vector # NoVector
                               /\ Closeness(r, s) >= r.min
                               /\ ~Excluded(r.excluded, Of[s])}

PhotosFound(r) == {Of[s] : s \in Matching(r)}

\* The sighting shown for a photo: the first, or the closest.  (Of two equally
\* close ones the database may take either.)
Prefers(r, s, t) ==
  IF r.vector = NoVector \/ Closeness(r, s) = Closeness(r, t) THEN s <= t
  ELSE Closeness(r, s) > Closeness(r, t)

\* Mutant: one hit for every sighting
HitsOfSightings(r) == Matching(r)

Hits(r) ==
  LET matching == Matching(r)
  IN  {s \in matching : \A t \in matching : Of[t] = Of[s] => Prefers(r, s, t)}

Ahead(r, s, t) ==
  LET p == Of[s]
      q == Of[t]
  IN  IF r.vector # NoVector THEN s # t /\ Prefers(r, s, t)
      ELSE \/ SeenAt(p) > SeenAt(q)
           \/ /\ SeenAt(p) = SeenAt(q)
              /\ \/ photoRow[p].uploaded > photoRow[q].uploaded
                 \/ photoRow[p].uploaded = photoRow[q].uploaded /\ s < t

Page(r, offset) ==
  LET hits    == Hits(r)
      rank(s) == Cardinality({t \in hits : Ahead(r, t, s)})
  IN  {s \in hits : rank(s) \in offset..(offset + r.limit - 1)}

applyListLimit(limit, forExport) ==
  LET max     == IF forExport THEN ExportMax ELSE ListMax
      default == IF forExport THEN ExportMax ELSE DefaultLimit
  IN  IF limit \in 1..max THEN limit ELSE default

-----------------------------------------------------------------------------
\* A reader

Ask(kind, f, vector, min, excluded, limit, forExport) ==
  [kind |-> kind, filter |-> f, vector |-> vector, min |-> min, excluded |-> excluded,
   limit |-> applyListLimit(limit, forExport)]

\* The list and the search by text or image, a page of them.
listWithOptionalSemantic(f, vector, min, size) ==
  Ask("pages", f, vector, min, NoExclusion, size, FALSE)

MapPoints(f, vector, min) ==
  Ask("map", [f EXCEPT !.gps = {TRUE}], vector, min, NoExclusion, MapLimit, FALSE)

loadExportItems(f, vector, min) ==
  Ask("export", f, vector, min, NoExclusion, ExportMax, TRUE)

Everything == [query |-> NoWord, days |-> Days, gps |-> BOOLEAN, edited |-> BOOLEAN,
               near |-> Spots \cup {NoSpot}, motifs |-> Motifs \cup {NoMotif},
               cases |-> Cases \cup {NoCase}, fields |-> {}]

\* Similar: the vector has been read by a statement of its own.
Similar(s, min) ==
  Ask("similar", Everything, sightingRow[s].vector, min, s, SimilarMax, FALSE)

\* kept: history, the photos that were found all the time, and none once one of
\* them was taken away or has changed its place.  late: history, one was added
\* between the last count and its page.
Reading == [step: {"idle", "count", "page", "read"}, offset: Nat, total: Nat,
            got: SUBSET SightingIds, kept: SUBSET PhotoIds, late: BOOLEAN]

NoRequest  == listWithOptionalSemantic(Everything, NoVector, 0, DefaultLimit)
NotReading == [step |-> "idle", offset |-> 0, total |-> 0, got |-> {}, kept |-> {},
               late |-> FALSE]

SearchInit ==
  /\ photoRow = [p \in PhotoIds |-> NoRow]
  /\ sightingRow = [s \in SightingIds |-> NoRow]
  /\ request = NoRequest
  /\ reading = NotReading

UNCHANGED_Stock == UNCHANGED <<photoRow, sightingRow>>

Begins(r) == request' = r /\ reading' = [NotReading EXCEPT !.step = "count"] /\ UNCHANGED_Stock

AskFor ==
  /\ reading.step = "idle"
  /\ \E a \in Questions :
       \/ \E size \in PageSizes : Begins(listWithOptionalSemantic(a.filter, a.vector, a.min, size))
       \/ Begins(MapPoints(a.filter, a.vector, a.min))
       \/ Begins(loadExportItems(a.filter, a.vector, a.min))

AskSimilar ==
  /\ reading.step = "idle"
  /\ \E s \in SightingIds, a \in Questions :
       /\ sightingRow[s] # NoRow
       /\ sightingRow[s].vector # NoVector
       /\ Begins(Similar(s, a.min))

CountHits ==
  /\ reading.step = "count"
  /\ reading' = [reading EXCEPT
       !.step = "page", !.total = Cardinality(PhotosFound(request)), !.late = FALSE,
       !.kept = IF reading.offset = 0 THEN PhotosFound(request) ELSE @]
  /\ UNCHANGED request /\ UNCHANGED_Stock

ReadPage ==
  /\ reading.step = "page"
  /\ reading' = [reading EXCEPT
       !.step = "read", !.got = @ \cup Page(request, reading.offset)]
  /\ UNCHANGED request /\ UNCHANGED_Stock

LastPage == reading.offset + request.limit >= reading.total

TurnPage ==
  /\ reading.step = "read" /\ request.kind = "pages" /\ ~LastPage
  /\ reading' = [reading EXCEPT !.step = "count", !.offset = @ + request.limit]
  /\ UNCHANGED request /\ UNCHANGED_Stock

\* The reader has seen enough, or one of the statements has failed.
EndReading ==
  /\ reading.step # "idle"
  /\ reading' = NotReading /\ request' = NoRequest
  /\ UNCHANGED_Stock

-----------------------------------------------------------------------------
\* The others: uploads, corrections and deletions

\* The pairs of photos of which one comes before the other.
InOrder(r) ==
  LET hits == Hits(r)
  IN  {<<Of[x[1]], Of[x[2]]>> : x \in {x \in hits \X hits : Ahead(r, x[1], x[2])}}

Disturbed ==
  ~ /\ PhotosFound(request) \subseteq PhotosFound(request)'
    /\ InOrder(request) \subseteq InOrder(request)'

Observed ==
  /\ UNCHANGED request
  /\ IF reading.step = "idle" THEN UNCHANGED reading
     ELSE reading' = [reading EXCEPT
            !.kept = IF @ = {} \/ Disturbed THEN {} ELSE @,
            !.late = @ \/ (reading.step = "page"
                           /\ ~(PhotosFound(request)' \subseteq PhotosFound(request)))]

\* Insert: a photo with its first sighting.
InsertPhoto(p, row, s, first) ==
  /\ photoRow[p] = NoRow /\ Of[s] = p
  /\ photoRow' = [photoRow EXCEPT ![p] = row]
  /\ sightingRow' = [sightingRow EXCEPT ![s] = first]
  /\ Observed

UpdatePhoto(p, row) ==
  /\ p \in Photos
  /\ row # photoRow[p] /\ row.uploaded = photoRow[p].uploaded
  /\ photoRow' = [photoRow EXCEPT ![p] = row]
  /\ UNCHANGED sightingRow /\ Observed

DeletePhotoRow(p) ==
  /\ p \in Photos
  /\ photoRow' = [photoRow EXCEPT ![p] = NoRow]
  /\ sightingRow' = [s \in SightingIds |-> IF Of[s] = p THEN NoRow ELSE sightingRow[s]]
  /\ Observed

\* A sighting is added, or its text, motif, rectangle or vector changes.
WriteSighting(s, row) ==
  /\ Of[s] \in Photos /\ row # sightingRow[s]
  /\ sightingRow' = [sightingRow EXCEPT ![s] = row]
  /\ UNCHANGED photoRow /\ Observed

\* The last sighting of a photo stays.
DropSighting(s) ==
  /\ sightingRow[s] # NoRow /\ Sightings(Of[s]) # {s}
  /\ sightingRow' = [sightingRow EXCEPT ![s] = NoRow]
  /\ UNCHANGED photoRow /\ Observed

SearchNext ==
  \/ AskFor \/ AskSimilar \/ CountHits \/ ReadPage \/ TurnPage \/ EndReading
  \/ \E p \in PhotoIds : \E row \in PhotoRows[p] :
       \/ UpdatePhoto(p, row)
       \/ \E s \in SightingIds : \E first \in SightingRows[s] : InsertPhoto(p, row, s, first)
  \/ \E p \in PhotoIds : DeletePhotoRow(p)
  \/ \E s \in SightingIds : \/ DropSighting(s)
                           \/ \E row \in SightingRows[s] : WriteSighting(s, row)

SearchSpec == SearchInit /\ [][SearchNext]_searchVars

-----------------------------------------------------------------------------
\* Summaries

\* Positions are counted by the cell of a grid to which they are rounded.
gridKey(v) == (2 * v + Cell) \div (2 * Cell)
Cells      == {gridKey(v) : v \in Spots}

AtCell(s, k) == photoRow[Of[s]].spot # NoSpot /\ gridKey(photoRow[Of[s]].spot) = k

\* What a summary shows of the cells: the most frequent, the smaller one first.
topHotspots(counts) ==
  {k \in DOMAIN counts :
     /\ counts[k] > 0
     /\ Cardinality({j \in DOMAIN counts :
          \/ counts[j] > counts[k]
          \/ counts[j] = counts[k] /\ j < k}) < SummaryTop}

Counted(keys, items, Has(_, _)) == [k \in keys |-> Cardinality({s \in items : Has(s, k)})]

\* Mutant: by the day of the upload only
SummarizeByUpload(items, total) ==
  [total    |-> total, truncated |-> total > Cardinality(items),
   withGPS  |-> Cardinality({s \in items : photoRow[Of[s]].spot # NoSpot}),
   months   |-> Counted(Days, items, LAMBDA s, d : photoRow[Of[s]].uploaded = d),
   motifs   |-> Counted(Motifs \cup {NoMotif}, items, LAMBDA s, m : sightingRow[s].motif = m),
   hotspots |-> Counted(Cells, items, AtCell)]

\* (Of the motifs, too, a summary shows the most frequent only; here it counts all.)
Summarize(items, total) ==
  [total    |-> total, truncated |-> total > Cardinality(items),
   withGPS  |-> Cardinality({s \in items : photoRow[Of[s]].spot # NoSpot}),
   months   |-> Counted(Days, items, LAMBDA s, d : SeenAt(Of[s]) = d),
   motifs   |-> Counted(Motifs \cup {NoMotif}, items, LAMBDA s, m : sightingRow[s].motif = m),
   hotspots |-> Counted(Cells, items, AtCell)]

-----------------------------------------------------------------------------
\* Finds nearby

Distance(a, b) == IF a > b THEN a - b ELSE b - a

PhotosNear(here) == {p \in Photos : photoRow[p].spot # NoSpot
                                    /\ Distance(photoRow[p].spot, here) <= Radius}

\* One sighting stands for its photo: one with a motif before one without.
StandsFor(s) ==
  \A t \in Sightings(Of[s]) : LET none(x) == sightingRow[x].motif = NoMotif
                              IN  \/ none(t) /\ ~none(s)
                                  \/ none(t) = none(s) /\ s <= t

FarFrom(here, s) == Distance(photoRow[Of[s]].spot, here)

\* (Of two equally far ones the database may take either first.)
NearbyHits(here) ==
  LET all == {s \in UNION {Sightings(p) : p \in PhotosNear(here)} : StandsFor(s)}
  IN  {s \in all : Cardinality({t \in all :
         \/ FarFrom(here, t) < FarFrom(here, s)
         \/ FarFrom(here, t) = FarFrom(here, s) /\ t < s}) < NearbyMax}

PhotosOf(m) == {Of[s] : s \in {s \in SightingIds :
                                  sightingRow[s] # NoRow /\ sightingRow[s].motif = m}}

\* Mutant: only the photos nearby count
LastAtNearby(m, group) == CHOOSE d \in Days : /\ \E s \in group : SeenAt(Of[s]) = d
                                              /\ \A s \in group : SeenAt(Of[s]) <= d

\* The last photo of the motif, or of the one photo without a motif.
LastAt(m, group) ==
  LET photos == IF m = NoMotif THEN {Of[s] : s \in group} ELSE PhotosOf(m)
  IN  CHOOSE d \in Days : /\ \E p \in photos : SeenAt(p) = d
                          /\ \A p \in photos : SeenAt(p) <= d

SamePlace(s, t) == s = t \/ (sightingRow[s].motif # NoMotif
                             /\ sightingRow[s].motif = sightingRow[t].motif)

FollowUp(m, group) == m # NoMotif /\ LastAt(m, group) + FollowUpAfter <= Today

\* The nearest sighting stands for its group.
PlacesNear(here) ==
  LET hits == NearbyHits(here)
      groups == {{t \in hits : SamePlace(s, t)} : s \in hits}
      nearest(g) == CHOOSE s \in g : \A t \in g : FarFrom(here, s) <= FarFrom(here, t)
  IN  {[motif |-> sightingRow[nearest(g)].motif, sighting |-> nearest(g),
        distance |-> FarFrom(here, nearest(g)), count |-> Cardinality(g),
        followUp |-> FollowUp(sightingRow[nearest(g)].motif, g)] : g \in groups}

\* What lies after the distance, the title, is left to the number of the sighting.
nearbyLess(a, b) ==
  IF a.followUp # b.followUp THEN a.followUp
  ELSE \/ a.distance < b.distance
       \/ a.distance = b.distance /\ a.sighting < b.sighting

GroupNearby(here) ==
  {a \in PlacesNear(here) :
     Cardinality({b \in PlacesNear(here) : nearbyLess(b, a)}) < PlacesMax}

-----------------------------------------------------------------------------
\* Properties

PhotosRead == {Of[s] : s \in reading.got}

Finished ==
  /\ reading.step = "read"
  /\ \/ request.kind = "pages" /\ LastPage
     \/ request.kind = "export" /\ reading.total <= Cardinality(reading.got)

\* Who has turned the pages to the last, or holds an export that is not marked as
\* truncated, has every photo that matched all the time.  Photos that are added
\* meanwhile may show one twice and hide none, unless one is added between the
\* last count and its page; this does not hold where a photo was taken away or
\* has changed its place in the list.
ReadingComplete ==
  Finished /\ ~reading.late => reading.kept \subseteq PhotosRead

\* What follows is about the tables alone, and asked where nobody reads them.
NobodyReads == reading.step = "idle" /\ Photos # {}

Total(f) == Cardinality(PhotosFound(listWithOptionalSemantic(f, NoVector, 0, 0)))

Around(here) == {v \in Spots : Distance(v, here) <= Cell}

\* A summary agrees with the lists under the same filter and one condition more, by
\* month and by coordinates.  A motif is counted at most as often as the list shows
\* it, and a place at most as often as the list shows photos around its point, in a
\* circle as wide as the grid; no place left out is more frequent than one shown.
SummaryAgrees ==
  NobodyReads => \A f \in Filters :
    LET r == loadExportItems(f, NoVector, 0)
        summary == Summarize(Page(r, 0), Total(f))
    IN  ~summary.truncated =>
          /\ \A d \in Days : summary.months[d] = Total([f EXCEPT !.days = @ \cap {d}])
          /\ summary.withGPS = Total([f EXCEPT !.gps = @ \cap {TRUE}])
          /\ \A k \in topHotspots(summary.hotspots) :
               /\ summary.hotspots[k] <= Total([f EXCEPT !.near = @ \cap Around(k * Cell)])
               /\ \A o \in Cells \ topHotspots(summary.hotspots) :
                    summary.hotspots[k] >= summary.hotspots[o]
          /\ \A m \in Motifs : summary.motifs[m] <= Total([f EXCEPT !.motifs = @ \cap {m}])

Due(m) == \A p \in PhotosOf(m) : SeenAt(p) + FollowUpAfter <= Today

\* Nearby, a motif is marked for a new photo exactly where no photo of it is
\* recent, wherever that was taken and whether or not it has a position; and
\* what is left out of the answer is neither due while something shown is not,
\* nor nearer than what is shown of its kind.
NearbyDue ==
  NobodyReads => \A here \in Spots :
    LET shown == GroupNearby(here)
    IN  /\ \A a \in shown : a.followUp <=> a.motif # NoMotif /\ Due(a.motif)
        /\ \A s \in NearbyHits(here) :
             \/ \E a \in shown : SamePlace(a.sighting, s) /\ a.distance <= FarFrom(here, s)
             \/ \A a \in shown :
                  LET m == sightingRow[s].motif
                      due == m # NoMotif /\ Due(m)
                  IN  /\ due => a.followUp
                      /\ due = a.followUp => a.distance <= FarFrom(here, s)
================================================================================
