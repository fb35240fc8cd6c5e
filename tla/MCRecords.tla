------------------------------- MODULE MCRecords -------------------------------
(* The instances TLC checks of how the stock is filled and read: the page a     *)
(* photo is sent from, the import of archives with the lookup of addresses, the *)
(* values of fields, and what is read.  They share no state in the models, so   *)
(* a behaviour is one of one of the four.                                       *)
EXTENDS WebUpload, Import, Fields, Search

CONSTANTS a, b, x, y, f1, f2, f3, c1, p1, p2, p3, k1, k2, t1, t2

VARIABLE part

allVars == <<part, webVars, geoVars, importVars, storedBy, fieldVars, searchVars>>

RecordsInit ==
  /\ WebInit /\ GeoInit /\ ImportInit /\ FieldsInit /\ SearchInit
  /\ part \in {"page", "import", "fields", "search"}

PagePart ==
  /\ part = "page" /\ WebNext
  /\ UNCHANGED <<part, geoVars, importVars, storedBy, fieldVars, searchVars>>
ImportPart ==
  /\ part = "import" /\ ImportNext
  /\ UNCHANGED <<part, webVars, fieldVars, searchVars>>
FieldsPart ==
  /\ part = "fields" /\ FieldsNext
  /\ UNCHANGED <<part, webVars, geoVars, importVars, storedBy, searchVars>>
SearchPart ==
  /\ part = "search" /\ SearchNext
  /\ UNCHANGED <<part, webVars, geoVars, importVars, storedBy, fieldVars>>

RecordsSpec == RecordsInit /\ [][PagePart \/ ImportPart \/ FieldsPart \/ SearchPart]_allVars

-----------------------------------------------------------------------------
\* The page: two photos taken at different places, chosen together or the
\* second later.
MCExif    == [p \in Files |-> IF p = a THEN x ELSE y]
MCBatches == [c \in SUBSET Files |-> CASE c = {} -> {<<a>>, <<a, b>>}
                                       [] c = {a} -> {<<b>>} [] OTHER -> {}]

-----------------------------------------------------------------------------
\* Import: three places in a row; two archives, one of them in disorder, with
\* the photo of the other twice.

MCNear == {<<p1,p1>>, <<p2,p2>>, <<p3,p3>>, <<p1,p2>>, <<p2,p1>>, <<p2,p3>>, <<p3,p2>>}

File(n, c)  == [kind |-> "photo", name |-> n, content |-> c]
Index(s)    == [kind |-> "index", entries |-> s]
Line(n, p)  == [name |-> n, place |-> p]

MCArchives ==
  { <<File(f1, c1), Index(<<Line(f1, p2)>>)>>,
    <<Index(<<>>), File(f1, c1), File(f2, c1), File(f3, c1),
      Index(<<Line(f2, p3), Line(NoName, p1), Line(f2, NoPlace), Line(f1, NoPlace)>>)>> }

-----------------------------------------------------------------------------
\* Fields: a selection that may be required, and a free text.

MCDefinitions ==
  { [key |-> k1, type |-> "select", options |-> {t1}, required |-> TRUE],
    [key |-> k1, type |-> "select", options |-> {t2}, required |-> FALSE] }

MCMaps == {[k \in FieldKeys |-> IF k = k1 THEN m[1] ELSE m[2]] :
             m \in {<<t1, NoValue>>, <<Blank, t1>>, <<NoValue, NoValue>>}}

-----------------------------------------------------------------------------
\* Search: the first photo has two sightings and may be corrected, the second
\* has no position and is recent, the third is old.  The sighting of the second
\* and the other one of the first always show the motif.

MCOf == [s \in SightingIds |-> CASE s \in {11, 14} -> 1 [] s = 12 -> 2 [] OTHER -> 3]

MCScore == [v \in Vectors \X Vectors |-> IF v[1] = v[2] THEN 1 ELSE 0]

MCPhotoRow(c, spot) == [captured |-> c, uploaded |-> 2, spot |-> spot, case |-> NoCase]
MCPhotoRows ==
  [p \in PhotoIds |-> CASE p = 1 -> {MCPhotoRow(NoDay, 2), MCPhotoRow(1, 3)}
                        [] p = 2 -> {MCPhotoRow(NoDay, NoSpot)}
                        [] OTHER -> {MCPhotoRow(1, 1)}]

MCSightingRow(m, v) ==
  [motif |-> m, crop |-> FALSE, words |-> {}, fields |-> {}, vector |-> v]
MCWithMotif == MCSightingRow(1, "w")
MCSightingRows ==
  [s \in SightingIds |-> IF s \in {12, 14} THEN {MCWithMotif}
                        ELSE {MCSightingRow(NoMotif, "v"), MCWithMotif}]

OfMotif1 == [Everything EXCEPT !.motifs = {1}]
MCFilters == {Everything, OfMotif1}
MCQuestions == { [filter |-> Everything, vector |-> NoVector, min |-> 0],
                 [filter |-> OfMotif1, vector |-> "v", min |-> 0] }
================================================================================
