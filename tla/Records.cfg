\* WebUpload: two photos and two places.  Import: two imports, each of which may
\* also only ask for an address.  Fields: two writers of values at one sighting.
\* Search: three photos, the first with up to two sightings.
SPECIFICATION RecordsSpec
CONSTANTS
  a = a
  b = b
  x = x
  y = y
  Files = {a, b}
  Batches <- MCBatches
  Positions = {x, y}
  Exif <- MCExif
  MaxSearching = 1
  NoFile = NoFile
  NoPosition = NoPosition
  f1 = f1
  f2 = f2
  f3 = f3
  c1 = c1
  p1 = p1
  p2 = p2
  p3 = p3
  Places = {p1, p2, p3}
  Near <- MCNear
  Callers = {i1, i2}
  MinGap = 1
  MaxWait = 1
  NoPlace = NoPlace
  Importers = {i1, i2}
  Archives <- MCArchives
  Names = {f1, f2, f3}
  Contents = {c1}
  MaxZipFiles = 5
  NoName = NoName
  k1 = k1
  k2 = k2
  t1 = t1
  t2 = t2
  FieldIds = {d1, d2}
  FieldKeys = {k1, k2}
  Texts = {t1, t2}
  Numbers = {t1}
  FieldSightings = {s1}
  Writers = {w1, w2}
  Blank = Blank
  Definitions <- MCDefinitions
  Maps <- MCMaps
  NoField = NoField
  Deleted = Deleted
  NoValue = NoValue
  NoSighting = NoSighting
  PhotoIds = {1, 2, 3}
  SightingIds = {11, 12, 13, 14}
  Of <- MCOf
  Days = {1, 2}
  Spots = {1, 2, 3}
  Cases = {}
  Motifs = {1, 2}
  Words = {}
  FieldWords = {}
  Vectors = {"v", "w"}
  Scores = {0, 1}
  Score <- MCScore
  PhotoRows <- MCPhotoRows
  SightingRows <- MCSightingRows
  Filters <- MCFilters
  PageSizes = {1}
  Questions <- MCQuestions
  DefaultLimit = 1
  ListMax = 2
  MapLimit = 3
  ExportMax = 2
  SimilarMax = 2
  Today = 2
  FollowUpAfter = 1
  Radius = 1
  NearbyMax = 3
  PlacesMax = 1
  SummaryTop = 1
  Cell = 2
  NoDay = NoDay
  NoSpot = NoSpot
  NoCase = NoCase
  NoMotif = NoMotif
  NoWord = NoWord
  NoVector = NoVector
  NoRow = NoRow
  NoExclusion = NoExclusion
INVARIANTS ChosenKept OwnPlace SlotsApart AddressNear ImportAnswered OfferedValue
           UploadComplete ReadingComplete SummaryAgrees NearbyDue
CHECK_DEADLOCK FALSE
