\* Retention: one photo, one case, two concurrent requests; the clock runs long
\* enough for a criminal case to be closed late, reopened and closed again.
\* Upload: two contents, one with a thumbnail, and two calls with two faults.
SPECIFICATION PhotosSpec
CONSTANTS
  Photos = {p1}
  Cases = {c1}
  Requests = {r1, r2}
  Positions = {g1}
  MaxNow = 6
  NoRow = NoRow
  NoPos = NoPos
  NoCase = NoCase
  NoPhoto = NoPhoto
  NoTime = NoTime
  Pictures = {p1, p2}
  Thumbable = {p1}
  MaxUploads = 2
  Failures = {"crash", "store", "db", "commit", "redact"}
  MaxFaults = 2
  NoRecord = NoRecord
  NoPicture = NoPicture
INVARIANTS CleanRedactionFinal RowHasObjects NoOrphans
PROPERTIES NoEarlyRedaction DeadlineKept ClosedCaseRedacts AnsweredIsStored
CHECK_DEADLOCK FALSE
