\* The last two sightings of a photo are deleted at the same time.
CONSTANTS
  Photos = {p1}
  MaxSightings = 2
  Rois = {a}
  Whole = whole
  Requests = {r1, r2}
  Workers = {w1}
  MaxEdits = 2
  MaxFaults = 0
  NoRow = NoRow
  NoVector = NoVector
  NoPhoto = NoPhoto
SPECIFICATION Spec
INVARIANTS LastSightingStays
