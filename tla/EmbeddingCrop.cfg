\* A PATCH whose custom fields are refused has changed the crop already.
CONSTANTS
  Photos = {p1}
  MaxSightings = 2
  Rois = {a}
  Whole = whole
  Requests = {r1}
  Workers = {w1}
  MaxEdits = 2
  MaxFaults = 0
  NoRow = NoRow
  NoVector = NoVector
  NoPhoto = NoPhoto
SPECIFICATION Spec
INVARIANTS EditedCropReembedded
