\* An officer asks for a deletion while the same officer executes one.
CONSTANTS
  Photos = {p1}
  Sightings = {s1, s2}
  Motifs = {m1}
  Users = {u1, u2}
  Officers = {u1}
  Requests = {r1, r2}
  New = New
  Gone = Gone
  NoUser = NoUser
  NoPhoto = NoPhoto
  NoSighting = NoSighting
  NoMotif = NoMotif
SPECIFICATION Spec
PROPERTIES OwnRequestsRefused
CHECK_DEADLOCK FALSE
