\* UploadQueue: two photos, two queue objects that may be at work at once, one
\* fault.  Catalog: two photos, two sightings and one motif; two requests, and one
\* of the two users is an officer.  Accounts: the first administrator and another
\* user, two requests and one token.
SPECIFICATION UsersSpec
CONSTANTS
  Photos = {p1, p2}
  Sightings = {s1, s2}
  Motifs = {m1}
  Users = {u1, u2}
  Officers = {u1}
  Requests = {r1, r2}
  New = New
  Gone = Gone
  NoUser = NoUser
  NoPhoto = NoPhoto
  NoSighting = NoSighting
  NoMotif = NoMotif
  UserNames = {root, u1}
  Admin = root
  Roles = {"admin"}
  Calls = {q1, q2}
  MaxActive = 1
  MaxEpoch = 1
  TokenIds = {k1}
  MaxSessions = 1
  MaxGrants = 1
  NoAccount = NoAccount
  NoRow = NoRow
  NoAttr = NoAttr
  Items = {i1, i2}
  Screens = {s1, s2}
  MaxFaults = 1
  NoScreen = NoScreen
  NoItem = NoItem
INVARIANTS NothingLost TypeOK NoOldSession NoOldToken
PROPERTIES OutboxSpec DrainEnds MembersKept RequestRespected
CHECK_DEADLOCK FALSE
