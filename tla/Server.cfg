\* Embedding: one photo, two sightings; two requests, one worker, two edits and one
\* fault.  LoginLimit: two machines, one of them the proxy's; a local and a
\* directory account.  Engine: two users of the engine.
SPECIFICATION ServerSpec
CONSTANTS
  Photos = {p1}
  MaxSightings = 2
  Rois = {a}
  Whole = whole
  Requests = {r1, r2}
  Workers = {w1}
  MaxEdits = 2
  MaxFaults = 1
  NoRow = NoRow
  NoVector = NoVector
  NoPhoto = NoPhoto
  Hosts = {h1, px}
  Proxy = px
  TrustMode = "auto"
  Loopback = {px}
  Names = {u1, u2}
  LocalUsers = {u1}
  LdapUsers = {u2}
  Logins = {l1, l2}
  MaxFails = 2
  LockFor = 2
  GcAt = 2
  ClearAt = 1
  NoHeader = NoHeader
  NoBucket = NoBucket
  NoLogin = NoLogin
  Users = {search, worker}
  MaxPause = 2
INVARIANTS VectorIffReady CurrentVector
           AttemptsBounded LockedForOwnFailures ReadyUntilClose
PROPERTIES IndexSpec Settled LockEnds LoadingEnds ShutdownEnds
CHECK_DEADLOCK FALSE
