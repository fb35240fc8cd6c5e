# TLA+ models of Schmutzfink

Schmutzfink archives photos of graffiti. A Go server (`cmd/server`, `internal/`)
keeps records in PostgreSQL and images in an object store; a phone app
(`mobile/`, Flutter) takes the pictures and sends them; a web page (`web/`)
searches, edits and deletes. This directory holds models of the parts whose
correctness depends on the order of steps, the runs of TLC that check them on
small instances, and proofs, checked by TLAPS, of every safety property that those
runs find to hold, for instances of any size. Where a document of the repository
says more than the code keeps, a run shows how it fails (section 5).

`PROJECT.json` lists the components, the runs, for every definition the source
lines it models, the hazards and the theorems. Line numbers below refer to `src/`.

## 1. Inventory

The server is one process with many goroutines: one per HTTP request, one
embedding worker, one retention worker, one that loads the CLIP engine. They
share nothing but the database, the store, the login limiter, the thumbnail
cache and a wake-up channel. Most handlers run several SQL statements without a
transaction, so what a request read may be old when it writes. A request may
end between any two of its statements (an error, a client that left and so
cancelled the context, the end of the process).

| component | state | operations | what is hard | what makes it correct |
|---|---|---|---|---|
| Cases and retention (`records/cases.go`, `retention/worker.go`) | `cases`, location columns and `extra` of `records` | create, edit, close, reopen, delete a case; file and unfile a photo; hourly redaction | check and UPDATE apart; worker beside requests; a request that dies after closing | a location stays for the whole period, then goes, and stays away |
| Sightings and embedding (`records/search.go`, `embedjob/worker.go`, `httpapi/sightings.go`) | `sightings` with crop, status and vector | add, edit, delete, claim, save, fail, requeue, rescue | late results, stuck jobs, two processes, edits while a job runs | search finds a sighting by the crop it shows; every queued one is settled |
| Upload and object store (`httpapi/ingest.go`, `records.Insert`, `storage/`) | `records`, `sightings`, objects | upload, import, delete | store and database are not one transaction; duplicates; lost COMMIT answers | a record has its objects, an object its record, an answer is true |
| Phone queue (`mobile/lib/upload_queue.dart`) | list in preferences, files, list in memory | enqueue, remove, drain, retry, load | kills, lost answers, several queue objects | no photo is lost before the server has it |
| Accounts (`internal/auth`, `httpapi/auth.go`, `apitoken.go`, `provision.go`) | `users`, `sessions`, `api_tokens` | login, logout, change and reset of passwords, update, provisioning, tokens | check and write apart, revocation beside grants, last administrator | what was granted before a change of password or a disabling ends with it |
| Deletion requests (`httpapi/deletion.go`, `records.go:401-447`) | `deletion_requested_*` of `records` | request, withdraw, execute | the check reads a request that may be another by then | nobody executes his own request, a pending one is not replaced unseen |
| Motifs (`records/motifs.go`) | `motifs`, `sightings.motif_id` | create, assign, unlink, delete | count and delete under READ COMMITTED | no motif without a sighting |
| Login limiter (`httpapi/loginlimit.go`, `proxy.go`, `auth/ldap.go`) | counters in memory, by address and by name | allow, fail, ok, sweep | the password is compared between check and count; whose address is it | attempts are bounded; behind a trusted proxy the bucket of an address is locked only for failures from there (that of a name counts those of every address, `loginlimit_test.go:55`); every lock ends |
| CLIP engine and process (`clip/engine.go`, `cmd/server/main.go`) | state and runtime of the engine, connections of the pool | load, download, ask, use, close | a signal closes the engine below whatever runs | ready stays ready until the end; loading and shutting down end |
| Custom fields (`records/fields.go`, `httpapi/fields.go`) | `custom_fields`, `sighting_field_values` | define, change, delete; check and write values | definitions change while values are written one by one | a stored value is one its field has offered; an upload has filled in what it must |
| Import of archives (`ingest/archive.go`, `httpapi/import.go`) | the request's list and answer | parse, save one photo after another | two minutes for many photos, duplicates, other imports | what is reported is true, and what was stored is reported, except where reading it back failed after the COMMIT |
| Addresses (`httpapi/geocode.go`) | the next free slot, the address found last | reserve, wait, ask, reuse | slots are waited for outside the lock and abandoned; the cache is replaced by others | requests lie a second apart; an address is of a place nearby |
| Lists, searches, maps, exports, summaries, nearby (`records/records.go`, `search.go`, `summary.go`, `nearby.go` and handlers) | none | count, read a page, turn it; summarize; group | count and page are statements apart, pages are requests apart; one sighting stands for its photo | whoever reads to the end has seen what was there all the time; totals agree |
| Web upload list (`Upload.tsx`, `LocationPicker.tsx`) | files, form and picker in the page | choose, skip, clear, read EXIF, search, save | state read before an `await` and written after it | no chosen photo is dropped, each is sent with a place and an address of its own |
| Web record view and list (`Detail.tsx`, `List.tsx`) | photo, form, results in the page | open, edit, save, filter | answers out of order | what is shown and saved belongs to what is open |
| Audit log, schema and migrations, configuration, headers, thumbnails, image decoding, the rest of the web page and of the phone | | rows appended, I/O, wiring | | not modelled, see section 8 |

They interact through foreign keys and through each other's statements: deleting
a photo deletes its sightings and objects, and with its last sighting a motif;
a case fixes when a photo loses its location; an upload inserts a sighting that
the embedding worker picks up; the phone deletes its copy on the answer of an
upload. The column on the right says what would make a part correct; sections 4
and 5 say how far it is so.

## 2. Plan

Modelled and checked: `Retention`, `Embedding` with `CropIndex`, `Upload` and
`WebUpload`, `UploadQueue` with `Outbox`, `Accounts`, `Catalog`, `LoginLimit`, `Engine`,
`Geocode`, `Import`, `Fields`, `Search`. Proved: see section 6. The order was that of what is
lost when it goes wrong: locations kept too long or too short, photos lost on the
way, rights that outlive their end, and only then what is read.

Left, in this order:

* *Composition of phone and server*: `UploadQueue` with the answers of `Upload`
  behind it instead of any answers, for the promise of both together: a photo
  that the phone lets go is in the archive. `Outbox` is the phone's half of it.
* *Detail and list pages*: the answer to a saving is shown whichever photo is open by
  then (`Detail.tsx:244`).
* *Hazards no property covers*: a map that asks for 2000 points and gets 40
  (section 5), an entry the server refuses for good holds up the
  phone's queue (`upload_queue.dart:136`), and a login that compares an old hash
  while the password is reset (`auth.go:177`). All happen in the models as they do
  in the code.

## 3. Modules

**Conventions.** An SQL statement or a transaction is one step, for PostgreSQL
makes it so; `req` (or `up`, `worker`) says between which two statements a
request is and what it holds in memory. A read is taken together with the
decision that follows it, a write is a step of its own whenever the code issues
it as a statement of its own. Ghost variables, marked *history* in the
declarations, are read by no guard. `NoRow` stands for a row that is not there.
Rows deleted and inserted again are new rows: primary keys are random and never
come back (`Sightings` and `Uploads` are numbered for that reason).

`MCPhotos`, `MCServer`, `MCUsers` and `MCRecords` put two to four modules beside each
other that share no state: the first state chooses `part`, only the steps of that
part follow, and each part is explored completely. Fairness is that of the part.

### Retention
`photo` and `case` are the location columns of `records` and the table `cases`;
`now` the database clock in years. `PatchLoad`, `PatchCheck`, `PatchWrite` are
the three parts of a PATCH (`httpapi/records.go:177`, `records.go:270`,
`records.go:278`); `CloseRead`/`CloseWrite`, `ReopenRead`/`ReopenWrite` those of
`SetCaseClosed`; each is followed by `RedactDueForCase` or `RedactIfDue` as a
step of its own, which may be lost (`Abandon`). `RedactDueLocations` is the
hourly worker. `Redact` is the common UPDATE with all it clears.

### Embedding and CropIndex
`sighting` is the table with crop, status, vector and `gen` (`embedding_gen`). A
vector is represented by the crop it was computed from. `ClaimPending` (with
`FOR UPDATE SKIP LOCKED`, one step), `SaveEmbedding` (guarded by generation and
status), `FailEmbedding` and `BeginPass` (which begins with `RequeueStuck`) are
the worker; `PatchLoad`, `PatchSave`, `PatchRefused`, `RequeueEmbedding` the edit;
`DeleteLoad`, `DeleteCount`, `DeleteClear`, `DeleteRow` the deletion. `CropIndex`
is the abstract specification: a sighting is queued, its crop changes, a vector
of a crop it has had since then arrives, it is removed. `Index` instantiates it
with the vectors of the table, and `IndexSpec` is checked as a PROPERTY and
proved.

### Upload
`up` holds the calls of `savePhoto`, one action for each statement or visit to
the store (`Check`, `Read`, `Put`, `Insert`, `RedactPhoto`, `Cleanup`,
`WriteFields`), with an action for each way it can fail; `InsertUnknown` is a
COMMIT whose answer is lost. `Remove` and `RemoveObject` are `deleteRecord`.
`Crash` ends the process.

### UploadQueue
A step reaches from one `await` of the Dart code to the next. Every
`CaptureScreen` has a queue object of its own (`queue`, `step`, `work`), and all
of them write one `saved` list. The server is whatever answers: `Accept`,
`Refuse`, `Unauthorized`, or nobody before the `Timeout`. `Future.timeout`
(`client.dart:263`) does not end the request: after a timeout, and after a `Kill`,
the photo is `late`, and `AcceptLate` may store it at any time, while the entry is
failed, sent again or removed. `Outbox` is the abstract specification: photos are
captured once; those that wait may be sent (`underway`), and the archive may take
what was sent, once or several times or not at all (`Store`, `Refuse`), even after
the user has removed it; a photo leaves when the archive has it or the user removes
it; after two queue objects have been at work at once (`mixed`) it promises nothing.
`Box` instantiates it with the ids of the saved list; `OutboxSpec` is checked as a
PROPERTY and proved.

### Catalog
`photo`, `sighting` and `motif` are the committed rows with their foreign keys
and the column `deletion_requested_by`; `req` the requests in progress. A
transaction that decides nothing by what it read earlier is one step at its
COMMIT (`InsertPhoto`, `AddSighting`, `DeleteSighting`, `CreateMotif`,
`AssignSighting`, `DeleteMotif`). Under READ COMMITTED two others are more.
`UnlinkSighting` is `UnlinkUpdate`, `UnlinkCount`, then `UnlinkDelete` or `UnlinkKeep`,
with the row of the sighting locked (`Locked`) from the first to the last.
`Repo.DeletePhoto` is `ListMotifs` (`records.go:483`), `DeleteRecord` (`:502`, which takes
the locks of the photo and its sightings, `PhotoLocked`), `FindEmpty` (`:510`, which
sees what others have committed by then and not what they have not) and
`DeletePhoto`, the COMMIT. At a COMMIT a sighting whose motif is deleted loses it, one
that was inserted or assigned meanwhile included. `RequestRead`/`RequestWrite`,
`CancelCheck`/`ClearRead`/`ClearWrite` and `ExecuteCheck` are the handlers of
`deletion.go`. The history `stale` of a request says that the columns, or the
members of the motif, which it has looked at were changed since; `seen` holds the
motifs a photo deletion has listed and nobody has changed since. Deletion of
a sighting that is the last of its photo, and the store, are in `Embedding` and
`Upload`.

### Accounts
`user` holds role, state and who set the password; `calls` the requests between two
statements. An *epoch* of a user begins with each write of his password or of
his disabling; sessions and tokens carry the epoch of their INSERT. Each write
is followed by `DropSessions` and `DropTokens`, and `AbortCall` may end any request
on the way; the history `missed` holds the users whose drops were lost that way.
`alone` says that no other write of `users` came between the read and the write
of an update. `tokens` is the table `api_tokens` as far as it counts: a row is its
id, its user and the epoch it was made in. The directory's service may call the same
update for any account, so `LoadUser` has an administrator behind it only when it is
about himself.

### WebUpload
The page that uploads, from one `await` or event to the next. `queue`, `current` and
`form` are its state; `readingExif` the photos whose EXIF `exifr` still reads; `looking`,
`skipReverse` and `searching` belong to `LocationPicker`, whose effect on a new
position (`Moved`) is part of the step that sets it. The button is disabled while a
search runs, the Enter key is not (`LocationPicker.tsx:168`), so `searching` holds
the photos that searches go on for, and one may end while others for the same photo go
on; `MaxSearching` bounds the photos. `sending` is the closure of
`onSubmit`: what it has taken from the state before it awaits the answer.
`savePhoto` is what the server makes of the form. The histories `meanwhile`,
`hurried` and `hasty` name the photos the user was too fast for. `Batches` says which
files may be chosen together after those chosen already.

### LoginLimit and Engine
`LoginLimit`: `bucket` is `byIP` and `byUser`; `Attempt` is `allow` with its sweep
(`gcBuckets`), `Answer` what follows the comparison: `fail`, `ok` or neither.
Between them the login is in `login`. `AddressesOf` says under which addresses
`withClientAddr` may see a client, with the proxy or past it. Time is the rest of a
lock and passes in ticks.
`Engine`: `load` is the goroutine of `clip.New` in seven steps, with the pauses of
the download, which may still succeed after it was cancelled; `AskReady`, `embedder`,
`Query`, `EndUse` a handler or the worker; `Signal`, `Cancel`, `CloseInner`,
`ClosePool` the end of `main`, whose deferred calls run as soon as `ListenAndServe`
returns.

### Geocode and Import
`Geocode`: `ahead` is `lastGeocode` seen from now, in ticks; `waitGeocodeSlot`
reserves, `SlotCancelled` leaves without giving back. `cache` is `addrCache`. An
address is named by the place it was found for. `Import` extends it: `Wanted`,
`Issues` and `RefusedZip` are `ParseImportZip`, `import` the requests, each photo a
step for the address, the look at the hash, the insertion and the reading back
(`Upload` has the rest of `savePhoto`). Items are named by the positions of their
entries in the index; `First` is the loop, which takes the least position left. What
comes of an item is "imported", "skipped", an error, or "unread": stored, but the
reading back failed, which the code reports as an error too. `ImportAnswer` is what is
sent: the counts, or, when nothing was imported or skipped, 400 "Keine Bilder
importiert" without any of them (`import.go:73`). `Cut` is a client that leaves or the
end of two minutes: what follows are statements that fail.

### Fields
`field` and `value` are the two tables, without a transaction between any two
statements. `UpdateRead`/`UpdateWrite` are `UpdateField`; `UploadCheck` and
`InsertSighting` an upload, `AddSighting` and `EditSighting` the handlers that do not
check first; `LoadFields` and `WriteValue` are `SetSightingFields`, one value at a
time, in the order of a Go map, that is in any. `offered` and `must` are histories.

### Search
`photoRow` and `sightingRow` are the stock as far as filters see it. A filter is a
set of what passes for each condition. `Hits`, `Ahead` and `Page` are the SQL of
`List` and `SearchByVector`; `CountHits`, `ReadPage`, `TurnPage` a reader's
statements; `Summarize`, `topHotspots`, `NearbyHits` and `GroupNearby` are operators on
a state, compared with the lists of the same state. Positions lie on a line.
`gridKey` rounds a position to the nearest multiple of `Cell`, as `summary.go:127` does
in both coordinates, and a hotspot counts the photos `AtCell`. Lists have no filter by
cell, only by a circle: so a hotspot's count is not that of a list, but bounded by what
the circle `Around` its point finds, which reaches over the whole cell and into others.
Where the order leaves a tie to the database (equal closeness, equal distance) the smaller number is taken. The cut to the most frequent
motifs (`topNamed`) is left out; no property is about it.

## 4. Runs

Four runs pass, eight end in a violation.

| run | instance | what it shows |
|---|---|---|
| `photos` | `Retention`: 1 photo, 1 case, 2 requests, clock to 6; `Upload`: 2 contents, one with a thumbnail, 2 uploads, 2 faults of 5 kinds | an undisturbed redaction is final; no location goes early; deadlines never move; every closed case is redacted in the end; records have their objects; only faults leave objects behind; answers are true |
| `server` | `Embedding`: 1 photo, 2 sightings, 2 crops, 2 requests, 1 worker, 2 edits, 1 fault; `LoginLimit`: 2 machines, 2 names, 2 logins at a time, 2 failures allowed; `Engine`: 2 users | status and vector agree; the vector is that of the shown crop; `CropIndex` is implemented; every queued sighting is settled; attempts are bounded, a machine is locked only for its own failures, locks end; the engine is ready until it closes, loading and shutdown end |
| `users` | `UploadQueue`: 2 photos, 2 screens, 1 fault; `Catalog`: 2 photos, 2 sightings, 1 motif, 2 users, 1 of them an officer, 2 requests; `Accounts`: 2 users, 2 requests, 1 token, 1 change of a password each | no queued photo is lost; `Outbox` is implemented; a drain ends; sightings keep their motifs and pending requests are respected unless a check was overtaken; sessions and tokens end with the change |
| `records` | `WebUpload`: 2 files, 2 places; `Import`, `Geocode`: 2 imports of 2 archives, 3 places; `Fields`: 2 writers, 2 fields; `Search`: 3 photos, 4 sightings, 2 motifs | the page keeps what was chosen and sends each photo with its own place and address; slots a second apart, addresses of places nearby, true reports; stored values were offered, required ones filled in; readers see what stays, summaries and nearby agree with the lists |
| `retention_gps` | `Retention` as above, requests shorter than a year | **violated**: GPS can be set again by a PATCH that was checked before the redaction |
| `last_sighting` | `Embedding`, 1 crop, no fault | **violated**: two deletions leave a photo without a sighting |
| `embedding_crop` | same, 1 request | **violated**: an edit whose custom fields are refused leaves the vector of the old crop |
| `queue_network` | `UploadQueue`, 1 photo, 1 screen, 1 fault, fair | **violated**: the network is back and the queue is not drained |
| `ten_tokens` | `Accounts`, 2 roles, 2 tokens of which 1 may be active | **violated**: two creations count before either inserts |
| `last_admin` | same | **violated**: two updates leave no active administrator |
| `unlinking` | `Catalog`, 1 photo, 2 sightings | **violated**: an unlinking leaves a motif without a sighting |
| `own_request` | same | **violated**: an officer executes a request of his own |

### Bounds and why they are enough
* *Two requests* are what a race needs: every race named in section 1 is between
  one read-then-write and one write. The proofs hold for any number.
* *Catalog*: one motif with two sightings, on one photo or on two, which two
  unlinkings, two photo deletions statement by statement, or one of each share; two
  users and one officer tell author, officer and stranger apart; keys are used once,
  so that the run is finite.
* *Upload*: two calls of one content (a duplicate, the loser of the race for the
  unique index, a retry) or of two, one with a thumbnail and one without, which has
  fewer objects; two faults, so that the cleanup after one can fail as well.
* *Retention*: the clock reaches 6, one more than the longer period, so that a
  criminal case can be closed in year 1, kept to its end and redacted, and a
  civil one reopened and closed again.
* *Embedding*: two sightings of one photo; `MaxEdits` 2 for an edit that overtakes
  another while a job runs. One worker, for one server has one; a job handed out
  twice takes two servers, or one that was restarted, and the theorems are about any
  number of workers. `Age` of a running job counts as the fault.
* *UploadQueue*: two photos (one enqueued while the other is sent), two queue
  objects that may be at work at once, one fault: a kill, a network failure, a slow,
  a refusing or a rejecting answer.
* *Accounts*: both users are administrators in the run that passes (role changes
  matter to the last administrator and are in `last_admin`); one change of a
  password or disabling each, because a second looks like the first to every
  property; one session and one token at a time, enough for an old one to meet each
  drop.
* *WebUpload*: two files, one shown while the other waits or is added, with
  different places; two places make a wrong one visible; searches for one
  photo at a time (the theorems are about any number).
* *LoginLimit*: two logins at a time, one more than needed for a count that is
  old; `MaxFails` 2, maps swept at two entries and cleared where two stay, so that sweeps,
  clearing and locks meet. `MaxPause` 2 tells a first download from a later one.
* *Import, Geocode*: two importers of which one may also only ask; slots up to
  two ticks ahead; three places in a row, the outer two too far apart; an
  archive with two files of one content, an entry without file, a name twice.
* *Fields*: two definitions of one key, a required selection and one with other
  options, two writers at one sighting; what they send has a value, a blank or
  nothing for the key, and a value for a key that no field has.
* *Search*: a page of one photo and three photos, so that there are pages to turn
  and one to miss; a list may have two and a map asks for three, as 2000 is more
  than 200; cells of two units and positions in two cells; a photo with two
  sightings, one without position, one recent; two of the four sightings always show
  the motif, the others show it or none. What the run finds nearby is at most
  `NearbyMax`, so that its cut is left to the theorem.

Deadlock is checked in `retention_gps`, `last_sighting`, `embedding_crop` and
`queue_network`; in the others the bounds on calls, epochs, keys and uploads, or the
end of the process itself, let the system stop.

### Fairness and why the code justifies it
* `Retention`: weak fairness of the worker, whose `time.Ticker` fires every hour
  as long as the server runs (`retention/worker.go:12`), and of the clock.
  Requests are not fair: a client may leave.
* `Embedding`: weak fairness of each worker's loop (`worker.go:41`; the ticker
  fires even when `Notify` dropped a wake-up, and the engine comes back after a
  crash) and of the fifteen minutes that pass over a row. Crashes, database
  errors and requests are not fair.
* `UploadQueue` (`QueueFairSpec`): weak fairness of the drain's own steps, a
  `Timeout` included
  (`client.dart:263`, 90 s), and of the return of the network. The
  user is not fair; a wait ends with an answer or the timeout, and with an answer where
  the bound on faults leaves no timeout.
* `LoginLimit`: weak fairness of the clock alone, the tick of a lock.
* `Engine`: the loader and `main` are goroutines that are scheduled; a download
  that is tried again for ever succeeds some time (strong fairness of `Downloaded`,
  `engine.go` retries until the context ends); a use of the engine ends, since every
  statement has a deadline. Signals are not fair.
* `Upload`, `WebUpload`, `Accounts`, `Catalog`, `Import`, `Fields`, `Search`: safety only.

## 5. Where code and documents part

Each violated run states a sentence of the documents and is refuted by what the
code does; the quotations and the lines are in `PROJECT.json` under `findings`:

* "Nach der Standortentfernung lässt sich GPS nicht wieder setzen"
  (`doc/Anforderungen.md:158`): `UpdatePhoto` tests `location_redacted_at` on a row it
  read and writes without repeating the test (`records.go:275`, `:292`).
* "Die letzte Ganzbild-Sichtung bleibt" (`Help.tsx:420`): `DeleteSighting` counts with one
  statement and deletes with another (`records.go:372`, `:391`).
* "Rechteck ändern oder löschen löst Neu-Embedding nur dieser Sichtung aus"
  (`doc/Anforderungen.md:93`): a refused custom field returns after the rectangle is
  stored and before the sighting is queued (`sightings.go:125`).
* "… wenn das Netz wieder da ist" (`mobile/README.md:10`): a wake-up during a drain of
  the phone queue is dropped (`upload_queue.dart:94`).
* "Höchstens 10 aktive Token je Konto" (`Help.tsx:607`, `doc/Anforderungen.md:166`):
  `CreateAPIToken` counts with one statement and inserts with another
  (`apitoken.go:78`, `:95`).
* "Der letzte aktive Admin kann nicht deaktiviert oder herabgestuft werden"
  (`Help.tsx:559`): `UpdateUser` counts with one statement and writes with another
  (`auth.go:335`, `:357`).
* "Das letzte Lösen einer Sichtung löst das Motiv ebenfalls auf" (`Help.tsx:464`):
  `UnlinkSighting` counts under READ COMMITTED, with nothing locked but its own
  sighting (`motifs.go:198`). Two deletions of photos that share a motif leave it
  empty as well (`records.go:510`).
* "Eigene Anträge dürfen Sie nicht selbst ausführen, auch als Löschbeauftragter"
  (`Help.tsx:514`, `README.md:46`): the check reads the request with one statement, the
  deletion follows without another look (`deletion.go:124`, `records.go:499`).

Seen while modelling, without a run of their own:

* A map asks for 2000 points and gets the default of 40, because a limit over 200
  counts as none (`records.go:264`, `:691`; `Help.tsx:281`). It is so at every call, with
  no second actor, and needs no run; `ListMax` and `MapLimit` of `Search` have it.
* Redaction removes `extra.address`, not `extra.import.address` (`cases.go:275`;
  `doc/Anforderungen.md:151`).
* `Repo.Insert` reports an error of the deadline check after its COMMIT, and
  `savePhoto` deletes the objects of the committed record (`records.go:168`); the
  retry is told that the photo is there already. `Upload` calls this `disowned`.
* Two queue objects of the phone share one preference key and overwrite each
  other's list (`upload_queue.dart:85`, `capture_screen.dart:114`).
* An import in which nothing is imported or skipped answers 400 "Keine Bilder
  importiert" and drops the list of what was wrong (`import.go:73`).
* A password change or a disabling whose drop of tokens fails leaves them valid
  (`auth.go:357`), where `Help.tsx:561` and `doc/Anforderungen.md:166` have them end without
  a condition; `NoOldToken` excepts these users (`missed`).
* Required fields are asked for at uploads only; `addSighting` and `patchSighting`
  do not look for them (`sightings.go:58`, `:82`; `Help.tsx:531`). Number fields
  accept `NaN` and `Inf` (`fields.go:120`).
* A correction of the position keeps the address of the old one (`httpapi/records.go:205`).
* The rectangle around a search by radius is slightly smaller than the circle and
  ends at 180 degrees (`records.go:696`).
* A photo with sightings of two motifs is nearby, and in summaries, for one of
  them only (`nearby.go:90`).
* `main` does not wait for requests in progress: `ListenAndServe` returns when
  `Shutdown` begins.
* The upload page loses photos that are added while another is sent
  (`Upload.tsx:212`), puts a late EXIF position into the form of the next photo
  (`:105`), and keeps the address of the old position after a search that found
  the position shown already (`LocationPicker.tsx:110`, `:148`).

The passing runs and the theorems state what remains true in spite of these, and how
far the races above can go. `raced`, `tainted`, `overlapped`, `disowned`, `leaked`, `missed`,
`stale`, `late`, `hurried`, `meanwhile` and `hasty` name exactly the cases excepted. Each
exception is reached: without it the property is violated. For five of the sentences
above the theorem says who alone can break them: `LastSightingKept` two deletions
that count before either deletes, `TokenLimit` creations that counted together,
`AdminKept` an update overtaken by another write of `users`, `MotifsHaveMembers` an
unlinking, or the deletion of a photo, whose members were changed since they were
counted or listed, and `NoOwnExecution` a request filed between check and deletion.
These five are proved only; their runs are those that violate the plain sentence.
`MembersKept` excepts an assignment between a count and the deletion it leads to
(`motifs.go:201`, `records.go:510`), and `RequestRespected` a request filed after the check
(`records.go:401`).

## 6. Proofs

All theorems are of the form `Spec => []Inv` or `Spec => [][A]_vars` (and two
refinements), for every value of the constants. Each rests on an inductive
invariant `IInv`, with a lemma that `Init` implies it and one lemma per action
(grouped where actions touch the same variables) that the action preserves it.

**RetentionProofs** assumes `RetentionAssumption` (the null values are not values).
`IInv` is the type invariant with the foreign key `CaseExists`, and
* `PeriodInv`: for an existing case `lastOpen` is `now` while it is open and the
  closing date afterwards; this is what ties the history to the columns the
  redacting UPDATE reads, and so `NoEarlyRedaction` to its WHERE clause;
* `PendingInv`: a PATCH about to write a photo redacted without a race carries no
  position; without it `CleanRedactionFinal` is not inductive.

Theorems: `TypeCorrect`, `CleanRedaction`, `NoEarly`, `Deadline`.

**EmbeddingProofs** assumes `EmbeddingAssumption`. `IInv` adds to the types
* `IdsInv` and `OldInv`: numbers above `created` are unused, only rows in
  processing grow old;
* `HadInv`, `JobInv`: the crops a sighting has had since it was queued include
  that of the row and of its vector, and a job of the row's generation carries
  one of them. This is the refinement argument: a save that passes the test of
  the generation is an `Embed` step of `CropIndex`;
* `JobCurrent`, `VectorCurrent`: the same with "the row's own crop" while no edit
  is in motion, for `CurrentVector`;
* `DeletingPhoto`, `DeletingAlone`: two deletions past their count on one photo
  are recorded in `overlapped`; so `LastSightingKept`.

Theorems: `TypeCorrect`, `SearchAgrees`, `FoundByItsCrop`, `KeepsLast`, `Implements`.

**UploadProofs** assumes `UploadAssumption`. `IInv` says of each call which objects
are in the store at its step, that a number not started yet owns nothing
(`StartedOK`, from which freshness of keys follows), that an object about to be
deleted belongs to no row (`DeletingOK`), and that a row's objects are there or
its own call has disowned it (`RowOK`). `AnswersOK` adds what a call that is about
to answer knows. `AllKept` strengthens `NoOrphans`: a call answers for the objects it
can have put and for no others (`Held`), so that its row, its cleanup or the fault
that ends it accounts for all of them. Lemma
`CallKeepsAll` says once when a step of one call leaves every object accounted for.
Theorems: `RecordsKeepTheirObjects`, `AnswersAreTrue`, `NoObjectIsForgotten`.

The second part is about `WebUpload`, and assumes `WebAssumption`. `PageInv` says where
each photo chosen has got to, the closure of a sending included (`QueueOK`), whose
positions the readings of EXIF, a search and the form may be (`PlaceOK`), and that
the form's address is that of its position, or a lookup for the position is under
way, or a search has suppressed it (`AddressOK`). Without the last two `OwnPlace`
is not inductive, for it speaks of the moment of sending only. Theorems:
`ChosenPhotosAreKept`, `PhotosKeepTheirPlace`.

**CatalogProofs** assumes `CatalogAssumption`. `IInv` adds to the columns and foreign keys
* `LockOK`: a transaction that unlinks a sighting holds its row alone, and the row
  is as it was found; so nothing else takes the motif away from under it;
* `HoldOK`: a transaction that deletes a photo holds the rows of its sightings alone;
* `CountOK`: what an unlinking has counted is so, or the request is `stale`;
* `FoundOK`: of the motifs that a photo deletion has listed, and nobody has changed the
  members of since, it has found those empty that are;
* `CheckOK`: the author a deletion request was let through for is still the one
  in the row, or the request is `stale`.
`KnowledgeKept` says once when these survive a step, and the lemma of each
action shows that its step is of that kind. Theorems: `TypeCorrect`,
`MotifsKeepMembers`, `MembersStay`, `OwnRequestNotExecuted`,
`PendingRequestRespected`.

**AccountsProofs** assumes `AccountsAssumption`. `IInv` is the types, `NoOldSession`,
`NoOldToken` and
* `RequestOK`: a request that goes on is about a user, and an update has a whole row;
* `AloneOK`: as long as an update is `alone`, what it has read is so: whether it
  disables the user (and will drop what he has), and, once it has counted, that
  there is another administrator.
A write of `users` makes every other update not `alone` (`CallsOvertaken`), so that
`AloneOK` has to be shown of the moving request only; lemma `Moved` is about steps that
write neither users nor epochs, `Wrote` about those that do. `LimitIInv` has the
limit of tokens inductive: a request that has counted takes the place of the token
it will insert, so that tokens and requests about to insert grow together only by a
count, which has found room for one. Theorems: `TypeCorrect`, `OldSessionsEnd`,
`OldTokensEnd`, `AdministratorStays`, `TokensAreLimited`.

**UploadQueueProofs** assumes `UploadQueueAssumption`. `IInv` adds `Alone`: while one
queue object at most has been at work, its list is the saved one, entries differ and
have their files, and a file about to be deleted belongs to no entry. For the
refinement `InWork` is needed as well: the photo on its way is in the list and shown as
"uploading", and what the server may still be given late was sent while it was queued,
though the user may have removed it since.
Theorems: `TypeCorrect`, `QueuedIsKept`, `EntriesCanBeSent`, `ImplementsOutbox`.

**ServerProofs** assumes `LoginAssumption`. `BucketOK` says that a bucket is locked
exactly from the limit on; with it `AttemptsBounded` is inductive, because `allow`
lets nobody pass a locked bucket and each failure counts one that was under
comparison. `OwnOK` ties the failures of a machine to its bucket; it needs that the
proxy is trusted, which `OwnFailuresLock` assumes. Theorems: `TypeCorrect`,
`AttemptsAreBounded`, `LocksAreKept` (an action property that no run states, TLC
having agreed to it at the same instance), `OwnFailuresLock`.

For `Engine` it assumes `EngineAssumption`. Until `Close` takes the embedder away
(`Open`), a loader past its first step, and a published embedder, have the runtime;
whoever was told that the engine is ready can count on the embedder; and nobody has
been refused (`EngineIInv`). Theorems: `EngineTypeCorrect`, `ReadinessIsKept`.

**RecordsProofs** is about what `MCRecords` puts beside each other, and assumes
`FieldsAssumption`, `GeocodeAssumption`, `ImportAssumption` and `SearchAssumption`.

*Fields*. For what is stored, `FieldsOffered` and `ReadOffered` say that the options
of a definition, and of a definition that a request holds in memory, are among those
once offered. For what is required, `KeysOK` (keys of fields are unique, in memory
too), `UsedOK` (the sighting of a request has been there), `MustOK` (what an upload has
to fill in, and nobody has redefined since, it is still to write or has been stored)
and `ReadMust` (whoever writes to the same sighting has read these definitions).
Theorems: `TypeCorrect`, `StoredWasOffered`, `UploadFillsIn`.

*Geocode under Import*. Of the slots, `WaitsOK` says that who waits waits for a time:
then a tick brings all slots nearer together. Of addresses, `CacheOK`: what is
remembered was found for the place it is remembered for; it breaks as soon as a
reused address is remembered again. Theorems: `SlotsStayApart`, `AddressesAreNear`.

*Import*. `ImportIInv` divides what an archive has to save into what is still to do
and what is recorded, each once (`Divided`), and says that what is reported, what is
in the table and what is about to be read back has been stored by whom the report
says (`ReportsTrue`, `PhotosStored`, `ReadIsStored`), and that nothing a request has stored
is missing from its outcomes (`StoredReported`). That the division adds up to the
entries of the index is lemma `EntriesCounted`; that two items never share a name,
`NamesDiffer`. Theorem: `ImportsAreAnswered`.

*Search*. The order of a list has no number in the model, so the argument goes by
rank: `Before` is the set of photos in front of one, a page holds exactly the photos
whose rank lies in it (`PageRead`, from `RankOfPhoto`, `BeforeFound` and, because one
sighting stands for its photo, `OneHit`). `SearchIInv` says that a photo that stayed and
has fewer in front of it than are read has been read (`KeptRead`). A photo that comes
only moves others back; one that goes or moves ends `kept`. `CountCurrent` says
that the count is not too small unless something came after it (`late`), and with
it the last page is the last. Theorem: `PagesAreComplete`.
`SummariesAgree` and `NearbyIsDue` are facts of every stock with the right types, no
matter how it came about, and so of every state: a hit of the narrowed filter is a hit
of the filter that meets the condition (`Narrowed`, `TotalOfHits`), a photo of a cell
lies in the circle around the cell's point, `topHotspots`
leaves nothing more frequent out (`TopIsMostFrequent`), the sighting seen last decides
what is due (`FollowUpIsDue`), and what is shown is first in the order of the groups
(`ShownFirst`). Where these proofs count or look for a first element they take the least
one of a set of naturals (`LeastExists`, from the library's well-foundedness of `<`),
which replaces induction.

## 7. Model-checked only

Liveness under fairness (`ClosedCaseRedacts`, `Settled`, `DrainEnds`, `LockEnds`,
`LoadingEnds`, `ShutdownEnds`) is beyond the prover, and so are `ENABLED` and that
deadlocks do not occur. Of what the modules compute over data, everything the proofs
need is written without recursion. The sentences of the violated runs are false of
the code; of five of them section 5 names the theorem that says how far they hold.

## 8. Not modelled

* Decoding, EXIF, thumbnails, the spelling of numbers and dates, distances on the
  globe and the arithmetic of rectangles are pure functions; their results and
  failures are inputs. The model of CLIP, the geocoding service, the directory and
  the object store are external; what the server does with their answers is
  modelled.
* The audit log appends a row that nothing reads back into a decision, and ignores
  errors. Migrations run once at the start, in order. Configuration, headers and
  the cache of thumbnails (immutable objects under keys that are never used twice)
  keep nothing a property could be about.
* The record view and list of the web page, apart from turning pages: forms filled
  by answers that arrive out of order are shown wrongly, but nothing is stored by
  it. The tags and fields of a summary are counted like its motifs and left out,
  and so is the layout of CSV and JSON. Leaving the upload page while a photo is
  sent is left out.
* Texts, names, notes, tags and formats: no property tells them apart.
* Replication, several tenants (every statement carries the tenant), and the
  isolation level beyond single statements: a transaction of several statements is one
  step where it decides nothing by what it has read before; where it does
  (unlinking and the deletion of a photo), `Catalog` has its statements as steps.
* The paths an API token may call (`apitoken.go:119`) and the right to execute
  deletions, which is written in the same statement as the role.
