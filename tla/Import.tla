-------------------------------- MODULE Import --------------------------------
(***************************************************************************)
(* The import of a ZIP archive: importArchive in internal/httpapi/import.go *)
(* and ParseImportZip in internal/ingest/archive.go.  The photos of an      *)
(* archive are saved one after another; each waits for its address (module  *)
(* Geocode) before anything looks whether it is there already.  savePhoto   *)
(* itself is taken in the steps that matter between imports: the address,   *)
(* the look at the hash, the insertion and the answer; module Upload has    *)
(* the rest of it.  A request can be cut at any time, by its client or      *)
(* after two minutes, and then goes on with statements that fail.           *)
(***************************************************************************)
EXTENDS Geocode, Sequences

CONSTANTS
  Importers,     \* requests that import; they are Callers
  Archives,      \* the archives they send
  Names,         \* lower-case base names of files
  Contents,      \* photos, by the hash of what is stored
  MaxZipFiles,
  NoName

\* Members: a photo (or another file), an index.json, what is passed over
\* (directories, names with a dot, thumbs.db, __MACOSX), what is too large.
Entry   == [name: Names \cup {NoName}, place: Address]
Member  == [kind: {"photo"}, name: Names, content: Contents]
             \cup [kind: {"index"}, entries: Seq(Entry)] \cup [kind: {"junk", "large"}]

ASSUME ImportAssumption ==
  /\ Importers \subseteq Callers
  /\ MaxZipFiles \in Nat
  /\ Archives \subseteq Seq(Member)

VARIABLES
  photos,        \* table photos: the contents stored
  import,        \* requests that import
  storedBy       \* history: who has ever stored what

importVars == <<photos, import>>

-----------------------------------------------------------------------------
\* ParseImportZip

Members(z, kind) == {i \in DOMAIN z : z[i].kind = kind}
\* The last index.json counts, wherever it lies.
IndexOf(z)  == z[CHOOSE i \in Members(z, "index") : \A j \in Members(z, "index") : j <= i].entries
SameName(z) == \E i, j \in Members(z, "photo") : i # j /\ z[i].name = z[j].name

RefusedZip(z) ==
  \/ Len(z) > MaxZipFiles
  \/ Members(z, "large") # {}
  \/ SameName(z)
  \/ Members(z, "index") = {}
  \/ IndexOf(z) = <<>>

\* An entry is saved where it is the first with its name and the file is there.
Saves(z, i) ==
  LET e == IndexOf(z)[i]
  IN  /\ e.name # NoName
      /\ \A j \in 1..(i - 1) : IndexOf(z)[j].name # e.name
      /\ \E k \in Members(z, "photo") : z[k].name = e.name

catalogItem(z, i) ==
  LET e == IndexOf(z)[i]
  IN  [name |-> e.name, place |-> e.place,
       content |-> z[CHOOSE k \in Members(z, "photo") : z[k].name = e.name].content]

\* The entries that are saved, by their places in the index and in that order.
Wanted(z) == {i \in DOMAIN IndexOf(z) : Saves(z, i)}

\* A report for every entry that is not saved and every file without an entry.
Unlisted(z) == {k \in Members(z, "photo") :
                  \A i \in DOMAIN IndexOf(z) : IndexOf(z)[i].name # z[k].name}
Issues(z)   == Cardinality({i \in DOMAIN IndexOf(z) : ~Saves(z, i)}) + Cardinality(Unlisted(z))

-----------------------------------------------------------------------------
\* importArchive

\* "unread": stored, but reported as an error all the same.
Outcome == {"imported", "skipped", "error", "unread"}
Steps   == {"idle", "address", "check", "insert", "read"}

NoImport == [step |-> "idle", archive |-> <<>>, todo |-> {}, out |-> <<>>, cut |-> FALSE]

ImportInit ==
  /\ photos = {}
  /\ import = [q \in Importers |-> NoImport]
  /\ storedBy = {}

Begin(q) ==
  /\ import[q] = NoImport /\ lookup[q].step = "idle"
  /\ \E z \in Archives :
       /\ ~RefusedZip(z)
       /\ import' = [import EXCEPT ![q] = [NoImport EXCEPT !.step = "address",
                       !.archive = z, !.todo = Wanted(z)]]
  /\ UNCHANGED <<photos, storedBy, geoVars>>

First(q)       == CHOOSE i \in import[q].todo : \A j \in import[q].todo : i <= j
Current(q)     == catalogItem(import[q].archive, First(q))
Busy(q, step)  == import[q].step = step /\ import[q].todo # {}
Goto(q, step)  == import' = [import EXCEPT ![q].step = step]

\* One item is done with: the next one follows.
Count(q, outcome) ==
  import' = [import EXCEPT ![q].step = "address", ![q].todo = @ \ {First(q)},
               ![q].out = Append(@, [entry |-> First(q), outcome |-> outcome])]

\* The catalogue's own address is kept elsewhere and is not used for this.
AskAddress(q) ==
  /\ Busy(q, "address")
  /\ IF Current(q).place \notin Places
     THEN Goto(q, "check") /\ UNCHANGED geoVars
     ELSE lookupAddress(q, Current(q).place) /\ UNCHANGED import
  /\ UNCHANGED <<photos, storedBy>>

GotAddress(q) ==
  /\ Busy(q, "address")
  /\ LookupEnds(q)
  /\ Goto(q, "check")
  /\ UNCHANGED <<photos, storedBy>>

Check(q) ==
  /\ Busy(q, "check")
  /\ IF import[q].cut THEN Count(q, "error")
     ELSE IF Current(q).content \in photos THEN Count(q, "skipped")
     ELSE Goto(q, "insert")
  /\ UNCHANGED <<photos, storedBy, geoVars>>

\* Mutant: the conflict of the unique index is overlooked
ConflictMissed(q) == Count(q, "imported") /\ UNCHANGED <<photos, storedBy>>

\* Another request has stored the same photo since: the unique index says so.
Conflict(q) == Count(q, "skipped") /\ UNCHANGED <<photos, storedBy>>

Insert(q) ==
  /\ Busy(q, "insert")
  /\ IF import[q].cut THEN Count(q, "error") /\ UNCHANGED <<photos, storedBy>>
     ELSE IF Current(q).content \in photos THEN Conflict(q)
     ELSE /\ photos' = photos \cup {Current(q).content}
          /\ storedBy' = storedBy \cup {<<Current(q).content, q>>}
          /\ Goto(q, "read")
  /\ UNCHANGED geoVars

\* The photo is committed; a request cut since reports an error nevertheless.
ReadStored(q) ==
  /\ Busy(q, "read")
  /\ Count(q, IF import[q].cut THEN "unread" ELSE "imported")
  /\ UNCHANGED <<photos, storedBy, geoVars>>

\* The file is no photo, or a statement or the object store fails, perhaps when the
\* photo has just been stored: the item is reported and the next follows.
ItemFails(q) ==
  /\ \E step \in Steps : Busy(q, step)
  /\ lookup[q].step = "idle"
  /\ Count(q, IF import[q].step = "read" THEN "unread" ELSE "error")
  /\ UNCHANGED <<photos, storedBy, geoVars>>

Cut(q) ==
  /\ import[q].step # "idle" /\ ~import[q].cut
  /\ import' = [import EXCEPT ![q].cut = TRUE]
  /\ UNCHANGED <<photos, storedBy, geoVars>>

Answered(q) == import[q].archive # <<>> /\ import[q].todo = {}

OutcomesOf(q, outcome) == {n \in DOMAIN import[q].out : import[q].out[n].outcome = outcome}

\* Where nothing was imported or skipped the answer says just this, and the
\* errors that were listed until then are left out of it.
ImportAnswer(q) ==
  LET imported == Cardinality(OutcomesOf(q, "imported"))
      skipped  == Cardinality(OutcomesOf(q, "skipped"))
      failed   == Cardinality(OutcomesOf(q, "error")) + Cardinality(OutcomesOf(q, "unread"))
  IN  IF imported = 0 /\ skipped = 0
      THEN [status |-> 400, imported |-> 0, skipped |-> 0, errors |-> 0]
      ELSE [status |-> 200, imported |-> imported, skipped |-> skipped,
            errors |-> failed + Issues(import[q].archive)]

\* Another user deletes a photo.
DeletePhoto(c) ==
  /\ photos' = photos \ {c}
  /\ UNCHANGED <<import, storedBy, geoVars>>

\* An import gives up its slot, and gets no answer of the service, when it is cut;
\* a caller who does not import may leave at any time.
Imports(q) == q \in Importers /\ import[q].todo # {}
OtherCall(q) ==
  /\ q \in Importers => import[q] = NoImport
  /\ ShowAddress(q) \/ LookupEnds(q)
  /\ UNCHANGED <<importVars, storedBy>>

Served(q) ==
  /\ \/ (Imports(q) => import[q].cut) /\ SlotCancelled(q)
     \/ \E found \in Address :
          /\ Imports(q) /\ import[q].cut => found = NoPlace
          /\ fetchNominatimHit(q, found)
  /\ UNCHANGED <<importVars, storedBy>>

ImportNext ==
  \/ \E q \in Importers : \/ Begin(q) \/ AskAddress(q) \/ GotAddress(q) \/ Check(q)
                          \/ Insert(q) \/ ReadStored(q) \/ ItemFails(q) \/ Cut(q)
  \/ \E q \in Callers : OtherCall(q)
  \/ \E q \in Callers : Served(q)
  \/ \E p \in Places : Supplied(p) /\ UNCHANGED <<importVars, storedBy>>
  \/ GeoTick /\ UNCHANGED <<importVars, storedBy>>
  \/ \E c \in Contents : DeletePhoto(c)

ImportSpec == GeoInit /\ ImportInit /\ [][ImportNext]_<<geoVars, importVars, storedBy>>

-----------------------------------------------------------------------------
\* Properties

ItemOf(q, n) == catalogItem(import[q].archive, import[q].out[n].entry)

\* The answer to an import tells the truth.  Where it counts, it counts every entry
\* of the index and every file the index does not name once; what is called
\* imported was stored by this request, and what is called skipped by somebody.
\* Whatever it answers, "no pictures imported" included, a photo this request has
\* stored was imported by what it says, except where reading it back failed after
\* the commit.  All this whatever else is imported or deleted meanwhile and
\* whenever the request is cut.
ImportAnswered ==
  \A q \in Importers : Answered(q) =>
    LET z == import[q].archive
        answer == ImportAnswer(q)
    IN  /\ answer.status = 200 =>
             answer.imported + answer.skipped + answer.errors
               = Len(IndexOf(z)) + Cardinality(Unlisted(z))
        /\ \A m, n \in DOMAIN import[q].out : m # n => ItemOf(q, m).name # ItemOf(q, n).name
        /\ \A n \in OutcomesOf(q, "imported") : <<ItemOf(q, n).content, q>> \in storedBy
        /\ \A n \in OutcomesOf(q, "skipped") :
             \E by \in Importers : <<ItemOf(q, n).content, by>> \in storedBy
        /\ \A c \in Contents : <<c, q>> \in storedBy =>
             \/ answer.status = 200 /\ \E n \in OutcomesOf(q, "imported") : ItemOf(q, n).content = c
             \/ \E n \in OutcomesOf(q, "unread") : ItemOf(q, n).content = c
================================================================================
