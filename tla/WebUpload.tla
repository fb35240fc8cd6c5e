------------------------------- MODULE WebUpload -------------------------------
(***************************************************************************)
(* The page that uploads photos: web/src/pages/Upload.tsx with the picker   *)
(* of positions, LocationPicker.tsx.  Photos wait in the page while one is  *)
(* shown in a form, filled in and sent.                                     *)
(*                                                                          *)
(* A step reaches from one event or await to the next.  What a function     *)
(* has taken from the state before it awaits may be old afterwards: the     *)
(* photos that wait, and which photo is shown.  The effect of the picker    *)
(* on a new position follows in the same step.                              *)
(***************************************************************************)
EXTENDS Naturals, Sequences, Functions, FiniteSets

CONSTANTS
  Files,          \* photos, each chosen once
  Batches,        \* sequences of them that may be chosen or dropped at one time, by
                  \* those that have been before
  Positions,      \* positions; an address is named by the position it belongs to
  Exif,           \* where the file says that it was taken
  MaxSearching,   \* bound: photos with searches under way at a time
  NoFile, NoPosition

Spot == Positions \cup {NoPosition}

ASSUME WebAssumption ==
  /\ NoFile \notin Files /\ NoPosition \notin Positions
  /\ Batches \in [SUBSET Files -> SUBSET (Seq(Files) \ {<<>>})]
  /\ Exif \in [Files -> Spot]

VARIABLES
  queue, current,  \* the photos that wait, and the one that is shown
  form,            \* lat and lon, gpsCleared and address
  readingExif,     \* photos whose EXIF is being read: loadItem
  looking,         \* the position whose address is asked for, if any
  skipReverse,     \* skipReverseRef
  searching,       \* the photos searches for an address are under way for
  sending,         \* onSubmit, and what it has taken from the state
  uploaded,        \* history: what the server has stored
  chosen, removed, \* history: photos chosen, and those skipped or cleared
  meanwhile,       \* history: photos chosen while another was sent
  hurried,         \* history: photos that were shown, or cleared of coordinates,
                   \* no longer than their EXIF was read or a search went on
  unasked          \* history: the position was moved and its address not asked for

webVars == <<queue, current, form, readingExif, looking, skipReverse, searching, sending, uploaded,
             chosen, removed, meanwhile, hurried, unasked>>

\* "of": history, the photo the position was set for.
Form == [at: Spot, of: Files \cup {NoFile}, gpsCleared: BOOLEAN, address: Spot]
BlankForm == [at |-> NoPosition, of |-> NoFile, gpsCleared |-> FALSE, address |-> NoPosition]

\* "hasty": history, the address was still asked for, or had not been asked for.
Sending == [photo: Files, form: Form, rest: Seq(Files), hasty: BOOLEAN]
NotSending == <<>>
busy == sending # NotSending

WebInit ==
  /\ queue = <<>> /\ current = NoFile /\ form = BlankForm
  /\ readingExif = {} /\ looking = NoPosition /\ skipReverse = FALSE /\ searching = {}
  /\ sending = NotSending /\ uploaded = {}
  /\ chosen = {} /\ removed = {} /\ meanwhile = {} /\ hurried = {} /\ unasked = FALSE

UNCHANGED_History == UNCHANGED <<uploaded, chosen, removed, meanwhile, hurried>>

-----------------------------------------------------------------------------
\* The picker: what follows when the form shows the position of f

\* An address found by a search is not asked for again: the flag is for the
\* next change, whenever that comes.  Without a position it stays.
Moved(f, skip) ==
  IF f.at = form.at THEN
    /\ form' = f /\ skipReverse' = skip
    /\ UNCHANGED <<looking, unasked>>
  ELSE IF f.at = NoPosition THEN
    /\ form' = [f EXCEPT !.address = NoPosition] /\ skipReverse' = skip
    /\ looking' = NoPosition /\ unasked' = FALSE
  ELSE
    /\ form' = f /\ skipReverse' = FALSE
    /\ looking' = IF skip THEN NoPosition ELSE f.at
    /\ unasked' = (skip /\ f.address # f.at)

\* The user clicks on the map, drags the marker or types.
SetPosition(x) ==
  /\ Moved([form EXCEPT !.at = x, !.of = current, !.gpsCleared = FALSE], skipReverse)
  /\ UNCHANGED <<queue, current, readingExif, searching, sending>> /\ UNCHANGED_History

\* The answer of reverseGeocode; an older one is not taken.
AddressComes(a) ==
  /\ looking # NoPosition /\ a \in {looking, NoPosition}
  /\ form' = [form EXCEPT !.address = a]
  /\ looking' = NoPosition
  /\ UNCHANGED <<queue, current, readingExif, skipReverse, searching, sending, unasked>>
  /\ UNCHANGED_History

\* The button rests while a search goes on; the Enter key starts another.
searchAddress ==
  /\ searching' = searching \cup {current} /\ Cardinality(searching') <= MaxSearching
  /\ UNCHANGED <<queue, current, form, readingExif, looking, skipReverse, sending, unasked>>
  /\ UNCHANGED_History

\* A search for o ends; others for it may go on.
SearchEnds(o) == o \in searching /\ searching' \in {searching, searching \ {o}}

SearchFinds(o, x) ==
  /\ SearchEnds(o)
  /\ IF x = form.at
     THEN /\ form' = [form EXCEPT !.address = x, !.of = o, !.gpsCleared = FALSE]
          /\ skipReverse' = TRUE /\ looking' = NoPosition /\ unasked' = FALSE
     ELSE Moved([at |-> x, of |-> o, gpsCleared |-> FALSE, address |-> x], TRUE)
  /\ UNCHANGED <<queue, current, readingExif, sending>> /\ UNCHANGED_History

SearchFails(o) ==
  /\ SearchEnds(o)
  /\ UNCHANGED <<queue, current, form, readingExif, looking, skipReverse, sending, unasked>>
  /\ UNCHANGED_History

-----------------------------------------------------------------------------
\* The photos

Unanswered == (readingExif \cap {current}) \cup searching

\* Mutant: the form is not emptied for the next photo
loadItemForm(p) ==
  /\ current' = p
  /\ Moved([form EXCEPT !.gpsCleared = FALSE], skipReverse)
  /\ readingExif' = readingExif \cup ({p} \ {NoFile})
  /\ hurried' = hurried \cup Unanswered

\* loadItem, up to the await
loadItem(p) ==
  /\ current' = p
  /\ Moved(BlankForm, skipReverse)
  /\ readingExif' = readingExif \cup ({p} \ {NoFile})
  /\ hurried' = hurried \cup Unanswered

\* ... and from there on, for whichever photo is shown by now.
ExifRead(p) ==
  /\ p \in readingExif /\ readingExif' = readingExif \ {p}
  /\ IF Exif[p] # NoPosition THEN Moved([form EXCEPT !.at = Exif[p], !.of = p], skipReverse)
     ELSE UNCHANGED <<form, looking, skipReverse, unasked>>
  /\ UNCHANGED <<queue, current, searching, sending>> /\ UNCHANGED_History

enqueueImages(b) ==
  /\ \A i \in DOMAIN b : b[i] \notin chosen
  /\ chosen' = chosen \cup Range(b)
  /\ IF current = NoFile
     THEN queue' = Tail(b) /\ loadItem(b[1]) /\ UNCHANGED meanwhile
     ELSE /\ queue' = queue \o b
          /\ meanwhile' = IF busy THEN meanwhile \cup Range(b) ELSE meanwhile
          /\ UNCHANGED <<current, form, readingExif, looking, skipReverse, hurried, unasked>>
  /\ UNCHANGED <<searching, sending, uploaded, removed>>

\* Coordinates are removed on purpose.
clearGps ==
  /\ form.at # NoPosition \/ form.gpsCleared
  /\ Moved([BlankForm EXCEPT !.gpsCleared = TRUE], skipReverse)
  /\ hurried' = hurried \cup (readingExif \cap {current})
  /\ UNCHANGED <<queue, current, readingExif, searching, sending, uploaded, chosen, removed, meanwhile>>

\* After a duplicate, too; a submission that goes on hides the button.
skipCurrent ==
  /\ ~busy /\ queue # <<>>
  /\ removed' = removed \cup {current}
  /\ queue' = Tail(queue) /\ loadItem(Head(queue))
  /\ UNCHANGED <<searching, sending, uploaded, chosen, meanwhile>>

clearQueue ==
  /\ ~busy /\ current # NoFile
  /\ removed' = removed \cup {current} \cup Range(queue)
  /\ queue' = <<>> /\ loadItem(NoFile)
  /\ UNCHANGED <<searching, sending, uploaded, chosen, meanwhile>>

\* onSubmit, up to the await
Submit ==
  /\ ~busy /\ current # NoFile
  /\ sending' = [photo |-> current, form |-> form, rest |-> queue,
                 hasty |-> looking # NoPosition \/ unasked]
  /\ UNCHANGED <<queue, current, form, readingExif, looking, skipReverse, searching, unasked>>
  /\ UNCHANGED_History

\* What the server makes of it (savePhoto): coordinates that were removed win over
\* those of the form, and these over what the file says; an address that comes
\* with them is taken for theirs.
savePhoto(p, f) ==
  LET at == IF f.gpsCleared THEN NoPosition ELSE IF f.at # NoPosition THEN f.at ELSE Exif[p]
  IN  [at |-> at, address |-> IF at = NoPosition \/ f.address = NoPosition THEN at ELSE f.address]

Stores == sending.photo \notin uploaded /\ uploaded' = uploaded \cup {sending.photo}

\* The page makes room for the map: whatever it holds is gone.
Navigate ==
  /\ queue' = <<>> /\ current' = NoFile /\ form' = BlankForm
  /\ readingExif' = {} /\ looking' = NoPosition /\ skipReverse' = FALSE /\ searching' = {}
  /\ unasked' = FALSE
  /\ UNCHANGED hurried

\* Mutant: the last photo that waits is taken for none
GoOnEarly ==
  IF Len(sending.rest) <= 1 THEN Navigate
  ELSE queue' = Tail(sending.rest) /\ loadItem(Head(sending.rest)) /\ UNCHANGED searching

\* The queue is what it was when the photo was submitted.
GoOn ==
  IF sending.rest = <<>> THEN Navigate
  ELSE queue' = Tail(sending.rest) /\ loadItem(Head(sending.rest)) /\ UNCHANGED searching

Saved ==
  /\ busy
  /\ Stores /\ GoOn /\ sending' = NotSending
  /\ UNCHANGED <<chosen, removed, meanwhile>>

\* An error: refused, a duplicate, or stored and the answer lost.
NotSaved ==
  /\ busy /\ sending' = NotSending
  /\ UNCHANGED uploaded \/ Stores
  /\ UNCHANGED <<queue, current, form, readingExif, looking, skipReverse, searching, chosen, removed,
                 meanwhile, hurried, unasked>>

WebNext ==
  \/ \E x \in Positions : SetPosition(x)
  \/ \E o \in Files \cup {NoFile} : SearchFails(o) \/ \E x \in Positions : SearchFinds(o, x)
  \/ \E a \in Spot : AddressComes(a)
  \/ searchAddress
  \/ \E p \in Files : ExifRead(p)
  \/ \E b \in Batches[chosen] : enqueueImages(b)
  \/ clearGps \/ skipCurrent \/ clearQueue \/ Submit \/ Saved \/ NotSaved

WebSpec == WebInit /\ [][WebNext]_webVars

-----------------------------------------------------------------------------
\* Properties

\* A photo that was chosen is stored, shown, waits, or was removed by the user:
\* but one that is added while another is sent may be lost, for the queue goes on
\* from what it was before.
ChosenKept ==
  chosen \subseteq {current} \cup Range(queue) \cup removed \cup meanwhile \cup uploaded

\* Each photo is sent with the position its own file or the user gave for it,
\* stored where the form showed it, and with the address of that position;
\* excepted are those the user was too fast for: whose page was turned or whose
\* coordinates were removed before the EXIF was read or a search was over, that were
\* sent before an address had come, and a move right after a search that found
\* the position shown.
OwnPlace ==
  busy =>
    LET f   == sending.form
        row == savePhoto(sending.photo, f)
    IN  /\ f.at # NoPosition => f.of \in {sending.photo} \cup hurried
        /\ f.at \notin {NoPosition, row.at} => f.of \in hurried
        /\ row.address = row.at \/ sending.hasty
================================================================================
