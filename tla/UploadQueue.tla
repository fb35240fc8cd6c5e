----------------------------- MODULE UploadQueue -----------------------------
(***************************************************************************)
(* The phone's upload queue: mobile/lib/upload_queue.dart, the way          *)
(* screens/capture_screen.dart and app.dart create and wake it, and         *)
(* uploadPhoto of api/client.dart.                                          *)
(*                                                                          *)
(* Dart code runs undisturbed between two awaits, so a step reaches from    *)
(* one await to the next; a list and its copy in SharedPreferences change   *)
(* together.  Every CaptureScreen owns a queue object of its own, and the   *)
(* drain of a screen that is gone runs on beside that of the next one.      *)
(* The server is whatever answers: Upload models it.                        *)
(***************************************************************************)
EXTENDS Naturals, SequencesExt

CONSTANTS
  Items,         \* photos that may be captured, one queue entry each
  Screens,       \* bound: CaptureScreens whose queue object is alive at once
  MaxFaults,     \* bound: kills, network failures, slow, refusing or rejecting answers
  NoScreen, NoItem

QueueEntry == [id: Items, busy: BOOLEAN]      \* busy: shown as "uploading"
DrainSteps == {"gone", "rest", "send", "sent", "lost", "answered", "unlink"}

ASSUME UploadQueueAssumption ==
  /\ MaxFaults \in Nat
  /\ NoScreen \notin Screens
  /\ NoItem \notin Items

VARIABLES
  queue,       \* _items of each queue object
  step,        \* where its drain is
  work,        \* the entry its drain works on
  adding,      \* the photo its enqueue copies into the queue directory
  shown,       \* the screen in front
  saved,       \* upload_queue_v1 in SharedPreferences
  files,       \* files in the queue directory
  unlinking,   \* files the user's removals are about to delete
  online,
  delivered,   \* photos the server has accepted
  late,        \* photos on the way to it whose answer nobody waits for any more
  faults,
  captured,    \* history: photos the user was told are in the queue
  discarded,   \* history: entries the user removed
  overlapped   \* history: a queue object was created while another one lived

phone   == <<queue, step, work, adding, saved, files, unlinking>>
server  == <<delivered, late>>
history == <<captured, discarded, overlapped>>
queueVars    == <<phone, shown, online, server, faults, history>>

Ids(q)   == {q[n].id : n \in DOMAIN q}
Alive(s) == step[s] # "gone" \/ adding[s] # NoItem

QueueRowsOK ==
  /\ queue \in [Screens -> Seq(QueueEntry)]
  /\ step \in [Screens -> DrainSteps]
  /\ work \in [Screens -> Items \cup {NoItem}]
  /\ adding \in [Screens -> Items \cup {NoItem}]
  /\ shown \in Screens \cup {NoScreen}
  /\ saved \in Seq(QueueEntry)
  /\ files \in SUBSET Items
  /\ unlinking \in SUBSET Items
  /\ online \in BOOLEAN
  /\ delivered \in SUBSET Items
  /\ late \in SUBSET Items
  /\ faults \in 0..MaxFaults
  /\ captured \in SUBSET Items
  /\ discarded \in SUBSET Items
  /\ overlapped \in BOOLEAN

\* The type invariant: values of their types, and a drain that runs (_draining)
\* is one that has an entry in work.
QueueTypeOK ==
  /\ QueueRowsOK
  /\ \A s \in Screens : work[s] = NoItem <=> step[s] \in {"gone", "rest"}

QueueInit ==
  /\ queue = [s \in Screens |-> <<>>]
  /\ step = [s \in Screens |-> "gone"]
  /\ work = [s \in Screens |-> NoItem]
  /\ adding = [s \in Screens |-> NoItem]
  /\ shown = NoScreen
  /\ saved = <<>>
  /\ files = {}
  /\ unlinking = {}
  /\ online = TRUE
  /\ delivered = {}
  /\ late = {}
  /\ faults = 0
  /\ captured = {}
  /\ discarded = {}
  /\ overlapped = FALSE

Fault == faults < MaxFaults /\ faults' = faults + 1

\* The photos whose requests the server may have in hand.
OnTheWay == {work[s] : s \in {t \in Screens : step[t] = "sent"}}

-----------------------------------------------------------------------------
\* Lists

Mark(q, i, busy) == [n \in DOMAIN q |-> IF q[n].id = i THEN [q[n] EXCEPT !.busy = busy] ELSE q[n]]

\* Ids are unique, so filtering an id out drops one entry.
Without(q, i) ==
  IF i \in Ids(q) THEN RemoveAt(q, CHOOSE n \in DOMAIN q : q[n].id = i) ELSE q

\* _items = q; await _persist().
Store(s, q) ==
  /\ queue' = [queue EXCEPT ![s] = q]
  /\ saved' = q

\* drain() on the list q: nothing to do when it is empty, else the head becomes
\* "uploading" and is sent.
BeginDrain(s, q) ==
  IF q = <<>>
    THEN /\ Store(s, q)
         /\ step' = [step EXCEPT ![s] = "rest"]
         /\ work' = [work EXCEPT ![s] = NoItem]
    ELSE /\ Store(s, Mark(q, Head(q).id, TRUE))
         /\ step' = [step EXCEPT ![s] = "send"]
         /\ work' = [work EXCEPT ![s] = Head(q).id]

\* A drain ends.  The queue object of a screen that is gone is not woken again.
Rest(s) ==
  /\ step' = [step EXCEPT ![s] = IF s = shown THEN "rest" ELSE "gone"]
  /\ work' = [work EXCEPT ![s] = NoItem]

-----------------------------------------------------------------------------
\* The screens

\* Login or app start: a new CaptureScreen loads what is saved and drains it.
OpenScreen(s) ==
  /\ shown = NoScreen
  /\ ~Alive(s)
  /\ shown' = s
  /\ BeginDrain(s, saved)
  /\ overlapped' = (overlapped \/ \E t \in Screens : Alive(t))
  /\ UNCHANGED <<adding, files, unlinking, online, server, faults, captured, discarded>>

\* The screen goes; a drain of its queue object does not.
Leave == IF step[shown] = "rest" THEN step' = [step EXCEPT ![shown] = "gone"] ELSE UNCHANGED step

\* Logout, not while a photo is being put into the queue.
Logout ==
  /\ shown # NoScreen
  /\ adding[shown] = NoItem
  /\ shown' = NoScreen
  /\ Leave
  /\ UNCHANGED <<queue, work, adding, saved, files, unlinking, online, server, faults, history>>

\* The system ends the app: what is in memory is lost; what has been sent is not.
Kill ==
  /\ \E s \in Screens : Alive(s)
  /\ Fault
  /\ queue' = [s \in Screens |-> <<>>]
  /\ step' = [s \in Screens |-> "gone"]
  /\ work' = [s \in Screens |-> NoItem]
  /\ adding' = [s \in Screens |-> NoItem]
  /\ unlinking' = {}
  /\ shown' = NoScreen
  /\ late' = late \cup OnTheWay
  /\ UNCHANGED <<saved, files, online, delivered, history>>

-----------------------------------------------------------------------------
\* What the user does on the screen in front

\* enqueue(): the photo is copied ...
EnqueueCopy(s, i) ==
  /\ s = shown
  /\ adding[s] = NoItem
  /\ i \notin files \cup captured
  /\ adding' = [adding EXCEPT ![s] = i]
  /\ files' = files \cup {i}
  /\ UNCHANGED <<queue, step, work, saved, unlinking, shown, online, server, faults, history>>

\* ... and appended to the list as it is by now; then the screen, if it is still
\* there, calls drain(), which does nothing while one is running.  A series is one
\* capture after the other.
EnqueueAdd(s) ==
  LET q == Append(queue[s], [id |-> adding[s], busy |-> FALSE]) IN
  /\ adding[s] # NoItem
  /\ adding' = [adding EXCEPT ![s] = NoItem]
  /\ captured' = captured \cup {adding[s]}
  /\ IF s = shown /\ step[s] = "rest" THEN BeginDrain(s, q) ELSE Store(s, q) /\ UNCHANGED <<step, work>>
  /\ UNCHANGED <<files, unlinking, shown, online, server, faults, discarded, overlapped>>

\* Mutant of RemoveEntry: an entry that is being sent has the button, too.
RemoveEntrySent(s, i) ==
  /\ s = shown
  /\ i \in Ids(queue[s])
  /\ Store(s, Without(queue[s], i))
  /\ unlinking' = unlinking \cup {i}
  /\ discarded' = discarded \cup {i}
  /\ UNCHANGED <<step, work, adding, files, shown, online, server, faults, captured, overlapped>>

\* remove(): the button of an entry that is not shown as "uploading".
RemoveEntry(s, i) ==
  /\ s = shown
  /\ \E n \in DOMAIN queue[s] : queue[s][n] = [id |-> i, busy |-> FALSE]
  /\ Store(s, Without(queue[s], i))
  /\ unlinking' = unlinking \cup {i}
  /\ discarded' = discarded \cup {i}
  /\ UNCHANGED <<step, work, adding, files, shown, online, server, faults, captured, overlapped>>

RemoveFile(i) ==
  /\ i \in unlinking
  /\ unlinking' = unlinking \ {i}
  /\ files' = files \ {i}
  /\ UNCHANGED <<queue, step, work, adding, saved, shown, online, server, faults, history>>

\* App resume, the refresh button, "send again": drain() of the queue in front.
Trigger(s) ==
  /\ s = shown
  /\ step[s] = "rest" /\ queue[s] # <<>>
  /\ BeginDrain(s, queue[s])
  /\ UNCHANGED <<adding, files, unlinking, shown, online, server, faults, history>>

-----------------------------------------------------------------------------
\* drain()

\* The request fails: the entry stays first and waits for the next trigger.
Fail(s) ==
  /\ Store(s, Mark(queue[s], work[s], FALSE))
  /\ Rest(s)

\* uploadPhoto opens the file and connects.
Send(s) ==
  /\ step[s] = "send"
  /\ IF work[s] \in files /\ online
       THEN /\ step' = [step EXCEPT ![s] = "sent"]
            /\ UNCHANGED <<queue, work, saved>>
       ELSE Fail(s)
  /\ UNCHANGED <<adding, files, unlinking, shown, online, server, faults, history>>

\* The server has stored the photo, or has it already (409 with its id).
Accept(s) ==
  /\ step[s] = "sent"
  /\ delivered' = delivered \cup {work[s]}
  /\ step' = [step EXCEPT ![s] = "answered"]
  /\ UNCHANGED <<queue, work, adding, saved, files, unlinking, shown, online, late, faults, history>>

\* The server stores what it had in full when the network failed, the app was ended
\* or the drain had waited long enough; the user may have removed the entry by now.
AcceptLate(i) ==
  /\ i \in late
  /\ late' = late \ {i}
  /\ delivered' = delivered \cup {i}
  /\ UNCHANGED <<phone, shown, online, faults, history>>

\* An answer of 4xx or 5xx.
Refuse(s) ==
  /\ step[s] = "sent"
  /\ Fault
  /\ Fail(s)
  /\ UNCHANGED <<adding, files, unlinking, shown, online, server, history>>

\* An answer of 401 ends the session: the screen in front goes, whichever queue
\* object sent the request.
Unauthorized(s) ==
  /\ step[s] = "sent"
  /\ Fault
  /\ shown' = NoScreen
  /\ Store(s, Mark(queue[s], work[s], FALSE))
  /\ step' = [t \in Screens |-> IF t = s \/ (t = shown /\ step[t] = "rest")
                                  THEN "gone" ELSE step[t]]
  /\ work' = [work EXCEPT ![s] = NoItem]
  /\ UNCHANGED <<adding, files, unlinking, online, server, history>>

\* Mutant of Timeout: requests are sent without a timeout.
TimeoutOfServer(s) ==
  /\ step[s] = "sent"
  /\ Fault
  /\ Fail(s)
  /\ UNCHANGED <<adding, files, unlinking, shown, online, server, history>>

\* 90 seconds without an answer: the network failed, or the server is slow.  The
\* drain waits no longer, but the request is not aborted.
Timeout(s) ==
  /\ \/ step[s] = "lost" /\ UNCHANGED <<late, faults>>
     \/ step[s] = "sent" /\ late' = late \cup {work[s]} /\ Fault
  /\ Fail(s)
  /\ UNCHANGED <<adding, files, unlinking, shown, online, delivered, history>>

\* Mutant of Confirm: the file goes first, the entry when the screen is left.
ConfirmFileFirst(s) ==
  /\ step[s] = "answered"
  /\ files' = files \ {work[s]}
  /\ step' = [step EXCEPT ![s] = "unlink"]
  /\ UNCHANGED <<queue, work, adding, saved, unlinking, shown, online, server, faults, history>>

\* The answer arrives: remove(working.id), first the entry, then the file.
Confirm(s) ==
  /\ step[s] = "answered"
  /\ Store(s, Without(queue[s], work[s]))
  /\ step' = [step EXCEPT ![s] = "unlink"]
  /\ UNCHANGED <<work, adding, files, unlinking, shown, online, server, faults, history>>

\* The loop goes on with the list as it is by now.
Unlink(s) ==
  /\ step[s] = "unlink"
  /\ files' = files \ {work[s]}
  /\ IF queue[s] = <<>>
       THEN Rest(s) /\ UNCHANGED <<queue, saved>>
       ELSE BeginDrain(s, queue[s])
  /\ UNCHANGED <<adding, unlinking, shown, online, server, faults, history>>

-----------------------------------------------------------------------------
\* The network

\* Requests in flight get no answer any more.
NetDown ==
  /\ online /\ online' = FALSE
  /\ Fault
  /\ step' = [s \in Screens |-> IF step[s] \in {"sent", "answered"} THEN "lost" ELSE step[s]]
  /\ late' = late \cup OnTheWay
  /\ UNCHANGED <<queue, work, adding, saved, files, unlinking, shown, delivered, history>>

\* onConnectivityChanged: drain() of the queue in front, if none is running.
NetUp ==
  /\ ~online /\ online' = TRUE
  /\ IF shown # NoScreen /\ step[shown] = "rest" /\ queue[shown] # <<>>
       THEN BeginDrain(shown, queue[shown])
       ELSE UNCHANGED <<queue, step, work, saved>>
  /\ UNCHANGED <<adding, files, unlinking, shown, server, faults, history>>

QueueNext ==
  \/ \E s \in Screens :
       \/ OpenScreen(s) \/ EnqueueAdd(s) \/ Trigger(s)
       \/ \E i \in Items : EnqueueCopy(s, i) \/ RemoveEntry(s, i)
       \/ Send(s) \/ Accept(s) \/ Refuse(s) \/ Unauthorized(s) \/ Timeout(s)
       \/ Confirm(s) \/ Unlink(s)
  \/ \E i \in Items : RemoveFile(i) \/ AcceptLate(i)
  \/ Logout \/ Kill \/ NetDown \/ NetUp

QueueSpec == QueueInit /\ [][QueueNext]_queueVars

\* A drain goes on while the app lives, a request is answered or times out, and
\* the network comes back; the user need not do anything.
QueueFairSpec ==
  /\ QueueSpec
  /\ \A s \in Screens : WF_queueVars(Send(s) \/ Accept(s) \/ Timeout(s) \/ Confirm(s) \/ Unlink(s))
  /\ WF_queueVars(NetUp)

-----------------------------------------------------------------------------
\* Properties

Kept(i) == i \in Ids(saved) /\ i \in files

\* No saved entry is without its file: such an entry could never be sent, and
\* being first it would keep all others from being sent.
NoDeadEntry == overlapped \/ Ids(saved) \subseteq files

\* A photo the user was told is queued is on the phone, entry and file, until the
\* server has it or the user removes it, and no entry has lost its file: through
\* kills, lost answers, refusals and expired sessions, unless two queue objects
\* were at work at once.
NothingLost ==
  /\ NoDeadEntry
  /\ overlapped \/ \A i \in captured : Kept(i) \/ i \in delivered \cup discarded

\* The queue as its user sees it.
Box == INSTANCE Outbox WITH
  waiting <- Ids(saved), underway <- late \cup OnTheWay, stored <- delivered,
  removed <- discarded, mixed <- overlapped

\* Nothing leaves the queue but what the server has or the user removes, nothing
\* comes back, and the server is given nothing that was not queued when it was sent:
\* unless two queue objects were at work at once.
OutboxSpec == Box!Spec

\* A drain that runs ends, so that later triggers are not ignored for ever.
DrainEnds ==
  \A s \in Screens : step[s] \notin {"gone", "rest"} ~> step[s] \in {"gone", "rest"}

\* mobile/README.md: the queue drains when the network is back.
DrainsWhenNetworkIsBack ==
  (~online /\ saved # <<>>) ~> (saved = <<>> \/ shown = NoScreen)
=============================================================================
